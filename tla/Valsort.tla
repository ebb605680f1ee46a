------------------------------ MODULE Valsort ------------------------------
(***************************************************************************)
(* valsort, with which the tests judge every sort: a summary of a sequence *)
(* of records, and the sum of the summaries of consecutive sequences, in   *)
(* which a part of the file can be judged by a thread or a run of its own. *)
(*                                                                         *)
(* A record is its key.  The counters have 128 bits and do not overflow.   *)
(***************************************************************************)
EXTENDS Integers, Sequences

CONSTANT Crc   \* crc32 of a record: a function of keys, whatever it is

(* summarize_records, the first record. *)
FirstRecord(r) ==
  [first_unordered |-> 0, unordered_count |-> 0, rec_count |-> 1, dup_count |-> 0,
   checksum |-> Crc[r], first_rec |-> r, last_rec |-> r]

(* A record or a summary that begins with r comes after s. *)
Same(s, r)      == IF r = s.last_rec THEN 1 ELSE 0
Unordered(s, r) == IF r < s.last_rec THEN 1 ELSE 0

(* The index of the first unordered record, if r is it: indices from 0. *)
FirstUnordered(s, r) == IF s.first_unordered = 0 /\ Unordered(s, r) = 1 THEN s.rec_count
                        ELSE s.first_unordered

(* ... and every other record. *)
NextRecord(s, r) ==
  [s EXCEPT !.first_unordered = FirstUnordered(s, r),
            !.unordered_count = @ + Unordered(s, r),
            !.rec_count       = @ + 1,
            !.dup_count       = @ + Same(s, r),
            !.checksum        = @ + Crc[r],
            !.last_rec        = r]

(* The summary after every record. *)
SummaryAfter(recs) ==
  LET sum[n \in 1 .. Len(recs)] ==
        IF n = 1 THEN FirstRecord(recs[1]) ELSE NextRecord(sum[n - 1], recs[n])
  IN  sum

Summarize(recs) == SummaryAfter(recs)[Len(recs)]

(* Fault: the index is taken from the summary as it is. *)
WithinPart(s, l) == l.first_unordered

(* An index into the later sequence, as one into both. *)
WithinBoth(s, l) == s.rec_count + l.first_unordered

(* sum_summaries: the summary l of what comes after s. *)
NextSummary(s, l) ==
  [s EXCEPT !.first_unordered =
              IF FirstUnordered(s, l.first_rec) = 0 /\ l.first_unordered # 0 THEN WithinBoth(s, l)
              ELSE FirstUnordered(s, l.first_rec),
            !.unordered_count = @ + Unordered(s, l.first_rec) + l.unordered_count,
            !.rec_count       = @ + l.rec_count,
            !.dup_count       = @ + Same(s, l.first_rec) + l.dup_count,
            !.checksum        = @ + l.checksum,
            !.last_rec        = l.last_rec]

(* The sum after every summary. *)
SumAfter(sums) ==
  LET sum[n \in 1 .. Len(sums)] ==
        IF n = 1 THEN sums[1] ELSE NextSummary(sum[n - 1], sums[n])
  IN  sum

SumSummaries(sums) == SumAfter(sums)[Len(sums)]

(* valsort built with SUMP_PUMP: threads summarize blocks of n records.    *)
ByBlocks(recs, n) ==
  LET blocks == (Len(recs) + n - 1) \div n
      last(b) == IF b = blocks THEN Len(recs) ELSE b * n
  IN  SumSummaries([b \in 1 .. blocks |-> Summarize(SubSeq(recs, (b - 1) * n + 1, last(b)))])
=============================================================================
