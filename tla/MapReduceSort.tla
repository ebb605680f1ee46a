--------------------------- MODULE MapReduceSort ---------------------------
(***************************************************************************)
(* The sorts of hw6 on Hadoop and Spark, and the script that judges their  *)
(* output.  Map tasks cut lines into a key and a row, the framework brings *)
(* rows to partitions by their keys and sorts them there, reduce tasks     *)
(* write them; parts that are committed are validated one after the other, *)
(* and their summaries together.                                           *)
(*                                                                         *)
(* The framework is modelled from what the programs use of it: tasks that  *)
(* fail are run again from the start and what they had done is dropped; a  *)
(* job is committed when every task is done.  SparkSort's sortByKey splits *)
(* the keys into ranges, HadoopSort takes the default: one reducer, or, if *)
(* the cluster is configured for several, parts by the hash of the key.    *)
(***************************************************************************)
EXTENDS Records, Valsort, FiniteSets

CONSTANTS NumRecs,     \* records in the input, one to a line
          Key,         \* the keys, a set of integers
          NumParts,    \* partitions of the output
          SplitSize,   \* lines of a map task
          BlockSize,   \* records of a block of valsort
          MaxFailures  \* bound on the tasks and the downloads that fail

ASSUME JobAssumption == /\ {NumRecs, NumParts, SplitSize, BlockSize} \subseteq Nat \ {0}
                        /\ MaxFailures \in Nat /\ Key \subseteq Int
                        /\ Crc \in [Key -> Nat]

Rec  == 1 .. NumRecs
Part == 1 .. NumParts

Split(r) == (r - 1) \div SplitSize

VARIABLES
  input,     \* the file that gensort made
  place,     \* the partitioner: the part of every key
  mapped,    \* the lines that map tasks have emitted
  part,      \* what the reduce tasks have written
  status,    \* of the test
  next,      \* the part to be validated next
  fetched,   \* the records that valsort has been given (history)
  sums,      \* vs_sum.sum: the summaries of the parts so far
  summary,   \* what valsort -s comes to
  failures

vars == <<input, place, mapped, part, status, next, fetched, sums, summary, failures>>

None == << >>

Init == /\ input \in [Rec -> Key]
        /\ place \in [Key -> Part]
        /\ mapped = {}
        /\ part = [p \in Part |-> << >>]
        /\ status = "generated"
        /\ next = 1
        /\ fetched = << >>
        /\ sums = << >>
        /\ summary = None
        /\ failures = 0

NotJudged == UNCHANGED <<next, fetched, sums, summary>>

-----------------------------------------------------------------------------
(* The tests of the other sorts have valsort read the file as it is.       *)
ValidateInput ==
  /\ status = "generated"
  /\ status' = "checked"
  /\ fetched' = input
  /\ summary' = ByBlocks(input, BlockSize)
  /\ UNCHANGED <<input, place, mapped, part, next, sums, failures>>

StartJob ==
  /\ status = "generated"
  /\ status' = "running"
  /\ UNCHANGED <<input, place, mapped, part, failures>> /\ NotJudged

(* map(): the lines of a split, in order. *)
MapLine(r) ==
  /\ status = "running"
  /\ r \notin mapped
  /\ \A x \in Rec : Split(x) = Split(r) /\ x < r => x \in mapped
  /\ mapped' = mapped \cup {r}
  /\ UNCHANGED <<input, place, part, status, failures>> /\ NotJudged

Values(k) == { r \in mapped : input[r] = k }

(* The keys of part p that reduce() has not been called with. *)
KeysLeft(p) == { k \in Key : /\ place[k] = p /\ Values(k) # {}
                             /\ \A i \in DOMAIN part[p] : part[p][i] < k }

(* Fault: a key is written once. *)
OneRow(k) == <<k>>

AllRows(k) == [i \in 1 .. Cardinality(Values(k)) |-> k]

(* reduce(): all rows of the next key, once every map task is done. *)
ReduceKey(p) ==
  /\ status = "running"
  /\ mapped = Rec
  /\ \E k \in KeysLeft(p) : /\ \A l \in KeysLeft(p) : k <= l
                            /\ part' = [part EXCEPT ![p] = @ \o AllRows(k)]
  /\ UNCHANGED <<input, place, mapped, status, failures>> /\ NotJudged

(* A map task is lost, also after it is done, or a reduce task. *)
TaskFails ==
  /\ status = "running"
  /\ failures < MaxFailures
  /\ failures' = failures + 1
  /\ \/ \E t \in { Split(r) : r \in mapped } :
          mapped' = { r \in mapped : Split(r) # t } /\ UNCHANGED part
     \/ \E p \in Part : part' = [part EXCEPT ![p] = << >>] /\ UNCHANGED mapped
  /\ UNCHANGED <<input, place, status>> /\ NotJudged

CommitJob ==
  /\ status = "running"
  /\ mapped = Rec
  /\ \A p \in Part : KeysLeft(p) = {}
  /\ status' = "committed"
  /\ UNCHANGED <<input, place, mapped, part, failures>> /\ NotJudged

-----------------------------------------------------------------------------
(* Fault: the loop stays at its part. *)
SamePart == next

NextPart == next + 1

(* HadoopValSort2, for one part: whatever comes through the pipe is        *)
(* summarized; with no record, or a piece of one at the end, valsort gives *)
(* up and there is no summary to append.  No exit status is looked at.     *)
ValidatePart ==
  /\ status = "committed"
  /\ next \in Part
  /\ \E n \in 0 .. Len(part[next]) :
       LET got == SubSeq(part[next], 1, n)
           cut == n < Len(part[next])
       IN  /\ cut => failures < MaxFailures
           /\ failures' = IF cut THEN failures + 1 ELSE failures
           /\ fetched' = fetched \o got
           /\ sums' = IF n = 0 THEN sums ELSE Append(sums, ByBlocks(got, BlockSize))
  /\ next' = NextPart
  /\ UNCHANGED <<input, place, mapped, part, status, summary>>

(* valsort -s *)
ValidateSums ==
  /\ status = "committed"
  /\ next > NumParts
  /\ summary' = IF sums = << >> THEN None ELSE SumSummaries(sums)
  /\ status' = "checked"
  /\ UNCHANGED <<input, place, mapped, part, next, fetched, sums, failures>>

Checked == status = "checked" /\ UNCHANGED vars

Next == \/ ValidateInput \/ StartJob \/ TaskFails \/ CommitJob
        \/ ValidatePart \/ ValidateSums \/ Checked
        \/ \E r \in Rec : MapLine(r)
        \/ \E p \in Part : ReduceKey(p)

Spec == Init /\ [][Next]_vars

-----------------------------------------------------------------------------
(***************************************************************************)
(* Properties                                                              *)
(***************************************************************************)
Seqs == INSTANCE SequencesExt

Output == Seqs!FlattenSeq(part)

(* SparkSort's partitions, or one reducer: the parts are ranges of keys. *)
Ranged == \A j, k \in Key : j < k => place[j] <= place[k]

SeqOfKeys(s) == Len(s) <= NumRecs /\ \A i \in DOMAIN s : s[i] \in Key

TypeOK == /\ input \in [Rec -> Key]
          /\ place \in [Key -> Part]
          /\ mapped \subseteq Rec
          /\ DOMAIN part = Part /\ \A p \in Part : SeqOfKeys(part[p])
          /\ status \in {"generated", "running", "committed", "checked"}
          /\ next \in 1 .. NumParts + 1
          /\ SeqOfKeys(fetched)
          /\ Len(sums) < next
          /\ summary # None => summary.rec_count \in Rec
          /\ failures \in 0 .. MaxFailures

Count(s, k) == Cardinality({ i \in DOMAIN s : s[i] = k })

(* A job that is committed has written every row as often as it was in the *)
(* input, whichever tasks were run again when, and each part in order;     *)
(* with ranges for partitions the parts one after the other are in order   *)
(* (HadoopSort.java:21-41, SparkSort.java:37-43).                          *)
JobSorts ==
  status = "committed" =>
    /\ \A k \in Key : Count(Output, k) = Count(input, k)
    /\ \A p \in Part : IsSorted(part[p], 1, Len(part[p]))
    /\ Ranged => IsSorted(Output, 1, Len(Output))

(* The sum of the summaries is the summary of all the records that were    *)
(* read, one after another: cutting the output into parts and the parts    *)
(* into blocks changes neither the counts, nor the checksum, nor the place *)
(* of the first unordered record.  It says success for nothing else than   *)
(* records in order; and if it counts as many records as were generated,   *)
(* every row of the input has been judged: nothing that arrived cut short, *)
(* or not at all, hides behind it (valsort.c:110-175, 209-273,             *)
(* hw6/scripts/test.sh:42-56).                                             *)
SummaryExact ==
  status = "checked" =>
    IF fetched = << >> THEN summary = None
    ELSE /\ summary = Summarize(fetched)
         /\ summary.unordered_count = 0 <=> IsSorted(fetched, 1, Len(fetched))
         /\ summary.rec_count = NumRecs =>
              \A k \in Key : Count(fetched, k) = Count(input, k)
=============================================================================
