------------------------ MODULE MapReduceSort_proofs ------------------------
(***************************************************************************)
(* The MapReduce sorts and their validation, for every number of records,  *)
(* keys, parts, splits, blocks and failures.                               *)
(***************************************************************************)
EXTENDS MapReduceSort, FiniteSetTheorems, FunctionTheorems, SequenceTheorems,
        WellFoundedInduction, TLAPS

(* What valsort can come to. *)
Summary == [first_unordered : Nat, unordered_count : Nat, rec_count : Nat \ {0},
            dup_count : Nat, checksum : Nat, first_rec : Key, last_rec : Key]

Total(k) == Cardinality({ r \in Rec : input[r] = k })

(* A part is sorted and holds keys that the partitioner puts there.  A key *)
(* that it has, it has completely, and so with the keys before it: a part  *)
(* is always a whole number of calls of reduce(), in the order of the keys.*)
WholeKeys(p) ==
  /\ part[p] \in Seq(Key)
  /\ IsSorted(part[p], 1, Len(part[p]))
  /\ \A i \in DOMAIN part[p] : /\ place[part[p][i]] = p
                              /\ Count(part[p], part[p][i]) = Total(part[p][i])
  /\ \A i \in DOMAIN part[p], k \in Key :
       place[k] = p /\ k <= part[p][i] /\ Total(k) # 0 => \E j \in DOMAIN part[p] : part[p][j] = k

(* valsort never gets a record more often than it is in the input: nothing *)
(* of the parts that are yet to be validated.                              *)
NotTwice == /\ \A k \in Key : Count(fetched, k) <= Total(k)
            /\ status = "committed" => \A k \in Key : place[k] >= next => Count(fetched, k) = 0

(* The sum so far is that of the records so far. *)
SumSoFar == /\ status \in {"generated", "running"} => next = 1 /\ fetched = << >> /\ sums = << >>
            /\ status # "checked" => summary = None
            /\ status = "committed" =>
                 IF fetched = << >> THEN sums = << >>
                 ELSE sums # << >> /\ SumSummaries(sums) = Summarize(fetched)
            /\ status = "checked" =>
                 summary = IF fetched = << >> THEN None ELSE Summarize(fetched)

Typed == /\ input \in [Rec -> Key]
         /\ place \in [Key -> Part]
         /\ mapped \in SUBSET Rec
         /\ part \in [Part -> Seq(Key)]
         /\ status \in {"generated", "running", "committed", "checked"}
         /\ next \in 1 .. NumParts + 1
         /\ fetched \in Seq(Key)
         /\ sums \in Seq(Summary) /\ Len(sums) < next
         /\ failures \in 0 .. MaxFailures

JobInv == /\ Typed
          /\ \A p \in Part : WholeKeys(p)
          /\ status = "committed" => mapped = Rec /\ \A p \in Part : KeysLeft(p) = {}
          /\ NotTwice
          /\ SumSoFar

-----------------------------------------------------------------------------
(***************************************************************************)
(* One record more                                                         *)
(***************************************************************************)
LEMMA FirstIsSummary == ASSUME NEW r \in Key PROVE FirstRecord(r) \in Summary
BY JobAssumption DEF FirstRecord, Summary

LEMMA Parts ==
  ASSUME NEW s \in Summary, NEW r \in Key
  PROVE  /\ s.first_unordered \in Nat /\ s.unordered_count \in Nat
         /\ s.rec_count \in Nat \ {0} /\ s.dup_count \in Nat /\ s.checksum \in Nat
         /\ s.first_rec \in Key /\ s.last_rec \in Key
         /\ Same(s, r) \in {0, 1} /\ Unordered(s, r) \in {0, 1} /\ FirstUnordered(s, r) \in Nat
         /\ Crc[r] \in Nat
<1>1. /\ s.first_unordered \in Nat /\ s.unordered_count \in Nat
      /\ s.rec_count \in Nat \ {0} /\ s.dup_count \in Nat /\ s.checksum \in Nat
      /\ s.first_rec \in Key /\ s.last_rec \in Key
  BY DEF Summary
<1>2. Same(s, r) \in {0, 1} /\ Unordered(s, r) \in {0, 1}
  BY DEF Same, Unordered
<1>3. FirstUnordered(s, r) \in Nat
  BY <1>1 DEF FirstUnordered
<1> QED BY <1>1, <1>2, <1>3, JobAssumption

LEMMA NextIsSummary ==
  ASSUME NEW s \in Summary, NEW r \in Key
  PROVE  NextRecord(s, r) \in Summary
<1> DEFINE fu == FirstUnordered(s, r)
           uc == s.unordered_count + Unordered(s, r)
           rc == s.rec_count + 1
           dc == s.dup_count + Same(s, r)
           cs == s.checksum + Crc[r]
<1>1. fu \in Nat /\ uc \in Nat /\ rc \in Nat \ {0} /\ dc \in Nat /\ cs \in Nat
  BY Parts
<1>2. NextRecord(s, r) = [s EXCEPT !.first_unordered = fu, !.unordered_count = uc, !.rec_count = rc,
                                   !.dup_count = dc, !.checksum = cs, !.last_rec = r]
  BY DEF NextRecord
<1> HIDE DEF fu, uc, rc, dc, cs
<1> QED BY <1>1, <1>2 DEF Summary

LEMMA SumIsSummary ==
  ASSUME NEW s \in Summary, NEW l \in Summary
  PROVE  NextSummary(s, l) \in Summary
<1> DEFINE r == l.first_rec
           fu == IF FirstUnordered(s, r) = 0 /\ l.first_unordered # 0
                 THEN WithinBoth(s, l) ELSE FirstUnordered(s, r)
           uc == s.unordered_count + Unordered(s, r) + l.unordered_count
           rc == s.rec_count + l.rec_count
           dc == s.dup_count + Same(s, r) + l.dup_count
           cs == s.checksum + l.checksum
<1>1. r \in Key /\ l.last_rec \in Key
  BY DEF Summary
<1>2. fu \in Nat /\ uc \in Nat /\ rc \in Nat \ {0} /\ dc \in Nat /\ cs \in Nat
  BY <1>1, Parts DEF WithinBoth
<1>3. NextSummary(s, l) = [s EXCEPT !.first_unordered = fu, !.unordered_count = uc, !.rec_count = rc,
                                    !.dup_count = dc, !.checksum = cs, !.last_rec = l.last_rec]
  BY DEF NextSummary
<1> HIDE DEF fu, uc, rc, dc, cs
<1> QED BY <1>1, <1>2, <1>3 DEF Summary

LEMMA EqualSummaries ==
  ASSUME NEW s \in Summary, NEW l \in Summary,
         s.first_unordered = l.first_unordered, s.unordered_count = l.unordered_count,
         s.rec_count = l.rec_count, s.dup_count = l.dup_count, s.checksum = l.checksum,
         s.first_rec = l.first_rec, s.last_rec = l.last_rec
  PROVE  s = l
BY DEF Summary

(* A summary of one record adds what the record itself would. *)
LEMMA OneRecordMore ==
  ASSUME NEW s \in Summary, NEW r \in Key
  PROVE  NextSummary(s, FirstRecord(r)) = NextRecord(s, r)
<1> DEFINE a == NextSummary(s, FirstRecord(r))
           b == NextRecord(s, r)
<1>1. a \in Summary /\ b \in Summary
  BY FirstIsSummary, NextIsSummary, SumIsSummary
<1>2. /\ a.first_unordered = b.first_unordered /\ a.unordered_count = b.unordered_count
      /\ a.rec_count = b.rec_count /\ a.dup_count = b.dup_count /\ a.checksum = b.checksum
      /\ a.first_rec = b.first_rec /\ a.last_rec = b.last_rec
  BY JobAssumption DEF NextSummary, NextRecord, FirstRecord, WithinBoth, FirstUnordered,
                       Unordered, Same, Summary
<1> HIDE DEF a, b
<1> QED BY <1>1, <1>2, EqualSummaries DEF a, b

(* A record after two parts belongs to the second one. *)
LEMMA LaterRecord ==
  ASSUME NEW s \in Summary, NEW l \in Summary, NEW r \in Key
  PROVE  NextRecord(NextSummary(s, l), r) = NextSummary(s, NextRecord(l, r))
<1> DEFINE a == NextRecord(NextSummary(s, l), r)
           b == NextSummary(s, NextRecord(l, r))
<1>1. a \in Summary /\ b \in Summary
  BY NextIsSummary, SumIsSummary
<1>2. a.first_unordered = b.first_unordered
  BY DEF NextSummary, NextRecord, WithinBoth, FirstUnordered, Unordered, Same, Summary
<1>3. a.unordered_count = b.unordered_count /\ a.rec_count = b.rec_count
  BY DEF NextSummary, NextRecord, Unordered, Summary
<1>4. a.dup_count = b.dup_count
  BY DEF NextSummary, NextRecord, Same, Summary
<1>5. a.checksum = b.checksum
  <2>1. a.checksum = (s.checksum + l.checksum) + Crc[r] /\ b.checksum = s.checksum + (l.checksum + Crc[r])
    BY DEF NextSummary, NextRecord, Summary
  <2> QED BY <2>1, Parts
<1>6. a.first_rec = b.first_rec /\ a.last_rec = b.last_rec
  BY DEF NextSummary, NextRecord, Summary
<1> HIDE DEF a, b
<1> QED BY <1>1, <1>2, <1>3, <1>4, <1>5, <1>6, EqualSummaries DEF a, b

-----------------------------------------------------------------------------
(***************************************************************************)
(* Definitions that go from one index to the next                          *)
(***************************************************************************)
(* What holds of 1, and of the next number with every number, holds up to L*)
LEMMA OneAfterAnother ==
  ASSUME NEW L \in Nat, NEW S,
         L # 0 => 1 \in S,
         \A n \in 1 .. L - 1 : n \in S => n + 1 \in S
  PROVE  \A n \in 1 .. L : n \in S
<1> DEFINE Bad == { n \in 1 .. L : n \notin S }
           R == { ss \in Nat \X Nat : ss[1] < ss[2] }
<1> SUFFICES ASSUME Bad # {} PROVE FALSE
  OBVIOUS
<1>1. IsWellFoundedOn(R, Nat)
  BY NatLessThanWellFounded DEF OpToRel
<1>2. PICK n \in Bad : \A m \in Bad : ~ (<<m, n>> \in R)
  <2>1. Bad \in SUBSET Nat
    OBVIOUS
  <2> HIDE DEF Bad, R
  <2> QED BY <1>1, <2>1, WFMin
<1>3. n \in 1 .. L /\ n \notin S
  OBVIOUS
<1>4. n - 1 \in 1 .. L - 1
  BY <1>3
<1>5. n - 1 \notin Bad
  <2>1. <<n - 1, n>> \in R
    BY <1>3, <1>4
  <2> HIDE DEF Bad, R
  <2> QED BY <1>2, <2>1
<1>6. n - 1 \in S
  BY <1>4, <1>5
<1> QED BY <1>3, <1>4, <1>6

(* g begins with a and goes on by F. *)
Follows(g, k, a, F) == \A n \in 1 .. k : g[n] = IF n = 1 THEN a ELSE F[n][g[n - 1]]

(* There is a function for every way to go from one value to the next. *)
LEMMA Recursion ==
  ASSUME NEW L \in Nat, NEW T, NEW a \in T, NEW F \in [1 .. L -> [T -> T]]
  PROVE  \E g \in [1 .. L -> T] : Follows(g, L, a, F)
<1> USE DEF Follows
<1> DEFINE Upto(g, k) == Follows(g, k, a, F)
           S == { k \in 1 .. L : \E g \in [1 .. k -> T] : Upto(g, k) }
<1>1. L # 0 => 1 \in S
  <2> SUFFICES ASSUME L # 0 PROVE \E g \in [1 .. 1 -> T] : Upto(g, 1)
    OBVIOUS
  <2> DEFINE g == [n \in 1 .. 1 |-> a]
  <2>1. g \in [1 .. 1 -> T] /\ Upto(g, 1)
    OBVIOUS
  <2> QED BY <2>1
<1>2. ASSUME NEW k \in 1 .. L - 1, k \in S PROVE k + 1 \in S
  <2>1. PICK g \in [1 .. k -> T] : Upto(g, k)
    BY <1>2
  <2> DEFINE h == [n \in 1 .. k + 1 |-> IF n = k + 1 THEN F[k + 1][g[k]] ELSE g[n]]
  <2>2. F[k + 1][g[k]] \in T
    OBVIOUS
  <2>3. h \in [1 .. k + 1 -> T]
    BY <2>2
  <2>4. ASSUME NEW n \in 1 .. k + 1 PROVE h[n] = IF n = 1 THEN a ELSE F[n][h[n - 1]]
    <3>1. CASE n = k + 1
      <4>1. n # 1 /\ n - 1 = k /\ k \in 1 .. k + 1 /\ k # k + 1
        BY <3>1
      <4> QED BY <3>1, <4>1
    <3>2. CASE n # k + 1
      <4>1. n \in 1 .. k /\ h[n] = g[n]
        BY <3>2
      <4>2. n # 1 => n - 1 \in 1 .. k + 1 /\ n - 1 # k + 1
        BY <3>2
      <4>3. n # 1 => h[n - 1] = g[n - 1]
        BY <4>2
      <4> QED BY <2>1, <4>1, <4>3
    <3> QED BY <3>1, <3>2
  <2> HIDE DEF h
  <2>5. Upto(h, k + 1) /\ k + 1 \in 1 .. L
    BY <2>4
  <2> QED BY <2>3, <2>5
<1>3. L # 0 => L \in S
  <2> HIDE DEF S
  <2>1. \A n \in 1 .. L : n \in S
    BY <1>1, <1>2, OneAfterAnother
  <2> QED BY <2>1
<1>4. CASE L = 0
  <2>1. [n \in 1 .. L |-> a] \in [1 .. L -> T]
    OBVIOUS
  <2>2. 1 .. L = {}
    BY <1>4
  <2> QED BY <2>1, <2>2
<1>5. CASE L # 0
  BY <1>3, <1>5
<1> QED BY <1>4, <1>5

LEMMA AfterRecords ==
  ASSUME NEW recs \in Seq(Key)
  PROVE  \A n \in 1 .. Len(recs) :
           /\ SummaryAfter(recs)[n] \in Summary
           /\ SummaryAfter(recs)[n] = IF n = 1 THEN FirstRecord(recs[1])
                                      ELSE NextRecord(SummaryAfter(recs)[n - 1], recs[n])
<1> DEFINE L == Len(recs)
           sum[n \in 1 .. L] == IF n = 1 THEN FirstRecord(recs[1]) ELSE NextRecord(sum[n - 1], recs[n])
           F == [n \in 1 .. L |-> [s \in Summary |-> NextRecord(s, recs[n])]]
           S == { n \in 1 .. L : sum[n] \in Summary }
<1>1. SummaryAfter(recs) = sum
  BY DEF SummaryAfter
<1>2. L \in Nat /\ \A n \in 1 .. L : recs[n] \in Key
  OBVIOUS
<1> HIDE DEF L
<1>3. CASE L = 0
  BY <1>3 DEF L
<1>4. CASE L # 0
  <2>1. FirstRecord(recs[1]) \in Summary
    BY <1>2, <1>4, FirstIsSummary
  <2>2. F \in [1 .. L -> [Summary -> Summary]]
    BY <1>2, NextIsSummary
  <2>3. PICK g \in [1 .. L -> Summary] :
               \A n \in 1 .. L : g[n] = IF n = 1 THEN FirstRecord(recs[1]) ELSE F[n][g[n - 1]]
    <3> DEFINE a == FirstRecord(recs[1])
    <3>1. a \in Summary
      BY <2>1
    <3> HIDE DEF F, a
    <3>2. \E g \in [1 .. L -> Summary] : Follows(g, L, a, F)
      BY <1>2, <2>2, <3>1, Recursion
    <3> QED BY <3>2 DEF a, Follows
  <2>4. ASSUME NEW n \in 1 .. L
        PROVE  g[n] = IF n = 1 THEN FirstRecord(recs[1]) ELSE NextRecord(g[n - 1], recs[n])
    <3>1. n # 1 => n - 1 \in 1 .. L
      BY <1>2
    <3>2. n # 1 => F[n][g[n - 1]] = NextRecord(g[n - 1], recs[n])
      BY <3>1
    <3> QED BY <2>3, <3>2
  <2>5. g = [n \in 1 .. L |-> IF n = 1 THEN FirstRecord(recs[1]) ELSE NextRecord(g[n - 1], recs[n])]
    BY <2>4
  <2>6. sum = [n \in 1 .. L |-> IF n = 1 THEN FirstRecord(recs[1]) ELSE NextRecord(sum[n - 1], recs[n])]
    BY <2>5 DEF sum
  <2> HIDE DEF sum, F
  <2>7. 1 \in S
    BY <1>2, <1>4, <2>1, <2>6
  <2>8. \A n \in 1 .. L - 1 : n \in S => n + 1 \in S
    <3> TAKE n \in 1 .. L - 1
    <3>1. n + 1 \in 1 .. L /\ n + 1 # 1 /\ (n + 1) - 1 = n
      BY <1>2
    <3>2. sum[n + 1] = NextRecord(sum[n], recs[n + 1])
      BY <2>6, <3>1
    <3> QED BY <1>2, <3>1, <3>2, NextIsSummary
  <2>9. \A n \in 1 .. L : n \in S
    <3> HIDE DEF S
    <3> QED BY <1>2, <2>7, <2>8, OneAfterAnother
  <2> QED BY <1>1, <2>6, <2>9 DEF L
<1> QED BY <1>3, <1>4

LEMMA AfterSummaries ==
  ASSUME NEW all \in Seq(Summary)
  PROVE  \A n \in 1 .. Len(all) :
           /\ SumAfter(all)[n] \in Summary
           /\ SumAfter(all)[n] = IF n = 1 THEN all[1] ELSE NextSummary(SumAfter(all)[n - 1], all[n])
<1> DEFINE L == Len(all)
           sum[n \in 1 .. L] == IF n = 1 THEN all[1] ELSE NextSummary(sum[n - 1], all[n])
           F == [n \in 1 .. L |-> [s \in Summary |-> NextSummary(s, all[n])]]
           S == { n \in 1 .. L : sum[n] \in Summary }
<1>1. SumAfter(all) = sum
  BY DEF SumAfter
<1>2. L \in Nat /\ \A n \in 1 .. L : all[n] \in Summary
  OBVIOUS
<1> HIDE DEF L
<1>3. CASE L = 0
  BY <1>3 DEF L
<1>4. CASE L # 0
  <2> DEFINE a == all[1]
  <2>1. a \in Summary
    BY <1>2, <1>4
  <2>2. F \in [1 .. L -> [Summary -> Summary]]
    BY <1>2, SumIsSummary
  <2>3. PICK g \in [1 .. L -> Summary] : Follows(g, L, a, F)
    <3> HIDE DEF F, a
    <3> QED BY <1>2, <2>1, <2>2, Recursion
  <2>4. ASSUME NEW n \in 1 .. L
        PROVE  g[n] = IF n = 1 THEN all[1] ELSE NextSummary(g[n - 1], all[n])
    <3>1. n # 1 => n - 1 \in 1 .. L
      BY <1>2
    <3>2. n # 1 => F[n][g[n - 1]] = NextSummary(g[n - 1], all[n])
      BY <3>1
    <3> QED BY <2>3, <3>2 DEF Follows
  <2>5. g = [n \in 1 .. L |-> IF n = 1 THEN all[1] ELSE NextSummary(g[n - 1], all[n])]
    BY <2>4
  <2>6. sum = [n \in 1 .. L |-> IF n = 1 THEN all[1] ELSE NextSummary(sum[n - 1], all[n])]
    BY <2>5 DEF sum
  <2> HIDE DEF sum, F
  <2>7. 1 \in S
    BY <1>2, <1>4, <2>1, <2>6
  <2>8. \A n \in 1 .. L - 1 : n \in S => n + 1 \in S
    <3> TAKE n \in 1 .. L - 1
    <3>1. n + 1 \in 1 .. L /\ n + 1 # 1 /\ (n + 1) - 1 = n
      BY <1>2
    <3>2. sum[n + 1] = NextSummary(sum[n], all[n + 1])
      BY <2>6, <3>1
    <3> QED BY <1>2, <3>1, <3>2, SumIsSummary
  <2>9. \A n \in 1 .. L : n \in S
    <3> HIDE DEF S
    <3> QED BY <1>2, <2>7, <2>8, OneAfterAnother
  <2> QED BY <1>1, <2>6, <2>9 DEF L
<1> QED BY <1>3, <1>4

-----------------------------------------------------------------------------
(***************************************************************************)
(* Summaries of parts                                                      *)
(***************************************************************************)
(* Records can be summarized in two parts. *)
LEMMA TwoParts ==
  ASSUME NEW a \in Seq(Key), NEW b \in Seq(Key), a # << >>, b # << >>
  PROVE  /\ Summarize(a) \in Summary
         /\ Summarize(a \o b) = NextSummary(Summarize(a), Summarize(b))
<1> DEFINE c  == a \o b
           A  == SummaryAfter(a)
           B  == SummaryAfter(b)
           C  == SummaryAfter(c)
           la == Len(a)
           lb == Len(b)
           S  == { i \in 1 .. la : C[i] = A[i] }
           T  == { j \in 1 .. lb : C[la + j] = NextSummary(A[la], B[j]) }
<1>1. /\ c \in Seq(Key) /\ Len(c) = la + lb /\ la \in Nat \ {0} /\ lb \in Nat \ {0}
      /\ \A i \in 1 .. la : c[i] = a[i] /\ a[i] \in Key
      /\ \A j \in 1 .. lb : c[la + j] = b[j] /\ b[j] \in Key
  OBVIOUS
<1>2. /\ \A n \in 1 .. la : /\ A[n] \in Summary
                            /\ A[n] = IF n = 1 THEN FirstRecord(a[1]) ELSE NextRecord(A[n - 1], a[n])
      /\ \A n \in 1 .. lb : /\ B[n] \in Summary
                            /\ B[n] = IF n = 1 THEN FirstRecord(b[1]) ELSE NextRecord(B[n - 1], b[n])
      /\ \A n \in 1 .. la + lb : C[n] = IF n = 1 THEN FirstRecord(c[1]) ELSE NextRecord(C[n - 1], c[n])
  <2> HIDE DEF c
  <2> QED BY <1>1, AfterRecords
<1> HIDE DEF A, B, C, c, la, lb
<1>3. \A i \in 1 .. la : C[i] = A[i]
  <2>1. 1 \in S
    BY <1>1, <1>2
  <2>2. ASSUME NEW i \in 1 .. la - 1, i \in S PROVE i + 1 \in S
    <3>1. i + 1 \in 1 .. la /\ i + 1 \in 1 .. la + lb /\ i + 1 # 1 /\ (i + 1) - 1 = i
      BY <1>1
    <3>2. C[i + 1] = NextRecord(C[i], c[i + 1]) /\ A[i + 1] = NextRecord(A[i], a[i + 1])
      BY <1>2, <3>1
    <3> QED BY <1>1, <2>2, <3>1, <3>2
  <2> HIDE DEF S
  <2>3. \A i \in 1 .. la : i \in S
    BY <1>1, <2>1, <2>2, OneAfterAnother
  <2> QED BY <2>3 DEF S
<1>4. \A j \in 1 .. lb : C[la + j] = NextSummary(A[la], B[j])
  <2>0. la \in 1 .. la /\ A[la] \in Summary /\ C[la] = A[la]
    BY <1>1, <1>2, <1>3
  <2>1. 1 \in T
    <3>1. la + 1 \in 1 .. la + lb /\ la + 1 # 1 /\ (la + 1) - 1 = la /\ 1 \in 1 .. lb
      BY <1>1
    <3>2. C[la + 1] = NextRecord(A[la], b[1]) /\ B[1] = FirstRecord(b[1])
      BY <1>1, <1>2, <2>0, <3>1
    <3> QED BY <1>1, <2>0, <3>1, <3>2, OneRecordMore
  <2>2. ASSUME NEW j \in 1 .. lb - 1, j \in T PROVE j + 1 \in T
    <3>1. /\ j \in 1 .. lb /\ j + 1 \in 1 .. lb /\ j + 1 # 1 /\ (j + 1) - 1 = j
          /\ la + (j + 1) \in 1 .. la + lb /\ la + (j + 1) # 1 /\ (la + (j + 1)) - 1 = la + j
      BY <1>1
    <3>2. C[la + (j + 1)] = NextRecord(C[la + j], b[j + 1]) /\ B[j + 1] = NextRecord(B[j], b[j + 1])
      <4>1. c[la + (j + 1)] = b[j + 1]
        BY <1>1, <3>1
      <4>2. C[la + (j + 1)] = NextRecord(C[(la + (j + 1)) - 1], c[la + (j + 1)])
        BY <1>2, <3>1
      <4>3. B[j + 1] = NextRecord(B[(j + 1) - 1], b[j + 1])
        BY <1>2, <3>1
      <4> QED BY <3>1, <4>1, <4>2, <4>3
    <3>3. C[la + j] = NextSummary(A[la], B[j])
      BY <2>2
    <3> QED BY <1>1, <1>2, <2>0, <3>1, <3>2, <3>3, LaterRecord
  <2> HIDE DEF T
  <2>3. \A j \in 1 .. lb : j \in T
    BY <1>1, <2>1, <2>2, OneAfterAnother
  <2> QED BY <2>3 DEF T
<1>5. la \in 1 .. la /\ lb \in 1 .. lb
  BY <1>1
<1>6. A[la] \in Summary /\ C[la + lb] = NextSummary(A[la], B[lb])
  BY <1>2, <1>4, <1>5
<1> QED BY <1>1, <1>6 DEF Summarize, A, B, C, c, la, lb

(* The verdict on all records: how many there are, and whether in order. *)
LEMMA Verdict ==
  ASSUME NEW recs \in Seq(Key), recs # << >>
  PROVE  /\ Summarize(recs) \in Summary
         /\ Summarize(recs).rec_count = Len(recs)
         /\ Summarize(recs).unordered_count = 0 <=> IsSorted(recs, 1, Len(recs))
<1> DEFINE A == SummaryAfter(recs)
           L == Len(recs)
           S == { n \in 1 .. L : /\ A[n].rec_count = n /\ A[n].last_rec = recs[n]
                                 /\ A[n].unordered_count = 0 <=> IsSorted(recs, 1, n) }
<1>1. L \in Nat \ {0} /\ \A n \in 1 .. L : recs[n] \in Key /\ recs[n] \in Int
  <2>1. L \in Nat \ {0} /\ \A n \in 1 .. L : recs[n] \in Key
    OBVIOUS
  <2> QED BY <2>1, JobAssumption
<1>2. \A n \in 1 .. L : /\ A[n] \in Summary
                        /\ A[n] = IF n = 1 THEN FirstRecord(recs[1]) ELSE NextRecord(A[n - 1], recs[n])
  BY AfterRecords
<1> HIDE DEF A, L
<1>3. 1 \in S
  <2>1. A[1] = FirstRecord(recs[1]) /\ 1 \in 1 .. L
    BY <1>1, <1>2
  <2>2. A[1].rec_count = 1 /\ A[1].last_rec = recs[1] /\ A[1].unordered_count = 0
    BY <2>1 DEF FirstRecord
  <2>3. IsSorted(recs, 1, 1)
    BY DEF IsSorted
  <2> QED BY <2>1, <2>2, <2>3
<1>4. ASSUME NEW n \in 1 .. L - 1, n \in S PROVE n + 1 \in S
  <2>1. n \in 1 .. L /\ n + 1 \in 1 .. L /\ n + 1 # 1 /\ (n + 1) - 1 = n
    BY <1>1
  <2>2. A[n] \in Summary /\ A[n + 1] = NextRecord(A[n], recs[n + 1])
    BY <1>2, <2>1
  <2>3. /\ A[n].rec_count = n /\ A[n].last_rec = recs[n]
        /\ A[n].unordered_count = 0 <=> IsSorted(recs, 1, n)
    BY <1>4
  <2>4. /\ A[n + 1].rec_count = n + 1 /\ A[n + 1].last_rec = recs[n + 1]
        /\ A[n + 1].unordered_count = A[n].unordered_count + (IF recs[n + 1] < recs[n] THEN 1 ELSE 0)
    BY <2>2, <2>3 DEF NextRecord, Unordered, Summary
  <2>5. IsSorted(recs, 1, n + 1) <=> IsSorted(recs, 1, n) /\ recs[n] <= recs[n + 1]
    <3>1. 1 + 1 .. n + 1 = (1 + 1 .. n) \cup {n + 1}
      BY <2>1
    <3> QED BY <2>1, <3>1 DEF IsSorted
  <2>6. A[n].unordered_count \in Nat
    BY <2>2 DEF Summary
  <2>7. A[n + 1].unordered_count = 0 <=> IsSorted(recs, 1, n + 1)
    <3>1. recs[n] \in Int /\ recs[n + 1] \in Int
      BY <1>1, <2>1
    <3>2. CASE recs[n + 1] < recs[n]
      BY <2>4, <2>5, <2>6, <3>1, <3>2
    <3>3. CASE ~ (recs[n + 1] < recs[n])
      <4>1. A[n + 1].unordered_count = A[n].unordered_count /\ recs[n] <= recs[n + 1]
        BY <2>4, <2>6, <3>1, <3>3
      <4> QED BY <2>3, <2>5, <4>1, Zenon
    <3> QED BY <3>2, <3>3
  <2> QED BY <2>1, <2>4, <2>7
<1> HIDE DEF S
<1>5. L \in S
  <2>1. \A n \in 1 .. L : n \in S
    BY <1>1, <1>3, <1>4, OneAfterAnother
  <2> QED BY <1>1, <2>1
<1> QED BY <1>1, <1>2, <1>5 DEF S, A, L, Summarize

(* One summary more is added to the sum. *)
LEMMA SumAppend ==
  ASSUME NEW all \in Seq(Summary), NEW x \in Summary
  PROVE  /\ Append(all, x) \in Seq(Summary)
         /\ SumSummaries(Append(all, x)) = IF all = << >> THEN x ELSE NextSummary(SumSummaries(all), x)
<1> DEFINE c == Append(all, x)
           A == SumAfter(all)
           C == SumAfter(c)
           L == Len(all)
           S == { i \in 1 .. L : C[i] = A[i] }
<1>1. /\ c \in Seq(Summary) /\ Len(c) = L + 1 /\ L \in Nat /\ (L = 0 <=> all = << >>)
      /\ \A i \in 1 .. L : c[i] = all[i]
      /\ c[L + 1] = x
  OBVIOUS
<1>2. /\ \A n \in 1 .. L : A[n] = IF n = 1 THEN all[1] ELSE NextSummary(A[n - 1], all[n])
      /\ \A n \in 1 .. L + 1 : C[n] = IF n = 1 THEN c[1] ELSE NextSummary(C[n - 1], c[n])
  <2> HIDE DEF c
  <2> QED BY <1>1, AfterSummaries
<1> HIDE DEF A, C, c, L
<1>3. \A i \in 1 .. L : C[i] = A[i]
  <2>1. L # 0 => 1 \in S
    BY <1>1, <1>2
  <2>2. ASSUME NEW i \in 1 .. L - 1, i \in S PROVE i + 1 \in S
    <3>1. i + 1 \in 1 .. L /\ i + 1 \in 1 .. L + 1 /\ i + 1 # 1 /\ (i + 1) - 1 = i
      BY <1>1
    <3>2. C[i + 1] = NextSummary(C[i], c[i + 1]) /\ A[i + 1] = NextSummary(A[i], all[i + 1])
      BY <1>2, <3>1
    <3> QED BY <1>1, <2>2, <3>1, <3>2
  <2> HIDE DEF S
  <2>3. \A i \in 1 .. L : i \in S
    BY <1>1, <2>1, <2>2, OneAfterAnother
  <2> QED BY <2>3 DEF S
<1>4. C[L + 1] = IF L = 0 THEN x ELSE NextSummary(A[L], x)
  <2>1. L + 1 \in 1 .. L + 1 /\ (L + 1) - 1 = L /\ (L # 0 => L \in 1 .. L /\ L + 1 # 1)
    BY <1>1
  <2> QED BY <1>1, <1>2, <1>3, <2>1
<1> QED BY <1>1, <1>4 DEF SumSummaries, A, C, c, L

LEMMA JoinedPieces ==
  ASSUME NEW recs \in Seq(Key), NEW m \in 1 .. Len(recs), NEW n \in m + 1 .. Len(recs)
  PROVE  /\ SubSeq(recs, 1, m) \in Seq(Key) /\ SubSeq(recs, 1, m) # << >>
         /\ SubSeq(recs, m + 1, n) \in Seq(Key) /\ SubSeq(recs, m + 1, n) # << >>
         /\ SubSeq(recs, 1, m) \o SubSeq(recs, m + 1, n) = SubSeq(recs, 1, n)
<1>1. 1 \in 1 .. Len(recs) + 1 /\ m \in 1 - 1 .. Len(recs) /\ n \in m .. Len(recs)
  OBVIOUS
<1>2. SubSeq(recs, 1, m) \o SubSeq(recs, m + 1, n) = SubSeq(recs, 1, n)
  BY <1>1, ConcatAdjacentSubSeq
<1>3. SubSeq(recs, 1, m) \in Seq(Key) /\ Len(SubSeq(recs, 1, m)) = m
  OBVIOUS
<1>4. SubSeq(recs, m + 1, n) \in Seq(Key) /\ Len(SubSeq(recs, m + 1, n)) = n - m
  OBVIOUS
<1>5. m # 0 /\ n - m # 0
  OBVIOUS
<1> QED BY <1>2, <1>3, <1>4, <1>5

(* Where the blocks end, if their number is the quotient rounded up. *)
LEMMA BlockEnds ==
  ASSUME NEW len \in Nat \ {0}, NEW n \in Nat \ {0}, NEW blocks \in Nat,
         blocks * n <= len + n - 1, len + n - 1 < blocks * n + n
  PROVE  /\ blocks \in Nat \ {0}
         /\ (blocks - 1) * n < len /\ len <= blocks * n
         /\ \A b \in 1 .. blocks - 1 : /\ b * n \in 1 .. len - 1
                                       /\ b + 1 # blocks => (b + 1) * n \in b * n + 1 .. len
<1>1. blocks \in Nat /\ blocks * n <= len + n - 1 /\ len + n - 1 < blocks * n + n
  OBVIOUS
<1>2. blocks # 0
  <2> SUFFICES ASSUME blocks = 0 PROVE FALSE
    OBVIOUS
  <2>1. blocks * n = 0
    OBVIOUS
  <2> QED BY <1>1, <2>1
<1>3. blocks * n \in Nat /\ (blocks - 1) * n = blocks * n - n
  BY <1>1
<1>4. (blocks - 1) * n < len /\ len <= blocks * n
  BY <1>1, <1>3
<1>5. ASSUME NEW b \in 1 .. blocks - 1
      PROVE  b * n \in 1 .. len - 1 /\ (b + 1 # blocks => (b + 1) * n \in b * n + 1 .. len)
  <2>1. \A x, y \in Nat : x <= y => x * n <= y * n
    OBVIOUS
  <2>2. b \in Nat /\ 1 <= b /\ b <= blocks - 1 /\ blocks - 1 \in Nat
    BY <1>1
  <2>3. 1 * n <= b * n /\ b * n <= (blocks - 1) * n /\ b * n \in Nat
    BY <2>1, <2>2
  <2>4. (b + 1) * n = b * n + n
    BY <2>2
  <2>5. b + 1 # blocks => (b + 1) * n <= (blocks - 1) * n
    <3>1. b + 1 # blocks => b + 1 <= blocks - 1 /\ b + 1 \in Nat
      BY <1>1, <2>2
    <3> QED BY <2>1, <2>2, <3>1
  <2> QED BY <1>3, <1>4, <2>3, <2>4, <2>5
<1> QED BY <1>1, <1>2, <1>4, <1>5

(* How many blocks there are. *)
LEMMA BlockCount ==
  ASSUME NEW len \in Nat \ {0}, NEW n \in Nat \ {0}, NEW blocks, blocks = (len + n - 1) \div n
  PROVE  /\ blocks \in Nat \ {0}
         /\ (blocks - 1) * n < len /\ len <= blocks * n
         /\ \A b \in 1 .. blocks - 1 : /\ b * n \in 1 .. len - 1
                                       /\ b + 1 # blocks => (b + 1) * n \in b * n + 1 .. len
<1>1. len + n - 1 \in Nat
  OBVIOUS
<1>2. \A x \in Nat : x \div n \in Nat /\ (x \div n) * n <= x /\ x < (x \div n) * n + n
  OBVIOUS
<1>3. blocks \in Nat /\ blocks * n <= len + n - 1 /\ len + n - 1 < blocks * n + n
  BY <1>1, <1>2
<1> QED BY <1>3, BlockEnds

(* valsort comes to the same summary in blocks, whatever their size. *)
LEMMA BlocksMakeNoDifference ==
  ASSUME NEW recs \in Seq(Key), recs # << >>, NEW n \in Nat \ {0}
  PROVE  ByBlocks(recs, n) = Summarize(recs)
<1> DEFINE len     == Len(recs)
           blocks  == (len + n - 1) \div n
           last(b) == IF b = blocks THEN len ELSE b * n
           piece(b) == SubSeq(recs, (b - 1) * n + 1, last(b))
           all     == [b \in 1 .. blocks |-> Summarize(piece(b))]
           A       == SumAfter(all)
           S       == { b \in 1 .. blocks : A[b] = Summarize(SubSeq(recs, 1, last(b))) }
<1>1. ByBlocks(recs, n) = A[Len(all)]
  BY DEF ByBlocks, SumSummaries
<1>2. len \in Nat \ {0} /\ SubSeq(recs, 1, len) = recs
  <2>1. len \in Nat \ {0}
    OBVIOUS
  <2> QED BY <2>1, SubSeqFull
<1>3. /\ blocks \in Nat \ {0}
      /\ (blocks - 1) * n < len /\ len <= blocks * n
      /\ \A b \in 1 .. blocks - 1 : /\ b * n \in 1 .. len - 1
                                    /\ b + 1 # blocks => (b + 1) * n \in b * n + 1 .. len
  <2> HIDE DEF len
  <2> QED BY <1>2, BlockCount
<1> HIDE DEF blocks
<1>4. \A b \in 1 .. blocks - 1 : /\ last(b) = b * n /\ last(b) \in 1 .. len
                                 /\ last(b + 1) \in last(b) + 1 .. len
                                 /\ piece(b + 1) = SubSeq(recs, last(b) + 1, last(b + 1))
  <2> TAKE b \in 1 .. blocks - 1
  <2>1. b # blocks /\ (b + 1) - 1 = b /\ b * n \in 1 .. len - 1
    BY <1>3
  <2>2. last(b + 1) \in b * n + 1 .. len
    BY <1>2, <1>3, <2>1
  <2>3. last(b) = b * n /\ piece(b + 1) = SubSeq(recs, b * n + 1, last(b + 1))
    BY <2>1
  <2> HIDE DEF last, piece
  <2>4. last(b) \in 1 .. len
    BY <1>2, <2>1, <2>3
  <2> QED BY <2>2, <2>3, <2>4
<1>5. last(1) \in 1 .. len /\ piece(1) = SubSeq(recs, 1, last(1)) /\ last(blocks) = len
  <2>1. (1 - 1) * n + 1 = 1
    OBVIOUS
  <2>2. last(1) \in 1 .. len
    <3>1. CASE blocks = 1
      BY <1>2, <3>1
    <3>2. CASE blocks # 1
      <4>1. 1 \in 1 .. blocks - 1
        BY <1>3, <3>2
      <4> HIDE DEF last
      <4> QED BY <1>4, <4>1
    <3> QED BY <3>1, <3>2
  <2> QED BY <2>1, <2>2
<1> HIDE DEF last, len
<1>6. \A b \in 1 .. blocks : piece(b) \in Seq(Key) /\ piece(b) # << >>
  <2> TAKE b \in 1 .. blocks
  <2>1. CASE b = 1
    <3>1. SubSeq(recs, 1, last(1)) \in Seq(Key) /\ SubSeq(recs, 1, last(1)) # << >>
      BY <1>5 DEF len
    <3> QED BY <1>5, <2>1, <3>1
  <2>2. CASE b # 1
    <3>1. b - 1 \in 1 .. blocks - 1 /\ (b - 1) + 1 = b
      BY <1>3, <2>2
    <3>2. /\ last(b - 1) \in 1 .. len /\ last(b) \in last(b - 1) + 1 .. len
          /\ piece(b) = SubSeq(recs, last(b - 1) + 1, last(b))
      BY <1>4, <3>1
    <3> DEFINE x == last(b - 1)
               y == last(b)
    <3>3. x \in 1 .. Len(recs) /\ y \in x + 1 .. Len(recs) /\ piece(b) = SubSeq(recs, x + 1, y)
      BY <3>2 DEF len
    <3> HIDE DEF piece, x, y
    <3>4. SubSeq(recs, x + 1, y) \in Seq(Key) /\ SubSeq(recs, x + 1, y) # << >>
      BY <3>3, JoinedPieces
    <3> QED BY <3>3, <3>4
  <2> QED BY <2>1, <2>2
<1> HIDE DEF piece
<1>7. all \in Seq(Summary) /\ Len(all) = blocks /\ \A b \in 1 .. blocks : all[b] = Summarize(piece(b))
  <2>1. all \in [1 .. blocks -> Summary]
    BY <1>6, Verdict
  <2> HIDE DEF all
  <2>2. all \in Seq(Summary) /\ Len(all) = blocks
    BY <1>3, <2>1
  <2> QED BY <2>2 DEF all
<1> HIDE DEF all, A
<1>8. \A b \in 1 .. blocks : A[b] = IF b = 1 THEN all[1] ELSE NextSummary(A[b - 1], all[b])
  BY <1>7, AfterSummaries DEF A
<1>9. 1 \in S
  <2>1. 1 \in 1 .. blocks
    BY <1>3
  <2>2. A[1] = Summarize(piece(1))
    BY <1>7, <1>8, <2>1
  <2>3. A[1] = Summarize(SubSeq(recs, 1, last(1)))
    BY <1>5, <2>2
  <2> QED BY <2>1, <2>3
<1>10. ASSUME NEW b \in 1 .. blocks - 1, b \in S PROVE b + 1 \in S
  <2>1. b \in 1 .. blocks /\ b + 1 \in 1 .. blocks /\ b + 1 # 1 /\ (b + 1) - 1 = b
    BY <1>3
  <2>2. A[b + 1] = NextSummary(A[b], Summarize(piece(b + 1)))
    BY <1>7, <1>8, <2>1
  <2>3. /\ last(b) \in 1 .. len /\ last(b + 1) \in last(b) + 1 .. len
        /\ piece(b + 1) = SubSeq(recs, last(b) + 1, last(b + 1))
    BY <1>4
  <2> DEFINE x == SubSeq(recs, 1, last(b))
             y == SubSeq(recs, last(b) + 1, last(b + 1))
  <2>4. /\ x \in Seq(Key) /\ x # << >> /\ y \in Seq(Key) /\ y # << >>
        /\ x \o y = SubSeq(recs, 1, last(b + 1))
    BY <2>3, JoinedPieces DEF len
  <2>5. A[b] = Summarize(x)
    BY <1>10
  <2> HIDE DEF x, y
  <2>6. Summarize(x \o y) = NextSummary(Summarize(x), Summarize(y))
    BY <2>4, TwoParts
  <2>7. piece(b + 1) = y
    BY <2>3 DEF y
  <2>8. A[b + 1] = Summarize(SubSeq(recs, 1, last(b + 1)))
    BY <2>2, <2>4, <2>5, <2>6, <2>7
  <2> QED BY <2>1, <2>8
<1> HIDE DEF S
<1>11. blocks \in S
  <2>1. \A b \in 1 .. blocks : b \in S
    BY <1>3, <1>9, <1>10, OneAfterAnother
  <2> QED BY <1>3, <2>1
<1> QED BY <1>1, <1>2, <1>5, <1>7, <1>11 DEF S

-----------------------------------------------------------------------------
(***************************************************************************)
(* Counting                                                                *)
(***************************************************************************)
LEMMA CountIsNat ==
  ASSUME NEW s \in Seq(Key), NEW k
  PROVE  /\ IsFiniteSet({ i \in DOMAIN s : s[i] = k }) /\ Count(s, k) \in Nat
         /\ Count(s, k) = 0 <=> \A i \in DOMAIN s : s[i] # k
<1>1. DOMAIN s = 1 .. Len(s) /\ 1 \in Int /\ Len(s) \in Int
  OBVIOUS
<1>2. IsFiniteSet(1 .. Len(s))
  BY <1>1, FS_Interval
<1>3. IsFiniteSet({ i \in DOMAIN s : s[i] = k })
  BY <1>1, <1>2, FS_Subset
<1> QED BY <1>3, FS_CardinalityType, FS_EmptySet DEF Count

LEMMA TotalIsNat ==
  ASSUME NEW k
  PROVE  /\ IsFiniteSet(Rec) /\ Cardinality(Rec) = NumRecs
         /\ IsFiniteSet({ r \in Rec : input[r] = k }) /\ Total(k) \in Nat
         /\ Total(k) = 0 <=> \A r \in Rec : input[r] # k
<1>1. IsFiniteSet(Rec) /\ Cardinality(Rec) = NumRecs
  <2>1. 1 \in Int /\ NumRecs \in Int /\ NumRecs >= 1
    BY JobAssumption
  <2>2. Cardinality(1 .. NumRecs) = NumRecs - 1 + 1 /\ IsFiniteSet(1 .. NumRecs)
    BY <2>1, FS_Interval
  <2> QED BY <2>1, <2>2 DEF Rec
<1>2. IsFiniteSet({ r \in Rec : input[r] = k })
  BY <1>1, FS_Subset
<1> QED BY <1>1, <1>2, FS_CardinalityType, FS_EmptySet DEF Total

LEMMA CountInput ==
  ASSUME Typed
  PROVE  \A k : Count(input, k) = Total(k)
BY DEF Typed, Count, Total

LEMMA SameSize ==
  ASSUME NEW S, IsFiniteSet(S), NEW T, NEW h \in [S -> T],
         \A x, y \in S : h[x] = h[y] => x = y,
         \A y \in T : \E x \in S : h[x] = y
  PROVE  IsFiniteSet(T) /\ Cardinality(T) = Cardinality(S)
<1>1. h \in Bijection(S, T)
  BY DEF Bijection, Injection, IsInjective, Surjection, Range
<1> QED BY <1>1, FS_Bijection DEF ExistsBijection

LEMMA CountConcat ==
  ASSUME NEW a \in Seq(Key), NEW b \in Seq(Key), NEW k
  PROVE  Count(a \o b, k) = Count(a, k) + Count(b, k)
<1> DEFINE c  == a \o b
           la == Len(a)
           lb == Len(b)
           X  == { i \in DOMAIN a : a[i] = k }
           Y  == { j \in DOMAIN b : b[j] = k }
           Z  == { i \in la + 1 .. la + lb : c[i] = k }
           h  == [j \in Y |-> la + j]
<1>1. /\ la \in Nat /\ lb \in Nat /\ DOMAIN a = 1 .. la /\ DOMAIN b = 1 .. lb
      /\ DOMAIN c = 1 .. la + lb
      /\ \A i \in 1 .. la + lb : c[i] = IF i <= la THEN a[i] ELSE b[i - la]
  BY ConcatProperties
<1>2. /\ IsFiniteSet(X) /\ Cardinality(X) \in Nat /\ IsFiniteSet(Y) /\ Cardinality(Y) \in Nat
      /\ Count(a, k) = Cardinality(X) /\ Count(b, k) = Cardinality(Y)
  BY CountIsNat DEF Count
<1> HIDE DEF c, la, lb
<1>3. IsFiniteSet(Z) /\ Cardinality(Z) = Cardinality(Y)
  <2>1. \A j \in Y : la + j \in Z
    BY <1>1
  <2>2. h \in [Y -> Z]
    BY <2>1
  <2>3. \A x, y \in Y : h[x] = h[y] => x = y
    BY <1>1
  <2>4. \A z \in Z : z - la \in Y /\ h[z - la] = z
    BY <1>1
  <2> HIDE DEF h, Y, Z
  <2> QED BY <1>2, <2>2, <2>3, <2>4, SameSize
<1>4. { i \in DOMAIN c : c[i] = k } = X \cup Z /\ X \cap Z = {}
  BY <1>1
<1> HIDE DEF X, Y, Z, h
<1>5. Cardinality(X \cup Z) = Cardinality(X) + Cardinality(Z) - Cardinality({})
  BY <1>2, <1>3, <1>4, FS_Union
<1>6. Cardinality({}) = 0
  BY FS_EmptySet
<1>7. Count(c, k) = Cardinality(X \cup Z)
  BY <1>4 DEF Count
<1>8. Cardinality(X \cup Z) = Cardinality(X) + Cardinality(Y)
  BY <1>2, <1>3, <1>4, <1>5, <1>6
<1> QED BY <1>2, <1>7, <1>8 DEF c

LEMMA CountRows ==
  ASSUME NEW m \in Nat, NEW k \in Key
  PROVE  /\ [i \in 1 .. m |-> k] \in Seq(Key) /\ Len([i \in 1 .. m |-> k]) = m
         /\ Count([i \in 1 .. m |-> k], k) = m
         /\ \A l : l # k => Count([i \in 1 .. m |-> k], l) = 0
<1> DEFINE s == [i \in 1 .. m |-> k]
<1>1. s \in Seq(Key) /\ Len(s) = m /\ DOMAIN s = 1 .. m /\ \A i \in 1 .. m : s[i] = k
  <2>1. s \in [1 .. m -> Key]
    OBVIOUS
  <2>2. s \in Seq(Key) /\ Len(s) = m
    BY <2>1
  <2> QED BY <2>2
<1> HIDE DEF s
<1>2. { i \in DOMAIN s : s[i] = k } = 1 .. m
  BY <1>1
<1>3. Cardinality(1 .. m) = m
  <2>1. 1 \in Int /\ m \in Int
    OBVIOUS
  <2>2. Cardinality(1 .. m) = IF 1 > m THEN 0 ELSE m - 1 + 1
    BY <2>1, FS_Interval
  <2> QED BY <2>2
<1>4. \A l : l # k => Count(s, l) = 0
  BY <1>1, CountIsNat
<1> QED BY <1>1, <1>2, <1>3, <1>4 DEF s, Count

-----------------------------------------------------------------------------
(***************************************************************************)
(* The job                                                                 *)
(***************************************************************************)
LEMMA SameTotal ==
  ASSUME UNCHANGED input
  PROVE  \A k : Total(k)' = Total(k)
BY DEF Total

LEMMA PartStays ==
  ASSUME UNCHANGED <<input, place>>, NEW p \in Part, part'[p] = part[p], WholeKeys(p)
  PROVE  WholeKeys(p)'
<1>1. \A k : Total(k)' = Total(k)
  BY SameTotal
<1>2. PICK s : s = part[p] /\ s = part'[p]
  OBVIOUS
<1>3. \A i \in DOMAIN s : place[s[i]] = p /\ Count(s, s[i]) = Total(s[i])
  BY <1>2 DEF WholeKeys
<1>4. \A i \in DOMAIN s : place'[s[i]] = p /\ Count(s, s[i]) = Total(s[i])'
  BY <1>1, <1>3
<1>5. \A i \in DOMAIN s, k \in Key :
        place[k] = p /\ k <= s[i] /\ Total(k) # 0 => \E j \in DOMAIN s : s[j] = k
  BY <1>2 DEF WholeKeys
<1>6. \A i \in DOMAIN s, k \in Key :
        place'[k] = p /\ k <= s[i] /\ Total(k)' # 0 => \E j \in DOMAIN s : s[j] = k
  BY <1>1, <1>5
<1>7. s \in Seq(Key) /\ IsSorted(s, 1, Len(s))
  BY <1>2 DEF WholeKeys
<1>8. \A i \in DOMAIN part'[p] : (place[part[p][i]] = p /\ Count(part[p], part[p][i]) = Total(part[p][i]))'
  <2> SUFFICES ASSUME NEW i \in DOMAIN s
               PROVE  (place[part[p][i]] = p /\ Count(part[p], part[p][i]) = Total(part[p][i]))'
    BY <1>2
  <2>1. Total(part[p][i])' = Cardinality({ r \in Rec : input[r] = s[i] })
    BY <1>2 DEF Total
  <2>2. Count(part[p], part[p][i])' = Count(s, s[i])
    BY <1>2 DEF Count
  <2>3. place'[s[i]] = p /\ Count(s, s[i]) = Cardinality({ r \in Rec : input[r] = s[i] })
    BY <1>3 DEF Total
  <2> QED BY <1>2, <2>1, <2>2, <2>3
<1> QED BY <1>2, <1>6, <1>7, <1>8 DEF WholeKeys, IsSorted

LEMMA EmptyPart ==
  ASSUME NEW p \in Part, part[p] = << >>
  PROVE  WholeKeys(p)
BY DEF WholeKeys, IsSorted

LEMMA CountInPart ==
  ASSUME NEW p \in Part, WholeKeys(p), NEW k \in Key
  PROVE  /\ Count(part[p], k) <= Total(k)
         /\ place[k] # p => Count(part[p], k) = 0
<1>1. part[p] \in Seq(Key) /\ Total(k) \in Nat
  BY TotalIsNat DEF WholeKeys
<1>2. /\ Count(part[p], k) \in Nat
      /\ Count(part[p], k) = 0 <=> \A i \in DOMAIN part[p] : part[p][i] # k
  BY <1>1, CountIsNat
<1>3. CASE \A i \in DOMAIN part[p] : part[p][i] # k
  BY <1>1, <1>2, <1>3
<1>4. CASE \E i \in DOMAIN part[p] : part[p][i] = k
  <2>1. Count(part[p], k) = Total(k) /\ place[k] = p
    BY <1>4 DEF WholeKeys
  <2> QED BY <1>1, <2>1
<1> QED BY <1>3, <1>4

(* reduce() is called with the smallest key that is left, and writes all   *)
(* its rows.                                                               *)
LEMMA ReduceKeepsWhole ==
  ASSUME Typed, NEW p \in Part, WholeKeys(p), ReduceKey(p)
  PROVE  /\ WholeKeys(p)' /\ part' \in [Part -> Seq(Key)]
         /\ \A q \in Part : q # p => part'[q] = part[q]
<1>1. mapped = Rec /\ UNCHANGED <<input, place>>
  BY DEF ReduceKey
<1>2. PICK k \in KeysLeft(p) : /\ \A l \in KeysLeft(p) : k <= l
                               /\ part' = [part EXCEPT ![p] = @ \o AllRows(k)]
  BY DEF ReduceKey
<1> DEFINE s == part[p]
           m == Total(k)
           rows == [i \in 1 .. m |-> k]
           t == s \o rows
           ls == Len(s)
<1>3. /\ k \in Key /\ k \in Int /\ place[k] = p
      /\ Values(k) # {} /\ \A i \in DOMAIN s : s[i] < k
  BY JobAssumption DEF KeysLeft
<1>4. \A l \in Key : Values(l) = { r \in Rec : input[r] = l }
  BY <1>1 DEF Values
<1>5. AllRows(k) = rows /\ m \in Nat \ {0}
  <2>1. AllRows(k) = rows
    BY <1>3, <1>4 DEF AllRows, Total
  <2>2. m # 0
    BY <1>3, <1>4, TotalIsNat
  <2> QED BY <2>1, <2>2, TotalIsNat
<1>6. /\ s \in Seq(Key) /\ ls \in Nat /\ DOMAIN s = 1 .. ls
      /\ \A i \in 1 .. ls : s[i] \in Key /\ s[i] \in Int /\ s[i] < k
  <2>1. s \in Seq(Key) /\ ls \in Nat /\ DOMAIN s = 1 .. ls
    BY DEF WholeKeys
  <2>2. \A i \in 1 .. ls : s[i] \in Key
    BY <2>1
  <2> QED BY <1>3, <2>1, <2>2, JobAssumption
<1>7. rows \in Seq(Key) /\ Len(rows) = m /\ Count(rows, k) = m /\ \A l : l # k => Count(rows, l) = 0
  <2> HIDE DEF m
  <2> QED BY <1>3, <1>5, CountRows
<1>8. /\ t \in Seq(Key) /\ Len(t) = ls + m /\ DOMAIN t = 1 .. ls + m
      /\ \A i \in 1 .. ls : t[i] = s[i]
      /\ \A i \in ls + 1 .. ls + m : t[i] = k
  <2> HIDE DEF s, m
  <2>1. \A i \in 1 .. m : rows[i] = k
    OBVIOUS
  <2> HIDE DEF rows
  <2>2. /\ t \in Seq(Key) /\ Len(t) = ls + m
        /\ \A i \in 1 .. ls + m : t[i] = IF i <= ls THEN s[i] ELSE rows[i - ls]
    BY <1>6, <1>7, ConcatProperties
  <2>3. DOMAIN t = 1 .. ls + m
    BY <2>2
  <2> HIDE DEF t, ls
  <2>4. \A i \in 1 .. ls : t[i] = s[i]
    BY <1>5, <1>6, <2>2
  <2>5. ASSUME NEW i \in ls + 1 .. ls + m PROVE t[i] = k
    <3>1. i \in 1 .. ls + m /\ ~ (i <= ls) /\ i - ls \in 1 .. m
      BY <1>5, <1>6
    <3> QED BY <2>1, <2>2, <3>1
  <2> QED BY <2>2, <2>3, <2>4, <2>5
<1>9. \A l \in Key : Count(t, l) = Count(s, l) + Count(rows, l) /\ Count(s, l) \in Nat
  <2> HIDE DEF s, rows
  <2> QED BY <1>6, <1>7, CountConcat, CountIsNat
<1>10. part' = [part EXCEPT ![p] = t] /\ part' \in [Part -> Seq(Key)] /\ part'[p] = t
  <2> HIDE DEF rows
  <2>1. part' = [part EXCEPT ![p] = t]
    BY <1>2, <1>5
  <2> HIDE DEF t
  <2> QED BY <1>8, <2>1 DEF Typed
<1>11. /\ IsSorted(s, 1, ls)
       /\ \A i \in DOMAIN s : place[s[i]] = p /\ Count(s, s[i]) = Total(s[i])
       /\ \A i \in DOMAIN s, l \in Key :
            place[l] = p /\ l <= s[i] /\ Total(l) # 0 => \E j \in DOMAIN s : s[j] = l
  BY DEF WholeKeys
<1>12. Count(s, k) = 0
  <2> HIDE DEF s
  <2>1. \A i \in DOMAIN s : s[i] # k
    BY <1>3, <1>6
  <2> QED BY <1>6, <2>1, CountIsNat
<1> HIDE DEF s, rows, t, ls, m
<1>13. IsSorted(t, 1, ls + m)
  <2> SUFFICES ASSUME NEW i \in 2 .. ls + m PROVE t[i - 1] <= t[i]
    BY DEF IsSorted
  <2>1. CASE i <= ls
    <3>1. i \in 1 .. ls /\ i - 1 \in 1 .. ls /\ i \in 1 + 1 .. ls
      BY <1>6, <2>1
    <3>2. s[i - 1] <= s[i]
      BY <1>11, <3>1 DEF IsSorted
    <3> QED BY <1>8, <3>1, <3>2
  <2>2. CASE i = ls + 1
    <3>1. i - 1 \in 1 .. ls /\ i \in ls + 1 .. ls + m
      BY <1>5, <1>6, <2>2
    <3>2. t[i] = k /\ t[i - 1] = s[i - 1] /\ s[i - 1] < k /\ s[i - 1] \in Int
      BY <1>6, <1>8, <3>1
    <3> QED BY <1>3, <3>2
  <2>3. CASE i > ls + 1
    <3>1. i - 1 \in ls + 1 .. ls + m /\ i \in ls + 1 .. ls + m
      BY <1>5, <1>6, <2>3
    <3> QED BY <1>3, <1>8, <3>1
  <2> QED BY <1>5, <1>6, <2>1, <2>2, <2>3
<1>14. ASSUME NEW i \in 1 .. ls + m
       PROVE  /\ t[i] \in Key /\ t[i] \in Int /\ t[i] <= k
              /\ place[t[i]] = p /\ Count(t, t[i]) = Total(t[i])
  <2>1. CASE i \in 1 .. ls
    <3>1. t[i] = s[i] /\ s[i] \in Key /\ s[i] \in Int /\ s[i] < k /\ i \in DOMAIN s
      BY <1>6, <1>8, <2>1
    <3>2. place[s[i]] = p /\ Count(s, s[i]) = Total(s[i])
      BY <1>11, <3>1
    <3>3. Count(rows, s[i]) = 0
      BY <1>3, <1>7, <3>1
    <3>4. Count(t, s[i]) = Total(s[i])
      BY <1>9, <3>1, <3>2, <3>3
    <3> QED BY <1>3, <3>1, <3>2, <3>4
  <2>2. CASE i \in ls + 1 .. ls + m
    <3>1. t[i] = k
      BY <1>8, <2>2
    <3>2. Count(t, k) = Total(k)
      BY <1>3, <1>5, <1>7, <1>9, <1>12 DEF m
    <3> QED BY <1>3, <3>1, <3>2
  <2> QED BY <1>5, <1>6, <2>1, <2>2
<1>15. ASSUME NEW i \in 1 .. ls + m, NEW l \in Key, place[l] = p, l <= t[i], Total(l) # 0
       PROVE  \E j \in 1 .. ls + m : t[j] = l
  <2>1. l \in Int /\ l <= k
    BY <1>3, <1>14, <1>15, JobAssumption
  <2>2. CASE l \in KeysLeft(p)
    <3>1. l = k
      BY <1>2, <1>3, <2>1, <2>2
    <3>2. ls + 1 \in ls + 1 .. ls + m /\ ls + 1 \in 1 .. ls + m
      BY <1>5, <1>6
    <3> QED BY <1>8, <3>1, <3>2
  <2>3. CASE l \notin KeysLeft(p)
    <3>1. Values(l) # {}
      BY <1>4, <1>15, TotalIsNat
    <3>2. PICK x \in DOMAIN s : ~ (s[x] < l)
      BY <1>15, <2>3, <3>1 DEF KeysLeft, s
    <3>3. l <= s[x]
      BY <1>6, <2>1, <3>2
    <3>4. PICK j \in DOMAIN s : s[j] = l
      BY <1>11, <1>15, <3>3
    <3>5. j \in 1 .. ls /\ j \in 1 .. ls + m
      BY <1>5, <1>6, <3>4
    <3> QED BY <1>8, <3>4, <3>5
  <2> QED BY <2>2, <2>3
<1>16. WholeKeys(p)'
  <2>1. \A l : Total(l)' = Total(l)
    BY <1>1, SameTotal
  <2>2. place' = place /\ Len(part'[p]) = ls + m
    BY <1>1, <1>8, <1>10
  <2> QED BY <1>8, <1>10, <1>13, <1>14, <1>15, <2>1, <2>2 DEF WholeKeys, Count, IsSorted
<1>17. \A q \in Part : q # p => part'[q] = part[q]
  BY <1>10 DEF Typed
<1> QED BY <1>10, <1>16, <1>17

(* The keys that are left depend on the lines that are mapped and the part.*)
LEMMA SameKeysLeft ==
  ASSUME UNCHANGED <<input, place, mapped>>, NEW p \in Part, part'[p] = part[p]
  PROVE  KeysLeft(p)' = KeysLeft(p)
BY DEF KeysLeft, Values

(* A step of the job, before any part is validated. *)
LEMMA NothingRead ==
  ASSUME JobInv, status \in {"generated", "running"}, status' \in {"running", "committed"},
         UNCHANGED input, UNCHANGED place, NotJudged
  PROVE  NotTwice' /\ SumSoFar'
<1>1. fetched = << >> /\ sums = << >> /\ summary = None /\ next = 1
  BY DEF JobInv, SumSoFar
<1>2. fetched' = << >> /\ sums' = << >> /\ summary' = None /\ next' = 1
  BY <1>1 DEF NotJudged
<1>3. \A k : Count(<< >>, k) = 0
  <2>1. << >> \in Seq(Key) /\ DOMAIN << >> = {}
    OBVIOUS
  <2> QED BY <2>1, CountIsNat
<1>4. \A k : Total(k)' \in Nat
  BY TotalIsNat, SameTotal
<1>5. NotTwice'
  <2>1. \A k \in Key : Count(fetched', k) = 0
    BY <1>2, <1>3
  <2>2. \A k \in Key : Count(fetched', k) <= Total(k)'
    BY <1>4, <2>1
  <2> QED BY <2>1, <2>2 DEF NotTwice, Count
<1>6. SumSoFar'
  BY <1>2 DEF SumSoFar
<1> QED BY <1>5, <1>6

LEMMA InitJob == Init => JobInv
<1> SUFFICES ASSUME Init PROVE JobInv
  OBVIOUS
<1>1. << >> \in Seq(Key) /\ << >> \in Seq(Summary) /\ DOMAIN << >> = {}
  OBVIOUS
<1>2. \A k : Count(<< >>, k) = 0
  BY <1>1, CountIsNat
<1>3. Typed
  BY <1>1, JobAssumption DEF Init, Typed, Part
<1>4. \A p \in Part : WholeKeys(p)
  BY EmptyPart DEF Init
<1>5. NotTwice
  <2>1. fetched = << >> /\ status = "generated"
    BY DEF Init
  <2>2. \A k \in Key : Count(fetched, k) = 0 /\ Total(k) \in Nat
    BY <1>2, <2>1, TotalIsNat
  <2>3. \A k \in Key : Count(fetched, k) <= Total(k)
    BY <2>2
  <2> QED BY <2>1, <2>3 DEF NotTwice
<1>6. SumSoFar /\ status # "committed"
  BY DEF Init, SumSoFar
<1> QED BY <1>3, <1>4, <1>5, <1>6 DEF JobInv

LEMMA StartStep == ASSUME JobInv, StartJob PROVE JobInv'
<1>1. UNCHANGED <<input, place, mapped, part, failures>> /\ NotJudged
      /\ status = "generated" /\ status' = "running"
  BY DEF StartJob
<1>2. Typed'
  BY <1>1 DEF JobInv, Typed, NotJudged
<1>3. \A p \in Part : WholeKeys(p)'
  BY <1>1, PartStays DEF JobInv
<1>4. NotTwice' /\ SumSoFar'
  BY <1>1, NothingRead
<1> QED BY <1>1, <1>2, <1>3, <1>4 DEF JobInv

LEMMA MapStep == ASSUME JobInv, NEW r \in Rec, MapLine(r) PROVE JobInv'
<1>1. UNCHANGED <<input, place, part, failures>> /\ NotJudged
      /\ status = "running" /\ status' = "running" /\ mapped' = mapped \cup {r}
  BY DEF MapLine
<1>2. Typed'
  BY <1>1 DEF JobInv, Typed, NotJudged
<1>3. \A p \in Part : WholeKeys(p)'
  BY <1>1, PartStays DEF JobInv
<1>4. NotTwice' /\ SumSoFar'
  BY <1>1, NothingRead
<1> QED BY <1>1, <1>2, <1>3, <1>4 DEF JobInv

LEMMA CommitStep == ASSUME JobInv, CommitJob PROVE JobInv'
<1>1. UNCHANGED <<input, place, mapped, part, failures>> /\ NotJudged
      /\ status = "running" /\ status' = "committed" /\ mapped = Rec
      /\ \A p \in Part : KeysLeft(p) = {}
  BY DEF CommitJob
<1>2. Typed'
  BY <1>1 DEF JobInv, Typed, NotJudged
<1>3. \A p \in Part : WholeKeys(p)'
  BY <1>1, PartStays DEF JobInv
<1>4. NotTwice' /\ SumSoFar'
  BY <1>1, NothingRead
<1>5. mapped' = Rec /\ \A p \in Part : KeysLeft(p)' = {}
  BY <1>1, SameKeysLeft
<1> QED BY <1>2, <1>3, <1>4, <1>5 DEF JobInv

LEMMA FailStep == ASSUME JobInv, TaskFails PROVE JobInv'
<1>1. UNCHANGED <<input, place>> /\ NotJudged /\ status = "running" /\ status' = "running"
      /\ failures < MaxFailures /\ failures' = failures + 1
  BY DEF TaskFails
<1>2. \/ mapped' \subseteq mapped /\ part' = part
      \/ mapped' = mapped /\ \E p \in Part : part' = [part EXCEPT ![p] = << >>]
  BY DEF TaskFails
<1>3. << >> \in Seq(Key)
  OBVIOUS
<1>4. mapped' \in SUBSET Rec /\ part' \in [Part -> Seq(Key)]
  <2>1. mapped \subseteq Rec /\ part \in [Part -> Seq(Key)]
    BY DEF JobInv, Typed
  <2>2. ASSUME NEW p \in Part PROVE [part EXCEPT ![p] = << >>] \in [Part -> Seq(Key)]
    BY <1>3, <2>1
  <2> QED BY <1>2, <2>1, <2>2
<1>5. failures' \in 0 .. MaxFailures
  BY <1>1, JobAssumption DEF JobInv, Typed
<1>6. Typed'
  BY <1>1, <1>4, <1>5 DEF JobInv, Typed, NotJudged
<1>7. \A q \in Part : part'[q] = part[q] \/ part'[q] = << >>
  BY <1>2 DEF JobInv, Typed
<1>8. ASSUME NEW q \in Part PROVE WholeKeys(q)'
  <2>1. CASE part'[q] = part[q]
    BY <1>1, <2>1, PartStays DEF JobInv
  <2>2. CASE part'[q] = << >>
    BY <1>3, <2>2 DEF WholeKeys, IsSorted
  <2> QED BY <1>7, <2>1, <2>2
<1>9. NotTwice' /\ SumSoFar'
  BY <1>1, NothingRead
<1> QED BY <1>1, <1>6, <1>8, <1>9 DEF JobInv

LEMMA ReduceStep == ASSUME JobInv, NEW p \in Part, ReduceKey(p) PROVE JobInv'
<1>1. UNCHANGED <<input, place, mapped, failures>> /\ NotJudged
      /\ status = "running" /\ status' = "running"
  BY DEF ReduceKey
<1>2. /\ WholeKeys(p)' /\ part' \in [Part -> Seq(Key)]
      /\ \A q \in Part : q # p => part'[q] = part[q]
  BY ReduceKeepsWhole DEF JobInv
<1>3. Typed'
  BY <1>1, <1>2 DEF JobInv, Typed, NotJudged
<1>4. \A q \in Part : WholeKeys(q)'
  BY <1>1, <1>2, PartStays DEF JobInv
<1>5. NotTwice' /\ SumSoFar'
  BY <1>1, NothingRead
<1> QED BY <1>1, <1>3, <1>4, <1>5 DEF JobInv

LEMMA InputStep == ASSUME JobInv, ValidateInput PROVE JobInv'
<1>1. /\ UNCHANGED <<input, place, mapped, part, next, sums, failures>> /\ status' = "checked"
      /\ fetched' = input /\ summary' = ByBlocks(input, BlockSize)
  BY DEF ValidateInput
<1>2. input \in Seq(Key) /\ DOMAIN input = Rec /\ input # << >>
  <2>1. input \in [1 .. NumRecs -> Key] /\ NumRecs \in Nat \ {0}
    BY JobAssumption DEF JobInv, Typed, Rec
  <2> QED BY <2>1 DEF Rec
<1>3. summary' = Summarize(input)
  BY <1>1, <1>2, JobAssumption, BlocksMakeNoDifference
<1>4. Typed'
  BY <1>1, <1>2 DEF JobInv, Typed
<1>5. \A p \in Part : WholeKeys(p)'
  BY <1>1, PartStays DEF JobInv
<1>6. NotTwice'
  <2>1. \A k : Count(input, k) = Total(k) /\ Total(k) \in Nat
    BY <1>2, TotalIsNat DEF Count, Total
  <2>2. \A k : Count(fetched', k) = Total(k)' /\ Total(k)' \in Nat
    BY <1>1, <2>1, SameTotal
  <2>3. \A k \in Key : Count(fetched', k) <= Total(k)'
    BY <2>2
  <2> QED BY <1>1, <2>3 DEF NotTwice, Count
<1>7. SumSoFar'
  BY <1>1, <1>2, <1>3 DEF SumSoFar
<1> QED BY <1>1, <1>4, <1>5, <1>6, <1>7 DEF JobInv

LEMMA SumsStep == ASSUME JobInv, ValidateSums PROVE JobInv'
<1>1. /\ UNCHANGED <<input, place, mapped, part, next, fetched, sums, failures>>
      /\ status = "committed" /\ status' = "checked"
      /\ summary' = IF sums = << >> THEN None ELSE SumSummaries(sums)
  BY DEF ValidateSums
<1>2. Typed'
  BY <1>1 DEF JobInv, Typed
<1>3. \A p \in Part : WholeKeys(p)'
  BY <1>1, PartStays DEF JobInv
<1>4. NotTwice'
  <2>1. \A k \in Key : Count(fetched, k) <= Total(k)
    BY DEF JobInv, NotTwice
  <2>2. \A k \in Key : Count(fetched', k) <= Total(k)'
    BY <1>1, <2>1, SameTotal
  <2> QED BY <1>1, <2>2 DEF NotTwice, Count
<1>5. SumSoFar'
  BY <1>1 DEF JobInv, SumSoFar
<1> QED BY <1>1, <1>2, <1>3, <1>4, <1>5 DEF JobInv

(* What comes of a part through the pipe is the first n of its records: no *)
(* key more often than it is in the part.                                  *)
LEMMA CountFirst ==
  ASSUME NEW s \in Seq(Key), NEW n \in 0 .. Len(s), NEW k
  PROVE  /\ SubSeq(s, 1, n) \in Seq(Key) /\ Len(SubSeq(s, 1, n)) = n
         /\ Count(SubSeq(s, 1, n), k) \in Nat /\ Count(SubSeq(s, 1, n), k) <= Count(s, k)
<1> DEFINE g == SubSeq(s, 1, n)
<1>1. /\ g \in Seq(Key) /\ Len(g) = n /\ DOMAIN g = 1 .. n
      /\ DOMAIN s = 1 .. Len(s) /\ Len(s) \in Nat
      /\ \A i \in 1 .. n : g[i] = s[i]
  OBVIOUS
<1>2. { i \in DOMAIN g : g[i] = k } \subseteq { i \in DOMAIN s : s[i] = k }
  BY <1>1
<1>3. IsFiniteSet({ i \in DOMAIN s : s[i] = k }) /\ Count(s, k) \in Nat /\ Count(g, k) \in Nat
  BY <1>1, CountIsNat
<1>4. Count(g, k) <= Count(s, k)
  BY <1>2, <1>3, FS_Subset DEF Count
<1> QED BY <1>1, <1>3, <1>4

LEMMA PartStep == ASSUME JobInv, ValidatePart PROVE JobInv'
<1>1. /\ UNCHANGED <<input, place, mapped, part, status, summary>>
      /\ status = "committed" /\ next \in Part /\ next' = next + 1
  BY DEF ValidatePart, NextPart
<1>2. PICK s, n, got :
        /\ s = part[next] /\ n \in 0 .. Len(s) /\ got = SubSeq(s, 1, n)
        /\ n < Len(s) => failures < MaxFailures
        /\ failures' = IF n < Len(s) THEN failures + 1 ELSE failures
        /\ fetched' = fetched \o got
        /\ sums' = IF n = 0 THEN sums ELSE Append(sums, ByBlocks(got, BlockSize))
  BY DEF ValidatePart
<1>3. PICK f : f = fetched /\ f \in Seq(Key)
  BY DEF JobInv, Typed
<1>4. WholeKeys(next) /\ s \in Seq(Key)
  BY <1>1, <1>2 DEF JobInv, WholeKeys
<1>5. got \in Seq(Key) /\ Len(got) = n /\ n \in Nat /\ (n = 0 <=> got = << >>)
  <2>1. got \in Seq(Key) /\ Len(got) = n /\ n \in Nat
    BY <1>2, <1>4, CountFirst
  <2> QED BY <2>1
<1>6. f \o got \in Seq(Key) /\ (f = << >> => f \o got = got) /\ (got = << >> => f \o got = f)
      /\ (got # << >> => f \o got # << >>)
  BY <1>3, <1>5
<1>7. got # << >> => Summarize(got) \in Summary /\ ByBlocks(got, BlockSize) = Summarize(got)
  BY <1>5, JobAssumption, Verdict, BlocksMakeNoDifference
<1>8. sums' \in Seq(Summary) /\ Len(sums') <= Len(sums) + 1 /\ Len(sums) \in Nat
  <2>1. sums \in Seq(Summary)
    BY DEF JobInv, Typed
  <2>2. CASE n = 0
    BY <1>2, <2>1, <2>2
  <2>3. CASE n # 0
    <3>1. sums' = Append(sums, Summarize(got)) /\ Summarize(got) \in Summary
      BY <1>2, <1>5, <1>7, <2>3
    <3> QED BY <2>1, <3>1
  <2> QED BY <2>2, <2>3
<1>9. failures' \in 0 .. MaxFailures
  BY <1>2, JobAssumption DEF JobInv, Typed
<1>10. next' \in 1 .. NumParts + 1 /\ Len(sums') < next'
  BY <1>1, <1>8, JobAssumption DEF JobInv, Typed, Part
<1>11. Typed'
  BY <1>1, <1>2, <1>3, <1>6, <1>8, <1>9, <1>10 DEF JobInv, Typed
<1>12. \A p \in Part : WholeKeys(p)' /\ KeysLeft(p)' = {}
  BY <1>1, PartStays, SameKeysLeft DEF JobInv
<1>13. \A k \in Key : /\ Count(f \o got, k) <= Total(k)
                      /\ place[k] >= next' => Count(f \o got, k) = 0
  <2> SUFFICES ASSUME NEW k \in Key
               PROVE  /\ Count(f \o got, k) <= Total(k)
                      /\ place[k] >= next + 1 => Count(f \o got, k) = 0
    BY <1>1
  <2>1. Count(f \o got, k) = Count(f, k) + Count(got, k)
    BY <1>3, <1>5, CountConcat
  <2>2. /\ Count(f, k) \in Nat /\ Count(f, k) <= Total(k)
        /\ place[k] >= next => Count(f, k) = 0
    BY <1>1, <1>3, CountIsNat DEF JobInv, NotTwice
  <2>3. Count(got, k) \in Nat /\ Count(got, k) <= Count(s, k) /\ Count(s, k) \in Nat
    BY <1>2, <1>4, CountFirst, CountIsNat
  <2>4. Count(s, k) <= Total(k) /\ (place[k] # next => Count(s, k) = 0)
    BY <1>1, <1>2, <1>4, CountInPart
  <2>5. place[k] \in Nat /\ next \in Nat /\ Total(k) \in Nat
    <3>1. place[k] \in Part /\ next \in 1 .. NumParts + 1 /\ NumParts \in Nat
      BY JobAssumption DEF JobInv, Typed
    <3>2. place[k] \in Nat /\ next \in Nat
      BY <3>1 DEF Part
    <3>3. Total(k) \in Nat
      BY TotalIsNat
    <3> QED BY <3>2, <3>3
  <2>6. CASE place[k] = next
    BY <2>1, <2>2, <2>3, <2>4, <2>5, <2>6
  <2>7. CASE place[k] # next
    BY <2>1, <2>2, <2>3, <2>4, <2>5, <2>7
  <2> QED BY <2>6, <2>7
<1>14. NotTwice'
  <2>1. \A k \in Key : Count(fetched', k) <= Total(k)'
    BY <1>1, <1>2, <1>3, <1>13, SameTotal
  <2>2. \A k \in Key : place'[k] >= next' => Count(fetched', k) = 0
    BY <1>1, <1>2, <1>3, <1>13
  <2> QED BY <2>1, <2>2 DEF NotTwice, Count
<1>15. IF fetched' = << >> THEN sums' = << >>
       ELSE sums' # << >> /\ SumSummaries(sums') = Summarize(fetched')
  <2>1. IF f = << >> THEN sums = << >> ELSE sums # << >> /\ SumSummaries(sums) = Summarize(f)
    BY <1>1, <1>3 DEF JobInv, SumSoFar
  <2>2. CASE got = << >>
    BY <1>2, <1>3, <1>5, <1>6, <2>1, <2>2
  <2>3. CASE got # << >>
    <3>1. sums' = Append(sums, Summarize(got)) /\ fetched' = f \o got /\ fetched' # << >>
      BY <1>2, <1>3, <1>5, <1>6, <1>7, <2>3
    <3>2. /\ SumSummaries(sums') = IF sums = << >> THEN Summarize(got)
                                   ELSE NextSummary(SumSummaries(sums), Summarize(got))
          /\ sums' # << >>
      <4>1. sums \in Seq(Summary)
        BY DEF JobInv, Typed
      <4> QED BY <1>7, <2>3, <3>1, <4>1, SumAppend
    <3>3. CASE f = << >>
      BY <1>6, <2>1, <3>1, <3>2, <3>3
    <3>4. CASE f # << >>
      <4>1. Summarize(f \o got) = NextSummary(Summarize(f), Summarize(got))
        BY <1>3, <1>5, <2>3, <3>4, TwoParts
      <4> QED BY <2>1, <3>1, <3>2, <3>4, <4>1
    <3> QED BY <3>3, <3>4
  <2> QED BY <2>2, <2>3
<1>16. SumSoFar'
  BY <1>1, <1>15 DEF JobInv, SumSoFar
<1> QED BY <1>1, <1>11, <1>12, <1>14, <1>16 DEF JobInv

LEMMA StepJob == JobInv /\ [Next]_vars => JobInv'
<1> SUFFICES ASSUME JobInv, [Next]_vars PROVE JobInv'
  OBVIOUS
<1>1. CASE ValidateInput BY <1>1, InputStep
<1>2. CASE StartJob BY <1>2, StartStep
<1>3. CASE TaskFails BY <1>3, FailStep
<1>4. CASE CommitJob BY <1>4, CommitStep
<1>5. CASE ValidatePart BY <1>5, PartStep
<1>6. CASE ValidateSums BY <1>6, SumsStep
<1>7. CASE \E r \in Rec : MapLine(r) BY <1>7, MapStep
<1>8. CASE \E p \in Part : ReduceKey(p) BY <1>8, ReduceStep
<1>9. CASE UNCHANGED vars
  <2>1. UNCHANGED <<input, place, mapped, part, status, next, fetched, sums, summary, failures>>
    BY <1>9 DEF vars
  <2>2. Typed' /\ \A p \in Part : WholeKeys(p)' /\ KeysLeft(p)' = KeysLeft(p)
    BY <2>1, PartStays, SameKeysLeft DEF JobInv, Typed
  <2>3. NotTwice'
    <3>1. \A k \in Key : Count(fetched', k) <= Total(k)'
      BY <2>1, SameTotal DEF JobInv, NotTwice
    <3>2. status' = "committed" => \A k \in Key : place'[k] >= next' => Count(fetched', k) = 0
      BY <2>1 DEF JobInv, NotTwice
    <3> QED BY <3>1, <3>2 DEF NotTwice, Count
  <2>4. SumSoFar'
    BY <2>1 DEF JobInv, SumSoFar
  <2> QED BY <2>1, <2>2, <2>3, <2>4 DEF JobInv
<1> QED BY <1>1, <1>2, <1>3, <1>4, <1>5, <1>6, <1>7, <1>8, <1>9 DEF Next, Checked

(* The job and the script keep the invariant: whichever tasks are run      *)
(* again, whatever comes of a part through the pipe.                       *)
THEOREM JobInvariant == Spec => []JobInv
BY InitJob, StepJob, PTL DEF Spec

-----------------------------------------------------------------------------
(***************************************************************************)
(* The output                                                              *)
(***************************************************************************)
(* flat[n] is the first n parts, one after the other. *)
Flat(flat) == /\ flat \in [Part -> Seq(Key)]
              /\ \A n \in Part : flat[n] = IF n = 1 THEN part[1] ELSE flat[n - 1] \o part[n]

LEMMA OutputIsFlat ==
  ASSUME Typed
  PROVE  \E flat : Flat(flat) /\ Output = flat[NumParts]
<1> DEFINE flatten[i \in 1 .. Len(part)] == IF i = 1 THEN part[i] ELSE flatten[i - 1] \o part[i]
           F == [n \in Part |-> [s \in Seq(Key) |-> s \o part[n]]]
<1>1. /\ part \in [1 .. NumParts -> Seq(Key)] /\ NumParts \in Nat \ {0}
      /\ Len(part) = NumParts /\ Part = 1 .. NumParts
  BY JobAssumption DEF Typed, Part
<1>2. Output = IF Len(part) = 0 THEN part ELSE flatten[Len(part)]
  BY DEF Output, Seqs!FlattenSeq
<1>3. PICK g \in [1 .. NumParts -> Seq(Key)] : Follows(g, NumParts, part[1], F)
  <2> DEFINE a == part[1]
  <2>1. a \in Seq(Key) /\ F \in [1 .. NumParts -> [Seq(Key) -> Seq(Key)]]
    BY <1>1
  <2> HIDE DEF F, a
  <2>2. \E g \in [1 .. NumParts -> Seq(Key)] : Follows(g, NumParts, a, F)
    BY <1>1, <2>1, Recursion
  <2> QED BY <2>2 DEF a
<1>4. ASSUME NEW n \in 1 .. NumParts
      PROVE  g[n] = IF n = 1 THEN part[n] ELSE g[n - 1] \o part[n]
  <2>1. n # 1 => n - 1 \in 1 .. NumParts
    BY <1>1
  <2>2. n # 1 => F[n][g[n - 1]] = g[n - 1] \o part[n]
    BY <1>1, <2>1
  <2> QED BY <1>3, <2>2 DEF Follows
<1>5. g = [n \in 1 .. Len(part) |-> IF n = 1 THEN part[n] ELSE g[n - 1] \o part[n]]
  BY <1>1, <1>4
<1>6. flatten = [n \in 1 .. Len(part) |-> IF n = 1 THEN part[n] ELSE flatten[n - 1] \o part[n]]
  BY <1>5 DEF flatten
<1> HIDE DEF flatten, F
<1>7. \A n \in 1 .. NumParts : flatten[n] = g[n]
  <2> DEFINE S == { n \in 1 .. NumParts : flatten[n] = g[n] }
  <2>1. 1 \in S
    BY <1>1, <1>4, <1>6
  <2>2. ASSUME NEW n \in 1 .. NumParts - 1, n \in S PROVE n + 1 \in S
    <3>1. n + 1 \in 1 .. NumParts /\ n + 1 # 1 /\ (n + 1) - 1 = n
      BY <1>1
    <3>2. flatten[n + 1] = flatten[n] \o part[n + 1]
      BY <1>1, <1>6, <3>1
    <3>3. g[n + 1] = g[n] \o part[n + 1]
      BY <1>4, <3>1
    <3> QED BY <2>2, <3>1, <3>2, <3>3
  <2>3. \A n \in 1 .. NumParts : n \in S
    <3> HIDE DEF S
    <3> QED BY <1>1, <2>1, <2>2, OneAfterAnother
  <2> QED BY <2>3
<1>8. Flat(g) /\ Output = g[NumParts]
  <2>1. \A n \in Part : g[n] = IF n = 1 THEN part[1] ELSE g[n - 1] \o part[n]
    BY <1>1, <1>4
  <2>2. Output = flatten[NumParts] /\ flatten[NumParts] = g[NumParts]
    BY <1>1, <1>2, <1>7
  <2> QED BY <1>1, <2>1, <2>2 DEF Flat
<1> QED BY <1>8

(* Every key is in one part, and there as often as in the input. *)
LEMMA WholeParts ==
  ASSUME JobInv, status = "committed", NEW p \in Part, NEW k \in Key
  PROVE  Count(part[p], k) = IF place[k] = p THEN Total(k) ELSE 0
<1>1. /\ WholeKeys(p) /\ mapped = Rec /\ KeysLeft(p) = {}
      /\ Count(part[p], k) <= Total(k) /\ (place[k] # p => Count(part[p], k) = 0)
  BY CountInPart DEF JobInv
<1>2. PICK s : s = part[p] /\ s \in Seq(Key)
  BY <1>1 DEF WholeKeys
<1>3. Count(s, k) \in Nat /\ Total(k) \in Nat
  BY <1>2, CountIsNat, TotalIsNat
<1>4. CASE place[k] = p /\ Total(k) # 0
  <2>1. Values(k) # {}
    BY <1>1, <1>4, TotalIsNat DEF Values
  <2>2. PICK i \in DOMAIN s : ~ (s[i] < k)
    BY <1>1, <1>2, <1>4, <2>1 DEF KeysLeft
  <2>3. k <= s[i]
    BY <1>2, <2>2, JobAssumption
  <2>4. PICK j \in DOMAIN s : s[j] = k
    BY <1>1, <1>2, <1>4, <2>3 DEF WholeKeys
  <2> QED BY <1>1, <1>2, <1>4, <2>4 DEF WholeKeys
<1>5. CASE place[k] = p /\ Total(k) = 0
  BY <1>1, <1>2, <1>3, <1>5
<1>6. CASE place[k] # p
  BY <1>1, <1>6
<1> QED BY <1>4, <1>5, <1>6

LEMMA CountFlat ==
  ASSUME JobInv, status = "committed", NEW flat, Flat(flat), NEW k \in Key
  PROVE  \A n \in Part : Count(flat[n], k) = IF place[k] <= n THEN Total(k) ELSE 0
<1> DEFINE S == { n \in Part : Count(flat[n], k) = IF place[k] <= n THEN Total(k) ELSE 0 }
<1>1. /\ NumParts \in Nat \ {0} /\ Part = 1 .. NumParts /\ place[k] \in 1 .. NumParts
      /\ Total(k) \in Nat /\ part \in [Part -> Seq(Key)]
  BY JobAssumption, TotalIsNat DEF JobInv, Typed, Part
<1>2. 1 \in S
  <2>1. 1 \in Part /\ flat[1] = part[1] /\ (place[k] <= 1 <=> place[k] = 1)
    BY <1>1 DEF Flat
  <2>2. Count(part[1], k) = IF place[k] = 1 THEN Total(k) ELSE 0
    BY <2>1, WholeParts
  <2> QED BY <2>1, <2>2
<1>3. ASSUME NEW n \in 1 .. NumParts - 1, n \in S PROVE n + 1 \in S
  <2>1. n \in Part /\ n + 1 \in Part /\ n + 1 # 1 /\ (n + 1) - 1 = n
    BY <1>1
  <2>2. flat[n + 1] = flat[n] \o part[n + 1] /\ flat[n] \in Seq(Key) /\ part[n + 1] \in Seq(Key)
    BY <1>1, <2>1 DEF Flat
  <2>3. Count(flat[n + 1], k) = Count(flat[n], k) + Count(part[n + 1], k)
    BY <2>2, CountConcat
  <2>4. Count(part[n + 1], k) = IF place[k] = n + 1 THEN Total(k) ELSE 0
    BY <2>1, WholeParts
  <2>5. Count(flat[n], k) = IF place[k] <= n THEN Total(k) ELSE 0
    BY <1>3
  <2>6. Count(flat[n + 1], k) = IF place[k] <= n + 1 THEN Total(k) ELSE 0
    BY <1>1, <2>3, <2>4, <2>5
  <2> QED BY <2>1, <2>6
<1>4. \A n \in 1 .. NumParts : n \in S
  <2> HIDE DEF S
  <2> QED BY <1>1, <1>2, <1>3, OneAfterAnother
<1> QED BY <1>1, <1>4

(* Sorted sequences whose border is in order are one sorted sequence. *)
LEMMA SortedConcat ==
  ASSUME NEW a \in Seq(Key), NEW b \in Seq(Key), IsSorted(a, 1, Len(a)), IsSorted(b, 1, Len(b)),
         \A i \in DOMAIN a, j \in DOMAIN b : a[i] <= b[j]
  PROVE  IsSorted(a \o b, 1, Len(a \o b))
<1> DEFINE c  == a \o b
           la == Len(a)
           lb == Len(b)
<1>1. /\ la \in Nat /\ lb \in Nat /\ Len(c) = la + lb
      /\ DOMAIN a = 1 .. la /\ DOMAIN b = 1 .. lb
      /\ \A i \in 1 .. la + lb : c[i] = IF i <= la THEN a[i] ELSE b[i - la]
  BY ConcatProperties
<1> HIDE DEF c, la, lb
<1>2. (\A i \in 2 .. la : a[i - 1] <= a[i]) /\ (\A i \in 2 .. lb : b[i - 1] <= b[i])
  BY DEF IsSorted, la, lb
<1>3. ASSUME NEW i \in 2 .. la + lb PROVE c[i - 1] <= c[i]
  <2>1. i \in 1 .. la + lb /\ i - 1 \in 1 .. la + lb
    BY <1>1
  <2>2. CASE i <= la
    <3>1. c[i] = a[i] /\ c[i - 1] = a[i - 1] /\ i \in 2 .. la
      BY <1>1, <2>1, <2>2
    <3> QED BY <1>2, <3>1
  <2>3. CASE i = la + 1
    <3>1. c[i] = b[1] /\ c[i - 1] = a[la] /\ 1 \in 1 .. lb /\ la \in 1 .. la
      BY <1>1, <2>1, <2>3
    <3> QED BY <1>1, <3>1
  <2>4. CASE i > la + 1
    <3>1. c[i] = b[i - la] /\ c[i - 1] = b[(i - la) - 1] /\ i - la \in 2 .. lb
      BY <1>1, <2>1, <2>4
    <3> QED BY <1>2, <3>1
  <2> QED BY <1>1, <2>2, <2>3, <2>4
<1> QED BY <1>1, <1>3 DEF IsSorted, c

LEMMA InConcat ==
  ASSUME NEW a \in Seq(Key), NEW b \in Seq(Key), NEW i \in DOMAIN (a \o b)
  PROVE  (\E x \in DOMAIN a : (a \o b)[i] = a[x]) \/ (\E y \in DOMAIN b : (a \o b)[i] = b[y])
<1> DEFINE la == Len(a)
           lb == Len(b)
           c  == a \o b
<1>1. /\ la \in Nat /\ lb \in Nat /\ DOMAIN c = 1 .. la + lb
      /\ DOMAIN a = 1 .. la /\ DOMAIN b = 1 .. lb
      /\ \A x \in 1 .. la + lb : c[x] = IF x <= la THEN a[x] ELSE b[x - la]
  BY ConcatProperties
<1>2. i \in DOMAIN c
  OBVIOUS
<1> HIDE DEF la, lb, c
<1>3. i \in 1 .. la \/ (i - la \in 1 .. lb /\ ~ (i <= la))
  <2>1. la \in Nat /\ lb \in Nat /\ i \in 1 .. la + lb
    BY <1>1, <1>2
  <2> QED BY <2>1
<1> QED BY <1>1, <1>2, <1>3 DEF c

LEMMA FlatIsSorted ==
  ASSUME JobInv, status = "committed", Ranged, NEW flat, Flat(flat)
  PROVE  \A n \in Part : IsSorted(flat[n], 1, Len(flat[n]))
<1> DEFINE S == { n \in Part : /\ IsSorted(flat[n], 1, Len(flat[n]))
                               /\ \A i \in DOMAIN flat[n] : place[flat[n][i]] <= n }
<1>1. /\ NumParts \in Nat \ {0} /\ Part = 1 .. NumParts
      /\ place \in [Key -> Part] /\ part \in [Part -> Seq(Key)]
  BY JobAssumption DEF JobInv, Typed, Part
<1>2. \A p \in Part : /\ IsSorted(part[p], 1, Len(part[p]))
                      /\ \A i \in DOMAIN part[p] : place[part[p][i]] = p
  BY DEF JobInv, WholeKeys
<1>3. 1 \in S
  <2>1. 1 \in Part /\ flat[1] = part[1]
    BY <1>1 DEF Flat
  <2> QED BY <1>2, <2>1
<1>4. ASSUME NEW n \in 1 .. NumParts - 1, n \in S PROVE n + 1 \in S
  <2>1. n \in Part /\ n + 1 \in Part /\ n + 1 # 1 /\ (n + 1) - 1 = n
    BY <1>1
  <2>2. PICK a, b : /\ a = flat[n] /\ a \in Seq(Key) /\ b = part[n + 1] /\ b \in Seq(Key)
                    /\ flat[n + 1] = a \o b
    <3>1. flat[n] \in Seq(Key) /\ part[n + 1] \in Seq(Key) /\ flat[n + 1] = flat[n] \o part[n + 1]
      BY <1>1, <2>1 DEF Flat
    <3> QED BY <3>1
  <2>3. /\ IsSorted(a, 1, Len(a)) /\ \A i \in DOMAIN a : place[a[i]] <= n
        /\ IsSorted(b, 1, Len(b)) /\ \A j \in DOMAIN b : place[b[j]] = n + 1
    BY <1>2, <1>4, <2>1, <2>2
  <2>4. ASSUME NEW i \in DOMAIN a, NEW j \in DOMAIN b PROVE a[i] <= b[j]
    <3>1. a[i] \in Key /\ b[j] \in Key /\ a[i] \in Int /\ b[j] \in Int
      <4>1. a[i] \in Key /\ b[j] \in Key
        BY <2>2
      <4> QED BY <4>1, JobAssumption
    <3>2. ~ (place[b[j]] <= place[a[i]])
      BY <1>1, <2>1, <2>3, <3>1
    <3>3. ~ (b[j] < a[i])
      BY <3>1, <3>2 DEF Ranged
    <3> QED BY <3>1, <3>3
  <2>5. IsSorted(a \o b, 1, Len(a \o b))
    BY <2>2, <2>3, <2>4, SortedConcat
  <2>6. ASSUME NEW i \in DOMAIN (a \o b) PROVE place[(a \o b)[i]] <= n + 1
    <3>1. CASE \E x \in DOMAIN a : (a \o b)[i] = a[x]
      <4>1. PICK x \in DOMAIN a : (a \o b)[i] = a[x]
        BY <3>1
      <4>2. a[x] \in Key
        BY <2>2
      <4>3. place[a[x]] <= n /\ place[a[x]] \in 1 .. NumParts
        BY <1>1, <2>3, <4>2
      <4> QED BY <4>1, <4>3
    <3>2. CASE \E y \in DOMAIN b : (a \o b)[i] = b[y]
      BY <2>3, <3>2
    <3> QED BY <2>2, <3>1, <3>2, InConcat
  <2> QED BY <2>1, <2>2, <2>5, <2>6
<1>5. \A n \in 1 .. NumParts : n \in S
  <2> HIDE DEF S
  <2> QED BY <1>1, <1>3, <1>4, OneAfterAnother
<1> QED BY <1>1, <1>5

(* JobSorts: what a committed job has written is its input, and sorted if  *)
(* the parts are ranges of keys.                                           *)
THEOREM JobsSort == Spec => []JobSorts
<1>1. JobInv => JobSorts
  <2> SUFFICES ASSUME JobInv, status = "committed"
               PROVE  /\ \A k \in Key : Count(Output, k) = Total(k)
                      /\ \A p \in Part : IsSorted(part[p], 1, Len(part[p]))
                      /\ Ranged => IsSorted(Output, 1, Len(Output))
    BY CountInput DEF JobSorts, JobInv
  <2>1. PICK flat : Flat(flat) /\ Output = flat[NumParts]
    BY OutputIsFlat DEF JobInv
  <2>2. NumParts \in Part /\ \A k \in Key : place[k] <= NumParts
    BY JobAssumption DEF JobInv, Typed, Part
  <2>3. \A k \in Key : Count(Output, k) = Total(k)
    BY <2>1, <2>2, CountFlat
  <2>4. Ranged => IsSorted(Output, 1, Len(Output))
    BY <2>1, <2>2, FlatIsSorted
  <2>5. \A p \in Part : IsSorted(part[p], 1, Len(part[p]))
    BY DEF JobInv, WholeKeys
  <2> QED BY <2>3, <2>4, <2>5
<1> QED BY <1>1, JobInvariant, PTL

-----------------------------------------------------------------------------
(***************************************************************************)
(* No sequence is longer than the input                                    *)
(***************************************************************************)
(* A set that is not larger fits into the other. *)
LEMMA Fits ==
  ASSUME NEW S, NEW T, IsFiniteSet(S), IsFiniteSet(T), Cardinality(S) <= Cardinality(T)
  PROVE  \E f \in [S -> T] : \A x, y \in S : f[x] = f[y] => x = y
<1> DEFINE m == Cardinality(S)
           n == Cardinality(T)
<1>1. /\ m \in Nat /\ n \in Nat
      /\ ExistsBijection(1 .. m, S) /\ ExistsBijection(1 .. n, T)
  BY FS_CardinalityType
<1> HIDE DEF m, n
<1>2. ExistsInjection(S, 1 .. m) /\ ExistsInjection(1 .. n, T)
  BY <1>1, Fun_ExistsBijEquiv
<1>3. ExistsInjection(1 .. m, 1 .. n)
  BY <1>1, Fun_NatInjLeq DEF m, n
<1>4. ExistsInjection(S, T)
  BY <1>2, <1>3, Fun_ExistsInjTransitive
<1>5. PICK f : f \in Injection(S, T)
  BY <1>4 DEF ExistsInjection
<1> QED BY <1>5, Fun_InjectionProperties

(* Records that are not more, key by key, than those of the input. *)
LEMMA NotLonger ==
  ASSUME Typed, NEW s \in Seq(Key), \A k \in Key : Count(s, k) <= Total(k)
  PROVE  SeqOfKeys(s)
<1> DEFINE At(k) == { i \in DOMAIN s : s[i] = k }
           In(k) == { r \in Rec : input[r] = k }
           OneToOne(f, k) == f \in [At(k) -> In(k)] /\ \A x, y \in At(k) : f[x] = f[y] => x = y
           F(k) == CHOOSE f : OneToOne(f, k)
           e == [i \in DOMAIN s |-> F(s[i])[i]]
<1>1. Len(s) \in Nat /\ DOMAIN s = 1 .. Len(s) /\ \A i \in DOMAIN s : s[i] \in Key
  OBVIOUS
<1>2. ASSUME NEW k \in Key PROVE OneToOne(F(k), k)
  <2>1. IsFiniteSet(At(k)) /\ IsFiniteSet(In(k)) /\ Cardinality(At(k)) <= Cardinality(In(k))
    BY CountIsNat, TotalIsNat DEF Count, Total
  <2> HIDE DEF At, In
  <2>2. \E f : OneToOne(f, k)
    BY <2>1, Fits
  <2> HIDE DEF OneToOne
  <2> QED BY <2>2
<1> HIDE DEF F
<1>3. ASSUME NEW i \in DOMAIN s PROVE e[i] \in Rec /\ input[e[i]] = s[i] /\ i \in At(s[i])
  <2>1. i \in At(s[i]) /\ OneToOne(F(s[i]), s[i])
    BY <1>1, <1>2
  <2>2. e[i] \in In(s[i])
    BY <2>1
  <2> QED BY <2>1, <2>2
<1>4. ASSUME NEW i \in DOMAIN s, NEW j \in DOMAIN s, e[i] = e[j] PROVE i = j
  <2>1. s[i] = s[j] /\ i \in At(s[i]) /\ j \in At(s[i])
    BY <1>3, <1>4
  <2>2. F(s[i])[i] = F(s[i])[j] /\ OneToOne(F(s[i]), s[i])
    BY <1>1, <1>2, <1>4, <2>1
  <2> QED BY <2>1, <2>2
<1> HIDE DEF e
<1>5. e \in Injection(DOMAIN s, Rec)
  <2>1. e \in [DOMAIN s -> Rec]
    BY <1>3 DEF e
  <2> QED BY <1>4, <2>1, Fun_IsInj
<1>6. Cardinality(DOMAIN s) <= NumRecs
  <2>1. IsFiniteSet(Rec) /\ Cardinality(Rec) = NumRecs
    <3>1. Total(0) \in Nat /\ IsFiniteSet(Rec) /\ Cardinality(Rec) = NumRecs
      BY TotalIsNat
    <3> QED BY <3>1
  <2> QED BY <1>5, <2>1, FS_Injection
<1>7. Cardinality(DOMAIN s) = Len(s)
  <2>1. Cardinality(1 .. Len(s)) = IF 1 > Len(s) THEN 0 ELSE Len(s) - 1 + 1
    BY <1>1, FS_Interval
  <2> QED BY <1>1, <2>1
<1> QED BY <1>1, <1>6, <1>7 DEF SeqOfKeys

(* As many records as the input has, none of them more often than there:  *)
(* those of the input.  Another record would make them too many.           *)
LEMMA AllThere ==
  ASSUME Typed, NEW s \in Seq(Key), \A k \in Key : Count(s, k) <= Total(k), Len(s) = NumRecs,
         NEW j \in Key
  PROVE  Count(s, j) = Total(j)
<1> SUFFICES ASSUME Count(s, j) # Total(j) PROVE FALSE
  OBVIOUS
<1> DEFINE one == [i \in 1 .. 1 |-> j]
           t == s \o one
<1>1. one \in Seq(Key) /\ Len(one) = 1 /\ Count(one, j) = 1 /\ \A k : k # j => Count(one, k) = 0
  <2>1. 1 \in Nat
    OBVIOUS
  <2> QED BY <2>1, CountRows
<1> HIDE DEF one
<1>2. t \in Seq(Key) /\ Len(t) = NumRecs + 1
  BY <1>1, JobAssumption, ConcatProperties
<1>3. ASSUME NEW k \in Key PROVE Count(t, k) <= Total(k)
  <2>1. Count(t, k) = Count(s, k) + Count(one, k)
    BY <1>1, CountConcat
  <2>2. Count(s, k) \in Nat /\ Total(k) \in Nat /\ Count(s, k) <= Total(k)
    BY CountIsNat, TotalIsNat
  <2> QED BY <1>1, <2>1, <2>2
<1> HIDE DEF t
<1>4. Len(t) <= NumRecs
  BY <1>2, <1>3, NotLonger DEF SeqOfKeys
<1> QED BY <1>2, <1>4, JobAssumption

(* SummaryExact: valsort's summaries of the parts, by blocks, add up to the*)
(* summary of all that it was given, say success only of sorted records,   *)
(* and count as many records as were generated only if all were judged.    *)
THEOREM SummariesAreExact == Spec => []SummaryExact
<1>1. JobInv => SummaryExact
  <2> SUFFICES ASSUME JobInv, status = "checked", fetched # << >>
               PROVE  /\ summary = Summarize(fetched)
                      /\ summary.unordered_count = 0 <=> IsSorted(fetched, 1, Len(fetched))
                      /\ summary.rec_count = NumRecs =>
                           \A k \in Key : Count(fetched, k) = Count(input, k)
    BY DEF JobInv, SumSoFar, SummaryExact
  <2>1. summary = Summarize(fetched) /\ fetched \in Seq(Key)
    BY DEF JobInv, SumSoFar, Typed
  <2>2. /\ summary.rec_count = Len(fetched)
        /\ summary.unordered_count = 0 <=> IsSorted(fetched, 1, Len(fetched))
    BY <2>1, Verdict
  <2>3. Len(fetched) = NumRecs => \A k \in Key : Count(fetched, k) = Total(k)
    BY <2>1, AllThere DEF JobInv, NotTwice
  <2> QED BY <2>1, <2>2, <2>3, CountInput DEF JobInv
<1> QED BY <1>1, JobInvariant, PTL

(* Parts, and what valsort reads, never have more records than the input;  *)
(* there is at most one summary for every part that has been validated.    *)
THEOREM JobTyped == Spec => []TypeOK
<1>1. JobInv => TypeOK
  <2> SUFFICES ASSUME JobInv PROVE TypeOK
    OBVIOUS
  <2>1. ASSUME NEW p \in Part PROVE SeqOfKeys(part[p])
    <3>1. part[p] \in Seq(Key) /\ \A k \in Key : Count(part[p], k) <= Total(k)
      BY CountInPart DEF JobInv, WholeKeys
    <3> QED BY <3>1, NotLonger DEF JobInv
  <2>2. SeqOfKeys(fetched)
    BY NotLonger DEF JobInv, Typed, NotTwice
  <2>3. summary # None => summary.rec_count \in Rec
    <3> SUFFICES ASSUME summary # None PROVE summary.rec_count \in Rec
      OBVIOUS
    <3>1. fetched # << >> /\ fetched \in Seq(Key) /\ summary = Summarize(fetched)
      BY DEF JobInv, Typed, SumSoFar
    <3>2. summary.rec_count = Len(fetched) /\ Len(fetched) \in 1 .. NumRecs
      BY <2>2, <3>1, Verdict, JobAssumption DEF SeqOfKeys
    <3> QED BY <3>2 DEF Rec
  <2> QED BY <2>1, <2>2, <2>3 DEF JobInv, Typed, TypeOK
<1> QED BY <1>1, JobInvariant, PTL

=============================================================================
