-------------------------- MODULE Partition_proofs --------------------------
(***************************************************************************)
(* The partitioning loop keeps its contract for buffers of every length    *)
(* and with every content.                                                 *)
(***************************************************************************)
EXTENDS Partition, TLAPS

(* Where the records are when the loop has come to rec. *)
Split == /\ q <= rec
         /\ pivot < q \/ pivot >= rec
         /\ \A p \in 1 .. q - 1 : buf[p] <= buf[pivot]
         /\ \A p \in q .. rec - 1 : buf[p] > buf[pivot]

(* The same when it has come to the end. *)
SplitAll == /\ pivot <= q
            /\ \A p \in 1 .. q : buf[p] <= buf[pivot]
            /\ \A p \in q + 1 .. N : buf[p] > buf[pivot]

PartInv == /\ TypeOK
           /\ Rearranged(orig, buf)
           /\ pc = "start" => q = 1 /\ rec = 1
           /\ pc = "scan" => Split
           /\ pc = "move" => SplitAll
           /\ pc = "done" => IsPartition(buf, 1, N, q)

(* Swapping two records of a buffer. *)
LEMMA SwapFacts ==
  ASSUME NEW b \in [Pos -> Key], NEW x \in Pos, NEW y \in Pos
  PROVE  /\ Swapped(b, x, y) \in [Pos -> Key]
         /\ Swapped(b, x, y)[x] = b[y]
         /\ Swapped(b, x, y)[y] = b[x]
         /\ \A p \in Pos \ {x, y} : Swapped(b, x, y)[p] = b[p]
BY DEF Swapped

LEMMA SwapRearranges ==
  ASSUME NEW a \in [Pos -> Key], NEW b \in [Pos -> Key], Rearranged(a, b),
         NEW x \in Pos, NEW y \in Pos
  PROVE  Rearranged(a, Swapped(b, x, y))
<1>1. PICK g \in Perms(Pos) : b = Shuffle(a, Pos, g)
  BY DEF Rearranged
<1>2. g \in [Pos -> Pos] /\ (\A n \in Pos : \E m \in Pos : g[m] = n)
      /\ \A p \in Pos : b[p] = a[g[p]]
  BY <1>1 DEF Perms, Shuffle
<1> DEFINE h == [g EXCEPT ![x] = g[y], ![y] = g[x]]
<1>3. h \in Perms(Pos)
  <2>1. h \in [Pos -> Pos]
    BY <1>2
  <2>2. ASSUME NEW n \in Pos PROVE \E m \in Pos : h[m] = n
    <3>1. PICK m \in Pos : g[m] = n
      BY <1>2
    <3>2. h[x] = g[y] /\ h[y] = g[x] /\ (m \notin {x, y} => h[m] = g[m])
      BY <1>2
    <3> QED BY <3>1, <3>2
  <2> QED BY <2>1, <2>2 DEF Perms
<1>4. Swapped(b, x, y) = Shuffle(a, Pos, h)
  BY <1>2 DEF Swapped, Shuffle
<1> QED BY <1>3, <1>4 DEF Rearranged

(* A buffer is a rearrangement of itself. *)
LEMMA RearrangedSelf == ASSUME NEW a \in [Pos -> Key] PROVE Rearranged(a, a)
<1> DEFINE id == [p \in Pos |-> p]
<1>1. id \in Perms(Pos) /\ a = Shuffle(a, Pos, id)
  BY DEF Perms, Shuffle
<1> QED BY <1>1 DEF Rearranged

LEMMA KeysAreIntegers == TypeOK => \A p \in Pos : buf[p] \in Int
BY BufferAssumption DEF TypeOK

LEMMA InitPartition == Init => PartInv
<1>. SUFFICES ASSUME Init PROVE PartInv
  OBVIOUS
<1>1. TypeOK
  BY BufferAssumption DEF Init, TypeOK, Pos
<1>2. Rearranged(orig, buf)
  BY RearrangedSelf DEF Init
<1>. QED  BY <1>1, <1>2 DEF Init, PartInv

LEMMA StartKeeps == PartInv /\ (AlreadySorted \/ PickPivot) => PartInv'
BY BufferAssumption DEF PartInv, AlreadySorted, PickPivot, TypeOK, Split, Pos

(* A record that is not greater than the pivot changes places with the one *)
(* at q, the first of those that are.                                      *)
LEMMA ScanSwapKeeps == PartInv /\ (ScanLess \/ ScanEqual) => PartInv'
<1>. SUFFICES ASSUME PartInv, ScanLess \/ ScanEqual PROVE PartInv'
  OBVIOUS
<1>1. /\ TypeOK /\ Split /\ pc = "scan" /\ rec <= N
      /\ buf' = Swapped(buf, rec, q) /\ q' = q + 1 /\ rec' = rec + 1
      /\ pc' = pc /\ orig' = orig
  BY DEF PartInv, ScanLess, ScanEqual, PivotPlace
<1>2. /\ q \in Pos /\ rec \in Pos /\ pivot \in Pos /\ q <= rec
      /\ q' \in 1 .. N + 1 /\ rec' \in 1 .. N + 1
  BY <1>1, BufferAssumption DEF TypeOK, Split, Pos
<1>3. buf \in [Pos -> Key] /\ \A p \in Pos : buf[p] \in Int
  BY <1>1, KeysAreIntegers DEF TypeOK
<1>4. /\ buf' \in [Pos -> Key]
      /\ buf'[rec] = buf[q] /\ buf'[q] = buf[rec]
      /\ \A p \in Pos \ {rec, q} : buf'[p] = buf[p]
  BY <1>1, <1>2, <1>3, SwapFacts
<1>5. buf[rec] <= buf[pivot] /\ (q < rec => buf[q] > buf[pivot])
  <2>1. buf[rec] < buf[pivot] \/ buf[rec] = buf[pivot]
    BY DEF ScanLess, ScanEqual, PivotPlace
  <2>2. q < rec => q \in q .. rec - 1
    BY <1>2, BufferAssumption DEF Pos
  <2>. QED  BY <1>1, <1>2, <1>3, <2>1, <2>2 DEF Split
<1>6. /\ pivot' \in Pos /\ buf'[pivot'] = buf[pivot]
      /\ pivot' < q' \/ pivot' >= rec'
  <2>1. CASE ScanLess
    <3>1. pivot' = pivot /\ pivot # rec
      BY <1>2, <1>3, <2>1 DEF ScanLess
    <3>2. pivot # q
      BY <1>1, <1>2, <3>1 DEF Split, Pos
    <3>. QED  BY <1>1, <1>2, <1>4, <3>1, <3>2 DEF Split, Pos
  <2>2. CASE ScanEqual
    BY <1>1, <1>2, <1>4, <2>2 DEF ScanEqual, PivotPlace, Pos
  <2>. QED  BY <2>1, <2>2
<1>7. TypeOK'
  BY <1>1, <1>2, <1>4, <1>6 DEF TypeOK
<1>8. Split'
  <2>1. ASSUME NEW p \in 1 .. q' - 1 PROVE buf'[p] <= buf'[pivot']
    <3>1. p \in Pos /\ (p = q \/ p < q)
      BY <1>1, <1>2, BufferAssumption DEF Pos
    <3>2. CASE p = q
      BY <1>4, <1>5, <1>6, <3>2
    <3>3. CASE p < q
      <4>1. p \in 1 .. q - 1 /\ p # q /\ p # rec
        BY <1>2, <3>1, <3>3 DEF Pos
      <4>. QED  BY <1>1, <1>4, <1>6, <3>1, <4>1 DEF Split
    <3>. QED  BY <3>1, <3>2, <3>3
  <2>2. ASSUME NEW p \in q' .. rec' - 1 PROVE buf'[p] > buf'[pivot']
    <3>1. p \in Pos /\ q < p /\ q < rec /\ (p = rec \/ p < rec)
      BY <1>1, <1>2, BufferAssumption DEF Pos
    <3>2. CASE p = rec
      BY <1>4, <1>5, <1>6, <3>1, <3>2
    <3>3. CASE p < rec
      <4>1. p \in q .. rec - 1 /\ p # q /\ p # rec
        BY <1>2, <3>1, <3>3 DEF Pos
      <4>. QED  BY <1>1, <1>4, <1>6, <3>1, <4>1 DEF Split
    <3>. QED  BY <3>1, <3>2, <3>3
  <2>3. q' <= rec'
    BY <1>1, <1>2 DEF Pos
  <2>. QED  BY <1>6, <2>1, <2>2, <2>3 DEF Split
<1>9. Rearranged(orig, buf)'
  <2>1. orig \in [Pos -> Key] /\ Rearranged(orig, buf)
    BY DEF PartInv, TypeOK
  <2>. QED  BY <1>1, <1>2, <1>3, <2>1, SwapRearranges
<1>. QED  BY <1>1, <1>7, <1>8, <1>9 DEF PartInv

LEMMA ScanGreaterKeeps == PartInv /\ ScanGreater => PartInv'
<1>. SUFFICES ASSUME PartInv, ScanGreater PROVE PartInv'
  OBVIOUS
<1>1. TypeOK /\ Split /\ pc = "scan"
  BY DEF PartInv, ScanGreater
<1>2. q \in 1 .. N + 1 /\ rec \in Pos /\ rec' = rec + 1 /\ rec' \in 1 .. N + 1 /\ pivot \in Pos
  BY <1>1, BufferAssumption DEF TypeOK, ScanGreater, Pos
<1>3. pivot # rec
  BY <1>1, <1>2, KeysAreIntegers DEF ScanGreater
<1>4. Split'
  <2>1. \A p \in q .. rec' - 1 : p \in q .. rec - 1 \/ p = rec
    BY <1>2 DEF Pos
  <2>2. pivot < q \/ pivot >= rec'
    BY <1>1, <1>2, <1>3 DEF Split, Pos
  <2>. QED  BY <1>1, <1>2, <2>1, <2>2 DEF Split, ScanGreater, Pos
<1>. QED  BY <1>1, <1>2, <1>4 DEF PartInv, TypeOK, ScanGreater

LEMMA EndScanKeeps == PartInv /\ EndScan => PartInv'
<1>. SUFFICES ASSUME PartInv, EndScan PROVE PartInv'
  OBVIOUS
<1>1. TypeOK /\ Split /\ pc = "scan"
  BY DEF PartInv, EndScan, LastNotGreater
<1>2. q \in 2 .. N + 1 /\ rec = N + 1 /\ pivot \in Pos /\ pivot < q
  BY <1>1, BufferAssumption DEF TypeOK, Split, EndScan, LastNotGreater, Pos
<1>3. q' = q - 1 /\ q' \in Pos /\ pivot <= q'
  BY <1>2, BufferAssumption DEF EndScan, LastNotGreater, Pos
<1>4. SplitAll'
  BY <1>1, <1>2, <1>3, BufferAssumption DEF Split, SplitAll, EndScan, LastNotGreater
<1>. QED  BY <1>1, <1>3, <1>4 DEF PartInv, TypeOK, EndScan, LastNotGreater

LEMMA MovePivotKeeps == PartInv /\ MovePivot => PartInv'
<1>. SUFFICES ASSUME PartInv, MovePivot PROVE PartInv'
  OBVIOUS
<1>1. TypeOK /\ SplitAll /\ pc = "move" /\ pivot \in Pos /\ q \in Pos /\ pivot <= q
  BY DEF PartInv, MovePivot, TypeOK, SplitAll
<1>2. buf \in [Pos -> Key] /\ \A p \in Pos : buf[p] \in Int
  BY <1>1, KeysAreIntegers DEF TypeOK
<1>3. /\ buf' \in [Pos -> Key]
      /\ buf'[pivot] = buf[q] /\ buf'[q] = buf[pivot]
      /\ \A p \in Pos \ {pivot, q} : buf'[p] = buf[p]
  BY <1>1, <1>2, SwapFacts DEF MovePivot
<1>4. IsPartition(buf', 1, N, q)
  <2>1. ASSUME NEW p \in 1 .. q PROVE buf'[p] <= buf'[q]
    <3>1. p \in Pos /\ q \in 1 .. q
      BY <1>1, BufferAssumption DEF Pos
    <3>. QED  BY <1>1, <1>2, <1>3, <3>1 DEF SplitAll
  <2>2. ASSUME NEW p \in q + 1 .. N PROVE buf'[q] < buf'[p]
    <3>1. p \in Pos \ {pivot, q}
      BY <1>1 DEF Pos
    <3>. QED  BY <1>1, <1>2, <1>3, <3>1 DEF SplitAll
  <2>. QED  BY <2>1, <2>2 DEF IsPartition
<1>5. Rearranged(orig, buf)'
  <2>1. orig \in [Pos -> Key] /\ Rearranged(orig, buf)
    BY DEF PartInv, TypeOK
  <2>. QED  BY <1>1, <1>2, <2>1, SwapRearranges DEF MovePivot
<1>. QED  BY <1>1, <1>3, <1>4, <1>5 DEF PartInv, TypeOK, MovePivot

LEMMA StepPartition == PartInv /\ [Next]_vars => PartInv'
<1>. SUFFICES ASSUME PartInv, [Next]_vars PROVE PartInv'
  OBVIOUS
<1>1. CASE Done \/ UNCHANGED vars
  BY <1>1 DEF Done, vars, PartInv, TypeOK, Split, SplitAll
<1>. QED  BY <1>1, StartKeeps, ScanSwapKeeps, ScanGreaterKeeps, EndScanKeeps, MovePivotKeeps
          DEF Next

LEMMA PartitionInvariant == Spec => []PartInv
BY InitPartition, StepPartition, PTL DEF Spec

(* The type invariant of the loop: q and the pointer stay in the buffer.   *)
THEOREM PartitionTypeCorrect == Spec => []TypeOK
<1>1. PartInv => TypeOK
  BY DEF PartInv
<1>. QED  BY <1>1, PartitionInvariant, PTL

(* The pointer never loses the pivot (mysort.c:43-57).                     *)
THEOREM PivotStaysInSight == Spec => []PivotInSight
<1>1. PartInv => PivotInSight
  BY DEF PartInv, Split, PivotInSight
<1>. QED  BY <1>1, PartitionInvariant, PTL

(* The contract that ParallelSort takes for granted (mysort.c:37-62).      *)
THEOREM PartitionIsCorrect == Spec => []PartitionDone
<1>1. PartInv => PartitionDone
  BY DEF PartInv, PartitionDone, TypeOK
<1>. QED  BY <1>1, PartitionInvariant, PTL
=============================================================================
