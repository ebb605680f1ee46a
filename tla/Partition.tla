----------------------------- MODULE Partition -----------------------------
(***************************************************************************)
(* The partitioning loop of sort_buffer_parallel, record by record         *)
(* (sort_buffer_seq has the same one for CHUNK structs).  ParallelSort     *)
(* takes the whole of it as one step, with the contract that is checked    *)
(* and proved here.                                                        *)
(*                                                                         *)
(* The pivot is not a copy of a key but a pointer into the buffer that is  *)
(* being rearranged.                                                       *)
(***************************************************************************)
EXTENDS Records

CONSTANTS N,   \* records in the buffer
          Key  \* the keys, a set of integers

ASSUME BufferAssumption == N \in Nat \ {0} /\ Key \subseteq Int

Pos == 1 .. N

VARIABLES
  buf,    \* the buffer
  q,      \* where the next record that is not greater than the pivot goes
  rec,    \* the record the loop is at ("i" in the code)
  pivot,  \* where the pivot is
  pc,
  orig    \* the buffer as it was given (history)

vars == <<buf, q, rec, pivot, pc, orig>>

Init == /\ buf \in [Pos -> Key]
        /\ q = 1
        /\ rec = 1
        /\ pivot = 1
        /\ pc = "start"
        /\ orig = buf

Swapped(b, x, y) == [b EXCEPT ![x] = b[y], ![y] = b[x]]

-----------------------------------------------------------------------------
(* buffer_is_sorted: nothing to do ... *)
AlreadySorted == /\ pc = "start"
                 /\ IsSorted(buf, 1, N)
                 /\ pc' = "sorted"
                 /\ UNCHANGED <<buf, q, rec, pivot, orig>>

(* ... else prng, which the threads share unprotected, gives any record.   *)
PickPivot == /\ pc = "start"
             /\ ~ IsSorted(buf, 1, N)
             /\ pivot' \in Pos
             /\ pc' = "scan"
             /\ UNCHANGED <<buf, q, rec, orig>>

ScanLess == /\ pc = "scan"
            /\ rec <= N
            /\ buf[rec] < buf[pivot]
            /\ buf' = Swapped(buf, rec, q)
            /\ q' = q + 1
            /\ rec' = rec + 1
            /\ UNCHANGED <<pivot, pc, orig>>

(* Fault: the pointer stays where it was. *)
SamePlace == pivot

PivotPlace == q

(* An equal record, the pivot or another one, takes the place at q and is  *)
(* the pivot from there on.                                                *)
ScanEqual == /\ pc = "scan"
             /\ rec <= N
             /\ buf[rec] = buf[pivot]
             /\ buf' = Swapped(buf, rec, q)
             /\ pivot' = PivotPlace
             /\ q' = q + 1
             /\ rec' = rec + 1
             /\ UNCHANGED <<pc, orig>>

ScanGreater == /\ pc = "scan"
               /\ rec <= N
               /\ buf[rec] > buf[pivot]
               /\ rec' = rec + 1
               /\ UNCHANGED <<buf, q, pivot, pc, orig>>

(* Fault: q is not set back. *)
FirstGreater == q

LastNotGreater == q - 1

(* q -= record_size: the last record that is not greater than the pivot. *)
EndScan == /\ pc = "scan"
           /\ rec > N
           /\ q' = LastNotGreater
           /\ pc' = "move"
           /\ UNCHANGED <<buf, rec, pivot, orig>>

MovePivot == /\ pc = "move"
             /\ buf' = Swapped(buf, pivot, q)
             /\ pc' = "done"
             /\ UNCHANGED <<q, rec, pivot, orig>>

Done == pc \in {"sorted", "done"} /\ UNCHANGED vars

Next == \/ AlreadySorted \/ PickPivot \/ ScanLess \/ ScanEqual \/ ScanGreater
        \/ EndScan \/ MovePivot \/ Done

Spec == Init /\ [][Next]_vars

-----------------------------------------------------------------------------
(***************************************************************************)
(* Properties                                                              *)
(***************************************************************************)
TypeOK == /\ buf \in [Pos -> Key]
          /\ rec \in 1 .. N + 1
          /\ pivot \in Pos
          /\ q \in IF pc = "scan" THEN 1 .. N + 1 ELSE Pos
          /\ pc \in {"start", "scan", "move", "sorted", "done"}
          /\ orig \in [Pos -> Key]

(* While records are moved around it, the pointer points at a record of    *)
(* the pivot's key, and at one that the loop has either put in place or    *)
(* not reached yet: no swap carries it off (mysort.c:43-57).               *)
PivotInSight ==
  pc = "scan" =>
    /\ pivot < q \/ pivot >= rec
    /\ \A p \in 1 .. q - 1 : buf[p] <= buf[pivot]
    /\ \A p \in q .. rec - 1 : buf[p] > buf[pivot]

(* The contract: the records that were given, around a pivot that no       *)
(* record before it exceeds and every record after it does                 *)
(* (mysort.c:37-62, on which the recursion of 65-75 relies).               *)
PartitionDone ==
  pc = "done" => Rearranged(orig, buf) /\ q \in Pos /\ IsPartition(buf, 1, N, q)
=============================================================================
