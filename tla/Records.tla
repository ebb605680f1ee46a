------------------------------ MODULE Records ------------------------------
(***************************************************************************)
(* Buffers of records, as the sorting code of mysort sees them.            *)
(*                                                                         *)
(* A buffer is a function from positions (record numbers, from 1) to keys: *)
(* the 90 bytes of payload that follow the 10-byte key move with it and    *)
(* are never looked at.  Keys are compared by strncmp, a total preorder;   *)
(* integers stand for its equivalence classes.                             *)
(***************************************************************************)
EXTENDS Integers

(* The permutations of S, a finite set of positions. *)
Perms(S) == { f \in [S -> S] : \A y \in S : \E x \in S : f[x] = y }

(* The buffer b with the records at the positions S moved around by f. *)
Shuffle(b, S, f) == [i \in DOMAIN b |-> IF i \in S THEN b[f[i]] ELSE b[i]]

(* b holds the records of a, in some order. *)
Rearranged(a, b) == \E f \in Perms(DOMAIN a) : b = Shuffle(a, DOMAIN a, f)

(* buffer_is_sorted: no record has a smaller key than the one before it. *)
IsSorted(b, lo, hi) == \A i \in lo + 1 .. hi : b[i - 1] <= b[i]

(***************************************************************************)
(* What one partitioning pass leaves behind: the record at q is the pivot, *)
(* nothing before it is greater and everything after it is.                *)
(***************************************************************************)
IsPartition(b, lo, hi, q) == /\ \A i \in lo .. q : b[i] <= b[q]
                             /\ \A i \in q + 1 .. hi : b[q] < b[i]
=============================================================================
