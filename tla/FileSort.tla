------------------------------ MODULE FileSort ------------------------------
(***************************************************************************)
(* What mysort promises of the file it is given: at every moment the file  *)
(* holds the records it held, in some order, and when the program is done  *)
(* they are in the order of their keys.                                    *)
(***************************************************************************)
EXTENDS Records, FiniteSets

CONSTANTS N,     \* records in the file
          Key    \* the keys

VARIABLES content,  \* the file: [1..N -> Key]
          done

vars == <<content, done>>

(* The key k is as frequent in b as in a. *)
SameRecords(a, b) ==
  \A k \in Key : Cardinality({ x \in 1 .. N : a[x] = k }) = Cardinality({ x \in 1 .. N : b[x] = k })

Init == /\ content \in [1 .. N -> Key]
        /\ done = FALSE

Exchange == /\ ~ done
            /\ content' \in [1 .. N -> Key]
            /\ SameRecords(content, content')

Rearrange == Exchange /\ UNCHANGED done

Finish == Exchange /\ IsSorted(content', 1, N) /\ done' = TRUE

Next == Rearrange \/ Finish

Spec == Init /\ [][Next]_vars
=============================================================================
