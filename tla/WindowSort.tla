----------------------------- MODULE WindowSort -----------------------------
(***************************************************************************)
(* What parallel_sort expects of the pool of sort threads, with the threads*)
(* left out: a window of records is loaded, it is sorted in one step, and  *)
(* only a sorted window is ever followed by the next one or by the end of  *)
(* the program.                                                            *)
(***************************************************************************)
EXTENDS Records

CONSTANTS N,     \* records in a window
          Key    \* the keys

VARIABLES content,  \* the window: [1..N -> Key]
          phase     \* "ready", "sorting" or "stopped"

vars == <<content, phase>>

Init == /\ content \in [1 .. N -> Key]
        /\ phase = "ready"

(* load_window fills the buffer with records nobody has looked at. *)
Load == /\ phase = "ready"
        /\ content' \in [1 .. N -> Key]
        /\ phase' = "sorting"

(* The call of schedule and the barrier that follows it, as one step. *)
Sort == /\ phase = "sorting"
        /\ phase' = "ready"
        /\ content' \in [1 .. N -> Key]
        /\ Rearranged(content, content')
        /\ IsSorted(content', 1, N)

Stop == /\ phase = "ready"
        /\ phase' = "stopped"
        /\ UNCHANGED content

Next == Load \/ Sort \/ Stop

Spec == Init /\ [][Next]_vars
=============================================================================
