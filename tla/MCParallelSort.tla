--------------------------- MODULE MCParallelSort ---------------------------
(***************************************************************************)
(* Instances of ParallelSort for TLC.  The workers are found by their      *)
(* index, so there is no symmetry to use.                                  *)
(***************************************************************************)
EXTENDS ParallelSort

(* Windows of three records: sorted already, all the same, with a tie to   *)
(* the left or the right, and orders that need two levels of halves.       *)
Triples == { <<3, 2, 1>>, <<2, 3, 1>>, <<3, 1, 2>>, <<2, 1, 1>>, <<2, 2, 1>>,
             <<1, 2, 3>>, <<1, 1, 1>> }
=============================================================================
