-------------------------- MODULE MCMapReduceSort --------------------------
(***************************************************************************)
(* Instances of MapReduceSort for TLC.                                     *)
(***************************************************************************)
EXTENDS MapReduceSort

(* Any function of the key that tells the keys apart. *)
MCCrc == [k \in {1, 2, 3} |-> 10 * k + 1]
=============================================================================
