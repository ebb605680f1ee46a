---------------------------- MODULE MCPartition ----------------------------
(***************************************************************************)
(* Instances of Partition for TLC.  Keys are ordered: no symmetry.         *)
(***************************************************************************)
EXTENDS Partition
=============================================================================
