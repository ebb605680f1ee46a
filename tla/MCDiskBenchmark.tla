-------------------------- MODULE MCDiskBenchmark --------------------------
(***************************************************************************)
(* Instances of DiskBenchmark for TLC.                                     *)
(***************************************************************************)
EXTENDS DiskBenchmark
=============================================================================
