---------------------------- MODULE MCMapChunks ----------------------------
(***************************************************************************)
(* Instances of MapChunks for TLC.  Places are ordered: no symmetry.       *)
(***************************************************************************)
EXTENDS MapChunks
=============================================================================
