----------------------------- MODULE MCChunking -----------------------------
(***************************************************************************)
(* Instances of Chunking for TLC.                                          *)
(***************************************************************************)
EXTENDS Chunking
=============================================================================
