--------------------------- MODULE MCExternalSort ---------------------------
(***************************************************************************)
(* Instances of ExternalSort for TLC.  Keys are ordered: no symmetry.      *)
(***************************************************************************)
EXTENDS ExternalSort
=============================================================================
