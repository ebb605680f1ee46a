------------------------------ MODULE MCIoPool ------------------------------
(***************************************************************************)
(* Instances of IoPool for TLC.  Workers are found by their index and      *)
(* chunks lie side by side, so there is no symmetry to use.                *)
(***************************************************************************)
EXTENDS IoPool
=============================================================================
