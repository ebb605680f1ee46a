---------------------------- MODULE MCChunkCache ----------------------------
(***************************************************************************)
(* Instances of ChunkCache for TLC.  Chunks are only told apart: they are  *)
(* model values, and any permutation of them is a symmetry.                *)
(***************************************************************************)
EXTENDS ChunkCache, TLC

ChunkSymmetry == Permutations(Chunk)
=============================================================================
