---------------------------- MODULE MCVramCache -----------------------------
(***************************************************************************)
(* A small instance of the cache: four slots of which three can be used,   *)
(* one block more than there are slots, a DMA budget of two blocks and a   *)
(* half, ages that wrap after three frames.                                *)
(***************************************************************************)
EXTENDS VramCache, TLC

CONSTANTS b1, b2, b3, b4

BlockSymmetry == Permutations(Block)
=============================================================================
