----------------------------- MODULE MCReclaim -----------------------------
(* Small instances of Reclaim.  The addresses malloc returns are             *)
(* interchangeable.                                                          *)
EXTENDS Reclaim, TLC

BlockSymmetry == Permutations(Blocks)
=============================================================================
