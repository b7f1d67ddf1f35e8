--------------------------- MODULE MCMoyskladSync ---------------------------
(* MoyskladSync on small instances. *)
EXTENDS MoyskladSync, TLC

MoyskladSymmetry == Permutations(Products) \cup Permutations(Stores) \cup Permutations(Jobs)
=============================================================================
