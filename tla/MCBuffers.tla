----------------------------- MODULE MCBuffers -----------------------------
(* Configuration for TLC: data is made one at a time, so that the pools    *)
(* run empty; lengths on both sides of the size of an allocation.          *)
EXTENDS Buffers, TLC

Symmetry == Permutations(Threads) \cup Permutations(Buffers)
=============================================================================
