---------------------------- MODULE MCThreadPool ----------------------------
(* ThreadPool for TLC: two pool threads with the ids 1 and 2.              *)
EXTENDS ThreadPool, TLC

JobSymmetry == Permutations(Jobs)
=============================================================================
