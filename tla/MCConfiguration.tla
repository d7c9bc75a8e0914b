-------------------------- MODULE MCConfiguration --------------------------
(* Configuration for TLC: the plugin wants two names, not in the order of  *)
(* the table; their default is the blank value, as that of KEY is.  A host *)
(* or the first file may hold both names in the wrong order, or one name   *)
(* twice with two values, one of them blank (Load skips the line).         *)
EXTENDS Configuration, TLC

CONSTANT a

MCWanted == <<2, 1>>
MCDefault(n) == Blank
Of(n, v) == [name |-> n, value |-> v]
MCLists == {<<Of(2, a), Of(1, a)>>, <<Of(2, a), Of(2, Blank)>>}
Symmetry == Permutations(Threads)
=============================================================================
