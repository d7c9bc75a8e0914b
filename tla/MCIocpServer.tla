---------------------------- MODULE MCIocpServer ----------------------------
(* IocpServer for TLC: two workers, and as in Startup one accept for each. *)
EXTENDS IocpServer, TLC

Symmetry == {p @@ q : p \in Permutations(Contexts), q \in Permutations(Workers)}
=============================================================================
