-------------------------- MODULE MCConnectionPool --------------------------
(* ConnectionPool for TLC, with the sizes of SocketConnectionPool.h        *)
(* (POOL_MAX 4, POOL_MAX/2, POOL_MAX/4) or with smaller ones.              *)
EXTENDS ConnectionPool, TLC

Symmetry == {p @@ q : p \in Permutations(Conns), q \in Permutations(Servers)}
=============================================================================
