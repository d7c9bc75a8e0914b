-------------------------- MODULE MCDealerRequests --------------------------
(* DealerRequests for TLC: two host threads, both plugin threads, a trade  *)
(* OrdersOpen accepts and one it rejects.                                  *)
EXTENDS DealerRequests, TLC

Symmetry == {p @@ q @@ r : p \in Permutations(Askers), q \in Permutations(Pollers),
                           r \in Permutations(Ids)}
=============================================================================
