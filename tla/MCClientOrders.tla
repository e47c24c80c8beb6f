---------------------------- MODULE MCClientOrders ----------------------------
(* Instances of ClientOrders small enough for TLC.                          *)
EXTENDS ClientOrders, TLC

CONSTANTS n1, n2, n3, n4, n5

Symmetry == Permutations({n1, n2, n3, n4, n5})
=============================================================================
