--------------------------- MODULE MCRepeatOrder ---------------------------
(* TLC instances of RepeatOrder. *)
EXTENDS RepeatOrder, TLC

CONSTANTS pl1, k1, k2, k3, k4, o1, o2, p1, p2

\* Keys, fresh order_ids and calls are exchangeable.
Symmetry == Permutations(Keys) \cup Permutations(Orders) \cup Permutations(Clients)

=============================================================================
