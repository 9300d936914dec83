------------------------- MODULE MCCommercialSend -------------------------
(* TLC instances of CommercialSend. *)
EXTENDS CommercialSend, TLC

CONSTANTS p1, p2, b1, b2, k1, k2, a1, a2

\* Callers, actions, bodies and keys are interchangeable.
Symmetry ==
  Permutations({p1, p2}) \cup Permutations({a1, a2})
    \cup Permutations({b1, b2}) \cup Permutations({k1, k2})

===========================================================================
