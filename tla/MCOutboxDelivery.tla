-------------------------- MODULE MCOutboxDelivery --------------------------
(* TLC instances of OutboxDelivery. *)
EXTENDS OutboxDelivery, TLC

CONSTANTS p1, p2, w1, w2, e1, e2

\* Each instance has a worker_id of its own.
OwnWorker == p1 :> w1 @@ p2 :> w2

\* Events are exchangeable, and so are their rows.
Symmetry == Permutations(Events)

=============================================================================
