---------------------------- MODULE MCJobQueue ----------------------------
(* TLC instances of JobQueue. *)
EXTENDS JobQueue, TLC

CONSTANTS p1, p2, w1, w2, j1, j2

\* Each instance has a worker_id of its own.
OwnWorker == p1 :> w1 @@ p2 :> w2

=============================================================================
