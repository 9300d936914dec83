------------------------- MODULE MCMonitoringBatch -------------------------
(* TLC instances of MonitoringBatch. *)
EXTENDS MonitoringBatch, TLC, Functions

CONSTANTS p1, p2

\* Each instance has a worker_id of its own: its name.
OwnWorker == [p \in Procs |-> p]

\* A behaviour that begins on the last day has one batch, of both monitors.  One
\* that has a batch on the first day may have two: the first is about monitor 2,
\* the second about both, so that what happens to yesterday's item can move its
\* monitor past or into the pages of today.  Attempts are bounded together: one
\* item may use up its own, one more than it has, or all of them share them.
TwoBatches == today = 1 \/ status[1] # "absent"
Attempts == SumFunction(attempt)
Bounded == IF TwoBatches THEN state[<<1, 1>>] = "absent" /\ Attempts <= 2 ELSE Attempts <= 3

\* Workers are interchangeable.
Symmetry == Permutations(Procs)

=============================================================================
