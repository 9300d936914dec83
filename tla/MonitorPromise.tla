--------------------------- MODULE MonitorPromise ---------------------------
(***************************************************************************)
(* What the daily monitoring promises (docs/ROADMAP.md, phase 3C-2): a     *)
(* monitor enters a day's batch only while the batch is collected, its     *)
(* item is settled once and for good, an item is completed only when its   *)
(* observation is stored, and no item is observed twice.                   *)
(***************************************************************************)
EXTENDS Naturals

CONSTANTS Days, Monitors

VARIABLES
  closed,     \* days whose collection is complete
  items,      \* what was collected, as <<day, monitor>>
  observed,   \* items with a stored observation
  completed,  \* items settled with success
  failed      \* items settled with an error

vars == <<closed, items, observed, completed, failed>>

Init == closed = {} /\ items = {} /\ observed = {} /\ completed = {} /\ failed = {}

Collect(d, S) ==
  /\ d \notin closed
  /\ items' = items \cup ({d} \X S)
  /\ closed' \in {closed, closed \cup {d}}
  /\ UNCHANGED <<observed, completed, failed>>

\* An item that has failed may still be observed: by the run that lost it.
Observe(i) ==
  /\ i \in items \ observed
  /\ observed' = observed \cup {i}
  /\ UNCHANGED <<closed, items, completed, failed>>

Complete(i) ==
  /\ i \in observed \ failed
  /\ completed' = completed \cup {i}
  /\ UNCHANGED <<closed, items, observed, failed>>

Fail(i) ==
  /\ i \in items \ completed
  /\ failed' = failed \cup {i}
  /\ UNCHANGED <<closed, items, observed, completed>>

Next ==
  \/ \E d \in Days, S \in SUBSET Monitors : Collect(d, S)
  \/ \E i \in Days \X Monitors : Observe(i) \/ Complete(i) \/ Fail(i)

Spec == Init /\ [][Next]_vars

=============================================================================
