--------------------------- MODULE OutboxPromise ---------------------------
(***************************************************************************)
(* What the transactional outbox promises a consumer (at-least-once        *)
(* publication, docs/V1.4_EXECUTION_PLANE.md): the publisher is handed     *)
(* nothing that was not committed, an event is closed only when the        *)
(* publisher has it, and neither is ever taken back.                       *)
(***************************************************************************)
CONSTANT Events

VARIABLES
  stored,  \* events committed with the state change they announce
  taken,   \* events the publisher has, repetitions removed by event_id
  closed   \* events that will not be published again

vars == <<stored, taken, closed>>

Init == stored = {} /\ taken = {} /\ closed = {}

Store(e) ==
  /\ stored' = stored \cup {e}
  /\ UNCHANGED <<taken, closed>>

Take(e) ==
  /\ e \in stored
  /\ taken' = taken \cup {e}
  /\ UNCHANGED <<stored, closed>>

Close(e) ==
  /\ e \in taken
  /\ closed' = closed \cup {e}
  /\ UNCHANGED <<stored, taken>>

Next == \E e \in Events : Store(e) \/ Take(e) \/ Close(e)

Spec == Init /\ [][Next]_vars

=============================================================================
