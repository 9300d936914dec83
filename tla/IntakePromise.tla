---------------------------- MODULE IntakePromise ----------------------------
(***************************************************************************)
(* What the public intake promises its callers and the operator: one key   *)
(* stands for one request for ever, every answer about the key names that  *)
(* request and goes to a caller who asked the same, the operator is shown  *)
(* stored requests only, and the intake forgets none it has not shown.     *)
(***************************************************************************)
CONSTANTS Calls, Keys, Bodies

VARIABLES
  asks,      \* key and body of each call
  accepted,  \* calls whose request is stored
  answered,  \* <<call, the stored request it was told of>>
  shown,     \* requests the operator is notified of
  closed     \* requests the intake has finished with

vars == <<asks, accepted, answered, shown, closed>>

Init ==
  /\ asks \in [Calls -> Keys \X Bodies]
  /\ accepted = {} /\ answered = {} /\ shown = {} /\ closed = {}

Accept(c) ==
  /\ \A o \in accepted : asks[o][1] # asks[c][1]
  /\ accepted' = accepted \cup {c}
  /\ UNCHANGED <<asks, answered, shown, closed>>

Answer(c, o) ==
  /\ o \in accepted /\ asks[o] = asks[c]
  /\ answered' = answered \cup {<<c, o>>}
  /\ UNCHANGED <<asks, accepted, shown, closed>>

Show(o) ==
  /\ o \in accepted
  /\ shown' = shown \cup {o}
  /\ UNCHANGED <<asks, accepted, answered, closed>>

Close(o) ==
  /\ o \in shown
  /\ closed' = closed \cup {o}
  /\ UNCHANGED <<asks, accepted, answered, shown>>

Next ==
  \E c \in Calls :
    \/ Accept(c) \/ Show(c) \/ Close(c)
    \/ \E o \in Calls : Answer(c, o)

Spec == Init /\ [][Next]_vars

=============================================================================
