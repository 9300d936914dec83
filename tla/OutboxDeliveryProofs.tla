------------------------ MODULE OutboxDeliveryProofs ------------------------
(***************************************************************************)
(* Proofs about OutboxDelivery, for any events, dispatchers, lease length, *)
(* batch limit and bounds.  That only the latest claim publishes, and that *)
(* the audits name its attempt, rests on DistinctWorkers; the promise to   *)
(* the consumers does not.                                                 *)
(***************************************************************************)
EXTENDS OutboxDelivery, TLAPS

-----------------------------------------------------------------------------
(* Type correctness *)

LEMMA NextAttemptType ==
  ASSUME TypeOK, NEW e \in Events
  PROVE  NextAttempt(e) \in 1..AttemptBound /\ DeliveryOf(e) \in Delivery
<1>1. NextAttempt(e) \in 1..AttemptBound
  BY OutboxAssumption DEF TypeOK, NextAttempt
<1> QED
  BY <1>1 DEF DeliveryOf, Delivery

\* A dispatcher that is marking marks a delivery, one it no longer has to
\* publish and that the publisher has.
MarksADelivery ==
  \A p \in Procs :
    pc[p] = "marking" =>
      /\ current[p] \in Delivery
      /\ current[p] \notin batch[p]
      /\ current[p].event \in taken

TypeInv == TypeOK /\ MarksADelivery

LEMMA InitType == Init => TypeInv
BY OutboxAssumption DEF Init, TypeInv, TypeOK, MarksADelivery, InTransaction

LEMMA StepTypeOK == TypeInv /\ [Next]_vars => TypeOK'
<1> SUFFICES ASSUME TypeInv, [Next]_vars PROVE TypeOK'
  OBVIOUS
<1> USE OutboxAssumption
    DEF TypeInv, TypeOK, MarksADelivery, InTransaction, rowVars, procVars, BackToIdle
<1>1. ASSUME NEW e \in Events, Store(e) PROVE TypeOK'
  BY <1>1 DEF Store
<1>2. ASSUME NEW p \in Procs, StartDispatch(p) \/ ClaimNothing(p) PROVE TypeOK'
  BY <1>2 DEF StartDispatch, ClaimNothing
<1>3. ASSUME NEW p \in Procs, NEW S \in SUBSET Events, ClaimPending(p, S)
      PROVE  TypeOK'
  <2>1. \A e \in S : NextAttempt(e) \in 1..AttemptBound /\ DeliveryOf(e) \in Delivery
    BY NextAttemptType
  <2>2. attempt' \in [Events -> 0..AttemptBound]
    BY <1>3, <2>1 DEF ClaimPending
  <2>3. WorkerOf[p] \in Workers /\ LeaseSeconds - lag[p] \in Int
    OBVIOUS
  <2>4. {DeliveryOf(e) : e \in S} \in SUBSET Delivery
    BY <2>1
  <2> HIDE DEF TypeOK
  <2>5. holder' \in [Events -> Workers \cup {NoWorker}] /\ lease' \in [Events -> Int]
    BY <1>3, <2>3 DEF ClaimPending, TypeOK
  <2>6. batch' \in [Procs -> SUBSET Delivery]
    BY <1>3, <2>4 DEF ClaimPending, TypeOK
  <2> QED
    BY <1>3, <2>2, <2>5, <2>6 DEF ClaimPending, TypeOK
<1>4. ASSUME NEW p \in Procs, NEW d \in Delivery, Publish(p, d) PROVE TypeOK'
  BY <1>4 DEF Publish, HandedOver, Delivery
<1>5. ASSUME NEW p \in Procs, NEW d \in Delivery, PublishFails(p, d) PROVE TypeOK'
  BY <1>5 DEF PublishFails, HandedOver, Delivery, Audit
<1>6. ASSUME NEW p \in Procs, MarkPublished(p) PROVE TypeOK'
  <2>1. current[p].event \in Events /\ current[p].attempt \in 1..AttemptBound
    BY <1>6 DEF MarkPublished, Delivery
  <2>2. audits' \subseteq
          [outcome : {"published", "failed"}, event : Events, attempt : 1..AttemptBound]
    BY <1>6, <2>1 DEF MarkPublished, Audit
  <2> QED
    BY <1>6, <2>1, <2>2 DEF MarkPublished
<1>7. ASSUME NEW p \in Procs, MarkRejected(p) \/ Crash(p) PROVE TypeOK'
  BY <1>7 DEF MarkRejected, Crash
<1>8. CASE Tick
  BY <1>8 DEF Tick
<1>9. CASE UNCHANGED vars
  BY <1>9 DEF vars
<1> QED
  BY <1>1, <1>2, <1>3, <1>4, <1>5, <1>6, <1>7, <1>8, <1>9 DEF Next

LEMMA StepMarks == TypeInv /\ [Next]_vars => MarksADelivery'
<1> SUFFICES ASSUME TypeInv, [Next]_vars PROVE MarksADelivery'
  OBVIOUS
<1> USE DEF TypeInv, TypeOK, MarksADelivery, rowVars, procVars, BackToIdle
<1>1. CASE (\E e \in Events : Store(e)) \/ Tick \/ UNCHANGED vars
  BY <1>1 DEF Store, Tick, vars
<1>2. ASSUME NEW p \in Procs, StartDispatch(p) \/ ClaimNothing(p)
      PROVE  MarksADelivery'
  BY <1>2 DEF StartDispatch, ClaimNothing
<1>3. ASSUME NEW p \in Procs, NEW S \in SUBSET Events, ClaimPending(p, S)
      PROVE  MarksADelivery'
  BY <1>3 DEF ClaimPending
<1>4. ASSUME NEW p \in Procs, NEW d \in Delivery, Publish(p, d)
      PROVE  MarksADelivery'
  BY <1>4 DEF Publish, HandedOver
<1>5. ASSUME NEW p \in Procs, NEW d \in Delivery, PublishFails(p, d)
      PROVE  MarksADelivery'
  BY <1>5 DEF PublishFails, HandedOver
<1>6. ASSUME NEW p \in Procs, MarkPublished(p) \/ MarkRejected(p) \/ Crash(p)
      PROVE  MarksADelivery'
  BY <1>6 DEF MarkPublished, MarkRejected, Crash
<1> QED
  BY <1>1, <1>2, <1>3, <1>4, <1>5, <1>6 DEF Next

LEMMA TypeInvariant == Spec => []TypeInv
<1>1. TypeInv /\ [Next]_vars => TypeInv'
  BY StepTypeOK, StepMarks DEF TypeInv
<1> QED
  BY <1>1, InitType, PTL DEF Spec

\* Every reachable state has the values the columns and dispatchers are given.
THEOREM TypeCorrect == Spec => []TypeOK
<1>1. TypeInv => TypeOK
  BY DEF TypeInv
<1> QED
  BY <1>1, TypeInvariant, PTL

-----------------------------------------------------------------------------
(* The deliveries a dispatcher still answers for.  A claim is the only step  *)
(* that adds to them, which is what the rest of the argument turns on.       *)

Held(p) == batch[p] \cup (IF pc[p] = "marking" THEN {current[p]} ELSE {})

OtherSteps ==
  \/ \E e \in Events : Store(e)
  \/ \E p \in Procs :
       \/ StartDispatch(p)
       \/ ClaimNothing(p)
       \/ \E d \in Delivery : Publish(p, d) \/ PublishFails(p, d)
       \/ MarkPublished(p)
       \/ MarkRejected(p)
       \/ Crash(p)
  \/ Tick
  \/ UNCHANGED vars

LEMMA StepsSplit ==
  [Next]_vars => OtherSteps \/ \E p \in Procs, S \in SUBSET Events : ClaimPending(p, S)
BY DEF Next, OtherSteps

LEMMA HeldClaimed ==
  ASSUME TypeInv, NEW p \in Procs, NEW S \in SUBSET Events, ClaimPending(p, S)
  PROVE  /\ Held(p)' = {DeliveryOf(e) : e \in S}
         /\ \A q \in Procs \ {p} : Held(q)' = Held(q)
BY DEF TypeInv, TypeOK, ClaimPending, Held

LEMMA HeldShrinks ==
  ASSUME TypeInv, OtherSteps, NEW q \in Procs
  PROVE  Held(q)' \subseteq Held(q)
<1> USE DEF TypeInv, TypeOK, rowVars, procVars, BackToIdle, Held
<1>1. CASE (\E e \in Events : Store(e)) \/ Tick \/ UNCHANGED vars
  BY <1>1 DEF Store, Tick, vars
<1>2. ASSUME NEW p \in Procs, StartDispatch(p) \/ ClaimNothing(p) \/ MarkRejected(p) \/ Crash(p)
      PROVE  Held(q)' \subseteq Held(q)
  BY <1>2 DEF StartDispatch, ClaimNothing, MarkRejected, Crash
<1>3. ASSUME NEW p \in Procs, NEW d \in Delivery, Publish(p, d) \/ PublishFails(p, d)
      PROVE  Held(q)' \subseteq Held(q)
  BY <1>3 DEF Publish, PublishFails
<1>4. ASSUME NEW p \in Procs, MarkPublished(p)
      PROVE  Held(q)' \subseteq Held(q)
  BY <1>4 DEF MarkPublished
<1> QED
  BY <1>1, <1>2, <1>3, <1>4 DEF OtherSteps

-----------------------------------------------------------------------------
(* What is known of a delivery that is held. *)

\* Its row exists and has seen its attempt.
HeldIsKnown ==
  \A p \in Procs : \A d \in Held(p) :
    /\ d \in Delivery
    /\ status[d.event] # "absent"
    /\ d.attempt <= attempt[d.event]

\* If the row still names its holder, the delivery is the row's latest.
HeldIsLatest ==
  \A p \in Procs : \A d \in Held(p) :
    status[d.event] = "pending" /\ holder[d.event] = WorkerOf[p]
    => d.attempt = attempt[d.event]

\* No other dispatcher holds it too, and its outcome is not audited yet.
HeldIsUnshared ==
  \A p, q \in Procs : \A d \in Held(p) :
    d \in Held(q) /\ d.attempt < AttemptBound => p = q
HeldIsUnaudited ==
  \A p \in Procs : \A d \in Held(p) : \A a \in audits :
    a.event = d.event /\ a.attempt = d.attempt => d.attempt = AttemptBound

LEMMA StepKnown == TypeInv /\ HeldIsKnown /\ [Next]_vars => HeldIsKnown'
<1> SUFFICES ASSUME TypeInv, HeldIsKnown, [Next]_vars PROVE HeldIsKnown'
  OBVIOUS
<1>1. ASSUME OtherSteps PROVE HeldIsKnown'
  <2>1. attempt' = attempt
    BY <1>1 DEF OtherSteps, Store, StartDispatch, ClaimNothing, Publish, PublishFails,
       MarkPublished, MarkRejected, Crash, Tick, vars, rowVars, procVars
  <2>2. \A e \in Events : status[e] # "absent" => status'[e] # "absent"
    BY <1>1 DEF TypeInv, TypeOK, OtherSteps, Store, StartDispatch, ClaimNothing, Publish,
       PublishFails, MarkPublished, MarkRejected, Crash, Tick, vars, rowVars, procVars
  <2> QED
    BY <1>1, <2>1, <2>2, HeldShrinks DEF HeldIsKnown, Delivery
<1>2. ASSUME NEW p \in Procs, NEW S \in SUBSET Events, ClaimPending(p, S)
      PROVE  HeldIsKnown'
  <2> SUFFICES ASSUME NEW q \in Procs, NEW d \in Held(q)'
               PROVE  /\ d \in Delivery
                      /\ status'[d.event] # "absent"
                      /\ d.attempt <= attempt'[d.event]
    BY DEF HeldIsKnown
  <2>1. /\ status' = status
        /\ \A e \in S : attempt'[e] = NextAttempt(e) /\ status[e] = "pending"
        /\ \A e \in Events \ S : attempt'[e] = attempt[e]
    BY <1>2 DEF ClaimPending, Selected, Due
  <2>2. CASE q = p
    <3>1. PICK e \in S : d = DeliveryOf(e)
      BY <1>2, <2>2, HeldClaimed
    <3>2. d.event = e /\ d.attempt = NextAttempt(e) /\ d \in Delivery
      BY <3>1, NextAttemptType DEF DeliveryOf, TypeInv
    <3>3. NextAttempt(e) \in Int
      BY NextAttemptType DEF TypeInv
    <3> QED
      BY <2>1, <3>2, <3>3
  <2>3. CASE q # p
    <3>1. d \in Held(q)
      BY <1>2, <2>3, HeldClaimed
    <3>2. d \in Delivery /\ status[d.event] # "absent" /\ d.attempt <= attempt[d.event]
      BY <3>1 DEF HeldIsKnown
    <3>3. d.event \in Events /\ d.attempt \in Int /\ attempt[d.event] \in 0..AttemptBound
      BY <3>2 DEF Delivery, TypeInv, TypeOK
    <3>4. attempt[d.event] <= NextAttempt(d.event) /\ NextAttempt(d.event) \in Int
      BY <3>3, OutboxAssumption DEF NextAttempt
    <3> QED
      BY <2>1, <3>2, <3>3, <3>4
  <2> QED
    BY <2>2, <2>3
<1> QED
  BY <1>1, <1>2, StepsSplit

LEMMA StepLatest ==
  DistinctWorkers /\ TypeInv /\ HeldIsKnown /\ HeldIsLatest /\ [Next]_vars => HeldIsLatest'
<1> SUFFICES ASSUME DistinctWorkers, TypeInv, HeldIsKnown, HeldIsLatest, [Next]_vars
             PROVE  HeldIsLatest'
  OBVIOUS
<1>1. ASSUME OtherSteps PROVE HeldIsLatest'
  <2>1. attempt' = attempt
    BY <1>1 DEF OtherSteps, Store, StartDispatch, ClaimNothing, Publish, PublishFails,
       MarkPublished, MarkRejected, Crash, Tick, vars, rowVars, procVars
  <2>2. \A e \in Events : status[e] # "absent" /\ status'[e] = "pending"
                          => status[e] = "pending" /\ holder'[e] = holder[e]
    BY <1>1 DEF TypeInv, TypeOK, MarksADelivery, Delivery, OtherSteps, Store, StartDispatch,
       ClaimNothing, Publish, PublishFails, MarkPublished, MarkRejected, Crash, Tick, vars,
       rowVars, procVars
  <2> QED
    BY <1>1, <2>1, <2>2, HeldShrinks DEF HeldIsKnown, HeldIsLatest, Delivery
<1>2. ASSUME NEW p \in Procs, NEW S \in SUBSET Events, ClaimPending(p, S)
      PROVE  HeldIsLatest'
  <2> SUFFICES ASSUME NEW q \in Procs, NEW d \in Held(q)',
                      status'[d.event] = "pending", holder'[d.event] = WorkerOf[q]
               PROVE  d.attempt = attempt'[d.event]
    BY DEF HeldIsLatest
  <2>1. /\ status' = status
        /\ \A e \in S : attempt'[e] = NextAttempt(e) /\ holder'[e] = WorkerOf[p]
        /\ \A e \in Events \ S : attempt'[e] = attempt[e] /\ holder'[e] = holder[e]
    BY <1>2 DEF ClaimPending
  <2>2. CASE q = p
    <3>1. PICK e \in S : d = DeliveryOf(e)
      BY <1>2, <2>2, HeldClaimed
    <3> QED
      BY <2>1, <3>1 DEF DeliveryOf
  <2>3. CASE q # p
    <3>1. d \in Held(q)
      BY <1>2, <2>3, HeldClaimed
    <3>2. d.event \in Events
      BY <3>1 DEF HeldIsKnown, Delivery
    <3>3. d.event \notin S
      BY <2>1, <2>3 DEF DistinctWorkers
    <3> QED
      BY <2>1, <3>1, <3>2, <3>3 DEF HeldIsLatest
  <2> QED
    BY <2>2, <2>3
<1> QED
  BY <1>1, <1>2, StepsSplit

LEMMA StepUnshared ==
  TypeInv /\ HeldIsKnown /\ HeldIsUnshared /\ [Next]_vars => HeldIsUnshared'
<1> SUFFICES ASSUME TypeInv, HeldIsKnown, HeldIsUnshared, [Next]_vars
             PROVE  HeldIsUnshared'
  OBVIOUS
<1>1. ASSUME OtherSteps PROVE HeldIsUnshared'
  BY <1>1, HeldShrinks DEF HeldIsUnshared
<1>2. ASSUME NEW p \in Procs, NEW S \in SUBSET Events, ClaimPending(p, S)
      PROVE  HeldIsUnshared'
  <2>1. \A q \in Procs \ {p} : \A d \in Held(q) :
          d \in Held(p)' => d.attempt = AttemptBound
    <3> SUFFICES ASSUME NEW q \in Procs \ {p}, NEW d \in Held(q), d \in Held(p)'
                 PROVE  d.attempt = AttemptBound
      OBVIOUS
    <3>1. PICK e \in S : d = DeliveryOf(e)
      BY <1>2, HeldClaimed
    <3>2. d.event = e /\ d.attempt = NextAttempt(e)
      BY <3>1 DEF DeliveryOf
    <3>3. NextAttempt(e) <= attempt[e]
      BY <3>2 DEF HeldIsKnown
    <3>4. attempt[e] \in 0..AttemptBound
      BY DEF TypeInv, TypeOK
    <3> QED
      BY <3>2, <3>3, <3>4, OutboxAssumption DEF NextAttempt
  <2>2. \A q \in Procs : \A d \in Held(q)' : d \in Held(q) \/ q = p
    BY <1>2, HeldClaimed
  <2>3. AttemptBound \in Int
    BY OutboxAssumption
  <2> QED
    BY <1>2, <2>1, <2>2, <2>3, HeldClaimed DEF HeldIsUnshared
<1> QED
  BY <1>1, <1>2, StepsSplit

-----------------------------------------------------------------------------
(* The audit log. *)

\* The inductive invariant of the audits.
AuditInv ==
  /\ TypeInv
  /\ HeldIsKnown
  /\ HeldIsLatest
  /\ HeldIsUnshared
  /\ HeldIsUnaudited
  /\ AuditsMatchRows

\* A step that writes no audit and publishes nothing.
QuietSteps ==
  \/ \E e \in Events : Store(e)
  \/ \E p \in Procs : \/ StartDispatch(p)
                      \/ ClaimNothing(p)
                      \/ \E d \in Delivery : Publish(p, d)
                      \/ MarkRejected(p)
                      \/ Crash(p)
  \/ Tick
  \/ UNCHANGED vars

LEMMA QuietStepsAreQuiet ==
  ASSUME TypeInv, QuietSteps
  PROVE  /\ audits' = audits
         /\ attempt' = attempt
         /\ \A e \in Events : status'[e] = "published" <=> status[e] = "published"
BY DEF TypeInv, TypeOK, QuietSteps, Store, StartDispatch, ClaimNothing, Publish,
   MarkRejected, Crash, Tick, vars, rowVars, procVars

\* An outcome written by a dispatcher that held the delivery is new to the log,
\* and no other dispatcher holds it after the step.
LEMMA NewAudit ==
  ASSUME AuditInv, NEW p \in Procs, NEW d \in Held(p),
         OtherSteps, d \notin Held(p)',
         NEW outcome \in {"published", "failed"},
         audits' = audits \cup {Audit(outcome, d)},
         attempt' = attempt
  PROVE  /\ HeldIsUnaudited'
         /\ \A a \in audits' : a.attempt <= attempt'[a.event]
         /\ \A a, b \in audits' :
              a.event = b.event /\ a.attempt = b.attempt /\ a.attempt < AttemptBound => a = b
<1> DEFINE new == Audit(outcome, d)
<1>1. d \in Delivery /\ d.attempt <= attempt[d.event]
  BY DEF AuditInv, HeldIsKnown
<1>2. new.event = d.event /\ new.attempt = d.attempt
  BY DEF Audit
<1>3. \A q \in Procs : Held(q)' \subseteq Held(q)
  BY HeldShrinks DEF AuditInv
<1>4. \A a \in audits : a.event = d.event /\ a.attempt = d.attempt => d.attempt = AttemptBound
  BY DEF AuditInv, HeldIsUnaudited
<1>5. AttemptBound \in Int /\ d.attempt \in Int
  BY <1>1, OutboxAssumption DEF Delivery
<1>6. HeldIsUnaudited'
  <2> SUFFICES ASSUME NEW q \in Procs, NEW h \in Held(q)', NEW a \in audits',
                      a.event = h.event, a.attempt = h.attempt
               PROVE  h.attempt = AttemptBound
    BY DEF HeldIsUnaudited
  <2>1. h \in Held(q) /\ h \in Delivery
    BY <1>3 DEF AuditInv, HeldIsKnown
  <2>2. CASE a \in audits
    BY <2>1, <2>2 DEF AuditInv, HeldIsUnaudited
  <2>3. CASE a = new
    <3>1. h = d
      BY <1>1, <1>2, <2>1, <2>3 DEF Delivery
    <3>2. q # p
      BY <3>1
    <3>3. d.attempt <= AttemptBound
      BY <1>1 DEF Delivery
    <3> QED
      BY <1>5, <2>1, <3>1, <3>2, <3>3 DEF AuditInv, HeldIsUnshared
  <2> QED
    BY <2>2, <2>3
<1>7. \A a \in audits' : a.attempt <= attempt'[a.event]
  BY <1>1, <1>2 DEF AuditInv, AuditsMatchRows
<1>8. \A a, b \in audits' :
        a.event = b.event /\ a.attempt = b.attempt /\ a.attempt < AttemptBound => a = b
  <2>1. \A a, b \in audits :
          a.event = b.event /\ a.attempt = b.attempt /\ a.attempt < AttemptBound => a = b
    BY DEF AuditInv, AuditsMatchRows
  <2> QED
    BY <1>2, <1>4, <1>5, <2>1
<1> HIDE DEF new
<1> QED
  BY <1>6, <1>7, <1>8

LEMMA FailurePreserves ==
  ASSUME AuditInv, NEW p \in Procs, NEW d \in Delivery, PublishFails(p, d)
  PROVE  HeldIsUnaudited' /\ AuditsMatchRows'
<1>1. d \in Held(p) /\ Held(p)' = {}
  BY DEF PublishFails, BackToIdle, Held, AuditInv, TypeInv, TypeOK
<1>2. OtherSteps
  BY DEF OtherSteps
<1>3. attempt' = attempt /\ status' = status
  BY DEF PublishFails, rowVars
<1>4. CASE audits' = audits
  <2>1. \A q \in Procs : Held(q)' \subseteq Held(q)
    BY <1>2, HeldShrinks DEF AuditInv
  <2>2. HeldIsUnaudited'
    BY <1>4, <2>1 DEF AuditInv, HeldIsUnaudited
  <2> QED
    BY <1>3, <1>4, <2>2 DEF AuditInv, AuditsMatchRows, PublicationAudited
<1>5. CASE audits' = audits \cup {Audit("failed", d)}
  <2>1. \A e \in Events : PublicationAudited(e)' <=> PublicationAudited(e)
    BY <1>5 DEF PublicationAudited, Audit
  <2>2. \A a \in audits' : a.outcome = "published" => a \in audits
    BY <1>5 DEF Audit
  <2>3. /\ HeldIsUnaudited'
        /\ \A a \in audits' : a.attempt <= attempt'[a.event]
        /\ \A a, b \in audits' :
             a.event = b.event /\ a.attempt = b.attempt /\ a.attempt < AttemptBound => a = b
    BY <1>1, <1>2, <1>3, <1>5, NewAudit
  <2> QED
    BY <1>3, <2>1, <2>2, <2>3 DEF AuditInv, AuditsMatchRows
<1> QED
  BY <1>4, <1>5 DEF PublishFails

\* What MarkPublished marks is the row's latest claim, never audited before.
LEMMA MarksTheLatest ==
  ASSUME TypeInv, HeldIsLatest, NEW p \in Procs, MarkPublished(p)
  PROVE  /\ current[p] \in Held(p) /\ current[p] \notin Held(p)'
         /\ current[p].event \in Events
         /\ status[current[p].event] = "pending"
         /\ current[p].attempt = attempt[current[p].event]
<1>1. current[p] \in Held(p) /\ current[p].event \in Events
  BY DEF TypeInv, MarksADelivery, MarkPublished, Held, Delivery
<1>2. current[p] \notin Held(p)'
  BY DEF TypeInv, TypeOK, MarksADelivery, MarkPublished, Held
<1>3. status[current[p].event] = "pending" /\ holder[current[p].event] = WorkerOf[p]
  BY DEF MarkPublished, HoldsLease
<1> QED
  BY <1>1, <1>2, <1>3 DEF HeldIsLatest

LEMMA PublicationPreserves ==
  ASSUME AuditInv, NEW p \in Procs, MarkPublished(p)
  PROVE  HeldIsUnaudited' /\ AuditsMatchRows'
<1>0. PICK d \in Delivery : d = current[p]
  BY DEF AuditInv, TypeInv, MarksADelivery, MarkPublished
<1>1. /\ d \in Held(p) /\ d \notin Held(p)' /\ d.event \in Events
      /\ status[d.event] = "pending" /\ d.attempt = attempt[d.event]
  BY <1>0, MarksTheLatest DEF AuditInv
<1>2. OtherSteps
  BY DEF OtherSteps
<1>3. /\ attempt' = attempt
      /\ audits' = audits \cup {Audit("published", d)}
      /\ ~PublicationAudited(d.event)
      /\ \A e \in Events : status'[e] = IF e = d.event THEN "published" ELSE status[e]
  BY <1>0, <1>1 DEF MarkPublished, AuditInv, TypeInv, TypeOK
<1>4. \A e \in Events : PublicationAudited(e)' <=> PublicationAudited(e) \/ e = d.event
  <2> SUFFICES ASSUME NEW e \in Events
               PROVE  (\E a \in audits' : a.outcome = "published" /\ a.event = e)
                      <=> PublicationAudited(e) \/ e = d.event
    BY DEF PublicationAudited
  <2>1. Audit("published", d) \in audits' /\ audits \subseteq audits'
    BY <1>3
  <2>2. Audit("published", d).outcome = "published" /\ Audit("published", d).event = d.event
    BY DEF Audit
  <2>3. \A a \in audits' : a \in audits \/ a = Audit("published", d)
    BY <1>3
  <2> QED
    BY <2>1, <2>2, <2>3 DEF PublicationAudited
<1>5. \A e \in Events : status'[e] = "published" <=> PublicationAudited(e)'
  BY <1>3, <1>4 DEF AuditInv, AuditsMatchRows
<1>6. \A a \in audits' : a.outcome = "published" => a.attempt = attempt'[a.event]
  BY <1>1, <1>3 DEF AuditInv, AuditsMatchRows, Audit
<1>7. /\ HeldIsUnaudited'
      /\ \A a \in audits' : a.attempt <= attempt'[a.event]
      /\ \A a, b \in audits' :
           a.event = b.event /\ a.attempt = b.attempt /\ a.attempt < AttemptBound => a = b
  BY <1>1, <1>2, <1>3, NewAudit
<1> QED
  BY <1>5, <1>6, <1>7 DEF AuditsMatchRows

LEMMA ClaimPreserves ==
  ASSUME AuditInv, NEW p \in Procs, NEW S \in SUBSET Events, ClaimPending(p, S)
  PROVE  HeldIsUnaudited' /\ AuditsMatchRows'
<1>1. /\ status' = status /\ audits' = audits
      /\ \A e \in S : attempt'[e] = NextAttempt(e) /\ status[e] = "pending"
      /\ \A e \in Events \ S : attempt'[e] = attempt[e]
  BY DEF ClaimPending, Selected, Due
<1>2. \A e \in Events : /\ attempt[e] <= NextAttempt(e)
                        /\ NextAttempt(e) \in 1..AttemptBound
                        /\ attempt[e] \in 0..AttemptBound
                        /\ NextAttempt(e) = attempt[e] => attempt[e] = AttemptBound
  BY NextAttemptType, OutboxAssumption DEF AuditInv, TypeInv, TypeOK, NextAttempt
<1>3. \A a \in audits : a.event \in Events /\ a.attempt \in 1..AttemptBound
  BY DEF AuditInv, TypeInv, TypeOK
<1>4. HeldIsUnaudited'
  <2> SUFFICES ASSUME NEW q \in Procs, NEW h \in Held(q)', NEW a \in audits',
                      a.event = h.event, a.attempt = h.attempt
               PROVE  h.attempt = AttemptBound
    BY DEF HeldIsUnaudited
  <2>1. CASE q = p
    <3>1. PICK e \in S : h = DeliveryOf(e)
      BY <2>1, HeldClaimed DEF AuditInv
    <3>2. h.event = e /\ h.attempt = NextAttempt(e)
      BY <3>1 DEF DeliveryOf
    <3>3. a.attempt <= attempt[e]
      BY <1>1, <3>2 DEF AuditInv, AuditsMatchRows
    <3> QED
      BY <1>2, <3>2, <3>3
  <2>2. CASE q # p
    <3>1. h \in Held(q)
      BY <2>2, HeldClaimed DEF AuditInv
    <3> QED
      BY <1>1, <3>1 DEF AuditInv, HeldIsUnaudited
  <2> QED
    BY <2>1, <2>2
<1>5. \A a \in audits : a.attempt <= attempt'[a.event]
  <2> SUFFICES ASSUME NEW a \in audits PROVE a.attempt <= attempt'[a.event]
    OBVIOUS
  <2>1. a.attempt <= attempt[a.event]
    BY DEF AuditInv, AuditsMatchRows
  <2> QED
    BY <1>1, <1>2, <1>3, <2>1
<1>6. \A a \in audits : a.outcome = "published" => a.attempt = attempt'[a.event]
  <2> SUFFICES ASSUME NEW a \in audits, a.outcome = "published"
               PROVE  a.attempt = attempt'[a.event]
    OBVIOUS
  <2>1. status[a.event] = "published"
    BY <1>3 DEF AuditInv, AuditsMatchRows, PublicationAudited
  <2> QED
    BY <1>1, <1>3, <2>1 DEF AuditInv, AuditsMatchRows
<1> QED
  BY <1>1, <1>4, <1>5, <1>6 DEF AuditInv, AuditsMatchRows, PublicationAudited

LEMMA QuietPreserves ==
  ASSUME AuditInv, QuietSteps
  PROVE  HeldIsUnaudited' /\ AuditsMatchRows'
<1>1. OtherSteps
  BY DEF QuietSteps, OtherSteps
<1>2. \A q \in Procs : Held(q)' \subseteq Held(q)
  BY <1>1, HeldShrinks DEF AuditInv
<1>3. /\ audits' = audits
      /\ attempt' = attempt
      /\ \A e \in Events : status'[e] = "published" <=> status[e] = "published"
  BY QuietStepsAreQuiet DEF AuditInv
<1>4. HeldIsUnaudited'
  BY <1>2, <1>3 DEF AuditInv, HeldIsUnaudited
<1> QED
  BY <1>3, <1>4 DEF AuditInv, AuditsMatchRows, PublicationAudited

LEMMA InitAudit == Init => AuditInv
<1> SUFFICES ASSUME Init PROVE AuditInv
  OBVIOUS
<1>1. \A p \in Procs : Held(p) = {}
  BY DEF Init, Held
<1> QED
  BY <1>1, InitType
     DEF Init, AuditInv, HeldIsKnown, HeldIsLatest, HeldIsUnshared, HeldIsUnaudited,
         AuditsMatchRows, PublicationAudited

LEMMA StepAudit == DistinctWorkers /\ AuditInv /\ [Next]_vars => AuditInv'
<1> SUFFICES ASSUME DistinctWorkers, AuditInv, [Next]_vars PROVE AuditInv'
  OBVIOUS
<1>1. TypeInv'
  BY StepTypeOK, StepMarks DEF AuditInv, TypeInv
<1>2. HeldIsKnown' /\ HeldIsLatest' /\ HeldIsUnshared'
  BY StepKnown, StepLatest, StepUnshared DEF AuditInv
<1>3. HeldIsUnaudited' /\ AuditsMatchRows'
  <2>1. ASSUME NEW p \in Procs, NEW d \in Delivery, PublishFails(p, d)
        PROVE  HeldIsUnaudited' /\ AuditsMatchRows'
    BY <2>1, FailurePreserves
  <2>2. ASSUME NEW p \in Procs, MarkPublished(p)
        PROVE  HeldIsUnaudited' /\ AuditsMatchRows'
    BY <2>2, PublicationPreserves
  <2>3. ASSUME NEW p \in Procs, NEW S \in SUBSET Events, ClaimPending(p, S)
        PROVE  HeldIsUnaudited' /\ AuditsMatchRows'
    BY <2>3, ClaimPreserves
  <2>4. CASE QuietSteps
    BY <2>4, QuietPreserves
  <2> QED
    BY <2>1, <2>2, <2>3, <2>4 DEF Next, QuietSteps
<1> QED
  BY <1>1, <1>2, <1>3 DEF AuditInv

LEMMA AuditInvariant == DistinctWorkers => (Spec => []AuditInv)
<1> SUFFICES ASSUME DistinctWorkers PROVE Spec => []AuditInv
  OBVIOUS
<1>1. AuditInv /\ [Next]_vars => AuditInv'
  BY StepAudit
<1> QED
  BY <1>1, InitAudit, PTL DEF Spec

\* With a worker_id to each instance, the audit log and the rows agree in every
\* reachable state: each published event has one publication audit, of the
\* attempt its row ended with, and no failure is audited of that attempt.
THEOREM AuditsCorrect == DistinctWorkers => (Spec => []AuditsMatchRows)
<1> SUFFICES ASSUME DistinctWorkers PROVE Spec => []AuditsMatchRows
  OBVIOUS
<1>1. AuditInv => AuditsMatchRows
  BY DEF AuditInv
<1> QED
  BY <1>1, AuditInvariant, PTL

\* A dispatcher that lost its lease to a later claim publishes nothing in the
\* table, whatever its clock said.
THEOREM LatestClaimPublishes == DistinctWorkers => (Spec => PublishedByLatestClaim)
<1> SUFFICES ASSUME DistinctWorkers PROVE Spec => PublishedByLatestClaim
  OBVIOUS
<1> DEFINE Published ==
      \A e \in Events : status[e] = "pending" /\ status'[e] = "published" =>
        \E p \in Procs : /\ pc[p] = "marking" /\ pc'[p] # "marking"
                          /\ current[p] = [event |-> e, attempt |-> attempt[e]]
<1>1. AuditInv /\ [Next]_vars => [Published]_vars
  <2> SUFFICES ASSUME AuditInv, Next PROVE Published
    OBVIOUS
  <2>1. ASSUME NEW p \in Procs, MarkPublished(p) PROVE Published
    <3> SUFFICES ASSUME NEW e \in Events, status[e] = "pending", status'[e] = "published"
                 PROVE  /\ pc[p] = "marking" /\ pc'[p] # "marking"
                        /\ current[p] = [event |-> e, attempt |-> attempt[e]]
      OBVIOUS
    <3>1. /\ current[p] \in Delivery
          /\ current[p].attempt = attempt[current[p].event]
      BY <2>1, MarksTheLatest DEF AuditInv, TypeInv, MarksADelivery, MarkPublished
    <3>2. current[p].event = e
      BY <2>1 DEF MarkPublished, AuditInv, TypeInv, TypeOK
    <3>3. pc[p] = "marking" /\ pc'[p] # "marking"
      BY <2>1 DEF MarkPublished, AuditInv, TypeInv, TypeOK
    <3> QED
      BY <3>1, <3>2, <3>3 DEF Delivery
  <2>2. CASE QuietSteps
    BY <2>2, QuietStepsAreQuiet DEF AuditInv
  <2>3. ASSUME NEW p \in Procs,
               \/ \E d \in Delivery : PublishFails(p, d)
               \/ \E S \in SUBSET Events : ClaimPending(p, S)
        PROVE  Published
    BY <2>3 DEF PublishFails, ClaimPending, rowVars
  <2> QED
    BY <2>1, <2>2, <2>3 DEF Next, QuietSteps
<1>2. Spec => []AuditInv
  BY AuditInvariant
<1>3. Spec => [][Published]_vars
  BY <1>1, <1>2, PTL DEF Spec
<1> QED
  BY <1>3 DEF PublishedByLatestClaim

\* No earlier audit stands in the way of a dispatcher that holds the lease: the
\* publication it marks is the first that is audited of its event.
HolderCanMark ==
  \A p \in Procs :
    pc[p] = "marking" /\ HoldsLease(p, current[p].event)
      => ~PublicationAudited(current[p].event)

\* With a worker_id to each instance, what the holder of a lease has published is
\* marked unless its process dies (mark_published and the audit).
THEOREM HolderMarks == DistinctWorkers => (Spec => []HolderCanMark)
<1> SUFFICES ASSUME DistinctWorkers PROVE Spec => []HolderCanMark
  OBVIOUS
<1>1. AuditInv => HolderCanMark
  <2> SUFFICES ASSUME AuditInv, NEW p \in Procs, pc[p] = "marking",
                      HoldsLease(p, current[p].event)
               PROVE  ~PublicationAudited(current[p].event)
    BY DEF HolderCanMark
  <2>1. current[p].event \in Events
    BY DEF AuditInv, TypeInv, MarksADelivery, Delivery
  <2>2. status[current[p].event] # "published"
    BY DEF HoldsLease
  <2> QED
    BY <2>1, <2>2 DEF AuditInv, AuditsMatchRows
<1> QED
  BY <1>1, AuditInvariant, PTL

-----------------------------------------------------------------------------
(* The refinement of OutboxPromise.  The worker_ids play no part in it. *)

PromiseInv == TypeInv /\ HeldIsKnown

LEMMA PromiseInvariant == Spec => []PromiseInv
<1>1. Init => PromiseInv
  <2>1. Init => \A p \in Procs : Held(p) = {}
    BY DEF Init, Held
  <2> QED
    BY <2>1, InitType DEF PromiseInv, HeldIsKnown
<1>2. PromiseInv /\ [Next]_vars => PromiseInv'
  BY StepTypeOK, StepMarks, StepKnown DEF PromiseInv, TypeInv
<1> QED
  BY <1>1, <1>2, PTL DEF Spec

LEMMA StepPromise == PromiseInv /\ [Next]_vars => [Promise!Next]_(Promise!vars)
<1> SUFFICES ASSUME PromiseInv, [Next]_vars
             PROVE  Promise!Next \/ UNCHANGED Promise!vars
  OBVIOUS
<1> USE DEF PromiseInv, TypeInv, TypeOK
<1>1. ASSUME NEW e \in Events, Store(e) PROVE Promise!Next
  <2>1. Promise!Store(e)
    BY <1>1 DEF Store, Promise!Store
  <2> QED
    BY <2>1 DEF Promise!Next
<1>2. ASSUME NEW p \in Procs, NEW d \in Delivery, d \in batch[p],
             UNCHANGED status, taken' \in {taken, HandedOver(d.event)}
      PROVE  Promise!Next \/ UNCHANGED Promise!vars
  <2>1. PICK e \in Events : e = d.event
    BY DEF Delivery
  <2>2. status[e] # "absent"
    BY <1>2, <2>1 DEF HeldIsKnown, Held
  <2>3. CASE taken' = taken
    BY <1>2, <2>3 DEF Promise!vars
  <2>4. CASE taken' = taken \cup {e}
    <3>1. Promise!Take(e)
      BY <1>2, <2>2, <2>4 DEF Promise!Take
    <3> QED
      BY <3>1 DEF Promise!Next
  <2> QED
    BY <1>2, <2>1, <2>3, <2>4 DEF HandedOver
<1>3. ASSUME NEW p \in Procs, MarkPublished(p) PROVE Promise!Next
  <2>1. PICK e \in Events : e = current[p].event
    BY <1>3 DEF MarksADelivery, MarkPublished, Delivery
  <2>2. /\ e \in taken
        /\ status[e] = "pending"
        /\ taken' = taken
        /\ status' = [status EXCEPT ![e] = "published"]
    BY <1>3, <2>1 DEF MarksADelivery, MarkPublished, HoldsLease
  <2>3. Promise!Close(e)
    BY <2>2 DEF Promise!Close
  <2> QED
    BY <2>3 DEF Promise!Next
<1>4. CASE UNCHANGED <<status, taken>>
  BY <1>4 DEF Promise!vars
<1>5. \/ UNCHANGED <<status, taken>>
      \/ \E e \in Events : Store(e)
      \/ \E p \in Procs : MarkPublished(p)
      \/ \E p \in Procs, d \in Delivery :
           d \in batch[p] /\ UNCHANGED status /\ taken' \in {taken, HandedOver(d.event)}
  BY DEF Next, vars, rowVars, StartDispatch, ClaimPending, ClaimNothing, Publish,
         PublishFails, MarkRejected, Crash, Tick
<1> QED
  BY <1>1, <1>2, <1>3, <1>4, <1>5

\* Delivery implements OutboxPromise for any number of dispatchers, even when
\* they share a worker_id: nothing is closed that the publisher does not have.
THEOREM DeliveryKeepsPromise == Spec => KeepsOutboxPromise
<1>1. Init => Promise!Init
  BY DEF Init, Promise!Init
<1>2. PromiseInv /\ [Next]_vars => [Promise!Next]_(Promise!vars)
  BY StepPromise
<1>3. Spec => Promise!Spec
  BY <1>1, <1>2, PromiseInvariant, PTL DEF Spec, Promise!Spec
<1> QED
  BY <1>3 DEF KeepsOutboxPromise

=============================================================================
