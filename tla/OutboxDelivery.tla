--------------------------- MODULE OutboxDelivery ---------------------------
(***************************************************************************)
(* External publication of committed events: the delivery columns of the   *)
(* outbox_event table and the OutboxDispatcher processes that claim a      *)
(* batch, publish its events one by one outside any transaction and mark   *)
(* each one published (claim -> publish -> mark + audit, and again).       *)
(*                                                                         *)
(* Time is relative to the present, as in JobQueue: lease[e] is            *)
(* delivery_lease_until - now, wait[e] is occurred_at - now, and lag[p] is *)
(* how old the clock reading is that p's open transaction uses.            *)
(***************************************************************************)
EXTENDS Integers, FiniteSets

CONSTANTS
  Events,       \* event_id values
  Procs,        \* running OutboxDispatcher instances
  Workers,      \* worker_id values; two instances may carry the same one
  NoWorker,     \* SQL null in the delivery_worker_id column
  NoDelivery,   \* what a dispatcher that is not marking marks
  WorkerOf,     \* the worker_id each instance was constructed with
  LeaseSeconds, \* OutboxDispatcher lease_seconds
  Limit,        \* the limit argument of dispatch_pending
  MaxLag,       \* bound: age of a clock reading when its transaction commits
  AttemptBound  \* bound: delivery attempts from it on are not told apart

ASSUME OutboxAssumption ==
  /\ NoWorker \notin Workers
  /\ NoDelivery \notin [event : Events, attempt : Nat]
  /\ WorkerOf \in [Procs -> Workers]
  /\ LeaseSeconds \in Nat \ {0}
  /\ Limit \in Nat \ {0}
  /\ MaxLag \in Nat
  /\ AttemptBound \in Nat \ {0}

VARIABLES
  status,   \* "absent", then pending (published_at is null) or published
  attempt,  \* outbox_event.delivery_attempt
  holder,   \* outbox_event.delivery_worker_id
  lease,    \* outbox_event.delivery_lease_until - now
  wait,     \* outbox_event.occurred_at - now
  taken,    \* events the publisher has, repetitions removed by event_id
  audits,   \* audit_log rows of the dispatchers, by their uuid5 name
  pc,       \* where each dispatcher is
  batch,    \* deliveries of its claim it has not published yet
  current,  \* the delivery it is marking
  lag       \* the age of the clock reading its open transaction uses

rowVars == <<status, attempt, holder, lease, wait>>
procVars == <<pc, batch, current, lag>>
vars == <<rowVars, taken, audits, procVars>>

-----------------------------------------------------------------------------
(* Values *)

\* OutboxDelivery: its attempt is at least 1.
Delivery == [event : Events, attempt : 1..AttemptBound]

\* The identity of an audit: a failure is named by event and attempt, a
\* publication by the event alone (its attempt is metadata).
Audit(outcome, d) == [outcome |-> outcome, event |-> d.event, attempt |-> d.attempt]
PublicationAudited(e) == \E a \in audits : a.outcome = "published" /\ a.event = e

InTransaction == {"claiming", "marking"}

-----------------------------------------------------------------------------
(* Rows as the statements of PostgresOutboxRepository see them *)

\* The WHERE clause of claim_pending, at a clock reading of age l.
DueUnclaimed(e, l) ==  \* mutant: an expired lease is not reclaimed
  status[e] = "pending" /\ wait[e] <= -l /\ holder[e] = NoWorker
Due(e, l) ==
  status[e] = "pending" /\ wait[e] <= -l /\ (holder[e] = NoWorker \/ lease[e] <= -l)

\* FOR UPDATE SKIP LOCKED: rows another open transaction may hold.
MayBeLocked(p, e) ==
  \E q \in Procs \ {p} :
    \/ pc[q] = "claiming"
    \/ pc[q] = "marking" /\ current[q].event = e

\* The candidates a claim selects: the first Limit due rows in occurred_at order
\* that no other transaction holds.
Selected(p, S) ==
  /\ Cardinality(S) <= Limit
  /\ \A e \in S : Due(e, lag[p])
  /\ \A e \in Events \ S :
       Due(e, lag[p]) =>
         \/ MayBeLocked(p, e)
         \/ Cardinality(S) = Limit /\ \A f \in S : wait[f] <= wait[e]

\* The attempt number the UPDATE of claim_pending gives a row.
NextAttemptKept(e) == attempt[e]  \* mutant: the counter is not advanced
NextAttempt(e) == IF attempt[e] < AttemptBound THEN attempt[e] + 1 ELSE attempt[e]

\* What it returns for the row; the order of the rows returned is not specified.
DeliveryBefore(e) ==  \* mutant: returning the value before the update
  [event |-> e, attempt |-> IF attempt[e] = 0 THEN 1 ELSE attempt[e]]
DeliveryOf(e) == [event |-> e, attempt |-> NextAttempt(e)]

\* The WHERE clause of mark_published.
HoldsLeaseAnyWorker(p, e) ==  \* mutant: the worker_id is not compared
  status[e] = "pending" /\ lease[e] > -lag[p]
HoldsLease(p, e) ==
  status[e] = "pending" /\ holder[e] = WorkerOf[p] /\ lease[e] > -lag[p]

-----------------------------------------------------------------------------

Init ==
  /\ status = [e \in Events |-> "absent"]
  /\ attempt = [e \in Events |-> 0]
  /\ holder = [e \in Events |-> NoWorker]
  /\ lease = [e \in Events |-> -MaxLag]
  /\ wait = [e \in Events |-> 0]
  /\ taken = {}
  /\ audits = {}
  /\ pc = [p \in Procs |-> "idle"]
  /\ batch = [p \in Procs |-> {}]
  /\ current = [p \in Procs |-> NoDelivery]
  /\ lag = [p \in Procs |-> 0]

\* The transaction that appended the event commits; it read its clock for
\* occurred_at some time before.  Appending it again changes nothing.
Store(e) ==
  /\ status[e] = "absent"
  /\ status' = [status EXCEPT ![e] = "pending"]
  /\ \E d \in -MaxLag..0 : wait' = [wait EXCEPT ![e] = d]
  /\ UNCHANGED <<attempt, holder, lease, taken, audits, procVars>>

\* dispatch_pending returns or raises; what is left of the batch is forgotten.
BackToIdle(p) ==
  /\ pc' = [pc EXCEPT ![p] = "idle"]
  /\ batch' = [batch EXCEPT ![p] = {}]
  /\ current' = [current EXCEPT ![p] = NoDelivery]
  /\ lag' = [lag EXCEPT ![p] = 0]

\* dispatch_pending opens the claiming transaction and reads the clock.
StartDispatch(p) ==
  /\ pc[p] = "idle"
  /\ pc' = [pc EXCEPT ![p] = "claiming"]
  /\ UNCHANGED <<rowVars, taken, audits, batch, current, lag>>

\* claim_pending leases the events S and returns their deliveries.
ClaimPending(p, S) ==
  /\ pc[p] = "claiming"
  /\ S # {}
  /\ Selected(p, S)
  /\ attempt' = [e \in Events |-> IF e \in S THEN NextAttempt(e) ELSE attempt[e]]
  /\ holder' = [e \in Events |-> IF e \in S THEN WorkerOf[p] ELSE holder[e]]
  /\ lease' = [e \in Events |-> IF e \in S THEN LeaseSeconds - lag[p] ELSE lease[e]]
  /\ batch' = [batch EXCEPT ![p] = {DeliveryOf(e) : e \in S}]
  /\ pc' = [pc EXCEPT ![p] = "publishing"]
  /\ lag' = [lag EXCEPT ![p] = 0]
  /\ UNCHANGED <<status, wait, taken, audits, current>>

\* Nothing to claim: dispatch_pending returns 0.
ClaimNothing(p) ==
  /\ pc[p] = "claiming"
  /\ Selected(p, {})
  /\ BackToIdle(p)
  /\ UNCHANGED <<rowVars, taken, audits>>

\* The publisher after a call for event e (external; it removes repetitions).
HandedOverLost(e) == taken  \* mutant: the call is skipped
HandedOver(e) == taken \cup {e}

\* publish(event) returns; the marking transaction is opened, the clock read.
Publish(p, d) ==
  /\ pc[p] = "publishing"
  /\ d \in batch[p]
  /\ taken' = HandedOver(d.event)
  /\ pc' = [pc EXCEPT ![p] = "marking"]
  /\ batch' = [batch EXCEPT ![p] = batch[p] \ {d}]
  /\ current' = [current EXCEPT ![p] = d]
  /\ lag' = [lag EXCEPT ![p] = 0]
  /\ UNCHANGED <<rowVars, audits>>

\* publish(event) raises, whether or not the publisher took the event.  The
\* failure is audited in a transaction of its own whose errors are swallowed, and
\* dispatch_pending raises: the rest of the batch keeps its lease.
PublishFails(p, d) ==
  /\ pc[p] = "publishing"
  /\ d \in batch[p]
  /\ taken' \in {taken, HandedOver(d.event)}
  /\ audits' \in {audits, audits \cup {Audit("failed", d)}}
  /\ BackToIdle(p)
  /\ UNCHANGED rowVars

\* mark_published and the audit, one transaction; then the next event, if any.
MarkPublished(p) ==
  /\ pc[p] = "marking"
  /\ HoldsLease(p, current[p].event)
  /\ ~PublicationAudited(current[p].event)
  /\ status' = [status EXCEPT ![current[p].event] = "published"]
  /\ holder' = [holder EXCEPT ![current[p].event] = NoWorker]
  /\ lease' = [lease EXCEPT ![current[p].event] = -MaxLag]
  /\ audits' = audits \cup {Audit("published", current[p])}
  /\ pc' = [pc EXCEPT ![p] = IF batch[p] = {} THEN "idle" ELSE "publishing"]
  /\ current' = [current EXCEPT ![p] = NoDelivery]
  /\ lag' = [lag EXCEPT ![p] = 0]
  /\ UNCHANGED <<attempt, wait, taken, batch>>

\* mark_published matches no row, or the audit is there: dispatch_pending raises.
MarkRejected(p) ==
  /\ pc[p] = "marking"
  /\ ~HoldsLease(p, current[p].event) \/ PublicationAudited(current[p].event)
  /\ BackToIdle(p)
  /\ UNCHANGED <<rowVars, taken, audits>>

\* The process dies, with its open transaction, and is started again.
Crash(p) ==
  /\ pc[p] # "idle"
  /\ BackToIdle(p)
  /\ UNCHANGED <<rowVars, taken, audits>>

\* One unit of time.  No clock reading gets older than MaxLag.
Tick ==
  /\ \A p \in Procs : pc[p] \in InTransaction => lag[p] < MaxLag
  /\ lease' = [e \in Events |-> IF lease[e] > -MaxLag THEN lease[e] - 1 ELSE lease[e]]
  /\ wait' = [e \in Events |->
                IF status[e] # "absent" /\ wait[e] > -MaxLag THEN wait[e] - 1 ELSE wait[e]]
  /\ lag' = [p \in Procs |-> IF pc[p] \in InTransaction THEN lag[p] + 1 ELSE lag[p]]
  /\ UNCHANGED <<status, attempt, holder, taken, audits, pc, batch, current>>

Next ==
  \/ \E e \in Events : Store(e)
  \/ \E p \in Procs :
       \/ StartDispatch(p)
       \/ \E S \in SUBSET Events : ClaimPending(p, S)
       \/ ClaimNothing(p)
       \/ \E d \in Delivery : Publish(p, d) \/ PublishFails(p, d)
       \/ MarkPublished(p)
       \/ MarkRejected(p)
       \/ Crash(p)
  \/ Tick

Spec == Init /\ [][Next]_vars

(***************************************************************************)
(* Fairness.  Dispatchers are called again and again and transactions end  *)
(* (weak fairness); time passes.  A dispatcher is not killed, or made to   *)
(* skip locked rows, every time it could claim; the publisher does not     *)
(* fail, and is not slower than the lease, every time; and a marking       *)
(* transaction is not killed every time (strong fairness).  Which event of *)
(* a batch the publisher accepts in time is left open.                     *)
(***************************************************************************)
PublishInTime(p) ==
  \E d \in Delivery : HoldsLease(p, d.event) /\ Publish(p, d)

Fairness ==
  /\ WF_vars(Tick)
  /\ \A p \in Procs :
       /\ WF_vars(StartDispatch(p))
       /\ WF_vars(ClaimNothing(p))
       /\ SF_vars(\E S \in SUBSET Events : ClaimPending(p, S))
       /\ WF_vars(\E d \in Delivery : Publish(p, d) \/ PublishFails(p, d))
       /\ SF_vars(PublishInTime(p))
       /\ SF_vars(MarkPublished(p))
       /\ WF_vars(MarkRejected(p))

FairSpec == Spec /\ Fairness

-----------------------------------------------------------------------------
(* Properties *)

\* Every column and every dispatcher's local state has a value the code can give it.
TypeOK ==
  /\ status \in [Events -> {"absent", "pending", "published"}]
  /\ attempt \in [Events -> 0..AttemptBound]
  /\ holder \in [Events -> Workers \cup {NoWorker}]
  /\ lease \in [Events -> Int]
  /\ wait \in [Events -> Int]
  /\ taken \subseteq Events
  /\ audits \subseteq
       [outcome : {"published", "failed"}, event : Events, attempt : 1..AttemptBound]
  /\ pc \in [Procs -> {"idle", "publishing"} \cup InTransaction]
  /\ batch \in [Procs -> SUBSET Delivery]
  /\ current \in [Procs -> Delivery \cup {NoDelivery}]
  /\ lag \in [Procs -> 0..MaxLag]

\* No two live instances were given the same worker_id.  The constructor does not
\* enforce it: its default is the constant "outbox-worker".
DistinctWorkers ==
  \A p, q \in Procs : WorkerOf[p] = WorkerOf[q] => p = q

\* The audit log tells the story of the row: an event is published exactly when
\* its publication is audited, once and with the attempt the row ended with; no
\* failure is audited of an attempt that was never made, and none of the attempt
\* that published.  (The failure audit is written outside the transactions of the
\* row, after a call that may have outlived its lease; the publication audit is
\* written by whoever passes mark_published.)
AuditsMatchRows ==
  /\ \A e \in Events : status[e] = "published" <=> PublicationAudited(e)
  /\ \A a \in audits : a.attempt <= attempt[a.event]
  /\ \A a \in audits : a.outcome = "published" => a.attempt = attempt[a.event]
  /\ \A a, b \in audits :
       /\ a.event = b.event /\ a.attempt = b.attempt /\ a.attempt < AttemptBound
       => a = b

\* A dispatcher that lost its lease to a later claim cannot mark the event: an
\* event is published by the dispatcher whose delivery is the latest claim.
PublishedByLatestClaim ==
  [][\A e \in Events : status[e] = "pending" /\ status'[e] = "published" =>
       \E p \in Procs : /\ pc[p] = "marking" /\ pc'[p] # "marking"
                         /\ current[p] = [event |-> e, attempt |-> attempt[e]]]_vars

\* The refinement mapping to OutboxPromise.
Promise == INSTANCE OutboxPromise WITH
  stored <- {e \in Events : status[e] # "absent"},
  closed <- {e \in Events : status[e] = "published"}

\* Delivery implements OutboxPromise: through crashes, overruns, failures after
\* the publisher took the event and abandoned batches, no event is closed that
\* the publisher does not have.
KeepsOutboxPromise == Promise!Spec

\* Whatever crashes, overruns and failed calls happen on the way, and however the
\* events are batched, a committed event is published in the end.
EveryEventPublished ==
  \A e \in Events : status[e] = "pending" ~> status[e] = "published"

=============================================================================
