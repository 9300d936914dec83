---------------------------- MODULE PublicIntake ----------------------------
(***************************************************************************)
(* The public intake: PublicIntakeService.submit, its preflight and the    *)
(* isolated intake database (PostgresPublicIntakeRepository), the          *)
(* projection into Shema's database and the dispatcher that replays the    *)
(* intake outbox.                                                          *)
(*                                                                         *)
(* Each call of submit draws a request_id of its own, so a request stands  *)
(* for a call.  All requests ask about one counterparty: one cache key.    *)
(* Leases and the cache expire at any moment.  The counters of the global  *)
(* circuit and of the budgets are left out: a call may always be refused.  *)
(***************************************************************************)
EXTENDS Integers, FiniteSets

CONSTANTS
  Requests,     \* calls of submit, each with the request_id it draws
  Keys,         \* idempotency keys
  Bodies,       \* request_hash values
  Dispatchers,  \* PublicIntakeOutboxDispatcher instances, all of one worker_id
  MaxPending,   \* max_pending_outbox
  Limit,        \* limit of dispatch_pending
  NoRequest     \* null

ASSUME IntakeAssumption ==
  /\ NoRequest \notin Requests
  /\ Bodies # {}
  /\ MaxPending \in Nat \ {0}
  /\ Limit \in Nat \ {0}

VARIABLES
  key, body, spam, \* what each call submits; spam: its honeypot is filled
  at,           \* where each call is
  snapshot,     \* the snapshot_id its preflight returned, named by a request
  verdict,      \* that snapshot's content, by snapshot_id
  owner,        \* intake_idempotency_reservation.request_id, by key
  hash,         \* .request_hash
  leased,       \* .leased_until has not passed
  done,         \* keys with completed_at
  accepted,     \* intake_request rows
  stored,       \* intake_preflight_snapshot rows
  cached,       \* the row with the cache_key
  fresh,        \* that row has not expired
  events,       \* intake_outbox_event: the unpublished rows
  published,    \* and the published ones
  held,         \* unpublished events whose delivery lease has not passed
  projected,    \* public_request_context rows of Shema's database
  notices,      \* operator_notification rows
  marked,       \* requests with projected_at
  answered,     \* history: which stored request each caller was told of
  batch         \* events each dispatcher has yet to deliver, and where it is

callVars == <<key, body, spam, at, snapshot>>
reservationVars == <<owner, hash, leased, done>>
snapshotVars == <<verdict, stored, cached, fresh>>
outboxVars == <<events, published, held>>
shemaVars == <<projected, notices>>
vars == <<callVars, reservationVars, accepted, snapshotVars, outboxVars,
          shemaVars, marked, answered, batch>>

-----------------------------------------------------------------------------
(* Values *)

Pc == {"new", "reserved", "admitted", "asking", "checked", "accepted", "projected", "over"}
\* A preflight finds nothing to report, or one of attention, a blocking fact
\* and an unavailable provider: an alert, which is notified beside the request.
Verdicts == {"plain", "alert"}
Kinds == {"request", "spam", "alert"}
Events == Requests \X Kinds
NoBatch == [left |-> {}, at |-> "idle", event |-> <<NoRequest, "request">>]

AcceptedFor(k) == {r \in accepted : key[r] = k}
\* The events _submit_reserved appends for a request with preflight v.
EventsOf(r, v) ==
  IF spam[r] THEN {<<r, "spam">>} ELSE {<<r, "request">>} \cup {<<r, a>> : a \in {v} \ {"plain"}}
\* The operator notifications project inserts, keyed by what they are about.
NoticesOf(r, v) == {e \in EventsOf(r, v) : e[2] # "spam"}
NotifiesSpam(e) == e[2] = "spam"  \* mutant: the flag is read the wrong way
NotifiesRequest(e) == e[2] = "request"  \* mutant: alerts are not projected
Notifies(e) == e[2] # "spam"

\* get_by_idempotency_key raises when the snapshot row is missing.
Readable(r) == snapshot[r] \in stored

HasCapacityUnchecked == TRUE  \* mutant
HasCapacity == Cardinality(events) < MaxPending

\* reserve_idempotency: insert, or take over what expired unfinished.
FreeWhileLeased(k) == k \notin done  \* mutant: the lease is not looked at
Free(k) == k \notin done /\ ~leased[k]

\* complete_idempotency updates the row of this request only.
OwnsAnyRequest(r) == key[r] \notin done  \* mutant
Owns(r) == owner[key[r]] = r

-----------------------------------------------------------------------------

Init ==
  /\ key \in [Requests -> Keys] /\ body \in [Requests -> Bodies]
  /\ spam \in [Requests -> BOOLEAN]
  /\ at = [r \in Requests |-> "new"]
  /\ snapshot = [r \in Requests |-> NoRequest]
  /\ verdict = [r \in Requests |-> "plain"]
  /\ owner = [k \in Keys |-> NoRequest]
  /\ hash = [k \in Keys |-> CHOOSE b \in Bodies : TRUE]
  /\ leased = [k \in Keys |-> FALSE]
  /\ done = {} /\ accepted = {}
  /\ stored = {} /\ cached = NoRequest /\ fresh = FALSE
  /\ events = {} /\ published = {} /\ held = {}
  /\ projected = {} /\ notices = {} /\ marked = {} /\ answered = {}
  /\ batch = [d \in Dispatchers |-> NoBatch]

Goto(r, place) == at' = [at EXCEPT ![r] = place]

\* A stored request answers the calls that repeat it.
AnswersAnyBody(o, r) == Readable(o)  \* mutant
Answers(o, r) == Readable(o) /\ body[o] = body[r]

\* The caller is told of the stored request of its key, or of the exception.
AnswerStored(r) ==
  /\ Goto(r, "over")
  /\ answered' = answered \cup {<<r, o>> : o \in {x \in AcceptedFor(key[r]) : Answers(x, r)}}

\* The first transaction of submit, for a key that can be reserved.
Reserve(r) ==
  /\ at[r] = "new"
  /\ Free(key[r])
  /\ owner' = [owner EXCEPT ![key[r]] = r]
  /\ hash' = [hash EXCEPT ![key[r]] = body[r]]
  /\ leased' = [leased EXCEPT ![key[r]] = TRUE]
  /\ done' = done \ {key[r]}
  /\ Goto(r, "reserved")
  /\ UNCHANGED <<key, body, spam, snapshot, accepted, snapshotVars, outboxVars,
                 shemaVars, marked, answered, batch>>

\* The key is taken: a completed one is answered, one of another body or one
\* that is in progress is a conflict.
ReservationTaken(r) ==
  /\ at[r] = "new"
  /\ ~Free(key[r])
  /\ IF hash[key[r]] = body[r] /\ key[r] \in done
     THEN AnswerStored(r)
     ELSE Goto(r, "over") /\ UNCHANGED answered
  /\ UNCHANGED <<key, body, spam, snapshot, reservationVars, accepted, snapshotVars,
                 outboxVars, shemaVars, marked, batch>>

\* The second transaction: circuit, capacity, the key again, the budget.
Admit(r) ==
  /\ at[r] = "reserved"
  /\ HasCapacity
  /\ IF AcceptedFor(key[r]) # {} THEN AnswerStored(r)
     ELSE Goto(r, "admitted") /\ UNCHANGED answered
  /\ UNCHANGED <<key, body, spam, snapshot, reservationVars, accepted, snapshotVars,
                 outboxVars, shemaVars, marked, batch>>

\* A limit is exceeded, here or in the preflight.  The reservation stays.  Of
\* the circuit and the budgets this outcome is what a call can tell.
Refuse(r) ==
  /\ at[r] \in {"reserved", "asking"}
  /\ Goto(r, "over")
  /\ UNCHANGED <<key, body, spam, snapshot, reservationVars, accepted, snapshotVars,
                 outboxVars, shemaVars, marked, answered, batch>>

\* PublicCounterpartyPreflightService.run: a cached snapshot is returned with
\* the identity it was stored under.
PreflightFromCache(r) ==
  /\ at[r] = "admitted"
  /\ cached # NoRequest /\ fresh
  /\ snapshot' = [snapshot EXCEPT ![r] = cached]
  /\ Goto(r, "checked")
  /\ UNCHANGED <<key, body, spam, reservationVars, accepted, snapshotVars, outboxVars,
                 shemaVars, marked, answered, batch>>

CacheMiss(r) ==
  /\ at[r] = "admitted"
  /\ ~fresh
  /\ Goto(r, "asking")
  /\ UNCHANGED <<key, body, spam, snapshot, reservationVars, accepted, snapshotVars,
                 outboxVars, shemaVars, marked, answered, batch>>

\* Without an answer of the provider, or without a valid identifier, the
\* snapshot is the request's own and is not cached.
PreflightUncached(r) ==
  /\ at[r] \in {"admitted", "asking"}
  /\ snapshot' = [snapshot EXCEPT ![r] = r]
  /\ \E v \in Verdicts : verdict' = [verdict EXCEPT ![r] = v]
  /\ Goto(r, "checked")
  /\ UNCHANGED <<key, body, spam, reservationVars, accepted, stored, cached, fresh,
                 outboxVars, shemaVars, marked, answered, batch>>

\* save_preflight_cache: the row of the cache_key takes the new snapshot_id.
RowLost(r) == stored \ {cached}  \* mutant: the new row is not written
RowsAfterCaching(r) == (stored \ {cached}) \cup {r}

\* The provider answers; another call may have filled the cache meanwhile.
PreflightLookup(r) ==
  /\ at[r] = "asking"
  /\ snapshot' = [snapshot EXCEPT ![r] = r]
  /\ \E v \in Verdicts : verdict' = [verdict EXCEPT ![r] = v]
  /\ stored' = RowsAfterCaching(r)
  /\ cached' = r /\ fresh' = TRUE
  /\ Goto(r, "checked")
  /\ UNCHANGED <<key, body, spam, reservationVars, accepted, outboxVars, shemaVars,
                 marked, answered, batch>>

\* The last transaction: snapshot, request, events and reservation together.
Accept(r) ==
  /\ at[r] = "checked"
  /\ AcceptedFor(key[r]) = {}
  /\ HasCapacity
  /\ Owns(r)
  /\ stored' = stored \cup {snapshot[r]}
  /\ accepted' = accepted \cup {r}
  /\ events' = events \cup EventsOf(r, verdict[snapshot[r]])
  /\ done' = done \cup {key[r]}
  /\ Goto(r, "accepted")
  /\ UNCHANGED <<key, body, spam, snapshot, owner, hash, leased, verdict, cached, fresh,
                 published, held, shemaVars, marked, answered, batch>>

\* It answers from the stored request, or is rolled back: no capacity, or the
\* reservation was taken over.
AcceptRejected(r) ==
  /\ at[r] = "checked"
  /\ IF AcceptedFor(key[r]) # {} THEN AnswerStored(r)
     ELSE ~(HasCapacity /\ Owns(r)) /\ Goto(r, "over") /\ UNCHANGED answered
  /\ UNCHANGED <<key, body, spam, snapshot, reservationVars, accepted, snapshotVars,
                 outboxVars, shemaVars, marked, batch>>

Projection(r) ==
  /\ projected' = projected \cup {r}
  /\ notices' = notices \cup NoticesOf(r, verdict[snapshot[r]])

Project(r) ==
  /\ at[r] = "accepted"
  /\ Projection(r)
  /\ Goto(r, "projected")
  /\ UNCHANGED <<key, body, spam, snapshot, reservationVars, accepted, snapshotVars,
                 outboxVars, marked, answered, batch>>

MarkProjected(r) ==
  /\ at[r] = "projected"
  /\ marked' = marked \cup {r}
  /\ answered' = answered \cup {<<r, r>>}
  /\ Goto(r, "over")
  /\ UNCHANGED <<key, body, spam, snapshot, reservationVars, accepted, snapshotVars,
                 outboxVars, shemaVars, batch>>

\* Shema is out, or the mark fails: the caller is told the request is pending.
ProjectionFails(r) ==
  /\ at[r] \in {"accepted", "projected"}
  /\ answered' = answered \cup {<<r, r>>}
  /\ Goto(r, "over")
  /\ UNCHANGED <<key, body, spam, snapshot, reservationVars, accepted, snapshotVars,
                 outboxVars, shemaVars, marked, batch>>

\* The process that serves the call dies.
Die(r) ==
  /\ at[r] \notin {"new", "over"}
  /\ Goto(r, "over")
  /\ UNCHANGED <<key, body, spam, snapshot, reservationVars, accepted, snapshotVars,
                 outboxVars, shemaVars, marked, answered, batch>>

-----------------------------------------------------------------------------
(* PublicIntakeOutboxDispatcher.dispatch_pending *)

\* SKIP LOCKED: an event another dispatcher is about to mark may be locked.
MayBeLocked(d) == {batch[x].event : x \in {y \in Dispatchers \ {d} : batch[y].at = "mark"}}

\* claim_pending: what is unpublished, not leased and not locked, up to Limit.
Claim(d) ==
  /\ batch[d].at = "idle"
  /\ \E locked \in SUBSET ((events \ held) \cap MayBeLocked(d)) :
       \E S \in SUBSET ((events \ held) \ locked) :
         /\ S # {} /\ Cardinality(S) <= Limit
         /\ Cardinality(S) = Limit \/ S = (events \ held) \ locked
         /\ held' = held \cup S
         /\ batch' = [batch EXCEPT ![d] = [NoBatch EXCEPT !.left = S, !.at = "next"]]
  /\ UNCHANGED <<callVars, reservationVars, accepted, snapshotVars, events, published,
                 shemaVars, marked, answered>>

\* The request of the next event is read and projected; an event that does not
\* notify is only marked.
Deliver(d, e) ==
  /\ batch[d].at = "next"
  /\ e \in batch[d].left
  /\ Notifies(e) => Readable(e[1])
  /\ IF Notifies(e) THEN Projection(e[1]) ELSE UNCHANGED shemaVars
  /\ batch' = [batch EXCEPT ![d] = [left |-> @.left \ {e}, at |-> "mark", event |-> e]]
  /\ UNCHANGED <<callVars, reservationVars, accepted, snapshotVars, outboxVars,
                 marked, answered>>

\* mark_outbox_published, on the lease the shared worker_id holds.
MayPublishPublished(e) == TRUE  \* mutant
MayPublish(e) == e \in held

\* mark_projected and mark_outbox_published in one transaction.
Publish(d) ==
  LET e == batch[d].event IN
  /\ batch[d].at = "mark"
  /\ MayPublish(e)
  /\ published' = published \cup {e}
  /\ events' = events \ {e}
  /\ held' = held \ {e}
  /\ marked' = IF Notifies(e) THEN marked \cup {e[1]} ELSE marked
  /\ batch' = [batch EXCEPT ![d] = [left |-> @.left,
                                    at |-> IF @.left = {} THEN "idle" ELSE "next",
                                    event |-> NoBatch.event]]
  /\ UNCHANGED <<callVars, reservationVars, accepted, snapshotVars, shemaVars, answered>>

\* The lease has passed: both marks are rolled back and dispatch_pending raises.
PublishRejected(d) ==
  /\ batch[d].at = "mark"
  /\ ~MayPublish(batch[d].event)
  /\ batch' = [batch EXCEPT ![d] = NoBatch]
  /\ UNCHANGED <<callVars, reservationVars, accepted, snapshotVars, outboxVars,
                 shemaVars, marked, answered>>

\* Shema is out, a record cannot be read, or the process dies.  Leases stay.
Abort(d) ==
  /\ batch[d].at # "idle"
  /\ batch' = [batch EXCEPT ![d] = NoBatch]
  /\ UNCHANGED <<callVars, reservationVars, accepted, snapshotVars, outboxVars,
                 shemaVars, marked, answered>>

-----------------------------------------------------------------------------
(* Time *)

\* The lease of a completed reservation is not looked at again.
ReservationExpires(k) ==
  /\ leased[k] /\ k \notin done
  /\ leased' = [leased EXCEPT ![k] = FALSE]
  /\ UNCHANGED <<callVars, owner, hash, done, accepted, snapshotVars, outboxVars,
                 shemaVars, marked, answered, batch>>

DeliveryLeaseExpires(e) ==
  /\ e \in held
  /\ held' = held \ {e}
  /\ UNCHANGED <<callVars, reservationVars, accepted, snapshotVars, events, published,
                 shemaVars, marked, answered, batch>>

CacheExpires ==
  /\ fresh
  /\ fresh' = FALSE
  /\ UNCHANGED <<callVars, reservationVars, accepted, verdict, stored, cached, outboxVars,
                 shemaVars, marked, answered, batch>>

Submit(r) ==
  \/ Reserve(r) \/ ReservationTaken(r)
  \/ Admit(r) \/ Refuse(r)
  \/ PreflightFromCache(r) \/ CacheMiss(r) \/ PreflightUncached(r) \/ PreflightLookup(r)
  \/ Accept(r) \/ AcceptRejected(r)
  \/ Project(r) \/ MarkProjected(r) \/ ProjectionFails(r)
  \/ Die(r)

Next ==
  \/ \E r \in Requests : Submit(r)
  \/ \E d \in Dispatchers :
       \/ Claim(d) \/ Publish(d) \/ PublishRejected(d) \/ Abort(d)
       \/ \E e \in Events : Deliver(d, e)
  \/ \E k \in Keys : ReservationExpires(k)
  \/ \E e \in Events : DeliveryLeaseExpires(e)
  \/ CacheExpires

Spec == Init /\ [][Next]_vars

\* What a recovering dispatcher is spared: outages and crashes, and a lease
\* that expires under the dispatcher that delivers the event.
Disturbance ==
  \E d \in Dispatchers :
    \/ Abort(d) /\ ~PublishRejected(d)
    \/ \E e \in Events : (e \in batch[d].left \/ e = batch[d].event) /\ DeliveryLeaseExpires(e)

\* dispatch_pending is called again and again, leases end, and disturbances do
\* at last, however many there were.
Fairness ==
  /\ <>[][~Disturbance]_vars
  /\ \A e \in Events : WF_vars(DeliveryLeaseExpires(e))
  /\ \A d \in Dispatchers :
       WF_vars(Claim(d) \/ Publish(d) \/ PublishRejected(d) \/ \E e \in Events : Deliver(d, e))

-----------------------------------------------------------------------------
(* Correctness *)

TypeOK ==
  /\ key \in [Requests -> Keys] /\ body \in [Requests -> Bodies]
  /\ spam \in [Requests -> BOOLEAN]
  /\ at \in [Requests -> Pc]
  /\ snapshot \in [Requests -> Requests \cup {NoRequest}]
  /\ verdict \in [Requests -> Verdicts]
  /\ owner \in [Keys -> Requests \cup {NoRequest}]
  /\ hash \in [Keys -> Bodies]
  /\ leased \in [Keys -> BOOLEAN]
  /\ done \subseteq Keys
  /\ accepted \subseteq Requests
  /\ stored \subseteq Requests
  /\ cached \in stored \cup {NoRequest} /\ fresh \in BOOLEAN
  /\ events \subseteq Events /\ published \subseteq Events \ events /\ held \subseteq events
  /\ projected \subseteq Requests /\ marked \subseteq Requests
  /\ notices \subseteq Events
  /\ answered \subseteq Requests \X Requests
  /\ batch \in [Dispatchers -> [left : SUBSET Events, at : {"idle", "next", "mark"},
                             event : (Requests \cup {NoRequest}) \X Kinds]]

\* However calls race for a key, expire and take over, a completed reservation
\* names the one stored request of its key and its body, and no request is
\* stored without one (reserve_idempotency, complete_idempotency).
ReservationMatchesRequest ==
  \A k \in Keys :
    /\ k \in done => AcceptedFor(k) = {owner[k]} /\ hash[k] = body[owner[k]]
    /\ k \notin done => AcceptedFor(k) = {}

\* Requests and intake events commit together, an event that notifies is
\* published only once its request is in Shema and marked, and the operator has
\* exactly the notifications the stored requests in Shema call for, whichever
\* of the call and the dispatchers projected them (_submit_reserved, project,
\* dispatch_pending).
EventsMatchRequests ==
  /\ \A r \in Requests :
       {e \in events \cup published : e[1] = r} =
         IF r \in accepted THEN EventsOf(r, verdict[snapshot[r]]) ELSE {}
  /\ \A e \in published : e[2] # "spam" => e[1] \in marked
  /\ marked \subseteq projected /\ projected \subseteq accepted
  /\ notices = UNION {NoticesOf(r, verdict[snapshot[r]]) : r \in projected}

\* ensure_outbox_capacity is called once for the one or two events of a
\* request: the backlog overshoots its bound by one event at most.
BacklogBounded == Cardinality(events) <= MaxPending + 1

\* The intake implements IntakePromise.
Promise == INSTANCE IntakePromise WITH
  Calls <- Requests,
  asks <- [r \in Requests |-> <<key[r], body[r]>>],
  shown <- {e[1] : e \in notices},
  closed <- {e[1] : e \in {x \in published : x[2] = "request"}}
KeepsIntakePromise == Promise!Spec

\* An accepted request that is not spam reaches Shema, whatever became of its
\* call, as long as every stored request can be read back.
EveryRequestProjected ==
  [](\A r \in accepted : Readable(r)) =>
    \A r \in Requests : (r \in accepted /\ ~spam[r]) ~> r \in projected

\* docs/ROADMAP.md: a request "can be reconstructed from intake record ->
\* preflight snapshot -> Shema request context".
AcceptedIsReconstructible == \A r \in accepted : Readable(r)

=============================================================================
