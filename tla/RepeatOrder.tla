---------------------------- MODULE RepeatOrder ----------------------------
(***************************************************************************)
(* RepeatOrderService: concurrent operator calls over the repeat_order_plan*)
(* rows, the draft orders they create and the revenue booked when one is   *)
(* confirmed.  A call is one READ COMMITTED transaction that reads at      *)
(* three moments (the idempotency key; the plan, its order and the current *)
(* price; the rows it locks to write them), and other calls may commit     *)
(* between any two.                                                        *)
(*                                                                         *)
(* The calls are those of the plan's owner with a verified identity: any   *)
(* other call raises before it writes.  An audit row stands for itself and *)
(* for the outbox event of the same name that is appended with it.         *)
(***************************************************************************)
EXTENDS RepeatPlan, FiniteSets

CONSTANTS
  Plans,        \* plan_id values
  Clients,      \* concurrent calls of the service
  Keys,         \* idempotency keys the callers choose
  Prices,       \* totals the revalidator may resolve the lines to
  NoPrice,      \* an order that has no lines yet
  NoRequest,    \* no call, and no row of that idempotency key
  MaxScheduled  \* bound: occurrences above it are not entered or reached

ASSUME RepeatOrderAssumption ==
  /\ NoPlan \notin Plan
  /\ NoPrice \notin Prices
  /\ MaxScheduled \in Nat

VARIABLES
  plan,     \* repeat_order_plan rows, without the revision
  revision, \* repeat_order_plan.revision, 0 before the row exists
  status,   \* order_header.status of the repeat orders
  price,    \* what the order_line rows of an order cost
  revenue,  \* economic_entry rows: [order, amount], the order is the key
  keys,     \* idempotency_key rows: the request (its hash) and the result_ref
  audits,   \* audit_log rows by their uuid5 name
  current,  \* the total the revalidator resolves a plan's lines to now
  pc,       \* where each call is
  req,      \* its command
  key,      \* its idempotency_key
  seen,     \* the plan row it read
  seenRev,  \* the revision of that row
  resolved  \* the total its validation resolved

rowVars == <<plan, revision, status, price, revenue>>
ledgerVars == <<keys, audits>>
callVars == <<pc, req, key, seen, seenRev, resolved>>
vars == <<rowVars, ledgerVars, current, callVars>>

-----------------------------------------------------------------------------
(* Commands *)

Simple == {"pause", "resume", "skip", "cancel", "next"}
Requests ==
  [op : Simple, plan : Plans, arg : {NoRequest}]
    \cup [op : {"create", "edit"}, plan : Plans, arg : Dates]
    \cup [op : {"confirm"}, plan : Plans, arg : Orders]

\* The identity uuid5(f"audit:{action}:{resource_id}:{idempotency_key}").
Resource == Plans \cup Orders
AuditOf(p, ref) == [op |-> req[p].op, ref |-> ref, key |-> key[p]]

ASSUME NoRequestAssumption == NoRequest \notin [req : Requests, ref : Resource]

Used(k) == keys[k] # NoRequest

-----------------------------------------------------------------------------

Init ==
  /\ plan = [pl \in Plans |-> NoPlan]
  /\ revision = [pl \in Plans |-> 0]
  /\ status = [o \in Orders |-> "absent"]
  /\ price = [o \in Orders |-> NoPrice]
  /\ revenue = {}
  /\ keys = [k \in Keys |-> NoRequest]
  /\ audits = {}
  /\ current \in Prices
  /\ pc = [p \in Clients |-> "idle"]
  /\ req = [p \in Clients |-> NoRequest]
  /\ key = [p \in Clients |-> NoRequest]
  /\ seen = [p \in Clients |-> NoPlan]
  /\ seenRev = [p \in Clients |-> 0]
  /\ resolved = [p \in Clients |-> NoPrice]

\* A call finds its idempotency key unused.  A used key is answered with the
\* stored result or refused, and neither changes a row.
Begin(p, r, k) ==
  /\ pc[p] = "idle"
  /\ ~Used(k)
  /\ pc' = [pc EXCEPT ![p] = "reading"]
  /\ req' = [req EXCEPT ![p] = r]
  /\ key' = [key EXCEPT ![p] = k]
  /\ UNCHANGED <<rowVars, ledgerVars, current, seen, seenRev, resolved>>

\* Whether the row the call reads admits its command.
Admits(r, t) ==
  /\ r.op = "pause" => CanPause(t)
  /\ r.op = "resume" => CanResume(t)
  /\ r.op = "skip" => CanSkip(t)
  /\ r.op = "cancel" => CanCancel(t)
  /\ r.op = "edit" => CanEdit(t)
  /\ r.op = "next" => CanAttach(t)
  /\ r.op = "confirm" =>
       t.pending = r.arg /\ status[r.arg] = "draft" /\ price[r.arg] = current

\* It reads the plan, checks it, and has the revalidator resolve the lines.  A
\* draft whose lines are not what they would be now is not confirmed.
Read(p) ==
  LET r == req[p] IN
  /\ pc[p] = "reading"
  /\ (plan[r.plan] = NoPlan) = (r.op = "create")
  /\ Admits(r, plan[r.plan])
  /\ pc' = [pc EXCEPT ![p] = "writing"]
  /\ seen' = [seen EXCEPT ![p] = plan[r.plan]]
  /\ seenRev' = [seenRev EXCEPT ![p] = revision[r.plan]]
  /\ resolved' = [resolved EXCEPT ![p] = current]
  /\ UNCHANGED <<rowVars, ledgerVars, current, req, key>>

EndCall(p) ==
  /\ pc' = [pc EXCEPT ![p] = "idle"]
  /\ req' = [req EXCEPT ![p] = NoRequest]
  /\ key' = [key EXCEPT ![p] = NoRequest]
  /\ seen' = [seen EXCEPT ![p] = NoPlan]
  /\ seenRev' = [seenRev EXCEPT ![p] = 0]
  /\ resolved' = [resolved EXCEPT ![p] = NoPrice]

\* A check raises, the reservation finds another result under the key, a unique
\* key or the revision is not what it must be, or the process dies: the
\* transaction leaves no trace.
Abandon(p) ==
  /\ pc[p] # "idle"
  /\ EndCall(p)
  /\ UNCHANGED <<rowVars, ledgerVars, current>>

\* idempotency.reserve, audits.append and outbox.append.  Reserving the key
\* again for the same request and result is accepted; the audit name is not.
AuditIsNewUnchecked(p, ref) == TRUE  \* mutant: the audit id is not a key
AuditIsNew(p, ref) == AuditOf(p, ref) \notin audits

Reserves(p, ref) ==
  /\ keys[key[p]] \in {NoRequest, [req |-> req[p], ref |-> ref]}
  /\ AuditIsNew(p, ref)
  /\ keys' = [keys EXCEPT ![key[p]] = [req |-> req[p], ref |-> ref]]
  /\ audits' = audits \cup {AuditOf(p, ref)}

\* PostgresRepeatOrderRepository.save of the plan the call computed from the row
\* it read: the revision must still be the one it read.
RevisionIsUnchecked(p) == TRUE  \* mutant: last writer wins
RevisionIs(p) == revision[req[p].plan] = seenRev[p]

SavePlan(p, t) ==
  /\ RevisionIs(p)
  /\ t.scheduled <= MaxScheduled
  /\ plan' = [plan EXCEPT ![req[p].plan] = t]
  /\ revision' = [revision EXCEPT ![req[p].plan] = @ + 1]

\* create_plan: the plan_id is a primary key.
CreatePlan(p) ==
  /\ pc[p] = "writing" /\ req[p].op = "create"
  /\ Reserves(p, req[p].plan)
  /\ plan[req[p].plan] = NoPlan
  /\ plan' = [plan EXCEPT ![req[p].plan] = NewPlan(req[p].arg)]
  /\ revision' = [revision EXCEPT ![req[p].plan] = 1]
  /\ EndCall(p)
  /\ UNCHANGED <<status, price, revenue, current>>

\* _mutate_plan, with the transition of each command.
MutatePlan(p) ==
  LET t == seen[p] r == req[p] IN
  /\ pc[p] = "writing"
  /\ \/ r.op = "pause" /\ SavePlan(p, Pause(t))
     \/ r.op = "resume" /\ SavePlan(p, Resume(t))
     \/ r.op = "skip" /\ SavePlan(p, SkipOnce(t))
     \/ r.op = "cancel" /\ SavePlan(p, Cancel(t))
     \/ r.op = "edit" /\ SavePlan(p, EditContext(t, r.arg))
  /\ Reserves(p, r.plan)
  /\ EndCall(p)
  /\ UNCHANGED <<status, price, revenue, current>>

\* create_next_repeat_order: a draft under a fresh order_id.
CreateNext(p, o) ==
  /\ pc[p] = "writing" /\ req[p].op = "next"
  /\ status[o] = "absent"
  /\ Reserves(p, o)
  /\ status' = [status EXCEPT ![o] = "draft"]
  /\ price' = [price EXCEPT ![o] = resolved[p]]
  /\ SavePlan(p, AttachPendingOrder(seen[p], o))
  /\ EndCall(p)
  /\ UNCHANGED <<revenue, current>>

\* confirm_repeat_order.  The order row is locked and may by now be confirmed,
\* which orders.save accepts; the entry_id of the revenue is a primary key.
ConfirmedOrderUnsaved == "draft"  \* mutant: orders.save is forgotten
ConfirmedOrderTooFar == "completed"    \* mutant: a status save refuses
ConfirmedOrder == "confirmed"

Confirm(p) ==
  LET o == req[p].arg IN
  /\ pc[p] = "writing" /\ req[p].op = "confirm"
  /\ Reserves(p, o)
  /\ status[o] \in {"draft", "confirmed"}
  /\ \A e \in revenue : e.order # o
  /\ status' = [status EXCEPT ![o] = ConfirmedOrder]
  /\ revenue' = revenue \cup {[order |-> o, amount |-> price[o]]}
  /\ SavePlan(p, MarkOrderConfirmed(seen[p], o))
  /\ EndCall(p)
  /\ UNCHANGED <<price, current>>

\* The price or the pricing policy behind the revalidator changes (external).
Reprice ==
  /\ current' \in Prices \ {current}
  /\ UNCHANGED <<rowVars, ledgerVars, callVars>>

Next ==
  \/ \E p \in Clients :
       \/ \E r \in Requests, k \in Keys : Begin(p, r, k)
       \/ Read(p)
       \/ Abandon(p)
       \/ CreatePlan(p)
       \/ MutatePlan(p)
       \/ \E o \in Orders : CreateNext(p, o)
       \/ Confirm(p)
  \/ Reprice

Spec == Init /\ [][Next]_vars

\* An operator who keeps asking for the next order of a plan and for the
\* confirmation of its draft, whose calls end.
FairSpec ==
  /\ Spec
  /\ \A p \in Clients :
       /\ \A r \in {q \in Requests : q.op \in {"next", "confirm"}} :
            SF_vars(\E k \in Keys : Begin(p, r, k))
       /\ SF_vars(Read(p))
       /\ SF_vars(\E o \in Orders : CreateNext(p, o))
       /\ SF_vars(Confirm(p))
       /\ WF_vars(Abandon(p))

-----------------------------------------------------------------------------
(* Properties *)

\* Every row and every call's local state has a value the code can give it.
TypeOK ==
  /\ plan \in [Plans -> Plan \cup {NoPlan}]
  /\ revision \in [Plans -> Nat]
  /\ status \in [Orders -> {"absent", "draft", "confirmed"}]
  /\ price \in [Orders -> Prices \cup {NoPrice}]
  /\ revenue \subseteq [order : Orders, amount : Prices]
  /\ keys \in [Keys -> [req : Requests, ref : Resource] \cup {NoRequest}]
  /\ audits \subseteq [op : {r.op : r \in Requests}, ref : Resource, key : Keys]
  /\ current \in Prices
  /\ pc \in [Clients -> {"idle", "reading", "writing"}]
  /\ req \in [Clients -> Requests \cup {NoRequest}]
  /\ key \in [Clients -> Keys \cup {NoRequest}]
  /\ seen \in [Clients -> Plan \cup {NoPlan}]
  /\ seenRev \in [Clients -> Nat]
  /\ resolved \in [Clients -> Prices \cup {NoPrice}]

\* One effect to a key, one audit and one revision to an effect: the revisions of
\* the plans add up to the audited commands, and every used key has exactly one.
\* (reserve accepts a key again whose result is the plan itself, so a repeated
\* call that slipped past the first look at the key is stopped only later.)
EffectsAreCounted ==
  /\ \A k \in Keys : Cardinality({a \in audits : a.key = k}) = IF Used(k) THEN 1 ELSE 0
  /\ \A pl \in Plans :
       revision[pl] = Cardinality({k \in Keys : Used(k) /\ keys[k].req.plan = pl})

\* The drafts are exactly the orders the plans wait for, each waited for by one
\* plan: no draft is orphaned by a race, and no plan waits for a confirmed order.
DraftsAreAwaited ==
  /\ \A o \in Orders :
       status[o] = "draft" <=> \E pl \in Plans : plan[pl] # NoPlan /\ plan[pl].pending = o
  /\ \A pl, pm \in Plans :
       plan[pl] # NoPlan /\ plan[pm] # NoPlan /\ plan[pl].pending = plan[pm].pending
       => pl = pm \/ plan[pl].pending = NoOrder

\* Revenue is booked of the confirmed orders, once, with the price of their lines.
RevenueMatchesOrders ==
  /\ \A o \in Orders :
       status[o] = "confirmed" => [order |-> o, amount |-> price[o]] \in revenue
  /\ \A e \in revenue : status[e.order] = "confirmed" /\ e.amount = price[e.order]

\* The service implements SerialPlan: whatever the calls read and however they
\* interleave, what they commit is what some one-at-a-time order of them commits.
Serial == INSTANCE SerialPlan
ActsSerially == Serial!Spec

\* "current pricing or repeat context changed; recreate the draft before
\* confirmation": a draft that has lost its price is replaced or regains it,
\* while the operator asks and has keys to ask with.
Stale(pl, o) == plan[pl] # NoPlan /\ plan[pl].pending = o /\ price[o] # current

StaleDraftIsRecreated ==
  \A pl \in Plans, o \in Orders :
    (Stale(pl, o) /\ \E k \in Keys : ~Used(k)) ~> (~Stale(pl, o) \/ \A k \in Keys : Used(k))

=============================================================================
