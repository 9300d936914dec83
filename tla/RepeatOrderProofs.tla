------------------------- MODULE RepeatOrderProofs -------------------------
(***************************************************************************)
(* Proofs about RepeatOrder, for any plans, orders, prices, calls and keys.*)
(***************************************************************************)
EXTENDS RepeatOrder, FiniteSetTheorems, TLAPS

-----------------------------------------------------------------------------
(* Type correctness *)

\* A call has a request and a key; one that has read also has the plan row its
\* command needs and the total its validation resolved.
CallsWork ==
  \A p \in Clients :
    /\ pc[p] # "idle" => req[p] \in Requests /\ key[p] \in Keys
    /\ pc[p] = "writing" => /\ resolved[p] \in Prices
                            /\ req[p].op # "create" => seen[p] \in Plan

\* An order has the lines it was created with.
OrdersArePriced == \A o \in Orders : status[o] # "absent" => price[o] \in Prices

TypeInv == TypeOK /\ CallsWork /\ OrdersArePriced

LEMMA RequestType ==
  ASSUME NEW r \in Requests
  PROVE  /\ r.plan \in Plans
         /\ r.op \in {"create", "edit"} => r.arg \in Dates
         /\ r.op = "confirm" => r.arg \in Orders
         /\ r.op \in {q.op : q \in Requests}
BY DEF Requests, Simple

\* A plan with other values in some of its columns is a plan.
LEMMA PlanChanges ==
  ASSUME NEW t \in Plan, NEW m \in Nat, NEW n \in Nat,
         NEW last \in Orders \cup {NoOrder}, NEW pending \in Orders \cup {NoOrder}
  PROVE  /\ [t EXCEPT !.scheduled = m, !.skipped = n] \in Plan
         /\ [t EXCEPT !.scheduled = m, !.last = last, !.pending = pending] \in Plan
<1> DEFINE N == Nat
           S == PlanStatus
           O == Orders \cup {NoOrder}
<1>1. Plan = [status : S, scheduled : N, pending : O, last : O, skipped : N]
  BY DEF Plan
<1>2. m \in N /\ n \in N /\ last \in O /\ pending \in O
  OBVIOUS
<1> HIDE DEF N, S, O
<1>3. [t EXCEPT !.scheduled = m, !.skipped = n] \in Plan
  BY <1>1, <1>2
<1>4. [t EXCEPT !.scheduled = m, !.last = last, !.pending = pending] \in Plan
  BY <1>1, <1>2
<1> QED
  BY <1>3, <1>4

\* A transition makes a plan of a plan.
LEMMA ConfirmedType ==
  ASSUME NEW t \in Plan, NEW o \in Orders
  PROVE  MarkOrderConfirmed(t, o) \in Plan
<1> DEFINE n == IF t.status = "active" THEN t.scheduled + 1 ELSE t.scheduled
<1>1. n \in Nat
  BY DEF Plan
<1>2. t.skipped \in Nat /\ o \in Orders \cup {NoOrder} /\ NoOrder \in Orders \cup {NoOrder}
  BY DEF Plan
<1>3. MarkOrderConfirmed(t, o) = [t EXCEPT !.scheduled = n, !.last = o, !.pending = NoOrder]
  BY DEF MarkOrderConfirmed
<1> HIDE DEF n
<1>4. [t EXCEPT !.scheduled = n, !.last = o, !.pending = NoOrder] \in Plan
  BY <1>1, <1>2, PlanChanges
<1> QED
  BY <1>3, <1>4, Zenon

LEMMA SwitchType ==
  ASSUME NEW t \in Plan
  PROVE  Pause(t) \in Plan /\ Resume(t) \in Plan /\ SkipOnce(t) \in Plan /\ Cancel(t) \in Plan
<1> USE DEF Plan, PlanStatus
<1>1. Pause(t) \in Plan
  BY DEF Pause
<1>2. Resume(t) \in Plan
  BY DEF Resume
<1>3. SkipOnce(t) \in Plan
  <2>1. t.scheduled + 1 \in Nat /\ t.skipped + 1 \in Nat
    OBVIOUS
  <2>2. ASSUME NEW m \in Nat, NEW n \in Nat
        PROVE  [t EXCEPT !.scheduled = m, !.skipped = n] \in Plan
    BY NoOrder \in Orders \cup {NoOrder}, PlanChanges
  <2>3. SkipOnce(t) = [t EXCEPT !.scheduled = t.scheduled + 1, !.skipped = t.skipped + 1]
    BY DEF SkipOnce
  <2> HIDE DEF Plan
  <2> QED
    BY <2>1, <2>2, <2>3
<1>4. Cancel(t) \in Plan
  BY DEF Cancel
<1> QED
  BY <1>1, <1>2, <1>3, <1>4

LEMMA SaveType ==
  ASSUME TypeOK, NEW p \in Clients, req[p] \in Requests, NEW t \in Plan, SavePlan(p, t)
  PROVE  plan' \in [Plans -> Plan \cup {NoPlan}] /\ revision' \in [Plans -> Nat]
BY RequestType DEF TypeOK, SavePlan

LEMMA ReservesType ==
  ASSUME TypeOK, NEW p \in Clients, req[p] \in Requests, key[p] \in Keys,
         NEW ref \in Resource, Reserves(p, ref)
  PROVE  /\ keys' \in [Keys -> [req : Requests, ref : Resource] \cup {NoRequest}]
         /\ audits' \subseteq [op : {r.op : r \in Requests}, ref : Resource, key : Keys]
<1>1. req[p].op \in {r.op : r \in Requests}
  BY RequestType
<1>2. AuditOf(p, ref) \in [op : {r.op : r \in Requests}, ref : Resource, key : Keys]
  BY <1>1 DEF AuditOf
<1>3. [req |-> req[p], ref |-> ref] \in [req : Requests, ref : Resource]
  OBVIOUS
<1> HIDE DEF Resource, Requests
<1>4. keys' \in [Keys -> [req : Requests, ref : Resource] \cup {NoRequest}]
  BY <1>3 DEF TypeOK, Reserves
<1> QED
  BY <1>2, <1>4 DEF TypeOK, Reserves

LEMMA EndType ==
  ASSUME TypeOK, NEW p \in Clients, EndCall(p)
  PROVE  /\ pc' \in [Clients -> {"idle", "reading", "writing"}]
         /\ req' \in [Clients -> Requests \cup {NoRequest}]
         /\ key' \in [Clients -> Keys \cup {NoRequest}]
         /\ seen' \in [Clients -> Plan \cup {NoPlan}]
         /\ seenRev' \in [Clients -> Nat]
         /\ resolved' \in [Clients -> Prices \cup {NoPrice}]
BY DEF TypeOK, EndCall

LEMMA EndWorks ==
  ASSUME TypeOK, CallsWork, NEW p \in Clients, EndCall(p)
  PROVE  CallsWork'
BY DEF TypeOK, CallsWork, EndCall

LEMMA InitType == Init => TypeInv
BY RepeatOrderAssumption DEF Init, TypeInv, TypeOK, CallsWork, OrdersArePriced

LEMMA StepType == TypeInv /\ [Next]_vars => TypeInv'
<1> SUFFICES ASSUME TypeInv, [Next]_vars PROVE TypeInv'
  OBVIOUS
<1> USE DEF TypeInv
<1>1. ASSUME NEW p \in Clients, NEW r \in Requests, NEW k \in Keys, Begin(p, r, k)
      PROVE  TypeInv'
  BY <1>1 DEF Begin, TypeOK, CallsWork, OrdersArePriced, rowVars, ledgerVars
<1>2. ASSUME NEW p \in Clients, Read(p) PROVE TypeInv'
  <2>1. req[p] \in Requests /\ req[p].plan \in Plans
    BY <1>2, RequestType DEF Read, CallsWork
  <2>2. req[p].op # "create" => plan[req[p].plan] \in Plan
    BY <1>2, <2>1 DEF Read, TypeOK
  <2> QED
    BY <1>2, <2>1, <2>2 DEF Read, TypeOK, CallsWork, OrdersArePriced, rowVars, ledgerVars
<1>3. ASSUME NEW p \in Clients, Abandon(p) PROVE TypeInv'
  BY <1>3, EndType, EndWorks DEF Abandon, TypeOK, OrdersArePriced, rowVars, ledgerVars
<1>4. ASSUME NEW p \in Clients, CreatePlan(p) PROVE TypeInv'
  <2>1. /\ req[p] \in Requests /\ req[p].plan \in Plans /\ req[p].arg \in Dates
        /\ key[p] \in Keys
    BY <1>4, RequestType DEF CreatePlan, CallsWork
  <2>2. req[p].plan \in Resource /\ Reserves(p, req[p].plan)
    BY <1>4, <2>1 DEF CreatePlan, Resource
  <2>3. NewPlan(req[p].arg) \in Plan
    BY <2>1, RepeatPlanAssumption DEF NewPlan, Plan, PlanStatus
  <2>4. plan' \in [Plans -> Plan \cup {NoPlan}] /\ revision' \in [Plans -> Nat]
    BY <1>4, <2>1, <2>3 DEF CreatePlan, TypeOK
  <2> QED
    BY <1>4, <2>1, <2>2, <2>4, ReservesType, EndType, EndWorks
    DEF CreatePlan, TypeOK, OrdersArePriced
<1>5. ASSUME NEW p \in Clients, MutatePlan(p) PROVE TypeInv'
  <2>1. /\ req[p] \in Requests /\ req[p].plan \in Plans
        /\ req[p].op = "edit" => req[p].arg \in Dates
        /\ key[p] \in Keys /\ seen[p] \in Plan
    BY <1>5, RequestType DEF MutatePlan, CallsWork
  <2>2. req[p].plan \in Resource /\ Reserves(p, req[p].plan)
    BY <1>5, <2>1 DEF MutatePlan, Resource
  <2>3. PICK t \in Plan : SavePlan(p, t)
    <3>1. req[p].op = "edit" => EditContext(seen[p], req[p].arg) \in Plan
      BY <2>1, RepeatPlanAssumption DEF EditContext, Plan
    <3> QED
      BY <1>5, <2>1, <3>1, SwitchType DEF MutatePlan
  <2> QED
    BY <1>5, <2>1, <2>2, <2>3, ReservesType, SaveType, EndType, EndWorks
    DEF MutatePlan, TypeOK, OrdersArePriced
<1>6. ASSUME NEW p \in Clients, NEW o \in Orders, CreateNext(p, o) PROVE TypeInv'
  <2>1. /\ req[p] \in Requests /\ key[p] \in Keys
        /\ seen[p] \in Plan /\ resolved[p] \in Prices
    BY <1>6 DEF CreateNext, CallsWork
  <2>2. o \in Resource
    BY DEF Resource
  <2>3. AttachPendingOrder(seen[p], o) \in Plan
    BY <2>1 DEF AttachPendingOrder, Plan
  <2>4. /\ status' \in [Orders -> {"absent", "draft", "confirmed"}]
        /\ price' \in [Orders -> Prices \cup {NoPrice}]
        /\ OrdersArePriced'
    BY <1>6, <2>1 DEF CreateNext, TypeOK, OrdersArePriced
  <2> QED
    BY <1>6, <2>1, <2>2, <2>3, <2>4, ReservesType, SaveType, EndType, EndWorks
    DEF CreateNext, TypeOK
<1>7. ASSUME NEW p \in Clients, Confirm(p) PROVE TypeInv'
  <2>1. /\ req[p] \in Requests /\ key[p] \in Keys
        /\ seen[p] \in Plan /\ req[p].arg \in Orders
    BY <1>7, RequestType DEF Confirm, CallsWork
  <2>2. PICK o \in Orders : o = req[p].arg
    BY <2>1
  <2>3. o \in Resource /\ price[o] \in Prices
    BY <1>7, <2>2 DEF Resource, Confirm, OrdersArePriced
  <2>4. MarkOrderConfirmed(seen[p], o) \in Plan
    BY <2>1, <2>2, ConfirmedType
  <2>5. /\ status' \in [Orders -> {"absent", "draft", "confirmed"}]
        /\ revenue' \subseteq [order : Orders, amount : Prices]
        /\ OrdersArePriced'
    BY <1>7, <2>2, <2>3 DEF Confirm, ConfirmedOrder, TypeOK, OrdersArePriced
  <2>6. Reserves(p, o) /\ SavePlan(p, MarkOrderConfirmed(seen[p], o)) /\ EndCall(p)
    BY <1>7, <2>2 DEF Confirm
  <2> QED
    BY <1>7, <2>1, <2>3, <2>4, <2>5, <2>6, ReservesType, SaveType, EndType, EndWorks
    DEF Confirm, TypeOK
<1>8. CASE Reprice
  BY <1>8 DEF Reprice, TypeOK, CallsWork, OrdersArePriced, rowVars, ledgerVars, callVars
<1>9. CASE UNCHANGED vars
  BY <1>9 DEF vars, TypeOK, CallsWork, OrdersArePriced, rowVars, ledgerVars, callVars
<1> QED
  BY <1>1, <1>2, <1>3, <1>4, <1>5, <1>6, <1>7, <1>8, <1>9 DEF Next

\* Every row, key and call keeps its type.
THEOREM TypeCorrect == Spec => []TypeOK
<1>1. Init => TypeInv
  BY InitType
<1>2. TypeInv /\ [Next]_vars => TypeInv'
  BY StepType
<1>3. TypeInv => TypeOK
  BY DEF TypeInv
<1> QED
  BY <1>1, <1>2, <1>3, PTL DEF Spec

-----------------------------------------------------------------------------
(* What the calls have read.  The revision check turns the invariant into:   *)
(* a call that saves has read the plan as it still is.                       *)

NoPlanNoRevision == \A pl \in Plans : plan[pl] = NoPlan => revision[pl] = 0

\* A call read its plan at an earlier revision, or the row as it is now.
SeenIsOlder ==
  \A p \in Clients :
    pc[p] = "writing" =>
      /\ seenRev[p] <= revision[req[p].plan]
      /\ seenRev[p] = revision[req[p].plan] => seen[p] = plan[req[p].plan]

\* The row it read admitted its command.
SeenAdmits ==
  \A p \in Clients :
    pc[p] = "writing" =>
      /\ req[p].op = "pause" => CanPause(seen[p])
      /\ req[p].op = "resume" => CanResume(seen[p])
      /\ req[p].op = "skip" => CanSkip(seen[p])
      /\ req[p].op = "cancel" => CanCancel(seen[p])
      /\ req[p].op = "edit" => CanEdit(seen[p])
      /\ req[p].op = "next" => CanAttach(seen[p])
      /\ req[p].op = "confirm" => seen[p].pending = req[p].arg

SeenInv == NoPlanNoRevision /\ SeenIsOlder /\ SeenAdmits

LEMMA InitSeen == Init => SeenInv
BY DEF Init, SeenInv, NoPlanNoRevision, SeenIsOlder, SeenAdmits

LEMMA EndAdmits ==
  ASSUME TypeOK, SeenAdmits, NEW p \in Clients, EndCall(p)
  PROVE  SeenAdmits'
<1>1. \A q \in Clients : pc'[q] = "writing" =>
        /\ pc[q] = "writing" /\ req'[q] = req[q] /\ seen'[q] = seen[q]
  BY DEF TypeOK, EndCall
<1> QED
  BY <1>1 DEF SeenAdmits

\* A save leaves every other call that read the plan behind.
LEMMA SaveSeen ==
  ASSUME TypeInv, SeenInv, NEW p \in Clients, req[p] \in Requests, NEW t \in Plan,
         SavePlan(p, t), EndCall(p)
  PROVE  SeenInv'
<1> USE DEF TypeInv, SeenInv
<1>1. PICK pl \in Plans : pl = req[p].plan
  BY RequestType
<1>2. /\ plan' = [plan EXCEPT ![pl] = t]
      /\ revision' = [revision EXCEPT ![pl] = revision[pl] + 1]
  BY <1>1 DEF SavePlan
<1>3. NoPlanNoRevision'
  BY <1>2, RepeatOrderAssumption DEF TypeOK, NoPlanNoRevision
<1>4. SeenIsOlder'
  <2> SUFFICES ASSUME NEW q \in Clients, pc'[q] = "writing"
               PROVE  /\ seenRev'[q] <= revision'[req'[q].plan]
                      /\ seenRev'[q] = revision'[req'[q].plan] => seen'[q] = plan'[req'[q].plan]
    BY DEF SeenIsOlder
  <2>1. /\ pc[q] = "writing" /\ req'[q] = req[q] /\ seen'[q] = seen[q]
        /\ seenRev'[q] = seenRev[q]
    BY DEF TypeOK, EndCall
  <2>2. req[q] \in Requests /\ req[q].plan \in Plans
    BY <2>1, RequestType DEF CallsWork
  <2>3. seenRev[q] <= revision[req[q].plan]
    BY <2>1 DEF SeenIsOlder
  <2>4. seenRev[q] \in Nat /\ revision[req[q].plan] \in Nat /\ revision[pl] \in Nat
    BY <2>2 DEF TypeOK
  <2>5. CASE req[q].plan = pl
    BY <1>2, <2>1, <2>3, <2>4, <2>5 DEF TypeOK
  <2>6. CASE req[q].plan # pl
    BY <1>2, <2>1, <2>2, <2>6 DEF TypeOK, SeenIsOlder
  <2> QED
    BY <2>5, <2>6
<1>5. SeenAdmits'
  BY EndAdmits
<1> QED
  BY <1>3, <1>4, <1>5

LEMMA StepSeen == TypeInv /\ SeenInv /\ [Next]_vars => SeenInv'
<1> SUFFICES ASSUME TypeInv, SeenInv, [Next]_vars PROVE SeenInv'
  OBVIOUS
<1> USE DEF TypeInv, SeenInv
<1>1. ASSUME NEW p \in Clients, NEW r \in Requests, NEW k \in Keys, Begin(p, r, k)
      PROVE  SeenInv'
  <2>1. \A q \in Clients : pc'[q] = "writing" =>
          /\ pc[q] = "writing" /\ req'[q] = req[q]
    BY <1>1 DEF Begin, TypeOK
  <2> QED
    BY <1>1, <2>1 DEF Begin, rowVars, NoPlanNoRevision, SeenIsOlder, SeenAdmits
<1>2. ASSUME NEW p \in Clients, Read(p) PROVE SeenInv'
  <2>1. req[p] \in Requests /\ req[p].plan \in Plans
    BY <1>2, RequestType DEF Read, CallsWork
  <2>2. \A q \in Clients : q # p =>
          pc'[q] = pc[q] /\ seen'[q] = seen[q] /\ seenRev'[q] = seenRev[q]
    BY <1>2 DEF Read, TypeOK
  <2>3. seen'[p] = plan[req[p].plan] /\ seenRev'[p] = revision[req[p].plan]
    BY <1>2 DEF Read, TypeOK
  <2>4. revision[req[p].plan] \in Nat
    BY <2>1 DEF TypeOK
  <2>5. NoPlanNoRevision' /\ SeenIsOlder'
    BY <1>2, <2>2, <2>3, <2>4 DEF Read, rowVars, NoPlanNoRevision, SeenIsOlder
  <2>6. SeenAdmits'
    BY <1>2, <2>2, <2>3 DEF Read, Admits, rowVars, SeenAdmits
  <2> QED
    BY <2>5, <2>6
<1>3. ASSUME NEW p \in Clients, Abandon(p) PROVE SeenInv'
  <2>1. \A q \in Clients : pc'[q] = "writing" =>
          /\ pc[q] = "writing" /\ req'[q] = req[q]
          /\ seen'[q] = seen[q] /\ seenRev'[q] = seenRev[q]
    BY <1>3 DEF Abandon, EndCall, TypeOK
  <2> QED
    BY <1>3, <2>1, EndAdmits DEF Abandon, rowVars, NoPlanNoRevision, SeenIsOlder
<1>4. ASSUME NEW p \in Clients, CreatePlan(p) PROVE SeenInv'
  <2>1. req[p] \in Requests /\ req[p].arg \in Dates
    BY <1>4, RequestType DEF CreatePlan, CallsWork
  <2>2. PICK pl \in Plans : pl = req[p].plan
    BY <2>1, RequestType
  <2>3. /\ plan[pl] = NoPlan /\ revision[pl] = 0
        /\ plan' = [plan EXCEPT ![pl] = NewPlan(req[p].arg)]
        /\ revision' = [revision EXCEPT ![pl] = 1]
    BY <1>4, <2>2 DEF CreatePlan, NoPlanNoRevision
  <2>4. NoPlanNoRevision'
    <3>1. NewPlan(req[p].arg) \in Plan
      BY <2>1, RepeatPlanAssumption DEF NewPlan, Plan, PlanStatus
    <3> QED
      BY <2>3, <3>1, RepeatOrderAssumption DEF TypeOK, NoPlanNoRevision
  <2>5. \A q \in Clients : pc'[q] = "writing" =>
          /\ pc[q] = "writing" /\ req'[q] = req[q]
          /\ seen'[q] = seen[q] /\ seenRev'[q] = seenRev[q]
          /\ req[q] \in Requests /\ seenRev[q] \in Nat
    BY <1>4 DEF CreatePlan, EndCall, TypeOK, CallsWork
  <2>6. SeenIsOlder'
    <3> SUFFICES ASSUME NEW q \in Clients, pc'[q] = "writing"
                 PROVE  /\ seenRev[q] <= revision'[req[q].plan]
                        /\ seenRev[q] = revision'[req[q].plan] => seen[q] = plan'[req[q].plan]
      BY <2>5 DEF SeenIsOlder
    <3>1. req[q].plan \in Plans /\ seenRev[q] \in Nat
      BY <2>5, RequestType
    <3>2. /\ seenRev[q] <= revision[req[q].plan]
          /\ seenRev[q] = revision[req[q].plan] => seen[q] = plan[req[q].plan]
      BY <2>5 DEF SeenIsOlder
    <3>3. CASE req[q].plan = pl
      BY <2>3, <3>1, <3>2, <3>3 DEF TypeOK
    <3>4. CASE req[q].plan # pl
      BY <2>3, <3>1, <3>2, <3>4 DEF TypeOK
    <3> QED
      BY <3>3, <3>4
  <2> QED
    BY <1>4, <2>4, <2>6, EndAdmits DEF CreatePlan
<1>5. ASSUME NEW p \in Clients, MutatePlan(p) PROVE SeenInv'
  <2>1. /\ req[p] \in Requests /\ seen[p] \in Plan
        /\ req[p].op = "edit" => req[p].arg \in Dates
    BY <1>5, RequestType DEF MutatePlan, CallsWork
  <2>2. req[p].op = "edit" => EditContext(seen[p], req[p].arg) \in Plan
    BY <2>1, RepeatPlanAssumption DEF EditContext, Plan
  <2>3. PICK t \in Plan : SavePlan(p, t)
    BY <1>5, <2>1, <2>2, SwitchType DEF MutatePlan
  <2> QED
    BY <1>5, <2>1, <2>3, SaveSeen DEF MutatePlan
<1>6. ASSUME NEW p \in Clients, NEW o \in Orders, CreateNext(p, o) PROVE SeenInv'
  <2>1. req[p] \in Requests /\ seen[p] \in Plan
    BY <1>6 DEF CreateNext, CallsWork
  <2>2. AttachPendingOrder(seen[p], o) \in Plan
    BY <2>1 DEF AttachPendingOrder, Plan
  <2> QED
    BY <1>6, <2>1, <2>2, SaveSeen DEF CreateNext
<1>7. ASSUME NEW p \in Clients, Confirm(p) PROVE SeenInv'
  <2>1. req[p] \in Requests /\ seen[p] \in Plan /\ req[p].arg \in Orders
    BY <1>7, RequestType DEF Confirm, CallsWork
  <2>2. MarkOrderConfirmed(seen[p], req[p].arg) \in Plan
    BY <2>1, ConfirmedType
  <2> QED
    BY <1>7, <2>1, <2>2, SaveSeen DEF Confirm
<1>8. CASE Reprice \/ UNCHANGED vars
  BY <1>8 DEF Reprice, vars, rowVars, callVars, NoPlanNoRevision, SeenIsOlder, SeenAdmits
<1> QED
  BY <1>1, <1>2, <1>3, <1>4, <1>5, <1>6, <1>7, <1>8 DEF Next

\* A call that saves has read the plan row as it is.
LEMMA SavesWhatItRead ==
  ASSUME TypeInv, SeenInv, NEW p \in Clients, pc[p] = "writing", req[p].op # "create",
         RevisionIs(p)
  PROVE  /\ req[p] \in Requests /\ req[p].plan \in Plans
         /\ seen[p] \in Plan /\ plan[req[p].plan] = seen[p]
BY RequestType DEF TypeInv, CallsWork, SeenInv, SeenIsOlder, RevisionIs

-----------------------------------------------------------------------------
(* The orders, and the serial specification.                                 *)

OrderInv == TypeInv /\ SeenInv /\ DraftsAreAwaited /\ RevenueMatchesOrders

LEMMA InitOrders == Init => OrderInv
BY InitType, InitSeen, RepeatPlanAssumption
   DEF Init, OrderInv, DraftsAreAwaited, RevenueMatchesOrders

\* A step that changes no order, and no plan's pending order, keeps both.
LEMMA SamePending ==
  ASSUME DraftsAreAwaited, RevenueMatchesOrders, UNCHANGED <<status, price, revenue>>,
         \A pl \in Plans, o \in Orders :
           (plan'[pl] # NoPlan /\ plan'[pl].pending = o)
             <=> (plan[pl] # NoPlan /\ plan[pl].pending = o),
         \A pl \in Plans : plan'[pl] = NoPlan \/ plan'[pl].pending \in Orders \cup {NoOrder}
  PROVE  DraftsAreAwaited' /\ RevenueMatchesOrders'
<1>1. RevenueMatchesOrders'
  BY DEF RevenueMatchesOrders
<1>2. \A o \in Orders :
        status'[o] = "draft" <=> \E pl \in Plans : plan'[pl] # NoPlan /\ plan'[pl].pending = o
  BY DEF DraftsAreAwaited
<1>3. ASSUME NEW pl \in Plans, NEW pm \in Plans, plan'[pl] # NoPlan, plan'[pm] # NoPlan,
             plan'[pl].pending = plan'[pm].pending, plan'[pl].pending # NoOrder
      PROVE  pl = pm
  <2>1. PICK o \in Orders : o = plan'[pl].pending
    BY <1>3
  <2>2. /\ plan[pl] # NoPlan /\ plan[pl].pending = o
        /\ plan[pm] # NoPlan /\ plan[pm].pending = o
    BY <1>3, <2>1
  <2>3. pl = pm \/ o = NoOrder
    BY <2>2 DEF DraftsAreAwaited
  <2> QED
    BY <1>3, <2>1, <2>3
<1> QED
  BY <1>1, <1>2, <1>3 DEF DraftsAreAwaited

\* _mutate_plan changes the plan the serial command would change, alike, and
\* never its pending order.
LEMMA MutateIsSerial ==
  ASSUME OrderInv, NEW p \in Clients, MutatePlan(p)
  PROVE  /\ \E pl \in Plans : Serial!ChangePlan(pl)
         /\ DraftsAreAwaited' /\ RevenueMatchesOrders'
         /\ \A pm \in Plans, o \in Orders :
              (plan'[pm] # NoPlan /\ plan'[pm].pending = o)
                <=> (plan[pm] # NoPlan /\ plan[pm].pending = o)
<1> USE DEF OrderInv
<1>1. pc[p] = "writing" /\ req[p].op # "create" /\ RevisionIs(p)
  BY DEF MutatePlan, SavePlan
<1>2. PICK pl \in Plans : pl = req[p].plan /\ plan[pl] = seen[p] /\ plan[pl] \in Plan
  BY <1>1, SavesWhatItRead
<1>3. plan[pl] # NoPlan
  BY <1>2, RepeatOrderAssumption
<1>4. req[p] \in Requests /\ (req[p].op = "edit" => req[p].arg \in Dates)
  BY <1>1, RequestType DEF TypeInv, CallsWork
<1>5. \/ CanPause(plan[pl]) /\ plan' = [plan EXCEPT ![pl] = Pause(plan[pl])]
      \/ CanResume(plan[pl]) /\ plan' = [plan EXCEPT ![pl] = Resume(plan[pl])]
      \/ CanSkip(plan[pl]) /\ plan' = [plan EXCEPT ![pl] = SkipOnce(plan[pl])]
      \/ CanCancel(plan[pl]) /\ plan' = [plan EXCEPT ![pl] = Cancel(plan[pl])]
      \/ CanEdit(plan[pl]) /\ \E n \in Dates : plan' = [plan EXCEPT ![pl] = EditContext(plan[pl], n)]
  BY <1>1, <1>2, <1>4 DEF MutatePlan, SavePlan, SeenInv, SeenAdmits
<1>6. UNCHANGED <<status, price, revenue>>
  BY DEF MutatePlan
<1>7. Serial!ChangePlan(pl)
  BY <1>3, <1>5, <1>6
  DEF Serial!ChangePlan, Serial!CanPause, Serial!CanResume, Serial!CanSkip, Serial!CanCancel,
      Serial!CanEdit, Serial!Pause, Serial!Resume, Serial!SkipOnce, Serial!Cancel,
      Serial!EditContext, CanPause, CanResume, CanSkip, CanCancel, CanEdit, Pause, Resume,
      SkipOnce, Cancel, EditContext
<1>8. PICK t \in Plan : plan' = [plan EXCEPT ![pl] = t] /\ t.pending = plan[pl].pending
  <2>1. \A n \in Dates : EditContext(plan[pl], n) \in Plan
    BY <1>2, RepeatPlanAssumption DEF EditContext, Plan
  <2>2. /\ Pause(plan[pl]).pending = plan[pl].pending
        /\ Resume(plan[pl]).pending = plan[pl].pending
        /\ SkipOnce(plan[pl]).pending = plan[pl].pending
        /\ Cancel(plan[pl]).pending = plan[pl].pending
        /\ \A n \in Dates : EditContext(plan[pl], n).pending = plan[pl].pending
    BY <1>2 DEF Plan, Pause, Resume, SkipOnce, Cancel, EditContext
  <2> QED
    BY <1>2, <1>5, <2>1, <2>2, SwitchType
<1>9. \A pm \in Plans, o \in Orders :
        (plan'[pm] # NoPlan /\ plan'[pm].pending = o)
          <=> (plan[pm] # NoPlan /\ plan[pm].pending = o)
  BY <1>3, <1>8, RepeatOrderAssumption DEF TypeInv, TypeOK
<1>10. \A pm \in Plans : plan'[pm] = NoPlan \/ plan'[pm].pending \in Orders \cup {NoOrder}
  BY <1>8 DEF TypeInv, TypeOK, Plan
<1> QED
  <2>1. DraftsAreAwaited' /\ RevenueMatchesOrders'
    BY <1>6, <1>9, <1>10, SamePending
  <2> QED
    BY <1>7, <1>9, <2>1

LEMMA CreatePlanIsSerial ==
  ASSUME OrderInv, NEW p \in Clients, CreatePlan(p)
  PROVE  /\ \E pl \in Plans, n \in Dates : Serial!CreatePlan(pl, n)
         /\ DraftsAreAwaited' /\ RevenueMatchesOrders'
<1> USE DEF OrderInv
<1>1. req[p] \in Requests
  BY DEF CreatePlan, TypeInv, CallsWork
<1>2. PICK pl \in Plans, n \in Dates : pl = req[p].plan /\ n = req[p].arg
  BY <1>1, RequestType DEF CreatePlan
<1>3. /\ plan[pl] = NoPlan /\ plan' = [plan EXCEPT ![pl] = NewPlan(n)]
      /\ UNCHANGED <<status, price, revenue>>
  BY <1>2 DEF CreatePlan
<1>4. Serial!CreatePlan(pl, n)
  BY <1>3 DEF Serial!CreatePlan, Serial!NewPlan, NewPlan
<1>5. NewPlan(n) \in Plan /\ NewPlan(n).pending = NoOrder
  BY RepeatPlanAssumption DEF NewPlan, Plan, PlanStatus
<1>6. \A pm \in Plans, o \in Orders :
        (plan'[pm] # NoPlan /\ plan'[pm].pending = o)
          <=> (plan[pm] # NoPlan /\ plan[pm].pending = o)
  BY <1>3, <1>5, RepeatPlanAssumption DEF TypeInv, TypeOK
<1>7. \A pm \in Plans : plan'[pm] = NoPlan \/ plan'[pm].pending \in Orders \cup {NoOrder}
  BY <1>3, <1>5 DEF TypeInv, TypeOK, Plan
<1> QED
  BY <1>3, <1>4, <1>6, <1>7, SamePending

\* The drafts awaited after pl alone has changed what it waits for, from a to b.
LEMMA PendingMoves ==
  ASSUME TypeOK, DraftsAreAwaited, NEW pl \in Plans, plan[pl] \in Plan, NEW t \in Plan,
         plan' = [plan EXCEPT ![pl] = t],
         \A o \in Orders :
           status'[o] = "draft"
             <=> (status[o] = "draft" /\ o # plan[pl].pending) \/ o = t.pending,
         t.pending \in Orders => status[t.pending] # "draft"
  PROVE  DraftsAreAwaited'
<1>1. t # NoPlan /\ plan[pl] # NoPlan
  BY RepeatOrderAssumption
<1>2. /\ plan'[pl] = t
      /\ \A pm \in Plans : pm # pl => plan'[pm] = plan[pm]
  BY DEF TypeOK
<1>3. ASSUME NEW o \in Orders
      PROVE  status'[o] = "draft" <=> \E pm \in Plans : plan'[pm] # NoPlan /\ plan'[pm].pending = o
  <2>1. CASE o = t.pending
    BY <1>1, <1>2, <2>1
  <2>2. CASE o # t.pending
    <3>1. ASSUME status'[o] = "draft"
          PROVE  \E pm \in Plans : plan'[pm] # NoPlan /\ plan'[pm].pending = o
      <4>1. status[o] = "draft" /\ o # plan[pl].pending
        BY <2>2, <3>1
      <4>2. PICK pm \in Plans : plan[pm] # NoPlan /\ plan[pm].pending = o
        BY <4>1 DEF DraftsAreAwaited
      <4>3. pm # pl
        BY <4>1, <4>2
      <4> QED
        BY <1>2, <4>2, <4>3
    <3>2. ASSUME NEW pm \in Plans, plan'[pm] # NoPlan, plan'[pm].pending = o
          PROVE  status'[o] = "draft"
      <4>1. pm # pl /\ plan[pm] # NoPlan /\ plan[pm].pending = o
        BY <1>2, <2>2, <3>2
      <4>2. status[o] = "draft"
        BY <4>1 DEF DraftsAreAwaited
      <4>3. o # plan[pl].pending
        <5>1. o # NoOrder
          BY RepeatPlanAssumption
        <5> QED
          BY <1>1, <4>1, <5>1 DEF DraftsAreAwaited
      <4> QED
        BY <4>2, <4>3
    <3> QED
      BY <3>1, <3>2
  <2> QED
    BY <2>1, <2>2
<1>4. ASSUME NEW pm \in Plans, NEW pn \in Plans, plan'[pm] # NoPlan, plan'[pn] # NoPlan,
             plan'[pm].pending = plan'[pn].pending, plan'[pm].pending # NoOrder
      PROVE  pm = pn
  <2>1. ASSUME NEW pk \in Plans, pk # pl, plan[pk] # NoPlan
        PROVE  plan[pk].pending # t.pending \/ t.pending = NoOrder
    <3>1. CASE t.pending \in Orders
      BY <2>1, <3>1 DEF DraftsAreAwaited
    <3>2. CASE t.pending = NoOrder
      BY <3>2
    <3> QED
      BY <3>1, <3>2 DEF Plan
  <2>2. CASE pm # pl /\ pn # pl
    BY <1>2, <1>4, <2>2 DEF DraftsAreAwaited
  <2> QED
    BY <1>2, <1>4, <2>1, <2>2
<1> QED
  BY <1>3, <1>4 DEF DraftsAreAwaited

\* create_next_repeat_order saves only a plan that still waits for nothing.
LEMMA CreateNextIsSerial ==
  ASSUME OrderInv, NEW p \in Clients, NEW o \in Orders, CreateNext(p, o)
  PROVE  /\ \E pl \in Plans, c \in Prices : Serial!CreateNext(pl, o, c)
         /\ DraftsAreAwaited' /\ RevenueMatchesOrders'
<1> USE DEF OrderInv
<1>1. pc[p] = "writing" /\ req[p].op = "next" /\ RevisionIs(p)
  BY DEF CreateNext, SavePlan
<1>2. PICK pl \in Plans : pl = req[p].plan /\ plan[pl] = seen[p] /\ plan[pl] \in Plan
  BY <1>1, SavesWhatItRead
<1>3. PICK c \in Prices : c = resolved[p]
  BY <1>1 DEF TypeInv, CallsWork
<1>4. CanAttach(plan[pl])
  BY <1>1, <1>2 DEF SeenInv, SeenAdmits
<1>5. /\ status[o] = "absent"
      /\ plan' = [plan EXCEPT ![pl] = AttachPendingOrder(plan[pl], o)]
      /\ status' = [status EXCEPT ![o] = "draft"]
      /\ price' = [price EXCEPT ![o] = c]
      /\ revenue' = revenue
  BY <1>2, <1>3 DEF CreateNext, SavePlan
<1>6. Serial!CreateNext(pl, o, c)
  BY <1>2, <1>4, <1>5, RepeatOrderAssumption
  DEF Serial!CreateNext, Serial!CanAttach, Serial!AttachPendingOrder, CanAttach,
      AttachPendingOrder
<1>7. PICK t \in Plan : t = AttachPendingOrder(plan[pl], o) /\ t.pending = o
  <2>1. AttachPendingOrder(plan[pl], o) \in Plan
    BY <1>2 DEF AttachPendingOrder, Plan
  <2>2. AttachPendingOrder(plan[pl], o).pending = o
    BY <1>2 DEF AttachPendingOrder, Plan
  <2> QED
    BY <2>1, <2>2
<1>8. plan[pl].pending = NoOrder
  BY <1>4 DEF CanAttach
<1>9. \A q \in Orders :
        status'[q] = "draft" <=> (status[q] = "draft" /\ q # plan[pl].pending) \/ q = t.pending
  BY <1>5, <1>7, <1>8, RepeatPlanAssumption DEF TypeInv, TypeOK
<1>10. DraftsAreAwaited'
  BY <1>2, <1>5, <1>7, <1>9, PendingMoves DEF TypeInv
<1>11. RevenueMatchesOrders'
  <2>1. \A e \in revenue : e.order \in Orders /\ e.order # o
    BY <1>5 DEF RevenueMatchesOrders, TypeInv, TypeOK
  <2> QED
    BY <1>5, <2>1 DEF RevenueMatchesOrders, TypeInv, TypeOK
<1> QED
  BY <1>6, <1>10, <1>11

\* confirm_repeat_order saves only a plan that still waits for the draft, so the
\* order it locks is a draft, of which no revenue is booked.
LEMMA ConfirmIsSerial ==
  ASSUME OrderInv, NEW p \in Clients, Confirm(p)
  PROVE  /\ \E pl \in Plans, o \in Orders : Serial!Confirm(pl, o)
         /\ DraftsAreAwaited' /\ RevenueMatchesOrders'
<1> USE DEF OrderInv
<1>1. pc[p] = "writing" /\ req[p].op = "confirm" /\ RevisionIs(p)
  BY DEF Confirm, SavePlan
<1>2. PICK pl \in Plans : pl = req[p].plan /\ plan[pl] = seen[p] /\ plan[pl] \in Plan
  BY <1>1, SavesWhatItRead
<1>3. PICK o \in Orders : o = req[p].arg
  BY <1>1, RequestType DEF TypeInv, CallsWork
<1>4. plan[pl] # NoPlan /\ plan[pl].pending = o
  BY <1>1, <1>2, <1>3, RepeatOrderAssumption DEF SeenInv, SeenAdmits
<1>5. status[o] = "draft"
  BY <1>4 DEF DraftsAreAwaited
<1>6. /\ plan' = [plan EXCEPT ![pl] = MarkOrderConfirmed(plan[pl], o)]
      /\ status' = [status EXCEPT ![o] = "confirmed"]
      /\ revenue' = revenue \cup {[order |-> o, amount |-> price[o]]}
      /\ price' = price
  BY <1>2, <1>3 DEF Confirm, ConfirmedOrder, SavePlan
<1>7. Serial!Confirm(pl, o)
  BY <1>4, <1>5, <1>6
  DEF Serial!Confirm, Serial!MarkOrderConfirmed, MarkOrderConfirmed
<1>8. PICK t \in Plan : t = MarkOrderConfirmed(plan[pl], o) /\ t.pending = NoOrder
  <2>1. MarkOrderConfirmed(plan[pl], o) \in Plan
    BY <1>2, ConfirmedType
  <2>2. MarkOrderConfirmed(plan[pl], o).pending = NoOrder
    BY <1>2 DEF MarkOrderConfirmed, Plan
  <2> QED
    BY <2>1, <2>2
<1>9. \A q \in Orders :
        status'[q] = "draft" <=> (status[q] = "draft" /\ q # plan[pl].pending) \/ q = t.pending
  BY <1>4, <1>6, <1>8, RepeatPlanAssumption DEF TypeInv, TypeOK
<1>10. DraftsAreAwaited'
  BY <1>2, <1>6, <1>8, <1>9, RepeatPlanAssumption, PendingMoves DEF TypeInv
<1>11. RevenueMatchesOrders'
  <2>1. \A e \in revenue : e.order \in Orders /\ e.order # o
    BY <1>5 DEF RevenueMatchesOrders, TypeInv, TypeOK
  <2> QED
    BY <1>6, <2>1 DEF RevenueMatchesOrders, TypeInv, TypeOK
<1> QED
  BY <1>7, <1>10, <1>11

LEMMA StepOrders ==
  OrderInv /\ [Next]_vars => DraftsAreAwaited' /\ RevenueMatchesOrders' /\ [Serial!Next]_(Serial!vars)
<1> SUFFICES ASSUME OrderInv, [Next]_vars
             PROVE  DraftsAreAwaited' /\ RevenueMatchesOrders' /\ [Serial!Next]_(Serial!vars)
  OBVIOUS
<1>1. ASSUME UNCHANGED <<plan, status, price, revenue>>
      PROVE  DraftsAreAwaited' /\ RevenueMatchesOrders' /\ UNCHANGED Serial!vars
  BY <1>1 DEF OrderInv, DraftsAreAwaited, RevenueMatchesOrders, Serial!vars
<1>2. ASSUME NEW p \in Clients, \/ \E r \in Requests, k \in Keys : Begin(p, r, k)
                                \/ Read(p) \/ Abandon(p)
      PROVE  UNCHANGED <<plan, status, price, revenue>>
  BY <1>2 DEF Begin, Read, Abandon, rowVars
<1>3. ASSUME NEW p \in Clients, CreatePlan(p)
      PROVE  DraftsAreAwaited' /\ RevenueMatchesOrders' /\ Serial!Next
  BY <1>3, CreatePlanIsSerial DEF Serial!Next
<1>4. ASSUME NEW p \in Clients, MutatePlan(p)
      PROVE  DraftsAreAwaited' /\ RevenueMatchesOrders' /\ Serial!Next
  BY <1>4, MutateIsSerial DEF Serial!Next
<1>5. ASSUME NEW p \in Clients, NEW o \in Orders, CreateNext(p, o)
      PROVE  DraftsAreAwaited' /\ RevenueMatchesOrders' /\ Serial!Next
  BY <1>5, CreateNextIsSerial DEF Serial!Next
<1>6. ASSUME NEW p \in Clients, Confirm(p)
      PROVE  DraftsAreAwaited' /\ RevenueMatchesOrders' /\ Serial!Next
  BY <1>6, ConfirmIsSerial DEF Serial!Next
<1>7. ASSUME Reprice \/ UNCHANGED vars
      PROVE  UNCHANGED <<plan, status, price, revenue>>
  BY <1>7 DEF Reprice, vars, rowVars
<1> QED
  BY <1>1, <1>2, <1>3, <1>4, <1>5, <1>6, <1>7 DEF Next

LEMMA OrdersInvariant == Spec => []OrderInv
<1>1. Init => OrderInv
  BY InitOrders
<1>2. OrderInv /\ [Next]_vars => OrderInv'
  BY StepType, StepSeen, StepOrders DEF OrderInv
<1> QED
  BY <1>1, <1>2, PTL DEF Spec

\* However the calls race, the drafts are exactly the orders the plans wait for.
THEOREM DraftsStayAwaited == Spec => []DraftsAreAwaited
<1>1. OrderInv => DraftsAreAwaited
  BY DEF OrderInv
<1> QED
  BY <1>1, OrdersInvariant, PTL

\* Revenue is booked once of every confirmed order, with the price of its lines.
THEOREM RevenueCorrect == Spec => []RevenueMatchesOrders
<1>1. OrderInv => RevenueMatchesOrders
  BY DEF OrderInv
<1> QED
  BY <1>1, OrdersInvariant, PTL

\* The service implements one-at-a-time execution of its commands.
THEOREM CommandsAreSerial == Spec => ActsSerially
<1>1. Init => Serial!Init
  BY DEF Init, Serial!Init
<1>2. OrderInv /\ [Next]_vars => [Serial!Next]_(Serial!vars)
  BY StepOrders
<1> QED
  BY <1>1, <1>2, OrdersInvariant, PTL DEF Spec, ActsSerially, Serial!Spec
-----------------------------------------------------------------------------
(* Effects, audits and revisions.  The audit of a used key is the one its   *)
(* row tells, so a call whose key was used meanwhile for the same command   *)
(* and result cannot append its own.                                        *)

AuditsOf(k) == {a \in audits : a.key = k}
UsedFor(pl) == {k \in Keys : Used(k) /\ keys[k].req.plan = pl}

AuditsTellKeys ==
  \A k \in Keys :
    AuditsOf(k) = IF Used(k) THEN {[op |-> keys[k].req.op, ref |-> keys[k].ref, key |-> k]}
                  ELSE {}

RevisionsCount ==
  \A pl \in Plans : IsFiniteSet(UsedFor(pl)) /\ revision[pl] = Cardinality(UsedFor(pl))

EffectsInv == AuditsTellKeys /\ RevisionsCount

LEMMA InitEffects == Init => EffectsInv
<1> SUFFICES ASSUME Init PROVE EffectsInv
  OBVIOUS
<1>1. \A pl \in Plans : UsedFor(pl) = {}
  BY DEF Init, UsedFor, Used
<1>2. RevisionsCount
  BY <1>1, FS_EmptySet DEF Init, RevisionsCount
<1>3. AuditsTellKeys
  BY DEF Init, AuditsTellKeys, AuditsOf, Used
<1> QED
  BY <1>2, <1>3 DEF EffectsInv

\* A call that commits uses its key for the first time.
LEMMA ReservesOnce ==
  ASSUME TypeInv, EffectsInv, NEW p \in Clients, pc[p] = "writing",
         NEW ref \in Resource, Reserves(p, ref),
         revision' = [revision EXCEPT ![req[p].plan] = @ + 1]
  PROVE  EffectsInv'
<1>k. PICK k \in Keys, r \in Requests, pl \in Plans : k = key[p] /\ r = req[p] /\ pl = r.plan
  BY RequestType DEF TypeInv, CallsWork
<1> DEFINE row == [req |-> r, ref |-> ref]
           audit == [op |-> r.op, ref |-> ref, key |-> k]
<1>0. row # NoRequest /\ TypeOK /\ AuditsTellKeys /\ RevisionsCount
  <2>1. row \in [req : Requests, ref : Resource]
    OBVIOUS
  <2> QED
    BY <2>1, NoRequestAssumption DEF TypeInv, EffectsInv
<1>1. /\ keys[k] = NoRequest \/ keys[k] = row
      /\ audit \notin audits /\ audits' = audits \cup {audit}
      /\ keys' = [keys EXCEPT ![k] = row]
  BY <1>k DEF Reserves, AuditIsNew, AuditOf
<1>2. ~Used(k)
  <2> SUFFICES ASSUME Used(k) PROVE FALSE
    OBVIOUS
  <2>1. keys[k] = row
    BY <1>1 DEF Used
  <2>2. row.req.op = r.op /\ row.ref = ref
    OBVIOUS
  <2> HIDE DEF row
  <2>3. AuditsOf(k) = {audit}
    BY <1>0, <2>1, <2>2 DEF AuditsTellKeys
  <2> QED
    BY <1>1, <2>3 DEF AuditsOf
<1> HIDE DEF row
<1>3. ASSUME NEW x \in Keys
      PROVE  /\ x # k => keys'[x] = keys[x] /\ (Used(x)' <=> Used(x))
             /\ keys'[k] = row /\ Used(k)'
  BY <1>0, <1>1 DEF TypeOK, Used
<1>4. row.req.op = r.op /\ row.ref = ref /\ row.req.plan = pl
  BY <1>k DEF row
<1>5. AuditsTellKeys'
  <2> SUFFICES ASSUME NEW x \in Keys
               PROVE  AuditsOf(x)' = IF Used(x)'
                        THEN {[op |-> keys'[x].req.op, ref |-> keys'[x].ref, key |-> x]}
                        ELSE {}
    BY DEF AuditsTellKeys
  <2>1. audit.key = k
    OBVIOUS
  <2>2. CASE x = k
    <3>1. AuditsOf(k) = {}
      BY <1>0, <1>2 DEF AuditsTellKeys
    <3>2. AuditsOf(k)' = {audit}
      BY <1>1, <2>1, <3>1 DEF AuditsOf
    <3> QED
      BY <1>0, <1>3, <1>4, <2>2, <3>2
  <2>3. CASE x # k
    <3>1. AuditsOf(x)' = AuditsOf(x)
      BY <1>1, <2>1, <2>3 DEF AuditsOf
    <3> QED
      BY <1>0, <1>3, <2>3, <3>1 DEF AuditsTellKeys
  <2> QED
    BY <2>2, <2>3
<1>6. RevisionsCount'
  <2> SUFFICES ASSUME NEW x \in Plans
               PROVE  IsFiniteSet(UsedFor(x)') /\ revision'[x] = Cardinality(UsedFor(x)')
    BY DEF RevisionsCount
  <2>1. IsFiniteSet(UsedFor(x)) /\ revision[x] = Cardinality(UsedFor(x))
    BY <1>0 DEF RevisionsCount
  <2>2. CASE x = pl
    <3>1. k \notin UsedFor(x)
      BY <1>2 DEF UsedFor
    <3>2. UsedFor(x)' = UsedFor(x) \cup {k}
      BY <1>0, <1>2, <1>3, <1>4, <2>2 DEF UsedFor
    <3>3. revision'[x] = revision[x] + 1
      BY <1>0, <1>k, <2>2 DEF TypeOK
    <3>4. Cardinality(UsedFor(x) \cup {k}) = Cardinality(UsedFor(x)) + 1
      BY <2>1, <3>1, FS_AddElement
    <3>5. IsFiniteSet(UsedFor(x) \cup {k})
      BY <2>1, FS_AddElement
    <3> QED
      BY <2>1, <3>2, <3>3, <3>4, <3>5
  <2>3. CASE x # pl
    <3>1. UsedFor(x)' = UsedFor(x)
      BY <1>0, <1>2, <1>3, <1>4, <2>3 DEF UsedFor
    <3>2. revision'[x] = revision[x]
      BY <1>0, <1>k, <2>3 DEF TypeOK
    <3> QED
      BY <2>1, <3>1, <3>2
  <2> QED
    BY <2>2, <2>3
<1> QED
  BY <1>5, <1>6 DEF EffectsInv

LEMMA StepEffects == TypeInv /\ SeenInv /\ EffectsInv /\ [Next]_vars => EffectsInv'
<1> SUFFICES ASSUME TypeInv, SeenInv, EffectsInv, [Next]_vars PROVE EffectsInv'
  OBVIOUS
<1>1. ASSUME UNCHANGED <<revision, keys, audits>> PROVE EffectsInv'
  BY <1>1 DEF EffectsInv, AuditsTellKeys, RevisionsCount, AuditsOf, UsedFor, Used
<1>2. ASSUME NEW p \in Clients, CreatePlan(p) PROVE EffectsInv'
  <2>1. req[p].plan \in Plans
    BY <1>2, RequestType DEF CreatePlan, TypeInv, CallsWork
  <2>2. revision[req[p].plan] = 0
    BY <1>2, <2>1 DEF CreatePlan, SeenInv, NoPlanNoRevision
  <2>3. revision' = [revision EXCEPT ![req[p].plan] = @ + 1]
    BY <1>2, <2>2 DEF CreatePlan
  <2> QED
    BY <1>2, <2>1, <2>3, ReservesOnce DEF CreatePlan, Resource
<1>3. ASSUME NEW p \in Clients, MutatePlan(p) PROVE EffectsInv'
  <2>1. req[p].plan \in Plans
    BY <1>3, RequestType DEF MutatePlan, TypeInv, CallsWork
  <2>2. revision' = [revision EXCEPT ![req[p].plan] = @ + 1]
    BY <1>3 DEF MutatePlan, SavePlan
  <2> QED
    BY <1>3, <2>1, <2>2, ReservesOnce DEF MutatePlan, Resource
<1>4. ASSUME NEW p \in Clients, NEW o \in Orders, CreateNext(p, o) PROVE EffectsInv'
  BY <1>4, ReservesOnce DEF CreateNext, SavePlan, Resource
<1>5. ASSUME NEW p \in Clients, Confirm(p) PROVE EffectsInv'
  <2>1. req[p].arg \in Orders
    BY <1>5, RequestType DEF Confirm, TypeInv, CallsWork
  <2> QED
    BY <1>5, <2>1, ReservesOnce DEF Confirm, SavePlan, Resource
<1>6. ASSUME NEW p \in Clients, \/ \E r \in Requests, k \in Keys : Begin(p, r, k)
                                \/ Read(p) \/ Abandon(p)
      PROVE  UNCHANGED <<revision, keys, audits>>
  BY <1>6 DEF Begin, Read, Abandon, rowVars, ledgerVars
<1>7. ASSUME Reprice \/ UNCHANGED vars PROVE UNCHANGED <<revision, keys, audits>>
  BY <1>7 DEF Reprice, vars, rowVars, ledgerVars
<1> QED
  BY <1>1, <1>2, <1>3, <1>4, <1>5, <1>6, <1>7 DEF Next

\* Whatever keys the callers repeat and however their calls race, a key has one
\* effect, an effect one audit and one revision of its plan
\* (idempotency.reserve, audits.append, the revision check of save).
THEOREM EffectsCorrect == Spec => []EffectsAreCounted
<1>1. Init => EffectsInv
  BY InitEffects
<1>2. OrderInv /\ EffectsInv /\ [Next]_vars => EffectsInv'
  BY StepEffects DEF OrderInv
<1>3. EffectsInv => EffectsAreCounted
  <2> SUFFICES ASSUME EffectsInv PROVE EffectsAreCounted
    OBVIOUS
  <2>1. ASSUME NEW k \in Keys
        PROVE  Cardinality(AuditsOf(k)) = IF Used(k) THEN 1 ELSE 0
    BY FS_EmptySet, FS_Singleton DEF EffectsInv, AuditsTellKeys
  <2> QED
    BY <2>1 DEF EffectsInv, RevisionsCount, EffectsAreCounted, AuditsOf, UsedFor
<1> QED
  BY <1>1, <1>2, <1>3, OrdersInvariant, PTL DEF Spec

-----------------------------------------------------------------------------
(* How a plan gets rid of a draft.  The total a confirmation resolved was    *)
(* the draft's when it looked, and the lines of an order never change.       *)

ConfirmsAsResolved ==
  \A p \in Clients : pc[p] = "writing" /\ req[p].op = "confirm" =>
    status[req[p].arg] # "absent" /\ price[req[p].arg] = resolved[p]

\* Lines are written with the order they belong to, and then no more.
LEMMA LinesStay ==
  ASSUME TypeOK, [Next]_vars, NEW o \in Orders, status[o] # "absent"
  PROVE  status'[o] # "absent" /\ price'[o] = price[o]
<1> USE DEF TypeOK
<1>1. ASSUME NEW p \in Clients, NEW q \in Orders, CreateNext(p, q)
      PROVE  status'[o] # "absent" /\ price'[o] = price[o]
  BY <1>1 DEF CreateNext
<1>2. ASSUME NEW p \in Clients, Confirm(p)
      PROVE  status'[o] # "absent" /\ price'[o] = price[o]
  BY <1>2 DEF Confirm, ConfirmedOrder
<1>3. ASSUME NEW p \in Clients, \/ \E r \in Requests, k \in Keys : Begin(p, r, k)
                                \/ Read(p) \/ Abandon(p) \/ CreatePlan(p) \/ MutatePlan(p)
      PROVE  UNCHANGED <<status, price>>
  BY <1>3 DEF Begin, Read, Abandon, CreatePlan, MutatePlan, rowVars
<1>4. ASSUME Reprice \/ UNCHANGED vars PROVE UNCHANGED <<status, price>>
  BY <1>4 DEF Reprice, vars, rowVars
<1> QED
  BY <1>1, <1>2, <1>3, <1>4 DEF Next

\* A call that is about to write has just read, or was about to before.
LEMMA WritersRead ==
  ASSUME TypeOK, [Next]_vars, NEW q \in Clients, pc'[q] = "writing"
  PROVE  \/ Read(q)
         \/ pc[q] = "writing" /\ req'[q] = req[q] /\ resolved'[q] = resolved[q]
<1> DEFINE Waits == pc[q] = "writing" /\ req'[q] = req[q] /\ resolved'[q] = resolved[q]
<1> USE DEF TypeOK
<1>1. ASSUME NEW p \in Clients, NEW r \in Requests, NEW k \in Keys, Begin(p, r, k)
      PROVE  Waits
  BY <1>1 DEF Begin
<1>2. ASSUME NEW p \in Clients, Read(p) PROVE Read(q) \/ Waits
  BY <1>2 DEF Read
<1>3. ASSUME NEW p \in Clients, EndCall(p) PROVE Waits
  BY <1>3 DEF EndCall
<1>4. ASSUME NEW p \in Clients,
             Abandon(p) \/ CreatePlan(p) \/ MutatePlan(p) \/ Confirm(p)
             \/ \E o \in Orders : CreateNext(p, o)
      PROVE  EndCall(p)
  BY <1>4 DEF Abandon, CreatePlan, MutatePlan, CreateNext, Confirm
<1>5. ASSUME Reprice \/ UNCHANGED vars PROVE Waits
  BY <1>5 DEF Reprice, vars, callVars
<1> QED
  BY <1>1, <1>2, <1>3, <1>4, <1>5 DEF Next

LEMMA StepConfirms == TypeInv /\ ConfirmsAsResolved /\ [Next]_vars => ConfirmsAsResolved'
<1> SUFFICES ASSUME TypeInv, ConfirmsAsResolved, [Next]_vars,
                    NEW q \in Clients, pc'[q] = "writing", req'[q].op = "confirm"
             PROVE  status'[req'[q].arg] # "absent" /\ price'[req'[q].arg] = resolved'[q]
  BY DEF ConfirmsAsResolved
<1>1. CASE Read(q)
  <2>1. req' = req /\ pc[q] = "reading" /\ resolved'[q] = current /\ UNCHANGED <<status, price>>
    BY <1>1 DEF Read, rowVars, TypeInv, TypeOK
  <2>2. status[req[q].arg] = "draft" /\ price[req[q].arg] = current
    BY <1>1, <2>1 DEF Read, Admits
  <2> QED
    BY <2>1, <2>2
<1>2. CASE pc[q] = "writing" /\ req'[q] = req[q] /\ resolved'[q] = resolved[q]
  <2>1. PICK o \in Orders : o = req[q].arg
    BY <1>2, RequestType DEF TypeInv, CallsWork
  <2>2. status[o] # "absent" /\ price[o] = resolved[q]
    BY <1>2, <2>1 DEF ConfirmsAsResolved
  <2>3. status'[o] # "absent" /\ price'[o] = price[o]
    BY <2>2, LinesStay DEF TypeInv
  <2> QED
    BY <1>2, <2>1, <2>2, <2>3
<1> QED
  BY <1>1, <1>2, WritersRead DEF TypeInv

Waits(pl, o) == plan[pl] # NoPlan /\ plan[pl].pending = o

\* This call confirms order o of plan pl for the total it resolved.
ConfirmsFor(p, pl, o) ==
  /\ pc[p] = "writing" /\ req[p].op = "confirm" /\ req[p].plan = pl /\ req[p].arg = o
  /\ resolved[p] = price[o]
  /\ revenue' = revenue \cup {[order |-> o, amount |-> resolved[p]]}

DraftsEndConfirmed ==
  [][\A pl \in Plans, o \in Orders :
       Waits(pl, o) /\ ~Waits(pl, o)' => \E p \in Clients : ConfirmsFor(p, pl, o)]_vars

LEMMA StepWaits ==
  ASSUME OrderInv, ConfirmsAsResolved, [Next]_vars,
         NEW pl \in Plans, NEW o \in Orders, Waits(pl, o), ~Waits(pl, o)'
  PROVE  \E p \in Clients : ConfirmsFor(p, pl, o)
<1>0. plan \in [Plans -> Plan \cup {NoPlan}] /\ plan[pl] # NoPlan /\ plan[pl].pending = o
  BY DEF OrderInv, TypeInv, TypeOK, Waits
<1>n. ~(plan'[pl] # NoPlan /\ plan'[pl].pending = o)
  BY DEF Waits
<1>1. plan' # plan
  BY <1>0, <1>n
<1>2. ASSUME NEW p \in Clients, MutatePlan(p) PROVE FALSE
  BY <1>0, <1>n, <1>2, MutateIsSerial
<1>3. ASSUME NEW p \in Clients, CreatePlan(p) PROVE FALSE
  <2>1. req[p].plan # pl /\ plan' = [plan EXCEPT ![req[p].plan] = NewPlan(req[p].arg)]
    BY <1>0, <1>3 DEF CreatePlan
  <2> QED
    BY <1>0, <1>n, <2>1
<1>4. ASSUME NEW p \in Clients, NEW q \in Orders, CreateNext(p, q) PROVE FALSE
  <2>1. /\ pc[p] = "writing" /\ req[p].op = "next" /\ RevisionIs(p)
        /\ plan' = [plan EXCEPT ![req[p].plan] = AttachPendingOrder(seen[p], q)]
    BY <1>4 DEF CreateNext, SavePlan
  <2>2. plan[req[p].plan] = seen[p] /\ seen[p].pending = NoOrder
    BY <2>1, SavesWhatItRead DEF OrderInv, SeenInv, SeenAdmits, CanAttach
  <2>3. req[p].plan # pl
    BY <1>0, <2>2, RepeatPlanAssumption
  <2> QED
    BY <1>0, <1>n, <2>1, <2>3
<1>5. ASSUME NEW p \in Clients, Confirm(p) PROVE ConfirmsFor(p, pl, o)
  <2>1. /\ pc[p] = "writing" /\ req[p].op = "confirm" /\ RevisionIs(p)
        /\ plan' = [plan EXCEPT ![req[p].plan] = MarkOrderConfirmed(seen[p], req[p].arg)]
        /\ revenue' = revenue \cup {[order |-> req[p].arg, amount |-> price[req[p].arg]]}
    BY <1>5 DEF Confirm, SavePlan
  <2>2. req[p].plan = pl
    BY <1>0, <1>n, <2>1
  <2>3. plan[pl] = seen[p] /\ seen[p].pending = req[p].arg
    BY <2>1, <2>2, SavesWhatItRead DEF OrderInv, SeenInv, SeenAdmits
  <2>4. req[p].arg = o /\ price[o] = resolved[p]
    BY <1>0, <2>1, <2>3 DEF ConfirmsAsResolved
  <2> QED
    BY <2>1, <2>2, <2>4 DEF ConfirmsFor
<1>6. ASSUME NEW p \in Clients, \/ \E r \in Requests, k \in Keys : Begin(p, r, k)
                                \/ Read(p) \/ Abandon(p)
      PROVE  plan' = plan
  BY <1>6 DEF Begin, Read, Abandon, rowVars
<1>7. ASSUME Reprice \/ UNCHANGED vars PROVE plan' = plan
  BY <1>7 DEF Reprice, vars, rowVars
<1> QED
  BY <1>1, <1>2, <1>3, <1>4, <1>5, <1>6, <1>7 DEF Next

\* A plan that waits for a draft goes on waiting until a call that resolved
\* exactly the draft's total confirms it, and books that total: a draft that has
\* lost its price is neither sold nor replaced, by no command and in no race
\* (confirm_repeat_order, and the refusals of all the others).
THEOREM DraftsAreSoldAsResolved == Spec => DraftsEndConfirmed
<1> DEFINE Ends == \A pl \in Plans, o \in Orders :
              Waits(pl, o) /\ ~Waits(pl, o)' => \E p \in Clients : ConfirmsFor(p, pl, o)
<1>1. Init => ConfirmsAsResolved
  BY DEF Init, ConfirmsAsResolved
<1>2. OrderInv /\ ConfirmsAsResolved /\ [Next]_vars => ConfirmsAsResolved'
  BY StepConfirms DEF OrderInv
<1>3. OrderInv /\ ConfirmsAsResolved /\ [Next]_vars => [Ends]_vars
  BY StepWaits
<1>4. Spec => [][Ends]_vars
  BY <1>1, <1>2, <1>3, OrdersInvariant, PTL DEF Spec
<1> QED
  BY <1>4 DEF DraftsEndConfirmed

=============================================================================
