----------------------------- MODULE SerialPlan -----------------------------
(***************************************************************************)
(* Repeat orders as one operator at a time would see them: every command   *)
(* reads the plan and the orders and changes them in one step.             *)
(***************************************************************************)
EXTENDS RepeatPlan

CONSTANTS Plans, Prices, NoPrice

VARIABLES
  plan,   \* each plan, NoPlan before it is created
  status, \* each repeat order: absent, draft or confirmed
  price,  \* what its lines cost
  revenue \* the revenue booked: [order, amount]

vars == <<plan, status, price, revenue>>

Init ==
  /\ plan = [pl \in Plans |-> NoPlan]
  /\ status = [o \in Orders |-> "absent"]
  /\ price = [o \in Orders |-> NoPrice]
  /\ revenue = {}

CreatePlan(pl, n) ==
  /\ plan[pl] = NoPlan
  /\ plan' = [plan EXCEPT ![pl] = NewPlan(n)]
  /\ UNCHANGED <<status, price, revenue>>

\* pause, resume, skip_once, cancel and edit_context.
ChangePlan(pl) ==
  /\ plan[pl] # NoPlan
  /\ \/ CanPause(plan[pl]) /\ plan' = [plan EXCEPT ![pl] = Pause(plan[pl])]
     \/ CanResume(plan[pl]) /\ plan' = [plan EXCEPT ![pl] = Resume(plan[pl])]
     \/ CanSkip(plan[pl]) /\ plan' = [plan EXCEPT ![pl] = SkipOnce(plan[pl])]
     \/ CanCancel(plan[pl]) /\ plan' = [plan EXCEPT ![pl] = Cancel(plan[pl])]
     \/ /\ CanEdit(plan[pl])
        /\ \E n \in Dates : plan' = [plan EXCEPT ![pl] = EditContext(plan[pl], n)]
  /\ UNCHANGED <<status, price, revenue>>

CreateNext(pl, o, c) ==
  /\ plan[pl] # NoPlan
  /\ CanAttach(plan[pl])
  /\ status[o] = "absent"
  /\ plan' = [plan EXCEPT ![pl] = AttachPendingOrder(plan[pl], o)]
  /\ status' = [status EXCEPT ![o] = "draft"]
  /\ price' = [price EXCEPT ![o] = c]
  /\ UNCHANGED revenue

Confirm(pl, o) ==
  /\ plan[pl] # NoPlan
  /\ plan[pl].pending = o
  /\ status[o] = "draft"
  /\ plan' = [plan EXCEPT ![pl] = MarkOrderConfirmed(plan[pl], o)]
  /\ status' = [status EXCEPT ![o] = "confirmed"]
  /\ revenue' = revenue \cup {[order |-> o, amount |-> price[o]]}
  /\ UNCHANGED price

Next ==
  \E pl \in Plans :
    \/ \E n \in Dates : CreatePlan(pl, n)
    \/ ChangePlan(pl)
    \/ \E o \in Orders, c \in Prices : CreateNext(pl, o, c)
    \/ \E o \in Orders : Confirm(pl, o)

Spec == Init /\ [][Next]_vars

=============================================================================
