----------------------------- MODULE RepeatPlan -----------------------------
(***************************************************************************)
(* The repeat-order plan of domain/repeat_order.py: its fields and the     *)
(* transitions a plan object admits.  An occurrence is a number, counted   *)
(* in cadence intervals from the first date (RepeatCadence.next_after adds *)
(* one); the service scope and capacity of the context are left out.       *)
(***************************************************************************)
EXTENDS Naturals

CONSTANTS
  Orders,  \* order_id values
  NoOrder, \* Python None in pending_order_id and last_order_id
  Dates,   \* occurrences an operator may enter as scheduled_for
  NoPlan   \* no row of that plan_id

ASSUME RepeatPlanAssumption ==
  /\ NoOrder \notin Orders
  /\ Dates \subseteq Nat

PlanStatus == {"active", "paused", "cancelled"}

Plan == [status : PlanStatus,
         scheduled : Nat,                 \* context.scheduled_for
         pending : Orders \cup {NoOrder}, \* pending_order_id
         last : Orders \cup {NoOrder},    \* last_order_id
         skipped : Nat]                   \* skipped_occurrences

NewPlan(n) ==
  [status |-> "active", scheduled |-> n, pending |-> NoOrder, last |-> NoOrder, skipped |-> 0]

CanPause(t) == t.status = "active"
Pause(t) == [t EXCEPT !.status = "paused"]

CanResume(t) == t.status = "paused"
Resume(t) == [t EXCEPT !.status = "active"]

CanSkip(t) == t.status = "active" /\ t.pending = NoOrder
SkipOnce(t) == [t EXCEPT !.scheduled = @ + 1, !.skipped = @ + 1]

CanCancel(t) == t.status # "cancelled"
Cancel(t) == [t EXCEPT !.status = "cancelled"]

CanEdit(t) == t.status # "cancelled" /\ t.pending = NoOrder
EditContext(t, n) == [t EXCEPT !.scheduled = n]

\* attach_pending_order, of a plan create_next_repeat_order found active.
CanAttachAlways(t) == t.status = "active"  \* mutant: a draft may be waiting
CanAttach(t) == t.status = "active" /\ t.pending = NoOrder
AttachPendingOrder(t, o) == [t EXCEPT !.pending = o]

\* mark_order_confirmed: only an active plan moves on to its next occurrence.
ConfirmKeepsPending(t, o) == [t EXCEPT !.last = o]  \* mutant: pending is kept
MarkOrderConfirmed(t, o) ==
  [t EXCEPT !.scheduled = IF t.status = "active" THEN @ + 1 ELSE @,
            !.last = o,
            !.pending = NoOrder]

=============================================================================
