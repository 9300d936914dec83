----------------------------- MODULE SendPromise -----------------------------
(***************************************************************************)
(* What the commercial send promises, whoever calls it and however often:  *)
(* an action is settled once, it is called sent only when the provider has *)
(* a message of it, and a command key that was answered names the message  *)
(* the provider really took, for ever.                                     *)
(***************************************************************************)

CONSTANTS Actions, Keys, Bodies, NoBody, NoRequest

VARIABLES
  outcome,  \* "absent", "open", or how the action was settled
  effect,   \* the message the provider took for the action
  answer    \* the request a command key was answered for

vars == <<outcome, effect, answer>>

Init ==
  /\ outcome = [a \in Actions |-> "absent"]
  /\ effect = [a \in Actions |-> NoBody]
  /\ answer = [k \in Keys |-> NoRequest]

Create(a) ==
  /\ outcome[a] = "absent"
  /\ outcome' = [outcome EXCEPT ![a] = "open"]
  /\ UNCHANGED <<effect, answer>>

\* The provider takes a message; the outcome may long be settled.
Deliver(a, b) ==
  /\ outcome[a] # "absent"
  /\ effect[a] = NoBody
  /\ effect' = [effect EXCEPT ![a] = b]
  /\ UNCHANGED <<outcome, answer>>

GiveUp(a) ==
  /\ outcome[a] = "open"
  /\ outcome' = [outcome EXCEPT ![a] = "failed"]
  /\ UNCHANGED <<effect, answer>>

\* The action is, or becomes, sent and the key is answered with its message.
Answer(a, k) ==
  /\ outcome[a] \in {"open", "sent"}
  /\ effect[a] # NoBody
  /\ answer[k] \in {NoRequest, [action |-> a, body |-> effect[a]]}
  /\ outcome' = [outcome EXCEPT ![a] = "sent"]
  /\ answer' = [answer EXCEPT ![k] = [action |-> a, body |-> effect[a]]]
  /\ UNCHANGED effect

Next ==
  \E a \in Actions :
    \/ Create(a)
    \/ \E b \in Bodies : Deliver(a, b)
    \/ GiveUp(a)
    \/ \E k \in Keys : Answer(a, k)

Spec == Init /\ [][Next]_vars
=============================================================================
