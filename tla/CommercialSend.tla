--------------------------- MODULE CommercialSend ---------------------------
(***************************************************************************)
(* The external send of a commercial action: CommercialActionSendWorkflow  *)
(* over the commercial_action and idempotency_key tables.  A call reserves *)
(* its command key and claims the action under a lease in one transaction, *)
(* calls the communication provider outside any, and then records the      *)
(* message in a second transaction, or quarantines an unknown outcome.     *)
(* Callers retry, with the same command key or another, and with the same  *)
(* body or another; calls overrun their lease, are killed, and race.       *)
(*                                                                         *)
(* Time is relative, as in JobQueue: lease[a] is send_lease_until - now,   *)
(* lag[p] the age of the clock reading p's next statement uses.            *)
(*                                                                         *)
(* The owner, the permission and the policy of a call are inputs that only *)
(* reject it; the calls modelled are those that pass them.                 *)
(***************************************************************************)
EXTENDS Integers

CONSTANTS
  Actions,       \* action_id values
  Clients,       \* threads of control that call execute, one call at a time
  Keys,          \* command idempotency keys
  Bodies,        \* message bodies
  NoClient,      \* SQL null in send_worker_id
  Gone,          \* the worker id of a call that is over
  NoBody,        \* the provider has no message
  NoRequest,     \* no idempotency_key row, or no call
  NoKey,         \* a client between two calls has no key
  LeaseSeconds,  \* CommercialActionSendWorkflow.SEND_LEASE_SECONDS
  MaxLag         \* bound: age of a clock reading when its statement runs

ASSUME CommercialSendAssumption ==
  /\ {NoClient, Gone} \cap Clients = {}
  /\ NoClient # Gone
  /\ NoBody \notin Bodies
  /\ NoKey \notin Keys
  /\ NoRequest \notin [action : Actions, body : Bodies]
  /\ LeaseSeconds \in Nat \ {0}
  /\ MaxLag \in Nat

VARIABLES
  status,      \* commercial_action.status, "absent" before the row exists
  holder,      \* send_worker_id: a fresh uuid per call, here the call's client
  lease,       \* send_lease_until - now
  request,     \* what each command key was reserved for: its request_hash
  answered,    \* keys whose result_ref is a message id, no longer "pending:"
  effect,      \* what the provider took under the action's effect key
  events,      \* outbox events of the workflow, with the audit of each
  quarantine,  \* quarantine_record rows of the workflow
  pc,          \* where each client is in execute
  req,         \* the action and the body of its call
  key,         \* the command key of its call
  lag          \* the age of the clock reading its next statement uses

rowVars == <<status, holder, lease>>
keyVars == <<request, answered>>
ledgerVars == <<events, quarantine>>
clientVars == <<pc, req, key, lag>>
vars == <<rowVars, keyVars, effect, ledgerVars, clientVars>>

-----------------------------------------------------------------------------
(* Values *)

Requests == [action : Actions, body : Bodies]
Settled == {"sent", "failed"}
Status == {"absent", "ready", "sending"} \cup Settled
Reason == {"external_effect_unknown", "external_effect_unknown_stale_worker"}
OnTheClock == {"reserving", "recording", "quarantining"}
AfterClaim == {"calling", "completing", "recording", "quarantining"}


-----------------------------------------------------------------------------
(* Rows as the statements see them *)

\* The WHERE clause of claim_for_send.
ClaimableReadyOnly(a, l) == status[a] = "ready"  \* mutant: no reclaim
ClaimableAgain(a, l) ==  \* mutant: a failed action may be claimed
  \/ status[a] \in {"ready", "failed"}
  \/ status[a] = "sending" /\ lease[a] <= -l
Claimable(a, l) ==
  \/ status[a] = "ready"
  \/ status[a] = "sending" /\ lease[a] <= -l

\* The WHERE clause of complete_send and fail_external_effect.
HoldsLease(p) ==
  /\ status[req[p].action] = "sending"
  /\ holder[req[p].action] = p
  /\ lease[req[p].action] > -lag[p]

\* A key that is free, or was reserved for this very request.
KeyFits(p) == request[key[p]] \in {NoRequest, req[p]}

-----------------------------------------------------------------------------

Init ==
  /\ status = [a \in Actions |-> "absent"]
  /\ holder = [a \in Actions |-> NoClient]
  /\ lease = [a \in Actions |-> -MaxLag]
  /\ request = [k \in Keys |-> NoRequest]
  /\ answered = {}
  /\ effect = [a \in Actions |-> NoBody]
  /\ events = {}
  /\ quarantine = {}
  /\ pc = [p \in Clients |-> "idle"]
  /\ req = [p \in Clients |-> NoRequest]
  /\ key = [p \in Clients |-> NoKey]
  /\ lag = [p \in Clients |-> 0]

\* CommercialActionCreateWorkflow: the row is created ready to be sent.
Create(a) ==
  /\ status[a] = "absent"
  /\ status' = [status EXCEPT ![a] = "ready"]
  /\ UNCHANGED <<holder, lease, keyVars, effect, ledgerVars, clientVars>>

\* A call of execute: a fresh worker id, and a clock reading taken before the
\* reserving transaction opens.
Begin(p, r, k) ==
  /\ pc[p] = "idle"
  /\ pc' = [pc EXCEPT ![p] = "reserving"]
  /\ req' = [req EXCEPT ![p] = r]
  /\ key' = [key EXCEPT ![p] = k]
  /\ lag' = [lag EXCEPT ![p] = 0]
  /\ UNCHANGED <<rowVars, keyVars, effect, ledgerVars>>

\* The call is over: it returned, raised, or died.  Its worker id is never used
\* again, so a row it still holds is nobody's until the lease runs out.
EndCall(p) ==
  /\ pc' = [pc EXCEPT ![p] = "idle"]
  /\ req' = [req EXCEPT ![p] = NoRequest]
  /\ key' = [key EXCEPT ![p] = NoKey]
  /\ lag' = [lag EXCEPT ![p] = 0]
Abandon(p) == holder' = [a \in Actions |-> IF holder[a] = p THEN Gone ELSE holder[a]]

\* What the reserving transaction leaves in the key table.
ReservationSkipped(p) == request  \* mutant: the key is reserved after the call
Reservation(p) == [request EXCEPT ![key[p]] = req[p]]

\* The reserving transaction: the key is free or pending for this request, and
\* the action can be claimed; both are written, or neither.
Claim(p) ==
  LET a == req[p].action IN
  /\ pc[p] = "reserving"
  /\ KeyFits(p) /\ key[p] \notin answered
  /\ Claimable(a, lag[p])
  /\ request' = Reservation(p)
  /\ status' = [status EXCEPT ![a] = "sending"]
  /\ holder' = [holder EXCEPT ![a] = p]
  /\ lease' = [lease EXCEPT ![a] = LeaseSeconds - lag[p]]
  /\ pc' = [pc EXCEPT ![p] = "calling"]
  /\ lag' = [lag EXCEPT ![p] = 0]
  /\ UNCHANGED <<answered, effect, ledgerVars, req, key>>

\* The call returns the durable result of its key, or raises: the action is
\* unknown, its key is another request's, or the action is not to be claimed.
ReturnOrRefuse(p) ==
  /\ pc[p] = "reserving"
  /\ \/ ~KeyFits(p)
     \/ key[p] \in answered
     \/ ~Claimable(req[p].action, lag[p])
  /\ EndCall(p)
  /\ UNCHANGED <<rowVars, keyVars, effect, ledgerVars>>

\* CommunicationAdapter.send under the effect key of the action: the provider
\* remembers the first message and refuses a different one.
Accepts(a, b) == effect[a] \in {NoBody, b}
Taken(a, b) == [effect EXCEPT ![a] = b]

\* The provider answers with the message id; execute opens the completing
\* transaction.
CallAnswered(p) ==
  LET r == req[p] IN
  /\ pc[p] = "calling"
  /\ Accepts(r.action, r.body)
  /\ effect' = Taken(r.action, r.body)
  /\ pc' = [pc EXCEPT ![p] = "completing"]
  /\ UNCHANGED <<rowVars, keyVars, ledgerVars, req, key, lag>>

\* ExternalEffectUnknown: the message was taken, or was not.
CallUnknown(p) ==
  LET r == req[p] IN
  /\ pc[p] = "calling"
  /\ \/ UNCHANGED effect
     \/ Accepts(r.action, r.body) /\ effect' = Taken(r.action, r.body)
  /\ pc' = [pc EXCEPT ![p] = "quarantining"]
  /\ lag' = [lag EXCEPT ![p] = 0]
  /\ UNCHANGED <<rowVars, keyVars, ledgerVars, req, key>>

\* Any other exception leaves execute with the action claimed, as a crash of the
\* process does; the message may have been taken.
CallRaises(p) ==
  LET r == req[p] IN
  /\ pc[p] = "calling"
  /\ \/ UNCHANGED effect
     \/ Accepts(r.action, r.body) /\ effect' = Taken(r.action, r.body)
  /\ EndCall(p)
  /\ Abandon(p)
  /\ UNCHANGED <<status, lease, keyVars, ledgerVars>>

\* _quarantine_unknown_external_effect: the holder of a live lease fails the
\* action; a stale worker only leaves its evidence.
QuarantineReasonRaw(p) == IF HoldsLease(p) THEN "failed" ELSE "stale"  \* mutant
QuarantineReason(p) ==
  IF HoldsLease(p) THEN "external_effect_unknown"
  ELSE "external_effect_unknown_stale_worker"

Quarantine(p) ==
  LET a == req[p].action IN
  /\ pc[p] = "quarantining"
  /\ IF HoldsLease(p)
     THEN /\ status' = [status EXCEPT ![a] = "failed"]
          /\ holder' = [holder EXCEPT ![a] = NoClient]
          /\ lease' = [lease EXCEPT ![a] = -MaxLag]
     ELSE Abandon(p) /\ UNCHANGED <<status, lease>>
  /\ quarantine' = quarantine \cup {[action |-> a, reason |-> QuarantineReason(p)]}
  /\ events' = events \cup {[action |-> a, kind |-> "external_effect_unknown"]}
  /\ EndCall(p)
  /\ UNCHANGED <<keyVars, effect>>

\* The completing transaction reads the status of the action: already sent by
\* another call (the key gets its result), still being sent, or neither.
FoundSentOrFailed(p) == status[req[p].action] \in Settled  \* mutant
FoundSent(p) == status[req[p].action] = "sent"

AnswerSent(p) ==
  /\ pc[p] = "completing"
  /\ FoundSent(p)
  /\ answered' = answered \cup {key[p]}
  /\ EndCall(p)
  /\ UNCHANGED <<rowVars, request, effect, ledgerVars>>

FindSending(p) ==
  /\ pc[p] = "completing"
  /\ status[req[p].action] = "sending"
  /\ pc' = [pc EXCEPT ![p] = "recording"]
  /\ lag' = [lag EXCEPT ![p] = 0]
  /\ UNCHANGED <<rowVars, keyVars, effect, ledgerVars, req, key>>

FindNeither(p) ==
  /\ pc[p] = "completing"
  /\ status[req[p].action] \notin {"sent", "sending"}
  /\ EndCall(p)
  /\ UNCHANGED <<rowVars, keyVars, effect, ledgerVars>>

\* complete_send and the rest of the transaction: key, action, event and audit
\* commit together, or the call raises and nothing does.
SentEvent(p) == [action |-> req[p].action, kind |-> "sent"]

CompleteSend(p) ==
  LET a == req[p].action IN
  /\ pc[p] = "recording"
  /\ HoldsLease(p)
  /\ SentEvent(p) \notin events
  /\ status' = [status EXCEPT ![a] = "sent"]
  /\ holder' = [holder EXCEPT ![a] = NoClient]
  /\ lease' = [lease EXCEPT ![a] = -MaxLag]
  /\ answered' = answered \cup {key[p]}
  /\ events' = events \cup {SentEvent(p)}
  /\ EndCall(p)
  /\ UNCHANGED <<request, effect, quarantine>>

CompletionRejected(p) ==
  /\ pc[p] = "recording"
  /\ ~HoldsLease(p) \/ SentEvent(p) \in events
  /\ EndCall(p)
  /\ Abandon(p)
  /\ UNCHANGED <<status, lease, keyVars, effect, ledgerVars>>

\* The process dies, with its open transaction.
Crash(p) ==
  /\ pc[p] # "idle"
  /\ EndCall(p)
  /\ Abandon(p)
  /\ UNCHANGED <<status, lease, keyVars, effect, ledgerVars>>

\* One unit of time.  No clock reading gets older than MaxLag.
Tick ==
  /\ \A p \in Clients : pc[p] \in OnTheClock => lag[p] < MaxLag
  /\ lease' = [a \in Actions |-> IF lease[a] > -MaxLag THEN lease[a] - 1 ELSE lease[a]]
  /\ lag' = [p \in Clients |-> IF pc[p] \in OnTheClock THEN lag[p] + 1 ELSE lag[p]]
  /\ UNCHANGED <<status, holder, keyVars, effect, ledgerVars, pc, req, key>>

Next ==
  \/ \E a \in Actions : Create(a)
  \/ \E p \in Clients :
       \/ \E r \in Requests, k \in Keys : Begin(p, r, k)
       \/ Claim(p)
       \/ ReturnOrRefuse(p)
       \/ CallAnswered(p)
       \/ CallUnknown(p)
       \/ CallRaises(p)
       \/ Quarantine(p)
       \/ AnswerSent(p)
       \/ FindSending(p)
       \/ FindNeither(p)
       \/ CompleteSend(p)
       \/ CompletionRejected(p)
       \/ Crash(p)
  \/ Tick

Spec == Init /\ [][Next]_vars

(***************************************************************************)
(* Fairness: time passes; callers go on retrying (the code has no retry of *)
(* its own, a crashed send waits for the next call); the provider call     *)
(* ends, and is not late, raising or killed every time.  Nothing else is   *)
(* assumed of CallUnknown, CallRaises and Crash.                           *)
(***************************************************************************)
AnsweredInTime(p) == pc[p] = "calling" /\ HoldsLease(p) /\ CallAnswered(p)
FoundInTime(p) == pc[p] = "completing" /\ HoldsLease(p) /\ FindSending(p)

Fairness ==
  /\ WF_vars(Tick)
  /\ \A p \in Clients :
       /\ WF_vars(\E r \in Requests, k \in Keys : Begin(p, r, k))
       /\ SF_vars(Claim(p))
       /\ WF_vars(ReturnOrRefuse(p))
       /\ WF_vars(CallAnswered(p) \/ CallUnknown(p) \/ CallRaises(p))
       /\ SF_vars(AnsweredInTime(p))
       /\ SF_vars(FoundInTime(p))
       /\ WF_vars(FindSending(p))
       /\ SF_vars(CompleteSend(p))
       /\ WF_vars(Quarantine(p))
       /\ WF_vars(CompletionRejected(p))
       /\ WF_vars(AnswerSent(p) \/ FindNeither(p))

FairSpec == Spec /\ Fairness

-----------------------------------------------------------------------------
(* Properties *)

\* Every column and every client's local state has a value the code can give it.
TypeOK ==
  /\ status \in [Actions -> Status]
  /\ holder \in [Actions -> Clients \cup {NoClient, Gone}]
  /\ lease \in [Actions -> Int]
  /\ request \in [Keys -> Requests \cup {NoRequest}]
  /\ answered \subseteq Keys
  /\ effect \in [Actions -> Bodies \cup {NoBody}]
  /\ events \subseteq [action : Actions, kind : {"sent", "external_effect_unknown"}]
  /\ quarantine \subseteq [action : Actions, reason : Reason]
  /\ pc \in [Clients -> {"idle", "reserving"} \cup AfterClaim]
  /\ req \in [Clients -> Requests \cup {NoRequest}]
  /\ key \in [Clients -> Keys \cup {NoKey}]
  /\ lag \in [Clients -> 0..MaxLag]

\* A key was answered only for the message the provider has, of a sent action.
AnswersTrue ==
  \A k \in answered :
    /\ request[k] # NoRequest
    /\ status[request[k].action] = "sent"
    /\ effect[request[k].action] = request[k].body

\* A sent action has its event, and a key that was answered for it.
SentIsRecorded ==
  \A a \in Actions :
    /\ status[a] = "sent" <=> [action |-> a, kind |-> "sent"] \in events
    /\ status[a] = "sent" => \E k \in answered : request[k].action = a

\* A failed action is one whose lease holder reported an unknown outcome.
FailedIsQuarantined ==
  \A a \in Actions :
    status[a] = "failed" <=>
      [action |-> a, reason |-> "external_effect_unknown"] \in quarantine

\* The completion is one unit of durable truth (idempotency result, action, event,
\* audit), and so is the quarantine: no crash, overrun or race leaves half of it.
OutcomeIsWhole == AnswersTrue /\ SentIsRecorded /\ FailedIsQuarantined

\* No message reaches the provider that a durable reservation does not account
\* for: some command key was reserved for exactly that action and body.
ReservedBeforeEffect ==
  \A a \in Actions :
    effect[a] # NoBody =>
      \E k \in Keys : request[k] = [action |-> a, body |-> effect[a]]

\* The refinement mapping to SendPromise.
OutcomeOf(a) == IF status[a] \in {"ready", "sending"} THEN "open" ELSE status[a]

Promise == INSTANCE SendPromise WITH
  outcome <- [a \in Actions |-> OutcomeOf(a)],
  answer <- [k \in Keys |-> IF k \in answered THEN request[k] ELSE NoRequest]

\* The workflow implements SendPromise: whatever calls race, an action is settled
\* once, sent only with a message the provider has, and answers never change.
KeepsSendPromise == Promise!Spec

\* As long as callers retry, a claimed action is settled: a crashed or late call
\* does not block it for ever (the lease is reclaimable).
EveryClaimSettles ==
  \A a \in Actions : status[a] = "sending" ~> status[a] \in Settled

\* docs/P43_MAX_AMBIGUOUS_OUTCOME_SAFETY.md: once an unknown outcome of an action
\* was recorded, no later attempt reclaims it and reaches the adapter.
UnknownIsNotResent ==
  [][\A p \in Clients :
       pc[p] = "reserving" /\ pc'[p] = "calling" =>
         [action |-> req[p].action, kind |-> "external_effect_unknown"]
           \notin events]_vars

=============================================================================
