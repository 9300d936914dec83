------------------------ MODULE CommercialSendProofs ------------------------
(***************************************************************************)
(* Proofs about CommercialSend, for any actions, callers, keys, bodies,    *)
(* lease length and clock lag.                                             *)
(***************************************************************************)
EXTENDS CommercialSend, TLAPS

-----------------------------------------------------------------------------
(* Type correctness *)

\* A client in a call has a request and a key: the arguments of execute.
CallsWork == \A p \in Clients : pc[p] # "idle" => req[p] \in Requests /\ key[p] \in Keys

TypeInv == TypeOK /\ CallsWork

LEMMA InitType == Init => TypeInv
BY CommercialSendAssumption
   DEF Init, TypeInv, TypeOK, CallsWork, Status, Settled, AfterClaim

LEMMA StepTypeOK == TypeInv /\ [Next]_vars => TypeOK'
<1> SUFFICES ASSUME TypeInv, [Next]_vars PROVE TypeOK'
  OBVIOUS
<1> USE CommercialSendAssumption DEF TypeInv, CallsWork, TypeOK, Status, Settled,
          AfterClaim, rowVars, keyVars, ledgerVars, clientVars, EndCall, Abandon
<1>1. ASSUME NEW a \in Actions, Create(a) PROVE TypeOK'
  BY <1>1 DEF Create
<1>2. ASSUME NEW p \in Clients, NEW r \in Requests, NEW k \in Keys, Begin(p, r, k)
      PROVE  TypeOK'
  BY <1>2 DEF Begin
<1>3. ASSUME NEW p \in Clients, Claim(p) PROVE TypeOK'
  <2>1. req[p] \in Requests /\ req[p].action \in Actions /\ key[p] \in Keys
    BY <1>3 DEF Claim, Requests
  <2>2. LeaseSeconds - lag[p] \in Int
    OBVIOUS
  <2> QED
    BY <1>3, <2>1, <2>2 DEF Claim, Reservation
<1>4. ASSUME NEW p \in Clients, ReturnOrRefuse(p) PROVE TypeOK'
  BY <1>4 DEF ReturnOrRefuse
<1>5. ASSUME NEW p \in Clients, CallAnswered(p) \/ CallUnknown(p) \/ CallRaises(p)
      PROVE  TypeOK'
  <2>1. req[p].action \in Actions /\ req[p].body \in Bodies
    BY <1>5 DEF CallAnswered, CallUnknown, CallRaises, Requests
  <2>2. effect' \in [Actions -> Bodies \cup {NoBody}]
    BY <1>5, <2>1 DEF CallAnswered, CallUnknown, CallRaises, Taken
  <2> QED
    BY <1>5, <2>2 DEF CallAnswered, CallUnknown, CallRaises
<1>6. ASSUME NEW p \in Clients, Quarantine(p) PROVE TypeOK'
  <2>1. req[p].action \in Actions
    BY <1>6 DEF Quarantine, Requests
  <2>2. QuarantineReason(p) \in Reason
    BY DEF QuarantineReason, Reason
  <2>3. quarantine' \subseteq [action : Actions, reason : Reason]
    BY <1>6, <2>1, <2>2 DEF Quarantine
  <2>4. events' \subseteq [action : Actions, kind : {"sent", "external_effect_unknown"}]
    BY <1>6, <2>1 DEF Quarantine
  <2>5. /\ status' \in [Actions -> Status]
        /\ holder' \in [Actions -> Clients \cup {NoClient, Gone}]
        /\ lease' \in [Actions -> Int]
    BY <1>6, <2>1 DEF Quarantine
  <2> QED
    BY <1>6, <2>3, <2>4, <2>5 DEF Quarantine
<1>7. ASSUME NEW p \in Clients, AnswerSent(p) \/ FindSending(p) \/ FindNeither(p)
      PROVE  TypeOK'
  BY <1>7 DEF AnswerSent, FindSending, FindNeither
<1>8. ASSUME NEW p \in Clients, CompleteSend(p) PROVE TypeOK'
  <2>1. req[p].action \in Actions /\ key[p] \in Keys
    BY <1>8 DEF CompleteSend, Requests
  <2>2. events' \subseteq [action : Actions, kind : {"sent", "external_effect_unknown"}]
    BY <1>8, <2>1 DEF CompleteSend, SentEvent
  <2> QED
    BY <1>8, <2>1, <2>2 DEF CompleteSend
<1>9. ASSUME NEW p \in Clients, CompletionRejected(p) \/ Crash(p) PROVE TypeOK'
  BY <1>9 DEF CompletionRejected, Crash
<1>10. CASE Tick
  BY <1>10 DEF Tick
<1>11. CASE UNCHANGED vars
  BY <1>11 DEF vars
<1> QED
  BY <1>1, <1>2, <1>3, <1>4, <1>5, <1>6, <1>7, <1>8, <1>9, <1>10, <1>11 DEF Next

LEMMA StepCallsWork == TypeInv /\ [Next]_vars => CallsWork'
<1> SUFFICES ASSUME TypeInv, [Next]_vars PROVE CallsWork'
  OBVIOUS
<1> USE DEF TypeInv, CallsWork, TypeOK, clientVars, EndCall
<1>1. ASSUME NEW p \in Clients, NEW r \in Requests, NEW k \in Keys, Begin(p, r, k)
      PROVE  CallsWork'
  BY <1>1 DEF Begin
<1>2. ASSUME NEW p \in Clients,
             Claim(p) \/ CallAnswered(p) \/ CallUnknown(p) \/ FindSending(p)
      PROVE  CallsWork'
  BY <1>2 DEF Claim, CallAnswered, CallUnknown, FindSending
<1>3. ASSUME NEW p \in Clients, EndCall(p) PROVE CallsWork'
  BY <1>3
<1>4. CASE (\E a \in Actions : Create(a)) \/ Tick \/ UNCHANGED vars
  BY <1>4 DEF Create, Tick, vars
<1> QED
  BY <1>1, <1>2, <1>3, <1>4 DEF Next, ReturnOrRefuse, CallRaises, Quarantine,
     AnswerSent, FindNeither, CompleteSend, CompletionRejected, Crash

LEMMA TypeInvariant == Spec => []TypeInv
<1>1. TypeInv /\ [Next]_vars => TypeInv'
  BY StepTypeOK, StepCallsWork DEF TypeInv
<1> QED
  BY <1>1, InitType, PTL DEF Spec

\* Every reachable state has the values the columns and the callers are given.
THEOREM TypeCorrect == Spec => []TypeOK
<1>1. TypeInv => TypeOK
  BY DEF TypeInv
<1> QED
  BY <1>1, TypeInvariant, PTL

-----------------------------------------------------------------------------
(* What a step never takes back.  The argument rests on these four facts:   *)
(* the reservation of a key, the provider's message and a settled status    *)
(* are for ever, and an action once claimed is never ready again.           *)

Claimed(a) == status[a] \notin {"absent", "ready"}

\* A call past its claim has its reservation, and its action is claimed; once the
\* provider answered it, the provider's message is the call's.
CallsReserved ==
  \A p \in Clients :
    /\ pc[p] \in AfterClaim =>
         request[key[p]] = req[p] /\ Claimed(req[p].action)
    /\ pc[p] \in {"completing", "recording"} =>
         effect[req[p].action] = req[p].body

SendInv == TypeInv /\ CallsReserved /\ OutcomeIsWhole /\ ReservedBeforeEffect

LEMMA StepKeepsRequest ==
  ASSUME TypeInv, [Next]_vars, NEW k \in Keys, request[k] # NoRequest
  PROVE  request'[k] = request[k]
<1> USE DEF TypeInv, CallsWork, TypeOK, keyVars
<1>1. ASSUME NEW p \in Clients, Claim(p) PROVE request'[k] = request[k]
  BY <1>1 DEF Claim, KeyFits, Reservation
<1>2. (\E p \in Clients : Claim(p)) \/ UNCHANGED request
  BY DEF Next, vars, Create, Begin, ReturnOrRefuse, CallAnswered, CallUnknown,
     CallRaises, Quarantine, AnswerSent, FindSending, FindNeither, CompleteSend,
     CompletionRejected, Crash, Tick
<1> QED
  BY <1>1, <1>2

LEMMA StepKeepsEffect ==
  ASSUME TypeInv, [Next]_vars, NEW a \in Actions, effect[a] # NoBody
  PROVE  effect'[a] = effect[a]
<1> USE DEF TypeInv, CallsWork, TypeOK
<1>1. ASSUME NEW p \in Clients, CallAnswered(p) \/ CallUnknown(p) \/ CallRaises(p)
      PROVE  effect'[a] = effect[a]
  BY <1>1 DEF CallAnswered, CallUnknown, CallRaises, Accepts, Taken
<1>2. \/ \E p \in Clients : CallAnswered(p) \/ CallUnknown(p) \/ CallRaises(p)
      \/ UNCHANGED effect
  BY DEF Next, vars, Create, Begin, Claim, ReturnOrRefuse, Quarantine, AnswerSent,
     FindSending, FindNeither, CompleteSend, CompletionRejected, Crash, Tick
<1> QED
  BY <1>1, <1>2

LEMMA StepKeepsStatus ==
  ASSUME TypeInv, [Next]_vars, NEW a \in Actions
  PROVE  /\ Claimed(a) => Claimed(a)'
         /\ status[a] \in Settled => status'[a] = status[a]
<1> USE DEF TypeInv, CallsWork, TypeOK, Claimed, Settled, rowVars
<1>1. ASSUME NEW c \in Actions, Create(c)
      PROVE  status[a] \in {"ready", "sending"} \cup Settled => status'[a] = status[a]
  BY <1>1 DEF Create
<1>2. ASSUME NEW p \in Clients, Claim(p)
      PROVE  /\ Claimed(a) => Claimed(a)'
             /\ status[a] \in Settled => status'[a] = status[a]
  BY <1>2 DEF Claim, Claimable
<1>3. ASSUME NEW p \in Clients, Quarantine(p) \/ CompleteSend(p)
      PROVE  /\ Claimed(a) => Claimed(a)'
             /\ status[a] \in Settled => status'[a] = status[a]
  BY <1>3 DEF Quarantine, CompleteSend, HoldsLease
<1>4. \/ UNCHANGED status
      \/ \E c \in Actions : Create(c)
      \/ \E p \in Clients : Claim(p) \/ Quarantine(p) \/ CompleteSend(p)
  BY DEF Next, vars, Begin, ReturnOrRefuse, CallAnswered, CallUnknown, CallRaises,
     AnswerSent, FindSending, FindNeither, CompletionRejected, Crash, Tick
<1> QED
  BY <1>1, <1>2, <1>3, <1>4 DEF Status

-----------------------------------------------------------------------------
(* The reservation of a call, and what its provider answered *)

LEMMA StepCallsReserved ==
  TypeInv /\ CallsReserved /\ [Next]_vars => CallsReserved'
<1> SUFFICES ASSUME TypeInv, CallsReserved, [Next]_vars, NEW p \in Clients
             PROVE  /\ pc'[p] \in AfterClaim =>
                         request'[key'[p]] = req'[p] /\ Claimed(req[p].action)'
                    /\ pc'[p] \in {"completing", "recording"} =>
                         effect'[req'[p].action] = req'[p].body
  BY DEF CallsReserved, Claimed
<1> USE CommercialSendAssumption DEF TypeInv, CallsWork, TypeOK, clientVars, EndCall
\* Another caller's step leaves p's local state, and takes nothing of this back.
<1>1. CASE /\ UNCHANGED <<pc[p], req[p], key[p]>>
           /\ pc[p] \in AfterClaim
  <2>1. req[p] \in Requests /\ req[p] # NoRequest /\ req[p].action \in Actions
        /\ req[p].body \in Bodies /\ key[p] \in Keys
    BY <1>1 DEF AfterClaim, Requests
  <2>2. request'[key[p]] = req[p]
    BY <1>1, <2>1, StepKeepsRequest DEF CallsReserved
  <2>3. Claimed(req[p].action)'
    <3>1. status'[req[p].action] \notin {"absent", "ready"}
      BY <1>1, <2>1, StepKeepsStatus DEF CallsReserved, Claimed
    <3> QED
      BY <1>1, <3>1 DEF Claimed
  <2>4. pc[p] \in {"completing", "recording"} => effect'[req[p].action] = req[p].body
    BY <1>1, <2>1, StepKeepsEffect DEF CallsReserved
  <2> QED
    BY <1>1, <2>2, <2>3, <2>4 DEF Claimed
<1>2. CASE Claim(p)
  <2>1. req[p] \in Requests /\ req[p].action \in Actions /\ key[p] \in Keys
    BY <1>2 DEF Claim, Requests
  <2>2. request'[key[p]] = req[p] /\ status'[req[p].action] = "sending"
    BY <1>2, <2>1 DEF Claim, Reservation
  <2> QED
    BY <1>2, <2>2 DEF Claim, Claimed
<1>3. CASE CallAnswered(p) \/ CallUnknown(p)
  <2>1. pc[p] = "calling" /\ UNCHANGED <<req, key, request, status>>
    BY <1>3 DEF CallAnswered, CallUnknown, keyVars, rowVars
  <2>2. req[p].action \in Actions
    BY <2>1 DEF Requests
  <2>3. CallAnswered(p) => effect'[req[p].action] = req[p].body
    BY <2>2 DEF CallAnswered, Taken
  <2>4. CallUnknown(p) => pc'[p] = "quarantining"
    BY DEF CallUnknown
  <2> QED
    BY <1>3, <2>1, <2>3, <2>4 DEF CallsReserved, Claimed, AfterClaim
<1>4. CASE FindSending(p)
  BY <1>4 DEF FindSending, CallsReserved, Claimed, AfterClaim, rowVars, keyVars
<1>5. CASE pc'[p] \in {"idle", "reserving"}
  BY <1>5 DEF AfterClaim
<1>6. \/ pc'[p] \in {"idle", "reserving"}
      \/ Claim(p) \/ CallAnswered(p) \/ CallUnknown(p) \/ FindSending(p)
      \/ UNCHANGED <<pc[p], req[p], key[p]>>
  <2>1. ASSUME NEW q \in Clients, \E r \in Requests, k \in Keys : Begin(q, r, k)
        PROVE  pc'[p] \in {"idle", "reserving"} \/ UNCHANGED <<pc[p], req[p], key[p]>>
    BY <2>1 DEF Begin
  <2>2. ASSUME NEW q \in Clients, q # p,
               Claim(q) \/ CallAnswered(q) \/ CallUnknown(q) \/ FindSending(q)
        PROVE  UNCHANGED <<pc[p], req[p], key[p]>>
    BY <2>2 DEF Claim, CallAnswered, CallUnknown, FindSending
  <2>3. ASSUME NEW q \in Clients,
               \/ ReturnOrRefuse(q) \/ CallRaises(q) \/ Quarantine(q) \/ AnswerSent(q)
               \/ FindNeither(q) \/ CompleteSend(q) \/ CompletionRejected(q) \/ Crash(q)
        PROVE  pc'[p] \in {"idle", "reserving"} \/ UNCHANGED <<pc[p], req[p], key[p]>>
    <3>1. EndCall(q)
      BY <2>3 DEF ReturnOrRefuse, CallRaises, Quarantine, AnswerSent, FindNeither,
                  CompleteSend, CompletionRejected, Crash
    <3> QED
      BY <3>1 DEF EndCall
  <2>4. (\E a \in Actions : Create(a)) \/ Tick \/ UNCHANGED vars
          => UNCHANGED <<pc[p], req[p], key[p]>>
    BY DEF Create, Tick, vars
  <2> QED
    BY <2>1, <2>2, <2>3, <2>4, Zenon DEF Next
<1>7. UNCHANGED pc[p] => pc[p] \in AfterClaim \/ pc'[p] \in {"idle", "reserving"}
  OBVIOUS
<1> QED
  BY <1>1, <1>2, <1>3, <1>4, <1>5, <1>6, <1>7

\* What reaches the provider was reserved by the call that sent it.
LEMMA StepReserved == SendInv /\ [Next]_vars => ReservedBeforeEffect'
<1> SUFFICES ASSUME SendInv, [Next]_vars, NEW a \in Actions, effect'[a] # NoBody
             PROVE  \E k \in Keys : request'[k] = [action |-> a, body |-> effect'[a]]
  BY DEF ReservedBeforeEffect
<1> USE CommercialSendAssumption DEF SendInv, TypeInv, CallsWork, TypeOK
<1>1. CASE effect'[a] = effect[a]
  <2>1. PICK k \in Keys : request[k] = [action |-> a, body |-> effect[a]]
    BY <1>1 DEF ReservedBeforeEffect
  <2>2. request[k] # NoRequest
    BY <1>1, <2>1 DEF Requests
  <2> QED
    BY <1>1, <2>1, <2>2, StepKeepsRequest
<1>2. ASSUME NEW p \in Clients, CallAnswered(p) \/ CallUnknown(p) \/ CallRaises(p),
             effect'[a] # effect[a]
      PROVE  \E k \in Keys : request'[k] = [action |-> a, body |-> effect'[a]]
  <2>1. pc[p] = "calling" /\ UNCHANGED request
    BY <1>2 DEF CallAnswered, CallUnknown, CallRaises, keyVars
  <2>2. a = req[p].action /\ effect'[a] = req[p].body
    BY <1>2 DEF CallAnswered, CallUnknown, CallRaises, Taken
  <2>3. key[p] \in Keys /\ request[key[p]] = req[p] /\ req[p] \in Requests
    BY <2>1 DEF CallsReserved, AfterClaim
  <2>4. req[p] = [action |-> a, body |-> effect'[a]]
    BY <2>2, <2>3 DEF Requests
  <2> QED
    BY <2>1, <2>3, <2>4
<1>3. \/ \E p \in Clients : CallAnswered(p) \/ CallUnknown(p) \/ CallRaises(p)
      \/ UNCHANGED effect
  BY DEF Next, vars, Create, Begin, Claim, ReturnOrRefuse, Quarantine, AnswerSent,
     FindSending, FindNeither, CompleteSend, CompletionRejected, Crash, Tick
<1> QED
  BY <1>1, <1>2, <1>3

-----------------------------------------------------------------------------
(* The outcome of an action is whole *)

\* Only the completing transaction calls an action sent or adds its event.
LEMMA SentOnlyByCompletion ==
  ASSUME SendInv, [Next]_vars, NEW a \in Actions,
         \A p \in Clients : ~(CompleteSend(p) /\ req[p].action = a)
  PROVE  /\ status'[a] = "sent" => status[a] = "sent"
         /\ [action |-> a, kind |-> "sent"] \in events' =>
              [action |-> a, kind |-> "sent"] \in events
<1> USE DEF SendInv, TypeInv, CallsWork, TypeOK, rowVars, ledgerVars
<1>1. ASSUME NEW c \in Actions, Create(c)
      PROVE  status'[a] = "sent" => status[a] = "sent"
  BY <1>1 DEF Create
<1>2. ASSUME NEW p \in Clients, Claim(p) \/ Quarantine(p)
      PROVE  /\ status'[a] = "sent" => status[a] = "sent"
             /\ [action |-> a, kind |-> "sent"] \in events' =>
                  [action |-> a, kind |-> "sent"] \in events
  BY <1>2 DEF Claim, Quarantine
<1>3. ASSUME NEW p \in Clients, CompleteSend(p)
      PROVE  /\ status'[a] = "sent" => status[a] = "sent"
             /\ [action |-> a, kind |-> "sent"] \in events' =>
                  [action |-> a, kind |-> "sent"] \in events
  BY <1>3 DEF CompleteSend, SentEvent
<1>4. /\ \/ UNCHANGED status
         \/ \E c \in Actions : Create(c)
         \/ \E p \in Clients : Claim(p) \/ Quarantine(p) \/ CompleteSend(p)
      /\ \/ UNCHANGED events
         \/ \E p \in Clients : Quarantine(p) \/ CompleteSend(p)
  BY DEF Next, vars, Create, Begin, Claim, ReturnOrRefuse, CallAnswered, CallUnknown,
     CallRaises, AnswerSent, FindSending, FindNeither, CompletionRejected, Crash, Tick
<1> QED
  BY <1>1, <1>2, <1>3, <1>4

LEMMA StepAnswersTrue == SendInv /\ [Next]_vars => AnswersTrue'
<1> SUFFICES ASSUME SendInv, [Next]_vars PROVE AnswersTrue'
  OBVIOUS
<1>0. answered' \subseteq Keys
  BY StepTypeOK DEF SendInv, TypeOK
<1> SUFFICES ASSUME NEW k \in Keys, k \in answered'
             PROVE  /\ request'[k] # NoRequest
                    /\ status'[request'[k].action] = "sent"
                    /\ effect'[request'[k].action] = request'[k].body
  BY <1>0 DEF AnswersTrue
<1> USE CommercialSendAssumption DEF SendInv, TypeInv, CallsWork, TypeOK
<1>1. CASE k \in answered
  <2>1. /\ request[k] # NoRequest /\ request[k] \in Requests
        /\ status[request[k].action] = "sent"
        /\ effect[request[k].action] = request[k].body
    BY <1>1 DEF OutcomeIsWhole, AnswersTrue
  <2>2. request[k].action \in Actions /\ request[k].body \in Bodies
    BY <2>1 DEF Requests
  <2>3. request'[k] = request[k]
    BY <2>1, StepKeepsRequest
  <2>4. status'[request[k].action] = "sent"
    BY <2>1, <2>2, StepKeepsStatus DEF Settled
  <2>5. effect'[request[k].action] = effect[request[k].action]
    BY <2>1, <2>2, StepKeepsEffect
  <2> QED
    BY <2>1, <2>3, <2>4, <2>5
<1>2. ASSUME NEW p \in Clients, AnswerSent(p) \/ CompleteSend(p), k = key[p]
      PROVE  /\ request'[k] # NoRequest
             /\ status'[request'[k].action] = "sent"
             /\ effect'[request'[k].action] = request'[k].body
  <2>1. pc[p] \in {"completing", "recording"} /\ UNCHANGED <<request, effect>>
    BY <1>2 DEF AnswerSent, CompleteSend
  <2>2. /\ request[k] = req[p] /\ effect[req[p].action] = req[p].body
        /\ req[p] \in Requests /\ req[p] # NoRequest
    BY <1>2, <2>1 DEF CallsReserved, AfterClaim, Requests
  <2>3. req[p].action \in Actions
    BY <2>2 DEF Requests
  <2>4. status'[req[p].action] = "sent"
    BY <1>2, <2>3 DEF AnswerSent, FoundSent, CompleteSend, rowVars
  <2> QED
    BY <2>1, <2>2, <2>4
<1>3. k \notin answered => \E p \in Clients : (AnswerSent(p) \/ CompleteSend(p)) /\ k = key[p]
  BY DEF Next, vars, keyVars, Create, Begin, Claim, ReturnOrRefuse, CallAnswered,
     CallUnknown, CallRaises, Quarantine, AnswerSent, FindSending, FindNeither,
     CompleteSend, CompletionRejected, Crash, Tick
<1> QED
  BY <1>1, <1>2, <1>3

LEMMA StepSentIsRecorded == SendInv /\ [Next]_vars => SentIsRecorded'
<1> SUFFICES ASSUME SendInv, [Next]_vars, NEW a \in Actions
             PROVE  /\ status'[a] = "sent" <=> [action |-> a, kind |-> "sent"] \in events'
                    /\ status'[a] = "sent" =>
                         \E k \in answered' : request'[k].action = a
  BY DEF SentIsRecorded
<1> USE CommercialSendAssumption DEF SendInv, TypeInv, CallsWork, TypeOK
<1>1. ASSUME NEW p \in Clients, CompleteSend(p), req[p].action = a
      PROVE  /\ status'[a] = "sent" /\ [action |-> a, kind |-> "sent"] \in events'
             /\ \E k \in answered' : request'[k].action = a
  BY <1>1 DEF CompleteSend, SentEvent, CallsReserved, AfterClaim
<1>2. CASE \A p \in Clients : ~(CompleteSend(p) /\ req[p].action = a)
  <2>1. events \subseteq events'
    BY DEF Next, vars, ledgerVars, Create, Begin, Claim, ReturnOrRefuse, CallAnswered,
       CallUnknown, CallRaises, Quarantine, AnswerSent, FindSending, FindNeither,
       CompleteSend, CompletionRejected, Crash, Tick
  <2>2. answered \subseteq answered'
    BY DEF Next, vars, keyVars, Create, Begin, Claim, ReturnOrRefuse, CallAnswered,
       CallUnknown, CallRaises, Quarantine, AnswerSent, FindSending, FindNeither,
       CompleteSend, CompletionRejected, Crash, Tick
  <2>3. status'[a] = "sent" <=> status[a] = "sent"
    BY <1>2, SentOnlyByCompletion, StepKeepsStatus DEF Settled
  <2>4. [action |-> a, kind |-> "sent"] \in events' <=>
          [action |-> a, kind |-> "sent"] \in events
    BY <1>2, <2>1, SentOnlyByCompletion
  <2>5. ASSUME NEW k \in answered, request[k].action = a
        PROVE  k \in answered' /\ request'[k].action = a
    BY <2>2, <2>5, StepKeepsRequest DEF OutcomeIsWhole, AnswersTrue
  <2> QED
    BY <2>3, <2>4, <2>5 DEF OutcomeIsWhole, SentIsRecorded
<1> QED
  BY <1>1, <1>2

LEMMA StepFailedIsQuarantined == SendInv /\ [Next]_vars => FailedIsQuarantined'
<1> SUFFICES ASSUME SendInv, [Next]_vars, NEW a \in Actions
             PROVE  status'[a] = "failed" <=>
                      [action |-> a, reason |-> "external_effect_unknown"] \in quarantine'
  BY DEF FailedIsQuarantined
<1> USE DEF SendInv, TypeInv, CallsWork, TypeOK, rowVars, ledgerVars,
            OutcomeIsWhole, FailedIsQuarantined
<1>1. ASSUME NEW p \in Clients, Quarantine(p)
      PROVE  status'[a] = "failed" <=>
               [action |-> a, reason |-> "external_effect_unknown"] \in quarantine'
  <2>1. req[p].action \in Actions
    BY <1>1 DEF Quarantine, Requests
  <2>2. CASE HoldsLease(p)
    BY <1>1, <2>1, <2>2 DEF Quarantine, QuarantineReason
  <2>3. CASE ~HoldsLease(p)
    BY <1>1, <2>3 DEF Quarantine, QuarantineReason
  <2> QED
    BY <2>2, <2>3
<1>2. ASSUME NEW p \in Clients, Claim(p) \/ CompleteSend(p)
      PROVE  (status'[a] = "failed" <=> status[a] = "failed") /\ UNCHANGED quarantine
  BY <1>2 DEF Claim, Claimable, CompleteSend, HoldsLease
<1>3. ASSUME NEW c \in Actions, Create(c)
      PROVE  (status'[a] = "failed" <=> status[a] = "failed") /\ UNCHANGED quarantine
  BY <1>3 DEF Create
<1>4. \/ UNCHANGED <<status, quarantine>>
      \/ \E c \in Actions : Create(c)
      \/ \E p \in Clients : Quarantine(p) \/ Claim(p) \/ CompleteSend(p)
  BY DEF Next, vars, Begin, ReturnOrRefuse, CallAnswered, CallUnknown, CallRaises,
     AnswerSent, FindSending, FindNeither, CompletionRejected, Crash, Tick
<1> QED
  BY <1>1, <1>2, <1>3, <1>4

LEMMA InitSend == Init => SendInv
<1> SUFFICES ASSUME Init PROVE SendInv
  OBVIOUS
<1>1. TypeInv
  BY InitType
<1>2. CallsReserved /\ OutcomeIsWhole /\ ReservedBeforeEffect
  BY DEF Init, CallsReserved, AfterClaim, OutcomeIsWhole, AnswersTrue,
     SentIsRecorded, FailedIsQuarantined, ReservedBeforeEffect
<1> QED
  BY <1>1, <1>2 DEF SendInv

LEMMA SendInvariant == Spec => []SendInv
<1>1. SendInv /\ [Next]_vars => SendInv'
  BY StepTypeOK, StepCallsWork, StepCallsReserved, StepReserved, StepAnswersTrue,
     StepSentIsRecorded, StepFailedIsQuarantined
  DEF SendInv, TypeInv, OutcomeIsWhole
<1> QED
  BY <1>1, InitSend, PTL DEF Spec

\* The result of a key, the status of its action, the event and the quarantine
\* record agree, whatever calls overrun, crash and race.
THEOREM OutcomeWhole == Spec => []OutcomeIsWhole
<1>1. SendInv => OutcomeIsWhole
  BY DEF SendInv
<1> QED
  BY <1>1, SendInvariant, PTL

\* Every message the provider has was durably reserved, with its body, before.
THEOREM EffectReserved == Spec => []ReservedBeforeEffect
<1>1. SendInv => ReservedBeforeEffect
  BY DEF SendInv
<1> QED
  BY <1>1, SendInvariant, PTL

\* No earlier event stands in the way of the holder of a lease: the completing
\* transaction that reaches complete_send in time commits.
HolderCanComplete ==
  \A p \in Clients : pc[p] = "recording" /\ HoldsLease(p) => SentEvent(p) \notin events

\* A completion in time is never refused (complete_send, the event and the audit).
THEOREM HolderCompletes == Spec => []HolderCanComplete
<1>1. SendInv => HolderCanComplete
  <2> SUFFICES ASSUME SendInv, NEW p \in Clients, pc[p] = "recording", HoldsLease(p)
               PROVE  SentEvent(p) \notin events
    BY DEF HolderCanComplete
  <2>1. req[p] \in Requests
    BY DEF SendInv, TypeInv, CallsWork
  <2>2. req[p].action \in Actions /\ status[req[p].action] # "sent"
    BY <2>1 DEF Requests, HoldsLease
  <2> QED
    BY <2>2 DEF SendInv, OutcomeIsWhole, SentIsRecorded, SentEvent
<1> QED
  BY <1>1, SendInvariant, PTL

\* What UnknownIsNotResent becomes when the outcome was reported in time: once the
\* holder of the lease reported an unknown outcome, no call of any key reaches the
\* adapter for the action again.
ReportedUnknownIsNotResent ==
  [][\A p \in Clients :
       pc[p] = "reserving" /\ pc'[p] = "calling" =>
         [action |-> req[p].action, reason |-> "external_effect_unknown"]
           \notin quarantine]_vars

\* The promise of docs/P43_MAX_AMBIGUOUS_OUTCOME_SAFETY.md holds as long as the
\* lease is: only reports that come after it leave the action claimable.
THEOREM ReportedIsFinal == Spec => ReportedUnknownIsNotResent
<1> DEFINE NotResent ==
      \A p \in Clients :
        pc[p] = "reserving" /\ pc'[p] = "calling" =>
          [action |-> req[p].action, reason |-> "external_effect_unknown"]
            \notin quarantine
<1>1. SendInv /\ [Next]_vars => [NotResent]_vars
  <2> SUFFICES ASSUME SendInv, Next, NEW p \in Clients,
                      pc[p] = "reserving", pc'[p] = "calling"
               PROVE  [action |-> req[p].action, reason |-> "external_effect_unknown"]
                        \notin quarantine
    OBVIOUS
  <2>1. pc \in [Clients -> {"idle", "reserving"} \cup AfterClaim]
    BY DEF SendInv, TypeInv, TypeOK
  <2>2. Claim(p)
    <3> USE <2>1 DEF EndCall
    <3>1. ASSUME NEW q \in Clients, q # p PROVE ~Claim(q) /\ ~ReturnOrRefuse(q)
      BY <3>1 DEF Claim, ReturnOrRefuse
    <3>2. ~(\E a \in Actions : Create(a)) /\ ~Tick
      BY DEF Create, Tick, clientVars
    <3>3. ASSUME NEW q \in Clients, NEW r \in Requests, NEW k \in Keys PROVE ~Begin(q, r, k)
      BY DEF Begin
    <3>4. ASSUME NEW q \in Clients
          PROVE  /\ ~CallAnswered(q) /\ ~CallUnknown(q) /\ ~CallRaises(q)
                 /\ ~Quarantine(q) /\ ~AnswerSent(q) /\ ~FindSending(q)
      BY DEF CallAnswered, CallUnknown, CallRaises, Quarantine, AnswerSent, FindSending
    <3>5. ASSUME NEW q \in Clients
          PROVE  ~FindNeither(q) /\ ~CompleteSend(q) /\ ~CompletionRejected(q) /\ ~Crash(q)
      BY DEF FindNeither, CompleteSend, CompletionRejected, Crash
    <3>6. ~ReturnOrRefuse(p)
      BY DEF ReturnOrRefuse
    <3> QED
      BY <3>1, <3>2, <3>3, <3>4, <3>5, <3>6, Zenon DEF Next
  <2>3. req[p].action \in Actions /\ Claimable(req[p].action, lag[p])
    BY <2>2 DEF Claim, SendInv, TypeInv, CallsWork, Requests
  <2>4. status[req[p].action] # "failed"
    BY <2>3 DEF Claimable
  <2> QED
    BY <2>3, <2>4 DEF SendInv, OutcomeIsWhole, FailedIsQuarantined
<1>2. Spec => [][NotResent]_vars
  BY <1>1, SendInvariant, PTL DEF Spec
<1> QED
  BY <1>2 DEF ReportedUnknownIsNotResent

-----------------------------------------------------------------------------
(* The refinement of SendPromise *)

LEMMA InitPromise == Init => Promise!Init
BY DEF Init, Promise!Init, OutcomeOf

LEMMA StepPromise == SendInv /\ [Next]_vars => [Promise!Next]_(Promise!vars)
<1> SUFFICES ASSUME SendInv, [Next]_vars PROVE Promise!Next \/ UNCHANGED Promise!vars
  OBVIOUS
<1> USE CommercialSendAssumption DEF SendInv, TypeInv, CallsWork, TypeOK,
        rowVars, keyVars, OutcomeOf, Promise!vars
\* Answers move only with answered: a reserved key keeps its request.
<1>1. ASSUME UNCHANGED answered
      PROVE  UNCHANGED [k \in Keys |-> IF k \in answered THEN request[k] ELSE NoRequest]
  BY <1>1, StepKeepsRequest DEF OutcomeIsWhole, AnswersTrue
<1>2. ASSUME NEW a \in Actions, Create(a) PROVE Promise!Next
  <2>1. Promise!Create(a)
    BY <1>1, <1>2 DEF Create, Promise!Create
  <2> QED
    BY <2>1 DEF Promise!Next
<1>3. ASSUME NEW p \in Clients, Claim(p) PROVE UNCHANGED Promise!vars
  <2>1. req[p].action \in Actions
    BY <1>3 DEF Claim, Requests
  <2>2. UNCHANGED [a \in Actions |-> OutcomeOf(a)]
    BY <1>3, <2>1 DEF Claim, Claimable
  <2> QED
    BY <1>1, <1>3, <2>2 DEF Claim
<1>4. ASSUME NEW p \in Clients, CallAnswered(p) \/ CallUnknown(p) \/ CallRaises(p)
      PROVE  Promise!Next \/ UNCHANGED Promise!vars
  <2>1. PICK a \in Actions, b \in Bodies :
          /\ a = req[p].action /\ b = req[p].body
          /\ status[a] \notin {"absent", "ready"}
    BY <1>4 DEF CallAnswered, CallUnknown, CallRaises, CallsReserved, AfterClaim,
       Claimed, Requests
  <2>2. UNCHANGED <<status, answered>>
    BY <1>4 DEF CallAnswered, CallUnknown, CallRaises
  <2>3. \/ UNCHANGED effect
        \/ effect[a] = NoBody /\ effect' = [effect EXCEPT ![a] = b]
    BY <1>4, <2>1 DEF CallAnswered, CallUnknown, CallRaises, Accepts, Taken
  <2>4. CASE UNCHANGED effect
    BY <1>1, <2>2, <2>4
  <2>5. CASE effect[a] = NoBody /\ effect' = [effect EXCEPT ![a] = b]
    <3>1. Promise!Deliver(a, b)
      BY <1>1, <2>1, <2>2, <2>5 DEF Promise!Deliver
    <3> QED
      BY <3>1 DEF Promise!Next
  <2> QED
    BY <2>3, <2>4, <2>5
<1>5. ASSUME NEW p \in Clients, Quarantine(p)
      PROVE  Promise!Next \/ UNCHANGED Promise!vars
  <2>1. PICK a \in Actions : a = req[p].action
    BY <1>5 DEF Quarantine, Requests
  <2>2. CASE HoldsLease(p)
    <3>1. Promise!GiveUp(a)
      BY <1>1, <1>5, <2>1, <2>2 DEF Quarantine, HoldsLease, Promise!GiveUp
    <3> QED
      BY <3>1 DEF Promise!Next
  <2>3. CASE ~HoldsLease(p)
    BY <1>1, <1>5, <2>3 DEF Quarantine
  <2> QED
    BY <2>2, <2>3
<1>6. ASSUME NEW p \in Clients, AnswerSent(p) \/ CompleteSend(p) PROVE Promise!Next
  <2>1. pc[p] \in {"completing", "recording"} /\ UNCHANGED <<request, effect>>
    BY <1>6 DEF AnswerSent, CompleteSend
  <2>2. PICK a \in Actions, k \in Keys : a = req[p].action /\ k = key[p]
    BY <2>1 DEF Requests
  <2>3. request[k] = req[p] /\ effect[a] = req[p].body /\ req[p] \in Requests
    BY <2>1, <2>2 DEF CallsReserved, AfterClaim
  <2>4. effect[a] # NoBody /\ req[p] = [action |-> a, body |-> effect[a]]
    BY <2>2, <2>3 DEF Requests
  <2>5. /\ status[a] \in {"sending", "sent"}
        /\ status' = [status EXCEPT ![a] = "sent"]
        /\ answered' = answered \cup {k}
    BY <1>6, <2>2 DEF AnswerSent, FoundSent, CompleteSend, HoldsLease
  <2>6. Promise!Answer(a, k)
    BY <2>1, <2>3, <2>4, <2>5 DEF Promise!Answer
  <2> QED
    BY <2>6 DEF Promise!Next
<1>7. CASE UNCHANGED <<status, answered, effect>>
  BY <1>1, <1>7
<1> QED
  BY <1>2, <1>3, <1>4, <1>5, <1>6, <1>7
  DEF Next, vars, Begin, ReturnOrRefuse, FindSending, FindNeither,
      CompletionRejected, Crash, Tick

\* The workflow implements SendPromise: an action is settled once, is sent only
\* with a message the provider has, and a key's answer never changes.
THEOREM SendKeepsPromise == Spec => KeepsSendPromise
<1>1. Spec => [][Promise!Next]_(Promise!vars)
  BY SendInvariant, StepPromise, PTL DEF Spec
<1> QED
  BY <1>1, InitPromise, PTL DEF Spec, KeepsSendPromise, Promise!Spec

=============================================================================
