------------------------- MODULE PublicIntakeProofs -------------------------
(***************************************************************************)
(* Proofs about PublicIntake, for any calls, keys, bodies, dispatchers,    *)
(* bound of the outbox and limit of a claim.                               *)
(***************************************************************************)
EXTENDS PublicIntake, FiniteSetTheorems, TLAPS

-----------------------------------------------------------------------------
(* The inductive invariant.  A call that goes on has the snapshot of its    *)
(* preflight, and nobody changes a snapshot's content once it was returned; *)
(* the owner of a key asked with that key and the body of its reservation;  *)
(* a dispatcher delivers events of the outbox and marks what it projected.  *)

Asked == {"checked", "accepted", "projected", "over"}

Preflighted ==
  /\ \A r \in Requests :
       /\ at[r] \in {"checked", "accepted", "projected"} \/ r \in accepted
          => snapshot[r] \in Requests
       /\ snapshot[r] \in Requests => at[snapshot[r]] \in Asked
  /\ cached \in Requests => at[cached] \in Asked

CallsFollow ==
  \A r \in Requests :
    /\ at[r] \in {"accepted", "projected"} => r \in accepted
    /\ r \in accepted => at[r] \in {"accepted", "projected", "over"}
    /\ at[r] = "projected" => r \in projected

OwnersMatch ==
  \A k \in Keys : owner[k] \in Requests => key[owner[k]] = k /\ hash[k] = body[owner[k]]

DeliveriesFollow ==
  \A d \in Dispatchers :
    /\ batch[d].left \subseteq events \cup published
    /\ batch[d].at = "mark" /\ Notifies(batch[d].event) => batch[d].event[1] \in projected

IntakeInv ==
  /\ TypeOK
  /\ Preflighted
  /\ CallsFollow
  /\ OwnersMatch
  /\ ReservationMatchesRequest
  /\ EventsMatchRequests
  /\ DeliveriesFollow

LEMMA InitIntake == Init => IntakeInv
<1> SUFFICES ASSUME Init PROVE IntakeInv
  OBVIOUS
<1> USE IntakeAssumption
<1>1. TypeOK
  <2>1. (CHOOSE b \in Bodies : TRUE) \in Bodies
    OBVIOUS
  <2> QED
    BY <2>1 DEF Init, TypeOK, Pc, Verdicts, NoBatch, Kinds
<1>2. Preflighted /\ CallsFollow /\ OwnersMatch
  BY DEF Init, Preflighted, CallsFollow, OwnersMatch
<1>3. ReservationMatchesRequest
  BY DEF Init, ReservationMatchesRequest, AcceptedFor
<1>4. EventsMatchRequests
  BY DEF Init, EventsMatchRequests
<1>5. DeliveriesFollow
  BY DEF Init, DeliveriesFollow, NoBatch
<1> QED
  BY <1>1, <1>2, <1>3, <1>4, <1>5 DEF IntakeInv

-----------------------------------------------------------------------------
(* Steps of a call that change no row *)

Idles(r) ==
  \/ ReservationTaken(r) \/ Admit(r) \/ Refuse(r) \/ CacheMiss(r)
  \/ AcceptRejected(r) \/ ProjectionFails(r) \/ Die(r)

\* Such a call ends, is admitted or misses the cache, and is at most told of a
\* stored request of its key and body.
LEMMA IdleCalls ==
  ASSUME IntakeInv, NEW r \in Requests, Idles(r)
  PROVE  /\ UNCHANGED <<key, body, spam, snapshot, reservationVars, accepted,
                        snapshotVars, outboxVars, shemaVars, marked, batch>>
         /\ \E place \in {"over", "admitted", "asking"} :
              /\ at' = [at EXCEPT ![r] = place]
              /\ place # "over" => at[r] \in {"reserved", "admitted"}
         /\ answered' \subseteq
              answered \cup {<<r, o>> : o \in {x \in AcceptedFor(key[r]) : body[x] = body[r]}}
<1> DEFINE told == {<<r, o>> : o \in {x \in AcceptedFor(key[r]) : body[x] = body[r]}}
<1>1. AnswerStored(r) => Goto(r, "over") /\ answered' \subseteq answered \cup told
  BY DEF AnswerStored, Answers
<1>2. CASE ReservationTaken(r)
  BY <1>1, <1>2 DEF ReservationTaken, Goto
<1>3. CASE Admit(r)
  BY <1>1, <1>3 DEF Admit, Goto
<1>4. CASE Refuse(r) \/ CacheMiss(r) \/ Die(r)
  BY <1>4 DEF Refuse, CacheMiss, Die, Goto
<1>5. CASE AcceptRejected(r)
  BY <1>1, <1>5 DEF AcceptRejected, Goto
<1>6. CASE ProjectionFails(r)
  <2>1. r \in AcceptedFor(key[r])
    BY <1>6 DEF ProjectionFails, IntakeInv, CallsFollow, AcceptedFor
  <2> QED
    BY <1>6, <2>1 DEF ProjectionFails, Goto
<1> QED
  BY <1>2, <1>3, <1>4, <1>5, <1>6 DEF Idles

\* Every step is one of these, or one of the steps that change rows.
LEMMA StepKinds ==
  ASSUME [Next]_vars
  PROVE  \/ \E r \in Requests : Idles(r)
         \/ \E r \in Requests : Reserve(r) \/ Accept(r) \/ Project(r) \/ MarkProjected(r)
         \/ \E r \in Requests : PreflightFromCache(r) \/ PreflightUncached(r) \/ PreflightLookup(r)
         \/ \E d \in Dispatchers : Claim(d) \/ Publish(d) \/ PublishRejected(d) \/ Abort(d)
         \/ \E d \in Dispatchers, e \in Events : Deliver(d, e)
         \/ \E k \in Keys : ReservationExpires(k)
         \/ \E e \in Events : DeliveryLeaseExpires(e)
         \/ CacheExpires
         \/ UNCHANGED vars
BY Zenon DEF Next, Submit, Idles
-----------------------------------------------------------------------------
(* Events *)

LEMMA EventsOfType ==
  ASSUME TypeOK, NEW r \in Requests, NEW v \in Verdicts
  PROVE  /\ EventsOf(r, v) \subseteq Events
         /\ NoticesOf(r, v) \subseteq EventsOf(r, v)
         /\ \A e \in EventsOf(r, v) : e[1] = r
         /\ \E a, b \in Events : EventsOf(r, v) \subseteq {a, b}
<1>1. spam[r] \in BOOLEAN /\ v \in {"plain", "alert"}
  BY DEF TypeOK, Verdicts
<1>2. <<r, "spam">> \in Events /\ <<r, "request">> \in Events /\ <<r, "alert">> \in Events
  BY DEF Events, Kinds
<1>3. CASE spam[r]
  BY <1>2, <1>3 DEF EventsOf, NoticesOf
<1>4. CASE ~spam[r]
  BY <1>1, <1>2, <1>4 DEF EventsOf, NoticesOf
<1> QED
  BY <1>1, <1>3, <1>4

\* The content of a stored request's snapshot.
LEMMA VerdictType ==
  ASSUME IntakeInv, NEW r \in Requests,
         at[r] \in {"checked", "accepted", "projected"} \/ r \in accepted
  PROVE  snapshot[r] \in Requests /\ verdict[snapshot[r]] \in Verdicts
BY DEF IntakeInv, TypeOK, Preflighted

\* An event of the outbox is one of a stored request.
LEMMA EventsAreAccepted ==
  ASSUME IntakeInv, NEW e \in events \cup published
  PROVE  /\ e \in Events /\ e[1] \in Requests
         /\ e[1] \in accepted /\ e \in EventsOf(e[1], verdict[snapshot[e[1]]])
<1>1. e \in Events /\ e[1] \in Requests
  BY DEF IntakeInv, TypeOK, Events
<1> DEFINE mine == {x \in events \cup published : x[1] = e[1]}
<1>2. mine = IF e[1] \in accepted THEN EventsOf(e[1], verdict[snapshot[e[1]]]) ELSE {}
  BY <1>1 DEF IntakeInv, EventsMatchRequests
<1>3. e \in mine
  OBVIOUS
<1> HIDE DEF mine
<1> QED
  BY <1>1, <1>2, <1>3

\* What claim_pending gives a dispatcher.
Claimed(S) == [NoBatch EXCEPT !.left = S, !.at = "next"]

LEMMA ClaimTakes ==
  ASSUME IntakeInv, NEW d \in Dispatchers, Claim(d)
  PROVE  \E S \in SUBSET Events : /\ S \subseteq events /\ held' = held \cup S
                                   /\ batch' = [batch EXCEPT ![d] = Claimed(S)]
<1>1. PICK locked \in SUBSET ((events \ held) \cap MayBeLocked(d)) :
        \E S \in SUBSET ((events \ held) \ locked) :
          held' = held \cup S /\ batch' = [batch EXCEPT ![d] = Claimed(S)]
  BY Zenon DEF Claim, Claimed
<1>2. PICK S \in SUBSET ((events \ held) \ locked) :
        held' = held \cup S /\ batch' = [batch EXCEPT ![d] = Claimed(S)]
  BY <1>1
<1>3. S \subseteq events /\ S \in SUBSET Events
  BY DEF IntakeInv, TypeOK
<1> QED
  BY <1>2, <1>3

LEMMA StepTypeOK == IntakeInv /\ [Next]_vars => TypeOK'
<1> SUFFICES ASSUME IntakeInv, [Next]_vars PROVE TypeOK'
  OBVIOUS
<1>0. TypeOK
  BY DEF IntakeInv
<1> USE DEF callVars, reservationVars, snapshotVars, outboxVars, shemaVars
<1>1. ASSUME NEW r \in Requests, Idles(r) PROVE TypeOK'
  <2>1. /\ UNCHANGED <<key, body, spam, snapshot, reservationVars, accepted,
                       snapshotVars, outboxVars, shemaVars, marked, batch>>
        /\ \E place \in {"over", "admitted", "asking"} : at' = [at EXCEPT ![r] = place]
        /\ answered' \subseteq
              answered \cup {<<r, o>> : o \in {x \in AcceptedFor(key[r]) : body[x] = body[r]}}
    BY <1>1, IdleCalls
  <2>2. at' \in [Requests -> Pc]
    BY <1>0, <2>1 DEF TypeOK, Pc
  <2>3. AcceptedFor(key[r]) \subseteq Requests
    BY <1>0 DEF AcceptedFor, TypeOK
  <2>4. answered' \subseteq Requests \X Requests
    BY <1>0, <2>1, <2>3 DEF TypeOK
  <2> QED
    BY <1>0, <2>1, <2>2, <2>4 DEF TypeOK
<1>2. ASSUME NEW r \in Requests, Reserve(r) PROVE TypeOK'
  BY <1>0, <1>2 DEF Reserve, Goto, TypeOK, Pc
<1>3. ASSUME NEW r \in Requests, Accept(r) PROVE TypeOK'
  <2> DEFINE new == EventsOf(r, verdict[snapshot[r]])
  <2>1. snapshot[r] \in Requests /\ verdict[snapshot[r]] \in Verdicts
    BY <1>3, VerdictType DEF Accept
  <2>2. new \subseteq Events /\ \A e \in new : e[1] = r
    BY <1>0, <2>1, EventsOfType
  <2>3. r \notin accepted
    BY <1>3 DEF Accept, AcceptedFor
  <2>4. new \cap published = {}
    BY <2>2, <2>3, EventsAreAccepted
  <2> HIDE DEF new
  <2>5. events' = events \cup new
    BY <1>3 DEF Accept, new
  <2>6. /\ events' \subseteq Events /\ published' \subseteq Events \ events'
        /\ held' \subseteq events'
    BY <1>0, <1>3, <2>2, <2>4, <2>5 DEF Accept, TypeOK
  <2>7. /\ stored' \subseteq Requests /\ cached' \in stored' \cup {NoRequest}
        /\ at' \in [Requests -> Pc]
    BY <1>0, <1>3, <2>1 DEF Accept, Goto, TypeOK, Pc
  <2>8. accepted' \subseteq Requests /\ done' \subseteq Keys
    BY <1>0, <1>3 DEF Accept, TypeOK
  <2> QED
    BY <1>0, <1>3, <2>6, <2>7, <2>8 DEF Accept, TypeOK
<1>4. ASSUME NEW r \in Requests, Project(r) PROVE TypeOK'
  <2>1. snapshot[r] \in Requests /\ verdict[snapshot[r]] \in Verdicts
    BY <1>4, VerdictType DEF Project
  <2>2. NoticesOf(r, verdict[snapshot[r]]) \subseteq Events
    BY <1>0, <2>1, EventsOfType
  <2> QED
    BY <1>0, <1>4, <2>2 DEF Project, Projection, Goto, TypeOK, Pc
<1>5. ASSUME NEW r \in Requests, MarkProjected(r) PROVE TypeOK'
  BY <1>0, <1>5 DEF MarkProjected, Goto, TypeOK, Pc
<1>6. ASSUME NEW r \in Requests, PreflightFromCache(r) PROVE TypeOK'
  BY <1>0, <1>6 DEF PreflightFromCache, Goto, TypeOK, Pc
<1>7. ASSUME NEW r \in Requests, PreflightUncached(r) PROVE TypeOK'
  BY <1>0, <1>7 DEF PreflightUncached, Goto, TypeOK, Pc
<1>8. ASSUME NEW r \in Requests, PreflightLookup(r) PROVE TypeOK'
  <2>1. /\ stored' \subseteq Requests /\ cached' \in stored' \cup {NoRequest} /\ fresh' \in BOOLEAN
        /\ at' \in [Requests -> Pc] /\ snapshot' \in [Requests -> Requests \cup {NoRequest}]
    BY <1>0, <1>8 DEF PreflightLookup, RowsAfterCaching, Goto, TypeOK, Pc
  <2>2. verdict' \in [Requests -> Verdicts]
    BY <1>0, <1>8 DEF PreflightLookup, TypeOK
  <2> QED
    BY <1>0, <1>8, <2>1, <2>2 DEF PreflightLookup, TypeOK
<1>9. ASSUME NEW d \in Dispatchers, Claim(d) PROVE TypeOK'
  <2>1. PICK S \in SUBSET Events : /\ S \subseteq events /\ held' = held \cup S
                                    /\ batch' = [batch EXCEPT ![d] = Claimed(S)]
    BY <1>9, ClaimTakes
  <2> DEFINE new == Claimed(S)
  <2>3. new \in [left : SUBSET Events, at : {"idle", "next", "mark"},
                 event : (Requests \cup {NoRequest}) \X Kinds]
    BY DEF Claimed, NoBatch, Kinds
  <2> HIDE DEF new
  <2>4. batch' = [batch EXCEPT ![d] = new]
    BY <2>1 DEF new
  <2>5. /\ UNCHANGED <<callVars, reservationVars, accepted, snapshotVars, events, published>>
        /\ UNCHANGED <<shemaVars, marked, answered>>
    BY <1>9, Zenon DEF Claim
  <2> QED
    BY <1>0, <2>1, <2>3, <2>4, <2>5 DEF TypeOK
<1>10. ASSUME NEW d \in Dispatchers, Publish(d) PROVE TypeOK'
  <2> DEFINE e == batch[d].event
  <2>1. /\ e \in events /\ published' = published \cup {e} /\ events' = events \ {e}
        /\ held' = held \ {e}
    BY <1>0, <1>10 DEF Publish, MayPublish, TypeOK
  <2>2. /\ events' \subseteq Events /\ published' \subseteq Events \ events'
        /\ held' \subseteq events'
    BY <1>0, <2>1 DEF TypeOK
  <2>3. e[1] \in Requests
    BY <1>0, <2>1 DEF TypeOK, Events
  <2>4. marked' \subseteq Requests
    BY <1>0, <1>10, <2>3 DEF Publish, TypeOK
  <2> DEFINE place == IF batch[d].left = {} THEN "idle" ELSE "next"
             none == NoBatch.event
  <2>5. place \in {"idle", "next", "mark"} /\ none \in (Requests \cup {NoRequest}) \X Kinds
    BY DEF NoBatch, Kinds
  <2>6. batch' = [batch EXCEPT ![d] = [left |-> batch[d].left, at |-> place, event |-> none]]
    BY <1>10, Zenon DEF Publish
  <2> HIDE DEF place, none
  <2>7. batch' \in [Dispatchers -> [left : SUBSET Events, at : {"idle", "next", "mark"},
                                    event : (Requests \cup {NoRequest}) \X Kinds]]
    BY <1>0, <2>5, <2>6 DEF TypeOK
  <2> QED
    BY <1>0, <1>10, <2>2, <2>4, <2>7 DEF Publish, TypeOK
<1>11. ASSUME NEW d \in Dispatchers, PublishRejected(d) \/ Abort(d) PROVE TypeOK'
  <2>1. NoBatch \in [left : SUBSET Events, at : {"idle", "next", "mark"},
                     event : (Requests \cup {NoRequest}) \X Kinds]
    BY DEF NoBatch, Kinds
  <2> QED
    BY <1>0, <1>11, <2>1 DEF PublishRejected, Abort, TypeOK
<1>12. ASSUME NEW d \in Dispatchers, NEW e \in Events, Deliver(d, e) PROVE TypeOK'
  <2>1. e \in events \cup published
    BY <1>12 DEF Deliver, IntakeInv, DeliveriesFollow
  <2>2. e[1] \in Requests /\ e[1] \in accepted
    BY <2>1, EventsAreAccepted
  <2>3. NoticesOf(e[1], verdict[snapshot[e[1]]]) \subseteq Events
    BY <1>0, <2>2, VerdictType, EventsOfType
  <2>4. projected' \subseteq Requests /\ notices' \subseteq Events
    BY <1>0, <1>12, <2>2, <2>3 DEF Deliver, Projection, TypeOK
  <2>5. e \in (Requests \cup {NoRequest}) \X Kinds
    BY DEF Events
  <2>6. batch' \in [Dispatchers -> [left : SUBSET Events, at : {"idle", "next", "mark"},
                                    event : (Requests \cup {NoRequest}) \X Kinds]]
    <3> DEFINE left == batch[d].left \ {e}
    <3>1. left \in SUBSET Events
      BY <1>0 DEF TypeOK
    <3>2. batch' = [batch EXCEPT ![d] = [left |-> left, at |-> "mark", event |-> e]]
      BY <1>12 DEF Deliver
    <3> HIDE DEF left
    <3> QED
      BY <1>0, <2>5, <3>1, <3>2 DEF TypeOK
  <2> QED
    BY <1>0, <1>12, <2>4, <2>6 DEF Deliver, TypeOK
<1>13. ASSUME NEW k \in Keys, ReservationExpires(k) PROVE TypeOK'
  BY <1>0, <1>13 DEF ReservationExpires, TypeOK
<1>14. ASSUME NEW e \in Events, DeliveryLeaseExpires(e) PROVE TypeOK'
  BY <1>0, <1>14 DEF DeliveryLeaseExpires, TypeOK
<1>15. CASE CacheExpires
  BY <1>0, <1>15 DEF CacheExpires, TypeOK
<1>16. CASE UNCHANGED vars
  BY <1>0, <1>16 DEF vars, TypeOK
<1> QED
  BY StepKinds, <1>1, <1>2, <1>3, <1>4, <1>5, <1>6, <1>7, <1>8, <1>9, <1>10, <1>11, <1>12,
     <1>13, <1>14, <1>15, <1>16

-----------------------------------------------------------------------------
(* Calls *)

\* Steps of the dispatchers and of time leave the calls, the reservations'
\* owners, the stored requests and the content of their snapshots alone.
LEMMA CallersRest ==
  ASSUME \/ \E d \in Dispatchers : Claim(d) \/ Publish(d) \/ PublishRejected(d) \/ Abort(d)
         \/ \E d \in Dispatchers, e \in Events : Deliver(d, e)
         \/ \E k \in Keys : ReservationExpires(k)
         \/ \E e \in Events : DeliveryLeaseExpires(e)
         \/ CacheExpires
         \/ UNCHANGED vars
  PROVE  /\ UNCHANGED <<key, body, spam, at, snapshot, owner, hash, done, accepted>>
         /\ UNCHANGED <<verdict, stored, cached>>
         /\ projected \subseteq projected'
<1> USE DEF callVars, reservationVars, snapshotVars, outboxVars, shemaVars
<1>1. ASSUME NEW d \in Dispatchers, Claim(d) \/ Publish(d) \/ PublishRejected(d) \/ Abort(d)
      PROVE  /\ UNCHANGED <<key, body, spam, at, snapshot, owner, hash, done, accepted>>
             /\ UNCHANGED <<verdict, stored, cached, projected>>
  <2>1. UNCHANGED <<callVars, reservationVars, accepted, snapshotVars, shemaVars>>
    BY <1>1, Zenon DEF Claim, Publish, PublishRejected, Abort
  <2> QED
    BY <2>1
<1>2. ASSUME NEW d \in Dispatchers, NEW e \in Events, Deliver(d, e)
      PROVE  /\ UNCHANGED <<key, body, spam, at, snapshot, owner, hash, done, accepted>>
             /\ UNCHANGED <<verdict, stored, cached>>
             /\ projected \subseteq projected'
  BY <1>2 DEF Deliver, Projection
<1>3. ASSUME NEW k \in Keys, ReservationExpires(k)
      PROVE  /\ UNCHANGED <<key, body, spam, at, snapshot, owner, hash, done, accepted>>
             /\ UNCHANGED <<verdict, stored, cached, projected>>
  BY <1>3 DEF ReservationExpires
<1>4. ASSUME NEW e \in Events, DeliveryLeaseExpires(e)
      PROVE  /\ UNCHANGED <<key, body, spam, at, snapshot, owner, hash, done, accepted>>
             /\ UNCHANGED <<verdict, stored, cached, projected>>
  BY <1>4 DEF DeliveryLeaseExpires
<1>5. ASSUME CacheExpires \/ UNCHANGED vars
      PROVE  /\ UNCHANGED <<key, body, spam, at, snapshot, owner, hash, done, accepted>>
             /\ UNCHANGED <<verdict, stored, cached, projected>>
  BY <1>5 DEF CacheExpires, vars
<1> QED
  BY <1>1, <1>2, <1>3, <1>4, <1>5

LEMMA StepPreflighted == IntakeInv /\ [Next]_vars => Preflighted'
<1> SUFFICES ASSUME IntakeInv, [Next]_vars PROVE Preflighted'
  OBVIOUS
<1>0. TypeOK /\ Preflighted
  BY DEF IntakeInv
<1> USE DEF callVars, reservationVars, snapshotVars, outboxVars, shemaVars
<1>1. ASSUME NEW r \in Requests, Idles(r) PROVE Preflighted'
  <2>1. UNCHANGED <<snapshot, accepted, cached>>
    BY <1>1, IdleCalls
  <2>2. PICK place \in {"over", "admitted", "asking"} :
          /\ at' = [at EXCEPT ![r] = place]
          /\ place # "over" => at[r] \in {"reserved", "admitted"}
    BY <1>1, IdleCalls
  <2>3. ASSUME NEW x \in Requests
        PROVE  /\ at[x] \in Asked => at'[x] \in Asked
               /\ at'[x] \in {"checked", "accepted", "projected"} => at'[x] = at[x]
    BY <1>0, <2>2 DEF TypeOK, Asked
  <2> QED
    BY <1>0, <2>1, <2>3 DEF Preflighted
<1>2. ASSUME NEW r \in Requests, Reserve(r) \/ Accept(r) \/ Project(r) \/ MarkProjected(r)
      PROVE  Preflighted'
  <2>1. UNCHANGED <<snapshot, cached>> /\ accepted' \subseteq accepted \cup {r}
    BY <1>2 DEF Reserve, Accept, Project, MarkProjected
  <2>2. /\ at[r] \in {"new", "checked", "accepted", "projected"}
        /\ r \in accepted' \ accepted => at[r] = "checked"
        /\ at[r] = "new" => at' = [at EXCEPT ![r] = "reserved"]
        /\ at[r] # "new" => \E place \in Asked : at' = [at EXCEPT ![r] = place]
    BY <1>2 DEF Reserve, Accept, Project, MarkProjected, Goto, Asked
  <2>3. ASSUME NEW x \in Requests
        PROVE  /\ at[x] \in Asked => at'[x] \in Asked
               /\ at'[x] \in {"checked", "accepted", "projected"}
                    => at[x] \in {"checked", "accepted", "projected"}
    BY <1>0, <2>2 DEF TypeOK, Asked
  <2> QED
    BY <1>0, <2>1, <2>2, <2>3 DEF Preflighted
<1>3. ASSUME NEW r \in Requests,
             PreflightFromCache(r) \/ PreflightUncached(r) \/ PreflightLookup(r)
      PROVE  Preflighted'
  <2>1. at' = [at EXCEPT ![r] = "checked"] /\ accepted' = accepted
    BY <1>3 DEF PreflightFromCache, PreflightUncached, PreflightLookup, Goto
  <2>2. \E x \in {r, cached} : snapshot' = [snapshot EXCEPT ![r] = x] /\ x \in Requests
    BY <1>0, <1>3 DEF PreflightFromCache, PreflightUncached, PreflightLookup, TypeOK
  <2>3. cached' = cached \/ cached' = r
    BY <1>3 DEF PreflightFromCache, PreflightUncached, PreflightLookup
  <2>4. ASSUME NEW x \in Requests
        PROVE  /\ at[x] \in Asked => at'[x] \in Asked
               /\ x # r => at'[x] = at[x]
               /\ at'[r] \in Asked
    BY <1>0, <2>1 DEF TypeOK, Asked
  <2>5. ASSUME NEW x \in Requests
        PROVE  /\ x # r => snapshot'[x] = snapshot[x]
               /\ snapshot'[r] \in Requests /\ at'[snapshot'[r]] \in Asked
    BY <1>0, <2>2, <2>4 DEF TypeOK, Preflighted
  <2> QED
    BY <1>0, <2>1, <2>3, <2>4, <2>5 DEF Preflighted
<1>4. ASSUME UNCHANGED <<key, body, spam, at, snapshot, owner, hash, done, accepted>>,
             UNCHANGED <<verdict, stored, cached>>
      PROVE  Preflighted'
  BY <1>0, <1>4 DEF Preflighted
<1> QED
  BY StepKinds, CallersRest, <1>1, <1>2, <1>3, <1>4

LEMMA StepCallsFollow == IntakeInv /\ [Next]_vars => CallsFollow'
<1> SUFFICES ASSUME IntakeInv, [Next]_vars PROVE CallsFollow'
  OBVIOUS
<1>0. TypeOK /\ CallsFollow
  BY DEF IntakeInv
<1> USE DEF callVars, reservationVars, snapshotVars, outboxVars, shemaVars
<1>1. ASSUME NEW r \in Requests, Idles(r) PROVE CallsFollow'
  <2>1. UNCHANGED <<accepted, projected>>
    BY <1>1, IdleCalls
  <2>2. PICK place \in {"over", "admitted", "asking"} :
          /\ at' = [at EXCEPT ![r] = place]
          /\ place # "over" => at[r] \in {"reserved", "admitted"}
    BY <1>1, IdleCalls
  <2>3. ASSUME NEW x \in Requests
        PROVE  /\ at'[x] \in {"accepted", "projected"} => at'[x] = at[x]
               /\ at[x] \in {"accepted", "projected", "over"} => at'[x] \in {at[x], "over"}
    BY <1>0, <2>2 DEF TypeOK
  <2> QED
    BY <1>0, <2>1, <2>3 DEF CallsFollow
<1>2. ASSUME NEW r \in Requests, Reserve(r) PROVE CallsFollow'
  BY <1>0, <1>2 DEF Reserve, Goto, CallsFollow, TypeOK
<1>3. ASSUME NEW r \in Requests, Accept(r) PROVE CallsFollow'
  BY <1>0, <1>3 DEF Accept, Goto, CallsFollow, TypeOK
<1>4. ASSUME NEW r \in Requests, Project(r) PROVE CallsFollow'
  BY <1>0, <1>4 DEF Project, Projection, Goto, CallsFollow, TypeOK
<1>5. ASSUME NEW r \in Requests, MarkProjected(r) PROVE CallsFollow'
  BY <1>0, <1>5 DEF MarkProjected, Goto, CallsFollow, TypeOK
<1>6. ASSUME NEW r \in Requests,
             PreflightFromCache(r) \/ PreflightUncached(r) \/ PreflightLookup(r)
      PROVE  CallsFollow'
  <2>1. /\ at' = [at EXCEPT ![r] = "checked"] /\ at[r] \in {"admitted", "asking"}
        /\ UNCHANGED <<accepted, projected>>
    BY <1>6 DEF PreflightFromCache, PreflightUncached, PreflightLookup, Goto
  <2> QED
    BY <1>0, <2>1 DEF CallsFollow, TypeOK
<1>7. ASSUME UNCHANGED <<key, body, spam, at, snapshot, owner, hash, done, accepted>>,
             projected \subseteq projected'
      PROVE  CallsFollow'
  BY <1>0, <1>7 DEF CallsFollow
<1> QED
  BY StepKinds, CallersRest, <1>1, <1>2, <1>3, <1>4, <1>5, <1>6, <1>7
-----------------------------------------------------------------------------
(* Reservations *)

LEMMA StepReservations ==
  IntakeInv /\ [Next]_vars => OwnersMatch' /\ ReservationMatchesRequest'
<1> SUFFICES ASSUME IntakeInv, [Next]_vars
             PROVE  OwnersMatch' /\ ReservationMatchesRequest'
  OBVIOUS
<1>0. /\ TypeOK /\ OwnersMatch
      /\ \A k \in Keys :
           /\ k \in done => AcceptedFor(k) = {owner[k]} /\ hash[k] = body[owner[k]]
           /\ k \notin done => AcceptedFor(k) = {}
  BY DEF IntakeInv, ReservationMatchesRequest
<1> USE DEF callVars, reservationVars, snapshotVars, outboxVars, shemaVars
<1>1. ASSUME UNCHANGED <<key, body, owner, hash, done, accepted>>
      PROVE  OwnersMatch' /\ ReservationMatchesRequest'
  <2>1. \A k \in Keys : AcceptedFor(k)' = AcceptedFor(k)
    BY <1>1 DEF AcceptedFor
  <2> QED
    BY <1>0, <1>1, <2>1 DEF OwnersMatch, ReservationMatchesRequest
<1>2. ASSUME NEW r \in Requests, Reserve(r) PROVE OwnersMatch' /\ ReservationMatchesRequest'
  <2>1. /\ key[r] \in Keys /\ key[r] \notin done /\ done' = done
        /\ UNCHANGED <<key, body, accepted>>
        /\ owner' = [owner EXCEPT ![key[r]] = r]
        /\ hash' = [hash EXCEPT ![key[r]] = body[r]]
    BY <1>0, <1>2 DEF Reserve, Free, TypeOK
  <2>2. \A k \in Keys : AcceptedFor(k)' = AcceptedFor(k)
    BY <2>1 DEF AcceptedFor
  <2>3. OwnersMatch'
    BY <1>0, <2>1 DEF OwnersMatch, TypeOK
  <2>4. \A k \in done : owner'[k] = owner[k] /\ hash'[k] = hash[k]
    BY <1>0, <2>1 DEF TypeOK
  <2>5. ReservationMatchesRequest'
    BY <1>0, <2>1, <2>2, <2>4 DEF ReservationMatchesRequest
  <2> QED
    BY <2>3, <2>5
<1>3. ASSUME NEW r \in Requests, Accept(r) PROVE OwnersMatch' /\ ReservationMatchesRequest'
  <2>1. /\ key[r] \in Keys /\ owner[key[r]] = r /\ AcceptedFor(key[r]) = {}
        /\ accepted' = accepted \cup {r} /\ done' = done \cup {key[r]}
        /\ UNCHANGED <<key, body, owner, hash>>
    BY <1>0, <1>3 DEF Accept, Owns, TypeOK
  <2>2. OwnersMatch'
    BY <1>0, <2>1 DEF OwnersMatch
  <2>3. hash[key[r]] = body[r]
    BY <1>0, <2>1 DEF OwnersMatch
  <2>4. AcceptedFor(key[r])' = {r}
    BY <2>1 DEF AcceptedFor
  <2>5. \A k \in Keys \ {key[r]} : AcceptedFor(k)' = AcceptedFor(k)
    BY <2>1 DEF AcceptedFor
  <2>6. ReservationMatchesRequest'
    BY <1>0, <2>1, <2>3, <2>4, <2>5 DEF ReservationMatchesRequest
  <2> QED
    BY <2>2, <2>6
<1>4. ASSUME NEW r \in Requests, Idles(r) PROVE UNCHANGED <<key, body, owner, hash, done, accepted>>
  BY <1>4, IdleCalls
<1>5. ASSUME NEW r \in Requests,
             \/ Project(r) \/ MarkProjected(r)
             \/ PreflightFromCache(r) \/ PreflightUncached(r) \/ PreflightLookup(r)
      PROVE  UNCHANGED <<key, body, owner, hash, done, accepted>>
  BY <1>5 DEF Project, MarkProjected, PreflightFromCache, PreflightUncached, PreflightLookup
<1> QED
  BY StepKinds, CallersRest, <1>1, <1>2, <1>3, <1>4, <1>5

-----------------------------------------------------------------------------
(* The outbox and the operator's notifications *)

\* What the dispatchers and the clock may do to the events of the outbox.
LEMMA OutboxMoves ==
  ASSUME IntakeInv,
         \/ \E d \in Dispatchers : Claim(d) \/ Publish(d) \/ PublishRejected(d) \/ Abort(d)
         \/ \E d \in Dispatchers, e \in Events : Deliver(d, e)
         \/ \E k \in Keys : ReservationExpires(k)
         \/ \E e \in Events : DeliveryLeaseExpires(e)
         \/ CacheExpires
         \/ UNCHANGED vars
  PROVE  events' \cup published' = events \cup published
<1> USE DEF callVars, reservationVars, snapshotVars, outboxVars, shemaVars
<1>1. ASSUME NEW d \in Dispatchers, Publish(d)
      PROVE  events' \cup published' = events \cup published
  BY <1>1 DEF Publish, MayPublish, IntakeInv, TypeOK
<1>2. ASSUME NEW d \in Dispatchers, Claim(d) \/ PublishRejected(d) \/ Abort(d)
      PROVE  UNCHANGED <<events, published>>
  BY <1>2, Zenon DEF Claim, PublishRejected, Abort
<1>3. ASSUME NEW d \in Dispatchers, NEW e \in Events, Deliver(d, e)
      PROVE  UNCHANGED <<events, published>>
  BY <1>3 DEF Deliver
<1>4. ASSUME NEW k \in Keys, ReservationExpires(k)
      PROVE  UNCHANGED <<events, published>>
  BY <1>4 DEF ReservationExpires
<1>5. ASSUME NEW e \in Events, DeliveryLeaseExpires(e)
      PROVE  UNCHANGED <<events, published>>
  BY <1>5 DEF DeliveryLeaseExpires
<1>6. ASSUME CacheExpires \/ UNCHANGED vars
      PROVE  UNCHANGED <<events, published>>
  BY <1>6 DEF CacheExpires, vars
<1> QED
  BY <1>1, <1>2, <1>3, <1>4, <1>5, <1>6

\* Nobody writes the snapshot of a stored request, nor stores a request twice.
LEMMA SnapshotsStay ==
  ASSUME IntakeInv, [Next]_vars, NEW r \in accepted
  PROVE  /\ r \in Requests /\ spam'[r] = spam[r] /\ snapshot'[r] = snapshot[r]
         /\ verdict'[snapshot[r]] = verdict[snapshot[r]]
         /\ r \in accepted'
<1>0. /\ TypeOK /\ r \in Requests /\ at[r] \in {"accepted", "projected", "over"}
      /\ snapshot[r] \in Requests /\ at[snapshot[r]] \in Asked
  BY DEF IntakeInv, TypeOK, Preflighted, CallsFollow
<1> USE DEF callVars, reservationVars, snapshotVars, outboxVars, shemaVars
<1>1. ASSUME UNCHANGED <<spam, snapshot, verdict>>, accepted \subseteq accepted'
      PROVE  /\ spam'[r] = spam[r] /\ snapshot'[r] = snapshot[r]
             /\ verdict'[snapshot[r]] = verdict[snapshot[r]]
             /\ r \in accepted'
  BY <1>1
<1>2. ASSUME NEW x \in Requests, Idles(x)
      PROVE  UNCHANGED <<spam, snapshot, verdict, accepted>>
  BY <1>2, IdleCalls
<1>3. ASSUME NEW x \in Requests, Reserve(x) \/ Accept(x) \/ Project(x) \/ MarkProjected(x)
      PROVE  UNCHANGED <<spam, snapshot, verdict>> /\ accepted \subseteq accepted'
  BY <1>3 DEF Reserve, Accept, Project, MarkProjected
<1>4. ASSUME NEW x \in Requests,
             PreflightFromCache(x) \/ PreflightUncached(x) \/ PreflightLookup(x)
      PROVE  /\ spam'[r] = spam[r] /\ snapshot'[r] = snapshot[r]
             /\ verdict'[snapshot[r]] = verdict[snapshot[r]]
             /\ r \in accepted'
  <2>1. x # r /\ x # snapshot[r]
    BY <1>0, <1>4 DEF PreflightFromCache, PreflightUncached, PreflightLookup, Asked
  <2> QED
    BY <1>0, <1>4, <2>1 DEF PreflightFromCache, PreflightUncached, PreflightLookup, TypeOK
<1> QED
  BY StepKinds, CallersRest, <1>0, <1>1, <1>2, <1>3, <1>4

\* What is to be told of the stored requests does not change.
LEMMA NoticesStay ==
  ASSUME IntakeInv, [Next]_vars, NEW r \in accepted
  PROVE  /\ EventsOf(r, verdict[snapshot[r]])' = EventsOf(r, verdict[snapshot[r]])
         /\ NoticesOf(r, verdict[snapshot[r]])' = NoticesOf(r, verdict[snapshot[r]])
BY SnapshotsStay DEF EventsOf, NoticesOf
LEMMA AcceptAppends ==
  ASSUME IntakeInv, NEW r \in Requests, Accept(r)
  PROVE  /\ r \notin accepted /\ accepted' = accepted \cup {r}
         /\ events' \cup published' = (events \cup published) \cup EventsOf(r, verdict[snapshot[r]])
         /\ EventsOf(r, verdict[snapshot[r]])' = EventsOf(r, verdict[snapshot[r]])
         /\ \A e \in EventsOf(r, verdict[snapshot[r]]) : e[1] = r
<1>1. snapshot[r] \in Requests /\ verdict[snapshot[r]] \in Verdicts /\ TypeOK
  BY VerdictType DEF Accept, IntakeInv
<1>2. \A e \in EventsOf(r, verdict[snapshot[r]]) : e[1] = r
  BY <1>1, EventsOfType
<1>3. UNCHANGED <<spam, snapshot, verdict, published>>
  BY DEF Accept
<1>4. EventsOf(r, verdict[snapshot[r]])' = EventsOf(r, verdict[snapshot[r]])
  BY <1>3 DEF EventsOf
<1> QED
  BY <1>2, <1>3, <1>4 DEF Accept, AcceptedFor

\* Requests and their events are stored together.
LEMMA StepEventRows ==
  ASSUME IntakeInv, [Next]_vars, NEW x \in Requests
  PROVE  {e \in events' \cup published' : e[1] = x} =
           IF x \in accepted' THEN EventsOf(x, verdict[snapshot[x]])' ELSE {}
<1> DEFINE all == events \cup published
           of(r) == EventsOf(r, verdict[snapshot[r]])
<1>1. {e \in all : e[1] = x} = IF x \in accepted THEN of(x) ELSE {}
  BY DEF IntakeInv, EventsMatchRequests
<1>2. x \in accepted => of(x)' = of(x)
  BY NoticesStay
<1> HIDE DEF of
<1>3. ASSUME NEW r \in Requests, Accept(r)
      PROVE  {e \in all' : e[1] = x} = IF x \in accepted' THEN of(x)' ELSE {}
  <2>1. /\ r \notin accepted /\ accepted' = accepted \cup {r} /\ all' = all \cup of(r)
        /\ of(r)' = of(r) /\ \A e \in of(r) : e[1] = r
    BY <1>3, AcceptAppends DEF of
  <2> HIDE DEF all
  <2>2. CASE x = r
    BY <1>1, <2>1, <2>2
  <2>3. CASE x # r
    BY <1>1, <1>2, <2>1, <2>3
  <2> QED
    BY <2>2, <2>3
<1>4. ASSUME all' = all, accepted' = accepted
      PROVE  {e \in all' : e[1] = x} = IF x \in accepted' THEN of(x)' ELSE {}
  BY <1>1, <1>2, <1>4
<1>5. ASSUME NEW r \in Requests, Idles(r) PROVE UNCHANGED <<events, published, accepted>>
  BY <1>5, IdleCalls DEF outboxVars
<1>6. ASSUME NEW r \in Requests,
             \/ Reserve(r) \/ Project(r) \/ MarkProjected(r)
             \/ PreflightFromCache(r) \/ PreflightUncached(r) \/ PreflightLookup(r)
      PROVE  UNCHANGED <<events, published, accepted>>
  BY <1>6 DEF Reserve, Project, MarkProjected, PreflightFromCache, PreflightUncached,
              PreflightLookup, outboxVars
<1>7. {e \in all' : e[1] = x} = IF x \in accepted' THEN of(x)' ELSE {}
  <2>1. CASE \E r \in Requests : Accept(r)
    BY <1>3, <2>1
  <2>2. CASE ~ \E r \in Requests : Accept(r)
    <3>1. all' = all /\ accepted' = accepted
      BY StepKinds, OutboxMoves, CallersRest, <1>5, <1>6, <2>2
    <3> QED
      BY <1>4, <3>1
  <2> QED
    BY <2>1, <2>2
<1> QED
  BY <1>7 DEF of

\* The steps that change Shema's rows, or say that they were changed.
LEMMA ProjectionMoves ==
  ASSUME IntakeInv, [Next]_vars
  PROVE  /\ \/ UNCHANGED <<projected, notices>>
            \/ \E r \in accepted : Projection(r)
         /\ \/ marked' = marked
            \/ \E r \in projected : marked' = marked \cup {r}
         /\ \A e \in published' : e \in published \/ (e[2] # "spam" => e[1] \in marked')
         /\ accepted \subseteq accepted'
<1> DEFINE Shown == UNCHANGED <<projected, notices>> \/ \E r \in accepted : Projection(r)
           Marks == marked' = marked \/ \E r \in projected : marked' = marked \cup {r}
           Published == \A e \in published' :
                          e \in published \/ (e[2] # "spam" => e[1] \in marked')
           Goal == Shown /\ Marks /\ Published /\ accepted \subseteq accepted'
<1>0. TypeOK /\ CallsFollow /\ DeliveriesFollow
  BY DEF IntakeInv
<1> USE DEF callVars, reservationVars, snapshotVars, outboxVars, shemaVars
<1>1. ASSUME NEW r \in Requests, Idles(r) PROVE Goal
  <2>1. UNCHANGED <<projected, notices, marked, published, accepted>>
    BY <1>1, IdleCalls
  <2> QED
    BY <2>1
<1>2. ASSUME NEW r \in Requests,
             \/ Reserve(r) \/ Accept(r)
             \/ PreflightFromCache(r) \/ PreflightUncached(r) \/ PreflightLookup(r)
      PROVE  Goal
  <2>1. UNCHANGED <<projected, notices, marked, published>> /\ accepted \subseteq accepted'
    BY <1>2 DEF Reserve, Accept, PreflightFromCache, PreflightUncached, PreflightLookup
  <2> QED
    BY <2>1
<1>3. ASSUME NEW r \in Requests, Project(r) PROVE Goal
  <2>1. r \in accepted /\ Projection(r) /\ UNCHANGED <<marked, published, accepted>>
    BY <1>0, <1>3 DEF Project, CallsFollow
  <2> QED
    BY <2>1
<1>4. ASSUME NEW r \in Requests, MarkProjected(r) PROVE Goal
  <2>1. /\ r \in projected /\ marked' = marked \cup {r}
        /\ UNCHANGED <<projected, notices, published, accepted>>
    BY <1>0, <1>4 DEF MarkProjected, CallsFollow
  <2> QED
    BY <2>1
<1>5. ASSUME NEW d \in Dispatchers, NEW e \in Events, Deliver(d, e) PROVE Goal
  <2>1. e \in events \cup published
    BY <1>0, <1>5 DEF Deliver, DeliveriesFollow
  <2>2. e[1] \in accepted
    BY <2>1, EventsAreAccepted
  <2>3. UNCHANGED <<marked, published, accepted>>
    BY <1>5 DEF Deliver
  <2>4. UNCHANGED <<projected, notices>> \/ Projection(e[1])
    BY <1>5 DEF Deliver
  <2>5. PICK r \in accepted : r = e[1]
    BY <2>2
  <2>6. UNCHANGED <<projected, notices>> \/ Projection(r)
    BY <2>4, <2>5 DEF Projection
  <2> QED
    BY <2>3, <2>6
<1>6. ASSUME NEW d \in Dispatchers, Publish(d) PROVE Goal
  <2> DEFINE e == batch[d].event
  <2>1. /\ published' = published \cup {e} /\ UNCHANGED <<projected, notices, accepted>>
        /\ marked' = IF Notifies(e) THEN marked \cup {e[1]} ELSE marked
    BY <1>6 DEF Publish
  <2>2. Notifies(e) => e[1] \in projected
    BY <1>0, <1>6 DEF Publish, DeliveriesFollow
  <2> HIDE DEF e
  <2>3. Marks
    BY <2>1, <2>2
  <2>4. Published
    BY <2>1, <2>2 DEF Notifies
  <2> QED
    BY <2>1, <2>3, <2>4
<1>7. ASSUME NEW d \in Dispatchers, Claim(d) \/ PublishRejected(d) \/ Abort(d) PROVE Goal
  <2>1. UNCHANGED <<projected, notices, marked, published, accepted>>
    BY <1>7, Zenon DEF Claim, PublishRejected, Abort
  <2> QED
    BY <2>1
<1>8. ASSUME \/ \E k \in Keys : ReservationExpires(k)
             \/ \E e \in Events : DeliveryLeaseExpires(e)
             \/ CacheExpires \/ UNCHANGED vars
      PROVE  Goal
  <2>1. UNCHANGED <<projected, notices, marked, published, accepted>>
    BY <1>8 DEF ReservationExpires, DeliveryLeaseExpires, CacheExpires, vars
  <2> QED
    BY <2>1
<1>9. Goal
  BY StepKinds, <1>1, <1>2, <1>3, <1>4, <1>5, <1>6, <1>7, <1>8
<1> QED
  BY <1>9
LEMMA StepEvents == IntakeInv /\ [Next]_vars => EventsMatchRequests'
<1> SUFFICES ASSUME IntakeInv, [Next]_vars PROVE EventsMatchRequests'
  OBVIOUS
<1> DEFINE Told(r) == NoticesOf(r, verdict[snapshot[r]])
<1>0. /\ \A e \in published : e[2] # "spam" => e[1] \in marked
      /\ marked \subseteq projected /\ projected \subseteq accepted
      /\ notices = UNION {Told(r) : r \in projected}
  BY DEF IntakeInv, EventsMatchRequests
<1>1. \A r \in Requests : {e \in events' \cup published' : e[1] = r} =
                            IF r \in accepted' THEN EventsOf(r, verdict[snapshot[r]])' ELSE {}
  BY StepEventRows
<1>2. \A r \in accepted : Told(r)' = Told(r)
  BY NoticesStay
<1>3. projected' \subseteq accepted' /\ projected \subseteq projected'
  BY <1>0, ProjectionMoves DEF Projection
<1>4. marked \subseteq marked' /\ marked' \subseteq projected'
  BY <1>0, <1>3, ProjectionMoves
<1>5. \A e \in published' : e[2] # "spam" => e[1] \in marked'
  BY <1>0, <1>4, ProjectionMoves
<1>6. notices' = UNION {Told(r)' : r \in projected'}
  <2>1. CASE UNCHANGED <<projected, notices>>
    <3>1. \A r \in projected : Told(r)' = Told(r)
      BY <1>0, <1>2
    <3> HIDE DEF Told
    <3> QED
      BY <1>0, <2>1, <3>1
  <2>2. ASSUME NEW x \in accepted, Projection(x)
        PROVE  notices' = UNION {Told(r)' : r \in projected'}
    <3>1. projected' = projected \cup {x} /\ notices' = notices \cup Told(x)
      BY <2>2 DEF Projection
    <3>2. \A r \in projected' : Told(r)' = Told(r)
      BY <1>0, <1>2, <3>1
    <3> HIDE DEF Told
    <3> QED
      BY <1>0, <3>1, <3>2
  <2> QED
    BY <2>1, <2>2, ProjectionMoves
<1> QED
  BY <1>1, <1>3, <1>4, <1>5, <1>6 DEF EventsMatchRequests

LEMMA StepDeliveries == IntakeInv /\ [Next]_vars => DeliveriesFollow'
<1> SUFFICES ASSUME IntakeInv, [Next]_vars, NEW x \in Dispatchers
             PROVE  /\ batch'[x].left \subseteq events' \cup published'
                    /\ batch'[x].at = "mark" /\ Notifies(batch'[x].event)
                         => batch'[x].event[1] \in projected'
  BY DEF DeliveriesFollow, Notifies
<1> DEFINE Goal == /\ batch'[x].left \subseteq events' \cup published'
                   /\ batch'[x].at = "mark" /\ Notifies(batch'[x].event)
                        => batch'[x].event[1] \in projected'
<1>0. /\ TypeOK
      /\ batch[x].left \subseteq events \cup published
      /\ batch[x].at = "mark" /\ Notifies(batch[x].event) => batch[x].event[1] \in projected
  BY DEF IntakeInv, DeliveriesFollow
<1>1. projected \subseteq projected'
  BY ProjectionMoves DEF Projection
<1>2. events \cup published \subseteq events' \cup published'
  <2>1. ASSUME NEW r \in Requests, Idles(r) PROVE UNCHANGED <<events, published>>
    BY <2>1, IdleCalls DEF outboxVars
  <2>2. ASSUME NEW r \in Requests,
               \/ Reserve(r) \/ Project(r) \/ MarkProjected(r)
               \/ PreflightFromCache(r) \/ PreflightUncached(r) \/ PreflightLookup(r)
        PROVE  UNCHANGED <<events, published>>
    BY <2>2 DEF Reserve, Project, MarkProjected, PreflightFromCache, PreflightUncached,
                PreflightLookup, outboxVars
  <2>3. ASSUME NEW r \in Requests, Accept(r)
        PROVE  events \cup published \subseteq events' \cup published'
    BY <2>3, AcceptAppends
  <2> QED
    BY StepKinds, OutboxMoves, <2>1, <2>2, <2>3
<1>3. ASSUME batch'[x] = batch[x] PROVE Goal
  BY <1>0, <1>1, <1>2, <1>3
<1>4. ASSUME batch'[x] = NoBatch PROVE Goal
  BY <1>4 DEF NoBatch
<1> USE DEF callVars, reservationVars, snapshotVars, outboxVars, shemaVars
<1>5. ASSUME NEW r \in Requests, Idles(r) PROVE Goal
  BY <1>3, <1>5, IdleCalls
<1>6. ASSUME NEW r \in Requests,
             \/ Reserve(r) \/ Accept(r) \/ Project(r) \/ MarkProjected(r)
             \/ PreflightFromCache(r) \/ PreflightUncached(r) \/ PreflightLookup(r)
      PROVE  batch' = batch
  BY <1>6 DEF Reserve, Accept, Project, MarkProjected, PreflightFromCache, PreflightUncached,
              PreflightLookup
<1>7. ASSUME NEW d \in Dispatchers, Claim(d) PROVE Goal
  <2>1. PICK S \in SUBSET Events : /\ S \subseteq events
                                    /\ batch' = [batch EXCEPT ![d] = Claimed(S)]
    BY <1>7, ClaimTakes
  <2>2. Claimed(S).left = S /\ Claimed(S).at = "next"
    BY DEF Claimed, NoBatch
  <2>3. batch'[x] = IF x = d THEN Claimed(S) ELSE batch[x]
    BY <1>0, <2>1 DEF TypeOK
  <2> QED
    BY <1>2, <1>3, <2>1, <2>2, <2>3
<1>8. ASSUME NEW d \in Dispatchers, NEW e \in Events, Deliver(d, e) PROVE Goal
  <2>1. CASE x # d
    BY <1>0, <1>3, <1>8, <2>1 DEF Deliver, TypeOK
  <2>2. CASE x = d
    <3>1. batch'[x] = [left |-> batch[x].left \ {e}, at |-> "mark", event |-> e]
      BY <1>0, <1>8, <2>2 DEF Deliver, TypeOK
    <3>2. Notifies(e) => e[1] \in projected'
      BY <1>8 DEF Deliver, Projection
    <3> QED
      BY <1>0, <1>2, <3>1, <3>2
  <2> QED
    BY <2>1, <2>2
<1>9. ASSUME NEW d \in Dispatchers, Publish(d) PROVE Goal
  <2>1. CASE x # d
    BY <1>0, <1>3, <1>9, <2>1 DEF Publish, TypeOK
  <2>2. CASE x = d
    <3>1. batch'[x].left = batch[x].left /\ batch'[x].at # "mark"
      BY <1>0, <1>9, <2>2 DEF Publish, TypeOK
    <3> QED
      BY <1>0, <1>2, <3>1
  <2> QED
    BY <2>1, <2>2
<1>10. ASSUME NEW d \in Dispatchers, PublishRejected(d) \/ Abort(d) PROVE Goal
  <2>1. batch'[x] = batch[x] \/ batch'[x] = NoBatch
    BY <1>0, <1>10 DEF PublishRejected, Abort, TypeOK
  <2> QED
    BY <1>3, <1>4, <2>1
<1>11. ASSUME \/ \E k \in Keys : ReservationExpires(k)
              \/ \E e \in Events : DeliveryLeaseExpires(e)
              \/ CacheExpires \/ UNCHANGED vars
       PROVE  batch' = batch
  BY <1>11 DEF ReservationExpires, DeliveryLeaseExpires, CacheExpires, vars
<1>12. Goal
  BY StepKinds, <1>3, <1>5, <1>6, <1>7, <1>8, <1>9, <1>10, <1>11
<1> QED
  BY <1>12

LEMMA IntakeInvariant == Spec => []IntakeInv
<1>1. Init => IntakeInv
  BY InitIntake
<1>2. IntakeInv /\ [Next]_vars => IntakeInv'
  BY StepTypeOK, StepPreflighted, StepCallsFollow, StepReservations, StepEvents, StepDeliveries
  DEF IntakeInv
<1> QED
  BY <1>1, <1>2, PTL DEF Spec

\* Every reachable state has the values its rows and calls are given; an event
\* is never both published and due, and only due events are leased.
THEOREM TypeCorrect == Spec => []TypeOK
<1>1. IntakeInv => TypeOK
  BY DEF IntakeInv
<1> QED
  BY <1>1, IntakeInvariant, PTL

\* However many calls race for a key, let its lease expire and take it over, a
\* completed reservation is the one of its key's only stored request
\* (reserve_idempotency, complete_idempotency).
THEOREM ReservationsCorrect == Spec => []ReservationMatchesRequest
<1>1. IntakeInv => ReservationMatchesRequest
  BY DEF IntakeInv
<1> QED
  BY <1>1, IntakeInvariant, PTL

\* The outbox holds exactly the events of the stored requests, what notifies is
\* published after its projection, and the operator's notifications are exactly
\* those of the projected requests (_submit_reserved, project, dispatch_pending).
THEOREM EventsCorrect == Spec => []EventsMatchRequests
<1>1. IntakeInv => EventsMatchRequests
  BY DEF IntakeInv
<1> QED
  BY <1>1, IntakeInvariant, PTL

\* What is left of a request whose call did not project it: a stored request that
\* is not spam and not in Shema has every one of its events still to be delivered.
UnprojectedIsQueued ==
  \A r \in accepted \ projected :
    ~spam[r] => EventsOf(r, verdict[snapshot[r]]) \subseteq events

\* Whatever became of the call, and whichever dispatcher died, the outbox keeps
\* what the request needs to arrive (_submit_reserved, dispatch_pending).  That it
\* arrives is EveryRequestProjected, which TLC checks.
THEOREM UnprojectedQueued == Spec => []UnprojectedIsQueued
<1>1. IntakeInv => UnprojectedIsQueued
  <2> SUFFICES ASSUME IntakeInv, NEW r \in accepted, r \notin projected, ~spam[r],
                      NEW e \in EventsOf(r, verdict[snapshot[r]])
               PROVE  e \in events
    BY DEF UnprojectedIsQueued
  <2>1. r \in Requests
    BY DEF IntakeInv, TypeOK
  <2>2. e \in {x \in events \cup published : x[1] = r}
    BY <2>1 DEF IntakeInv, EventsMatchRequests
  <2>3. e[2] # "spam"
    <3>1. snapshot[r] \in Requests
      BY <2>1 DEF IntakeInv, Preflighted
    <3>2. verdict[snapshot[r]] # "spam"
      BY <3>1 DEF IntakeInv, TypeOK, Verdicts
    <3> QED
      BY <3>2 DEF EventsOf
  <2>4. e \notin published
    BY <2>2, <2>3 DEF IntakeInv, EventsMatchRequests
  <2> QED
    BY <2>2, <2>4
<1> QED
  BY <1>1, IntakeInvariant, PTL

-----------------------------------------------------------------------------
(* The bound of the outbox *)

BacklogInv == IntakeInv /\ IsFiniteSet(events) /\ BacklogBounded

\* Two more events at most, found room for one: the bound and one.
LEMMA AcceptKeepsBound ==
  ASSUME BacklogInv, NEW r \in Requests, Accept(r)
  PROVE  IsFiniteSet(events') /\ Cardinality(events') <= MaxPending + 1
<1>0. IntakeInv /\ TypeOK /\ IsFiniteSet(events)
  BY DEF BacklogInv, IntakeInv
<1>1. snapshot[r] \in Requests /\ verdict[snapshot[r]] \in Verdicts
  BY <1>0, VerdictType DEF Accept
<1>2. PICK a, b \in Events : EventsOf(r, verdict[snapshot[r]]) \subseteq {a, b}
  BY <1>0, <1>1, EventsOfType
<1>3. /\ IsFiniteSet(events \cup {a})
      /\ Cardinality(events \cup {a}) \in {Cardinality(events), Cardinality(events) + 1}
  BY <1>0, FS_AddElement
<1>4. /\ IsFiniteSet((events \cup {a}) \cup {b})
      /\ Cardinality((events \cup {a}) \cup {b})
           \in {Cardinality(events \cup {a}), Cardinality(events \cup {a}) + 1}
  BY <1>3, FS_AddElement
<1>5. events' \in SUBSET ((events \cup {a}) \cup {b})
  BY <1>2 DEF Accept
<1>6. IsFiniteSet(events') /\ Cardinality(events') <= Cardinality((events \cup {a}) \cup {b})
  BY <1>4, <1>5, FS_Subset
<1>7. Cardinality(events) \in Nat /\ Cardinality(events') \in Nat
  BY <1>0, <1>6, FS_CardinalityType
<1>8. Cardinality(events) < MaxPending
  BY DEF Accept, HasCapacity
<1> QED
  BY <1>3, <1>4, <1>6, <1>7, <1>8, IntakeAssumption

LEMMA StepBacklog == BacklogInv /\ [Next]_vars => IsFiniteSet(events') /\ BacklogBounded'
<1> SUFFICES ASSUME BacklogInv, [Next]_vars
             PROVE  IsFiniteSet(events') /\ BacklogBounded'
  OBVIOUS
<1>0. IntakeInv /\ TypeOK /\ IsFiniteSet(events) /\ Cardinality(events) <= MaxPending + 1
  BY DEF BacklogInv, BacklogBounded, IntakeInv
<1>1. ASSUME events' \subseteq events PROVE IsFiniteSet(events') /\ BacklogBounded'
  <2>1. IsFiniteSet(events') /\ Cardinality(events') <= Cardinality(events)
    BY <1>0, <1>1, FS_Subset
  <2>2. Cardinality(events') \in Nat /\ Cardinality(events) \in Nat
    BY <1>0, <2>1, FS_CardinalityType
  <2> QED
    BY <1>0, <2>1, <2>2, IntakeAssumption DEF BacklogBounded
<1>2. ASSUME NEW r \in Requests, Accept(r) PROVE IsFiniteSet(events') /\ BacklogBounded'
  BY <1>2, AcceptKeepsBound DEF BacklogBounded
<1> USE DEF callVars, reservationVars, snapshotVars, outboxVars, shemaVars
<1>3. ASSUME NEW r \in Requests, Idles(r) PROVE events' = events
  BY <1>0, <1>3, IdleCalls
<1>4. ASSUME NEW r \in Requests,
             \/ Reserve(r) \/ Project(r) \/ MarkProjected(r)
             \/ PreflightFromCache(r) \/ PreflightUncached(r) \/ PreflightLookup(r)
      PROVE  events' = events
  BY <1>4 DEF Reserve, Project, MarkProjected, PreflightFromCache, PreflightUncached,
              PreflightLookup
<1>5. ASSUME NEW d \in Dispatchers, Publish(d) PROVE events' \subseteq events
  BY <1>5 DEF Publish
<1>6. ASSUME NEW d \in Dispatchers, Claim(d) \/ PublishRejected(d) \/ Abort(d)
      PROVE  events' = events
  BY <1>6, Zenon DEF Claim, PublishRejected, Abort
<1>7. ASSUME \/ \E d \in Dispatchers, e \in Events : Deliver(d, e)
             \/ \E k \in Keys : ReservationExpires(k)
             \/ \E e \in Events : DeliveryLeaseExpires(e)
             \/ CacheExpires \/ UNCHANGED vars
      PROVE  events' = events
  BY <1>7 DEF Deliver, ReservationExpires, DeliveryLeaseExpires, CacheExpires, vars
<1> QED
  BY StepKinds, <1>1, <1>2, <1>3, <1>4, <1>5, <1>6, <1>7

\* The unpublished events overshoot max_pending_outbox by one at most, although
\* each call looks at the capacity once for all its events
\* (ensure_outbox_capacity).
THEOREM BacklogCorrect == Spec => []BacklogBounded
<1>1. Init => IsFiniteSet(events) /\ BacklogBounded
  BY FS_EmptySet, IntakeAssumption DEF Init, BacklogBounded
<1>2. IntakeInv /\ IsFiniteSet(events) /\ BacklogBounded /\ [Next]_vars
        => IsFiniteSet(events)' /\ BacklogBounded'
  BY StepBacklog DEF BacklogInv
<1> QED
  BY <1>1, <1>2, IntakeInvariant, PTL DEF Spec

-----------------------------------------------------------------------------
(* What becomes of a stored request's snapshot row *)

\* A stored request becomes unreadable only in a save_preflight_cache of another
\* call, whose provider has answered, and only if its snapshot is the one that
\* stood in the row of the cache_key.
OnlyRefreshLoses ==
  [][\A r \in accepted : Readable(r) /\ ~Readable(r)' =>
       /\ snapshot[r] = cached
       /\ \E q \in Requests \ {r} : at[q] = "asking" /\ at'[q] = "checked" /\ cached' = q]_vars

LEMMA StepOnlyRefreshLoses ==
  ASSUME IntakeInv, [Next]_vars, NEW r \in accepted, Readable(r), ~Readable(r)'
  PROVE  /\ snapshot[r] = cached
         /\ \E q \in Requests \ {r} : at[q] = "asking" /\ at'[q] = "checked" /\ cached' = q
<1> DEFINE Goal ==
      /\ snapshot[r] = cached
      /\ \E q \in Requests \ {r} : at[q] = "asking" /\ at'[q] = "checked" /\ cached' = q
<1>0. /\ snapshot'[r] = snapshot[r] /\ r \in Requests
      /\ at[r] \in {"accepted", "projected", "over"}
      /\ at \in [Requests -> Pc]
  BY SnapshotsStay DEF IntakeInv, TypeOK, CallsFollow
<1>1. snapshot[r] \in stored /\ snapshot[r] \notin stored'
  BY <1>0 DEF Readable
<1> USE DEF callVars, reservationVars, snapshotVars, outboxVars, shemaVars
<1>2. ASSUME NEW x \in Requests, Idles(x) PROVE UNCHANGED stored
  BY <1>2, IdleCalls
<1>3. ASSUME NEW x \in Requests,
             Reserve(x) \/ Project(x) \/ MarkProjected(x)
               \/ PreflightFromCache(x) \/ PreflightUncached(x)
      PROVE  UNCHANGED stored
  BY <1>3 DEF Reserve, Project, MarkProjected, PreflightFromCache, PreflightUncached
<1>4. ASSUME NEW x \in Requests, Accept(x) PROVE stored \subseteq stored'
  BY <1>4 DEF Accept
<1>5. ASSUME NEW x \in Requests, PreflightLookup(x) PROVE Goal
  <2>1. stored' = (stored \ {cached}) \cup {x} /\ cached' = x /\ at[x] = "asking"
    BY <1>5 DEF PreflightLookup, RowsAfterCaching
  <2>2. at'[x] = "checked"
    BY <1>0, <1>5 DEF PreflightLookup, Goto
  <2>3. x # r
    BY <1>0, <2>1
  <2> QED
    BY <1>1, <2>1, <2>2, <2>3
<1>6. Goal
  BY StepKinds, CallersRest, <1>1, <1>2, <1>3, <1>4, <1>5
<1> QED
  BY <1>6

\* Nothing but a refresh of the cache takes a stored request's snapshot away: no
\* crash, take-over, repeated call or dispatcher does, and a snapshot that was
\* never cached is never lost (save_preflight_cache).  AcceptedIsReconstructible
\* fails on this step alone.
THEOREM OnlyRefreshes == Spec => OnlyRefreshLoses
<1>1. IntakeInv /\ [Next]_vars =>
        [\A r \in accepted : Readable(r) /\ ~Readable(r)' =>
           /\ snapshot[r] = cached
           /\ \E q \in Requests \ {r} :
                at[q] = "asking" /\ at'[q] = "checked" /\ cached' = q]_vars
  BY StepOnlyRefreshLoses
<1> QED
  BY <1>1, IntakeInvariant, PTL DEF Spec, OnlyRefreshLoses

-----------------------------------------------------------------------------
(* The refinement of IntakePromise *)

LEMMA InitIntakePromise == Init => Promise!Init
BY DEF Init, Promise!Init

\* A call tells its caller of the stored request of its key, if of any.
LEMMA AnswerIsPromised ==
  ASSUME IntakeInv, NEW r \in Requests,
         UNCHANGED <<key, body, accepted, notices, published>>,
         answered' \subseteq
           answered \cup {<<r, o>> : o \in {x \in AcceptedFor(key[r]) : body[x] = body[r]}},
         answered \subseteq answered'
  PROVE  Promise!Next \/ UNCHANGED Promise!vars
<1>0. key[r] \in Keys
  BY DEF IntakeInv, TypeOK
<1>1. \A o, x \in AcceptedFor(key[r]) : o = x
  BY <1>0 DEF IntakeInv, ReservationMatchesRequest
<1>2. CASE answered' = answered
  BY <1>2 DEF Promise!vars
<1>3. CASE answered' # answered
  <2>1. PICK o \in AcceptedFor(key[r]) : body[o] = body[r] /\ answered' = answered \cup {<<r, o>>}
    BY <1>1, <1>3
  <2>2. o \in Requests /\ o \in accepted /\ key[o] = key[r]
    BY DEF AcceptedFor, IntakeInv, TypeOK
  <2>3. Promise!Answer(r, o)
    BY <2>1, <2>2 DEF Promise!Answer
  <2> QED
    BY <2>2, <2>3 DEF Promise!Next
<1> QED
  BY <1>2, <1>3

\* A projection shows the operator one request, or none if it is spam.
LEMMA ProjectionIsPromised ==
  ASSUME IntakeInv, NEW r \in accepted, Projection(r),
         UNCHANGED <<key, body, accepted, answered, published>>
  PROVE  Promise!Next \/ UNCHANGED Promise!vars
<1> DEFINE new == NoticesOf(r, verdict[snapshot[r]])
<1>0. r \in Requests
  BY DEF IntakeInv, TypeOK
<1>1. \A e \in new : e[1] = r
  BY <1>0, VerdictType, EventsOfType DEF IntakeInv
<1>2. notices' = notices \cup new
  BY DEF Projection
<1> HIDE DEF new
<1>3. CASE new = {}
  BY <1>2, <1>3 DEF Promise!vars
<1>4. CASE new # {}
  <2>1. {e[1] : e \in notices'} = {e[1] : e \in notices} \cup {r}
    BY <1>1, <1>2, <1>4
  <2>2. Promise!Show(r)
    BY <2>1 DEF Promise!Show
  <2> QED
    BY <1>0, <2>2 DEF Promise!Next
<1> QED
  BY <1>3, <1>4

\* A request the intake has finished with is one the operator was shown.
LEMMA PublishIsPromised ==
  ASSUME IntakeInv, NEW d \in Dispatchers, Publish(d)
  PROVE  Promise!Next \/ UNCHANGED Promise!vars
<1> DEFINE e == batch[d].event
           Closed(S) == {x[1] : x \in {y \in S : y[2] = "request"}}
<1>0. TypeOK
  BY DEF IntakeInv
<1>1. e \in events /\ published' = published \cup {e}
  BY <1>0 DEF Publish, MayPublish, TypeOK
<1>2. UNCHANGED <<key, body, accepted, answered, notices>>
  BY DEF Publish, callVars, shemaVars
<1>3. e[2] = "request" => e[1] \in projected
  BY DEF Publish, Notifies, IntakeInv, DeliveriesFollow
<1> HIDE DEF e
<1>4. CASE e[2] # "request"
  <2>1. Closed(published') = Closed(published)
    BY <1>1, <1>4
  <2> QED
    BY <1>2, <2>1 DEF Promise!vars
<1>5. CASE e[2] = "request"
  <2>1. PICK r \in Requests : r = e[1]
    BY <1>1, EventsAreAccepted
  <2>2. e \in EventsOf(r, verdict[snapshot[r]]) /\ r \in projected
    BY <1>1, <1>3, <1>5, <2>1, EventsAreAccepted
  <2>3. e \in NoticesOf(r, verdict[snapshot[r]])
    BY <1>5, <2>2 DEF NoticesOf
  <2>4. e \in notices
    BY <2>2, <2>3 DEF IntakeInv, EventsMatchRequests
  <2>5. Closed(published') = Closed(published) \cup {r}
    BY <1>1, <1>5, <2>1
  <2>6. r \in {x[1] : x \in notices}
    BY <2>1, <2>4
  <2>7. Promise!Close(r)
    BY <1>2, <2>5, <2>6 DEF Promise!Close
  <2> QED
    BY <2>7 DEF Promise!Next
<1> QED
  BY <1>4, <1>5

LEMMA StepIntakePromise == IntakeInv /\ [Next]_vars => [Promise!Next]_(Promise!vars)
<1> SUFFICES ASSUME IntakeInv, [Next]_vars
             PROVE  Promise!Next \/ UNCHANGED Promise!vars
  OBVIOUS
<1>0. TypeOK
  BY DEF IntakeInv
<1>s. ASSUME UNCHANGED <<key, body, accepted, answered, notices, published>>
      PROVE  UNCHANGED Promise!vars
  BY <1>s DEF Promise!vars
<1> USE DEF callVars, reservationVars, snapshotVars, outboxVars, shemaVars
<1>1. ASSUME NEW r \in Requests, Idles(r) PROVE Promise!Next \/ UNCHANGED Promise!vars
  <2>1. answered \subseteq answered'
    BY <1>1 DEF Idles, ReservationTaken, Admit, Refuse, CacheMiss, AcceptRejected,
                ProjectionFails, Die, AnswerStored
  <2> QED
    BY <1>1, <2>1, IdleCalls, AnswerIsPromised
<1>2. ASSUME NEW r \in Requests, Accept(r) PROVE Promise!Next
  <2>1. /\ AcceptedFor(key[r]) = {} /\ accepted' = accepted \cup {r}
        /\ UNCHANGED <<key, body, answered, notices, published>>
    BY <1>2 DEF Accept
  <2>2. \A o \in accepted : o \in Requests /\ key[o] # key[r]
    BY <1>0, <2>1 DEF AcceptedFor, TypeOK
  <2>3. Promise!Accept(r)
    BY <2>1, <2>2 DEF Promise!Accept
  <2> QED
    BY <2>3 DEF Promise!Next
<1>3. ASSUME NEW r \in Requests, Project(r) PROVE Promise!Next \/ UNCHANGED Promise!vars
  <2>1. r \in accepted
    BY <1>3 DEF Project, IntakeInv, CallsFollow
  <2> QED
    BY <1>3, <2>1, ProjectionIsPromised DEF Project
<1>4. ASSUME NEW r \in Requests, MarkProjected(r) PROVE Promise!Next \/ UNCHANGED Promise!vars
  <2>1. r \in AcceptedFor(key[r]) /\ answered' = answered \cup {<<r, r>>}
    BY <1>4 DEF MarkProjected, IntakeInv, CallsFollow, AcceptedFor
  <2>2. UNCHANGED <<key, body, accepted, notices, published>>
    BY <1>4 DEF MarkProjected
  <2> QED
    BY <2>1, <2>2, AnswerIsPromised
<1>5. ASSUME NEW r \in Requests,
             \/ Reserve(r)
             \/ PreflightFromCache(r) \/ PreflightUncached(r) \/ PreflightLookup(r)
      PROVE  UNCHANGED <<key, body, accepted, answered, notices, published>>
  BY <1>5 DEF Reserve, PreflightFromCache, PreflightUncached, PreflightLookup
<1>6. ASSUME NEW d \in Dispatchers, NEW e \in Events, Deliver(d, e)
      PROVE  Promise!Next \/ UNCHANGED Promise!vars
  <2>1. UNCHANGED <<key, body, accepted, answered, published>>
    BY <1>6 DEF Deliver
  <2>2. CASE UNCHANGED shemaVars
    BY <1>s, <2>1, <2>2
  <2>3. CASE ~ UNCHANGED shemaVars
    <3>1. Projection(e[1])
      BY <1>6, <2>3 DEF Deliver
    <3>2. e[1] \in accepted
      BY <1>6, EventsAreAccepted DEF Deliver, IntakeInv, DeliveriesFollow
    <3>3. PICK r \in accepted : r = e[1]
      BY <3>2
    <3>4. Projection(r)
      BY <3>1, <3>3 DEF Projection
    <3> QED
      BY <2>1, <3>4, ProjectionIsPromised
  <2> QED
    BY <2>2, <2>3
<1>7. ASSUME NEW d \in Dispatchers, Publish(d) PROVE Promise!Next \/ UNCHANGED Promise!vars
  BY <1>7, PublishIsPromised
<1>8. ASSUME NEW d \in Dispatchers, Claim(d) \/ PublishRejected(d) \/ Abort(d)
      PROVE  UNCHANGED <<key, body, accepted, answered, notices, published>>
  <2>1. UNCHANGED <<callVars, accepted, answered, shemaVars, published>>
    BY <1>8, Zenon DEF Claim, PublishRejected, Abort
  <2> QED
    BY <2>1
<1>9. ASSUME \/ \E k \in Keys : ReservationExpires(k)
             \/ \E e \in Events : DeliveryLeaseExpires(e)
             \/ CacheExpires \/ UNCHANGED vars
      PROVE  UNCHANGED <<key, body, accepted, answered, notices, published>>
  BY <1>9 DEF ReservationExpires, DeliveryLeaseExpires, CacheExpires, vars
<1> QED
  BY StepKinds, <1>s, <1>1, <1>2, <1>3, <1>4, <1>5, <1>6, <1>7, <1>8, <1>9

\* The intake, with its racing calls, take-overs, crashes and dispatchers, keeps
\* what IntakePromise says: one stored request to a key, every answer names it
\* and goes to a caller who asked the same, and the intake is done with no
\* request the operator was not shown.
THEOREM IntakeKeepsPromise == Spec => KeepsIntakePromise
BY InitIntakePromise, StepIntakePromise, IntakeInvariant, PTL
DEF Spec, KeepsIntakePromise, Promise!Spec

=============================================================================
