--------------------------- MODULE ServicesProofs ---------------------------
(***************************************************************************)
(* Proofs about the services of Services, each for any values of its own   *)
(* constants: the inductive invariant of each comes with its theorem.      *)
(***************************************************************************)
EXTENDS Services, SequenceTheorems, TLAPS

-----------------------------------------------------------------------------
(* AIExecution: one external call per idempotency key *)

\* A call between its reservation and its end still holds its key; so does,
\* for good, a call whose request went out.  Its request went out before it
\* waits for an answer, and its run is stored before the key is completed.
CallsHoldKeys ==
  /\ \A c \in Calls : AI!Working(c) \/ c \in sentFor =>
       ledger[KeyOf[c]] # NoRecord /\ ledger[KeyOf[c]].by = c
  /\ \A c \in Calls : step[c] \in {"sent", "received", "stored"} => c \in sentFor
  /\ \A c \in Calls : step[c] = "stored" => c \in runs

\* A stored key names a call under that key, and what that call asked.
KeysNameCalls ==
  \A k \in AI!KeysUsed : ledger[k] # NoRecord =>
    KeyOf[ledger[k].by] = k /\ asks[ledger[k].by] = ledger[k].asks

\* What a call returned is a stored run of the same request under its key.
RepliesAreRuns ==
  /\ runs \subseteq sentFor
  /\ \A c \in Calls : reply[c] # NoRecord =>
       /\ reply[c] \in runs
       /\ KeyOf[reply[c]] = KeyOf[c] /\ asks[reply[c]] = asks[c]

AIInv == AI!TypeOK /\ CallsHoldKeys /\ KeysNameCalls /\ RepliesAreRuns
LEMMA AIInitial == AI!Init => AIInv
BY AIAssumption DEF AI!Init, AIInv, AI!TypeOK, AI!KeysUsed, AI!Working,
       CallsHoldKeys, KeysNameCalls, RepliesAreRuns

\* A step that moves one call on, or ends calls, and lets the stored keys, the
\* runs, the replies and what was sent alone.
AIQuietStep ==
  /\ UNCHANGED <<product, asks, ledger, runs, reply, sentFor>>
  /\ failing' \subseteq Processes /\ token' \subseteq Processes
  /\ step' \in [Calls -> {"called", "reserved", "checked", "authorized", "sent",
                          "received", "stored", "answered", "conflict", "failed"}]
  /\ \A c \in Calls :
       \/ step'[c] = step[c]
       \/ step'[c] = "failed"
       \/ AI!Working(c) /\ step'[c] \in {"checked", "authorized"}
       \/ step[c] = "sent" /\ step'[c] = "received"

LEMMA AIQuietKeeps == AIInv /\ AIQuietStep => AIInv'
<1> SUFFICES ASSUME AIInv, AIQuietStep PROVE AIInv'
  OBVIOUS
<1> USE DEF AIInv, AIQuietStep
<1>1. AI!TypeOK'
  BY DEF AI!TypeOK, AI!KeysUsed
<1>2. \A c \in Calls : AI!Working(c)' => AI!Working(c)
  BY DEF AI!Working
<1>3. CallsHoldKeys'
  BY <1>2 DEF CallsHoldKeys
<1>4. KeysNameCalls' /\ RepliesAreRuns'
  BY DEF KeysNameCalls, RepliesAreRuns, AI!KeysUsed
<1> QED
  BY <1>1, <1>3, <1>4

LEMMA AIQuietSteps ==
  ASSUME AI!TypeOK, NEW c \in Calls,
         \/ AI!Check(c) \/ AI!Refuse(c) \/ AI!Authorize(c) \/ AI!AuthorizeFails(c)
         \/ AI!Receive(c) \/ AI!ReceiveFailure(c) \/ AI!StoreFails(c)
  PROVE  AIQuietStep
BY AIAssumption DEF AI!TypeOK, AIQuietStep, AI!Check, AI!Refuse, AI!Authorize,
       AI!AuthorizeFails, AI!Receive, AI!ReceiveFailure, AI!StoreFails, AI!Fail,
       AI!KeyAfterFailure, AI!Goto, AI!Working, AI!Marked, AI!Cleared

LEMMA AIProcessSteps ==
  ASSUME AI!TypeOK, NEW p \in Processes, AI!TokenExpires(p) \/ AI!Restart(p)
  PROVE  AIQuietStep
BY DEF AI!TypeOK, AIQuietStep, AI!TokenExpires, AI!Restart, AI!Working

LEMMA AIReserves ==
  ASSUME AIInv, NEW c \in Calls, AI!Reserve(c) PROVE AIInv'
<1> DEFINE k == KeyOf[c]
           record == AI!Reservation(c)
<1> USE DEF AIInv
<1>1. /\ step[c] = "called" /\ ledger[k] = NoRecord
      /\ ledger' = [ledger EXCEPT ![k] = record]
      /\ step' = [step EXCEPT ![c] = "reserved"]
      /\ UNCHANGED <<product, asks, runs, reply, failing, token, sentFor>>
  BY DEF AI!Reserve, AI!Goto
<1>2. k \in AI!KeysUsed /\ record \in [asks : Asks, by : Calls, done : BOOLEAN]
  BY DEF AI!KeysUsed, AI!Reservation, AI!TypeOK
<1>3. record.by = c /\ record.asks = asks[c] /\ record # NoRecord
  BY <1>2, AIAssumption DEF AI!Reservation
<1>4. AI!TypeOK'
  BY <1>1, <1>2 DEF AI!TypeOK, AI!KeysUsed
<1> HIDE DEF record
<1>5. \A d \in Calls : KeyOf[d] \in AI!KeysUsed
  BY DEF AI!KeysUsed
<1>6. CallsHoldKeys'
  BY <1>1, <1>2, <1>3, <1>5 DEF CallsHoldKeys, AI!TypeOK, AI!Working
<1>7. KeysNameCalls'
  BY <1>1, <1>2, <1>3 DEF KeysNameCalls, AI!TypeOK, AI!KeysUsed
<1>8. RepliesAreRuns'
  BY <1>1 DEF RepliesAreRuns
<1> QED
  BY <1>4, <1>6, <1>7, <1>8

LEMMA AIReplays ==
  ASSUME AIInv, NEW c \in Calls, AI!ReservedBefore(c) PROVE AIInv'
<1> USE DEF AIInv
<1> DEFINE record == ledger[KeyOf[c]]
           usable == record.asks = asks[c] /\ record.done /\ record.by \in runs
<1>1. /\ step[c] = "called" /\ record # NoRecord
      /\ reply' = [reply EXCEPT ![c] = IF usable THEN record.by ELSE NoRecord]
      /\ step' = [step EXCEPT ![c] = IF usable THEN "answered" ELSE "conflict"]
      /\ UNCHANGED <<product, asks, ledger, runs, failing, token, sentFor>>
  BY DEF AI!ReservedBefore, AI!Goto, AI!IsStored
<1>2. KeyOf[c] \in AI!KeysUsed
  BY DEF AI!KeysUsed
<1>3. KeyOf[record.by] = KeyOf[c] /\ asks[record.by] = record.asks
  BY <1>1, <1>2 DEF KeysNameCalls
<1>4. record.by \in Calls
  BY <1>1, <1>2 DEF AI!TypeOK
<1>5. AI!TypeOK'
  BY <1>1, <1>4 DEF AI!TypeOK, AI!KeysUsed
<1>6. CallsHoldKeys'
  BY <1>1 DEF CallsHoldKeys, AI!TypeOK, AI!Working
<1>7. KeysNameCalls'
  BY <1>1 DEF KeysNameCalls, AI!KeysUsed
<1>8. RepliesAreRuns'
  BY <1>1, <1>3 DEF RepliesAreRuns, AI!TypeOK
<1> QED
  BY <1>5, <1>6, <1>7, <1>8

LEMMA AISends ==
  ASSUME AIInv, NEW c \in Calls, AI!Send(c) PROVE AIInv'
<1> USE DEF AIInv, AI!Send, AI!Goto
<1>1. AI!TypeOK'
  BY DEF AI!TypeOK, AI!KeysUsed
<1>2. CallsHoldKeys'
  BY DEF CallsHoldKeys, AI!TypeOK, AI!Working
<1>3. KeysNameCalls' /\ RepliesAreRuns'
  BY DEF KeysNameCalls, RepliesAreRuns, AI!KeysUsed
<1> QED
  BY <1>1, <1>2, <1>3

LEMMA AIStores ==
  ASSUME AIInv, NEW c \in Calls, AI!Store(c) PROVE AIInv'
<1> USE DEF AIInv, AI!Store, AI!AddRun, AI!Goto
<1>1. AI!TypeOK'
  BY DEF AI!TypeOK, AI!KeysUsed
<1>2. CallsHoldKeys'
  BY DEF CallsHoldKeys, AI!TypeOK, AI!Working
<1>3. c \in sentFor
  BY DEF CallsHoldKeys
<1>4. KeysNameCalls' /\ RepliesAreRuns'
  BY <1>3 DEF KeysNameCalls, RepliesAreRuns, AI!KeysUsed
<1> QED
  BY <1>1, <1>2, <1>4

LEMMA AICompletes ==
  ASSUME AIInv, NEW c \in Calls, AI!Complete(c) PROVE AIInv'
<1> USE DEF AIInv
<1>1. /\ step[c] = "stored"
      /\ ledger' = [ledger EXCEPT ![KeyOf[c]].done = TRUE]
      /\ reply' = [reply EXCEPT ![c] = c]
      /\ step' = [step EXCEPT ![c] = "answered"]
      /\ UNCHANGED <<product, asks, runs, failing, token, sentFor>>
  BY DEF AI!Complete, AI!Goto
<1>2. KeyOf[c] \in AI!KeysUsed /\ ledger[KeyOf[c]] # NoRecord
  BY <1>1 DEF AI!KeysUsed, CallsHoldKeys, AI!Working
<1>3. PICK r \in [asks : Asks, by : Calls, done : BOOLEAN] : r = ledger[KeyOf[c]]
  BY <1>2 DEF AI!TypeOK
<1>4. PICK s \in [asks : Asks, by : Calls, done : BOOLEAN] :
        s.asks = r.asks /\ s.by = r.by /\ ledger' = [ledger EXCEPT ![KeyOf[c]] = s]
  <2> DEFINE completed == [r EXCEPT !.done = TRUE]
  <2>1. /\ completed \in [asks : Asks, by : Calls, done : BOOLEAN]
        /\ completed.asks = r.asks /\ completed.by = r.by
    OBVIOUS
  <2>2. ledger' = [ledger EXCEPT ![KeyOf[c]] = completed]
    BY <1>1, <1>3
  <2> HIDE DEF completed, AIInv
  <2> QED
    BY <2>1, <2>2
<1>5. s # NoRecord
  BY AIAssumption
<1>6. AI!TypeOK'
  BY <1>1, <1>2, <1>4 DEF AI!TypeOK, AI!KeysUsed
<1>7. \A d \in Calls : KeyOf[d] \in AI!KeysUsed
  BY DEF AI!KeysUsed
<1>8. CallsHoldKeys'
  <2>1. /\ ledger \in [AI!KeysUsed -> {NoRecord} \cup [asks : Asks, by : Calls, done : BOOLEAN]]
        /\ step \in [Calls -> {"called", "reserved", "checked", "authorized", "sent",
                              "received", "stored", "answered", "conflict", "failed"}]
    BY Zenon DEF AI!TypeOK
  <2>2. CallsHoldKeys
    OBVIOUS
  <2> HIDE DEF AIInv
  <2>3. \A d \in Calls : ledger[KeyOf[d]] # NoRecord =>
          ledger'[KeyOf[d]] # NoRecord /\ ledger'[KeyOf[d]].by = ledger[KeyOf[d]].by
    BY <1>2, <1>3, <1>4, <1>5, <1>7, <2>1
  <2>4. \A d \in Calls : step'[d] = step[d] \/ step'[d] = "answered"
    BY <1>1, <2>1
  <2>5. \A d \in Calls : AI!Working(d)' => AI!Working(d)
    BY <2>4 DEF AI!Working
  <2> QED
    BY <1>1, <2>2, <2>3, <2>4, <2>5 DEF CallsHoldKeys
<1>9. KeysNameCalls'
  BY <1>1, <1>2, <1>3, <1>4, <1>5 DEF KeysNameCalls, AI!TypeOK, AI!KeysUsed
<1>10. RepliesAreRuns'
  BY <1>1 DEF RepliesAreRuns, CallsHoldKeys, AI!TypeOK
<1> QED
  BY <1>6, <1>8, <1>9, <1>10

LEMMA AIStep == AIInv /\ [AI!Next]_(AI!vars) => AIInv'
<1> SUFFICES ASSUME AIInv, [AI!Next]_(AI!vars) PROVE AIInv'
  OBVIOUS
<1>1. CASE UNCHANGED AI!vars
  BY <1>1 DEF AI!vars, AIInv, AI!TypeOK, AI!KeysUsed, AI!Working,
              CallsHoldKeys, KeysNameCalls, RepliesAreRuns
<1>2. ASSUME NEW p \in Processes, AI!TokenExpires(p) \/ AI!Restart(p) PROVE AIInv'
  BY <1>2, AIProcessSteps, AIQuietKeeps DEF AIInv
<1>3. ASSUME NEW c \in Calls,
             \/ AI!Check(c) \/ AI!Refuse(c) \/ AI!Authorize(c) \/ AI!AuthorizeFails(c)
             \/ AI!Receive(c) \/ AI!ReceiveFailure(c) \/ AI!StoreFails(c)
      PROVE  AIInv'
  BY <1>3, AIQuietSteps, AIQuietKeeps DEF AIInv
<1>4. ASSUME NEW c \in Calls,
             \/ AI!Reserve(c) \/ AI!ReservedBefore(c) \/ AI!Send(c)
             \/ AI!Store(c) \/ AI!Complete(c)
      PROVE  AIInv'
  BY <1>4, AIReserves, AIReplays, AISends, AIStores, AICompletes
<1> QED
  BY <1>1, <1>2, <1>3, <1>4 DEF AI!Next

\* However often a task is retried under its key, whatever failed and whichever
\* process ended meanwhile, the provider is asked once at most and an answer is
\* the one stored run of that very request: IdempotentAIExecutionService never
\* gives a reservation back.
THEOREM AIOneCallPerKey == AI!Spec => []OneCallPerKey
<1>1. AIInv => AI!OneCallPerKey
  BY DEF AIInv, CallsHoldKeys, RepliesAreRuns, AI!TypeOK, AI!OneCallPerKey
<1>2. AI!Init => AIInv
  BY AIInitial
<1>3. AIInv /\ [AI!Next]_(AI!vars) => AIInv'
  BY AIStep
<1> QED
  BY <1>1, <1>2, <1>3, PTL DEF AI!Spec, OneCallPerKey

-----------------------------------------------------------------------------
(* ActivationGate: the kill switch and the ceilings *)

\* activated_at only grows: what was rolled back is not the activation that is
\* enabled now, nor a later one.
RollbacksArePast ==
  /\ row.enabled => row.act > 0
  /\ \A u \in undone :
       u.disabled = u.seen /\ u.disabled <= row.act /\ (row.enabled => u.disabled < row.act)

\* A replica's local copy carries the configuration the replica runs.
CopiesAreOwn == \A r \in Replicas : local[r].enabled => local[r].config = configOf[r]

\* What a request that saw activation n knows of it stays true while n is the
\* canonical row's, since a row changes its configuration with its activation.
TasksFollowRow ==
  \A t \in Tasks :
    /\ task[t].seen <= row.act /\ task[t].checked <= row.act
    /\ stage[t] \in {"found", "bound", "running"} =>
         (row.act = task[t].seen => row.config = configOf[ReplicaOf[t]])
    /\ stage[t] \in {"bound", "running"} => task[t].binding = task[t].seen
    /\ stage[t] = "allowed" =>
         /\ task[t].config = configOf[ReplicaOf[t]]
         /\ row.act = task[t].checked => row.config = task[t].config

\* A request that started late is one whose activation stays rolled back.
LateAreUndone ==
  \A t \in Tasks : stage[t] # "refused" /\ task[t].late =>
    stage[t] = "running" /\ AG!Undone(task[t].binding)

GateInv ==
  AG!TypeOK /\ RollbacksArePast /\ CopiesAreOwn /\ TasksFollowRow /\ LateAreUndone
    /\ AG!CeilingHolds

TaskRecords ==
  [config : Configs, seen : 0..MaxActs, binding : 0..MaxActs, checked : 0..MaxActs,
   cost : AG!Costs, late : BOOLEAN, moved : BOOLEAN]

LEMMA GateValuesType ==
  /\ AG!NoConfig \in Configs
  /\ AG!NoState \in AG!States
  /\ AG!Idle \in [name : {"none", "activate", "rollback", "withdrawn"}, act : 0..MaxActs]
  /\ \A cost \in AG!Costs : AG!NewTask(cost) \in TaskRecords
BY GateAssumption DEF TaskRecords, AG!NoConfig, AG!NoState, AG!States, AG!Idle, AG!NewTask

LEMMA GateInitial == AG!Init => GateInv
<1> SUFFICES ASSUME AG!Init PROVE GateInv
  OBVIOUS
<1>1. PICK cost \in [Tasks -> AG!Costs] : task = [t \in Tasks |-> AG!NewTask(cost[t])]
  BY DEF AG!Init
<1>2. \A t \in Tasks : task[t].seen = 0 /\ task[t].checked = 0 /\ task[t].late = FALSE
  BY <1>1 DEF AG!NewTask
<1>3. row.enabled = FALSE /\ row.act = 0 /\ undone = {}
  BY DEF AG!Init, AG!NoState
<1>4. \A t \in Tasks : stage[t] = "called"
  BY DEF AG!Init
<1>5. \A r \in Replicas : local[r].enabled = FALSE
  BY DEF AG!Init, AG!NoState
<1>6. AG!TypeOK
  BY <1>1, GateValuesType, GateAssumption DEF AG!Init, AG!TypeOK, TaskRecords
<1> QED
  BY <1>2, <1>3, <1>4, <1>5, <1>6
  DEF GateInv, RollbacksArePast, CopiesAreOwn, TasksFollowRow, LateAreUndone,
      AG!CeilingHolds

\* The operators' commands: the requests stay as they are.

LEMMA GateActivates ==
  ASSUME GateInv, NEW r \in Replicas, AG!Activate(r) PROVE GateInv'
<1> USE DEF GateInv
<1>1. /\ ~row.enabled /\ row.act < MaxActs
      /\ row' = AG!NewState(r, row.act + 1)
      /\ command' = [command EXCEPT ![r] = [name |-> "activate", act |-> row.act + 1]]
      /\ UNCHANGED <<gateProduct, configOf, local, bound, undone, stage, task>>
  BY DEF AG!Activate, AG!Activable
<1>2. row.act \in 0..MaxActs /\ row.act + 1 \in 0..MaxActs
  BY <1>1, GateAssumption DEF AG!TypeOK, AG!States
<1>3. row'.enabled = TRUE /\ row'.act = row.act + 1 /\ row' \in AG!States
  BY <1>1, <1>2 DEF AG!NewState, AG!States, AG!TypeOK
<1>4. AG!TypeOK'
  BY <1>1, <1>2, <1>3 DEF AG!TypeOK
<1>5. RollbacksArePast'
  BY <1>1, <1>2, <1>3 DEF RollbacksArePast, AG!TypeOK
<1>6. CopiesAreOwn'
  BY <1>1 DEF CopiesAreOwn
<1>7. TasksFollowRow'
  BY <1>1, <1>2, <1>3 DEF TasksFollowRow, AG!TypeOK
<1>8. LateAreUndone' /\ AG!CeilingHolds'
  BY <1>1 DEF LateAreUndone, AG!Undone, AG!CeilingHolds
<1> QED
  BY <1>4, <1>5, <1>6, <1>7, <1>8

LEMMA GateRollsBack ==
  ASSUME GateInv, NEW r \in Replicas, AG!RollBack(r) PROVE GateInv'
<1> USE DEF GateInv
<1>1. /\ row.enabled /\ row.act = command[r].act
      /\ row' = [row EXCEPT !.enabled = FALSE]
      /\ undone' = undone \cup {[disabled |-> row.act, seen |-> command[r].act]}
      /\ command' = [command EXCEPT ![r] = [name |-> "withdrawn", act |-> 0]]
      /\ UNCHANGED <<gateProduct, configOf, local, bound, stage, task>>
  BY DEF AG!RollBack, AG!Target
<1>2. /\ row' \in AG!States /\ row'.enabled = FALSE
      /\ row'.act = row.act /\ row'.config = row.config
  BY <1>1 DEF AG!TypeOK, AG!States
<1>3. row.act \in 1..MaxActs /\ row.act \in Nat
  BY <1>1, GateAssumption DEF RollbacksArePast, AG!TypeOK, AG!States
<1>4. AG!TypeOK'
  BY <1>1, <1>2, <1>3, GateAssumption DEF AG!TypeOK
<1>5. RollbacksArePast'
  BY <1>1, <1>2, <1>3 DEF RollbacksArePast, AG!TypeOK
<1>6. CopiesAreOwn' /\ TasksFollowRow' /\ AG!CeilingHolds'
  BY <1>1, <1>2 DEF CopiesAreOwn, TasksFollowRow, AG!CeilingHolds
<1>7. LateAreUndone'
  BY <1>1 DEF LateAreUndone, AG!Undone
<1> QED
  BY <1>4, <1>5, <1>6, <1>7

LEMMA GateCommands ==
  ASSUME GateInv, NEW r \in Replicas,
         \/ AG!Activated(r) \/ AG!StartRollback(r)
         \/ AG!RollBackLost(r) \/ AG!RolledBack(r)
  PROVE  GateInv'
<1> USE DEF GateInv
<1>1. /\ UNCHANGED <<gateProduct, configOf, row, undone, stage, task>>
      /\ \/ UNCHANGED <<local, bound>>
         \/ AG!BindTo(r, command[r].act)
         \/ AG!Forget(r)
  BY DEF AG!Activated, AG!StartRollback, AG!RollBackLost, AG!RolledBack
<1>2. command' \in [Replicas -> [name : {"none", "activate", "rollback", "withdrawn"},
                                 act : 0..MaxActs]]
  <2>1. \/ command' = [command EXCEPT ![r] = AG!Idle]
        \/ command' = [command EXCEPT ![r] = [name |-> "rollback", act |-> row.act]]
    BY DEF AG!Activated, AG!StartRollback, AG!RollBackLost, AG!RolledBack
  <2>2. row.act \in 0..MaxActs
    BY DEF AG!TypeOK, AG!States
  <2>3. AG!Idle \in [name : {"none", "activate", "rollback", "withdrawn"}, act : 0..MaxActs]
    BY GateValuesType
  <2>4. command \in [Replicas -> [name : {"none", "activate", "rollback", "withdrawn"},
                                  act : 0..MaxActs]]
    BY DEF AG!TypeOK
  <2> QED
    BY <2>1, <2>2, <2>3, <2>4
<1>3. /\ local' \in [Replicas -> AG!States] /\ bound' \in [Replicas -> 0..MaxActs]
      /\ CopiesAreOwn'
  <2>1. /\ AG!NewState(r, command[r].act) \in AG!States
        /\ AG!NewState(r, command[r].act).config = configOf[r]
    <3>1. command[r].act \in 0..MaxActs /\ configOf[r] \in Configs
      BY DEF AG!TypeOK
    <3> QED
      BY <3>1 DEF AG!NewState, AG!States
  <2>2. AG!NoState \in AG!States /\ AG!NoState.enabled = FALSE
    BY GateValuesType DEF AG!NoState
  <2>3. 0 \in 0..MaxActs /\ command[r].act \in 0..MaxActs
    BY GateAssumption DEF AG!TypeOK
  <2>4. PICK copy \in AG!States, n \in 0..MaxActs :
          /\ local' = local \/ local' = [local EXCEPT ![r] = copy]
          /\ bound' = bound \/ bound' = [bound EXCEPT ![r] = n]
          /\ copy.enabled => copy.config = configOf[r]
    <3>1. CASE UNCHANGED <<local, bound>>
      BY <3>1, <2>2, <2>3
    <3>2. CASE AG!BindTo(r, command[r].act)
      BY <3>2, <2>1, <2>3 DEF AG!BindTo
    <3>3. CASE AG!Forget(r)
      BY <3>3, <2>2, <2>3 DEF AG!Forget
    <3> QED
      BY <1>1, <3>1, <3>2, <3>3
  <2>5. UNCHANGED configOf
    BY <1>1
  <2>6. /\ local \in [Replicas -> AG!States] /\ bound \in [Replicas -> 0..MaxActs]
        /\ \A q \in Replicas : local[q].enabled => local[q].config = configOf[q]
    BY DEF AG!TypeOK, CopiesAreOwn
  <2> DEFINE S == AG!States
             N == 0..MaxActs
  <2> HIDE DEF S, N, GateInv
  <2>7. local' \in [Replicas -> S]
    BY <2>4, <2>6, Zenon DEF S
  <2>8. bound' \in [Replicas -> N]
    BY <2>4, <2>6, Zenon DEF N
  <2>9. CopiesAreOwn'
    <3>1. ASSUME NEW q \in Replicas, local'[q].enabled
          PROVE  local'[q].config = configOf'[q]
      <4>1. CASE local' = local
        BY <2>5, <2>6, <3>1, <4>1
      <4>2. CASE local' = [local EXCEPT ![r] = copy]
        BY <2>4, <2>5, <2>6, <3>1, <4>2
      <4> QED
        BY <2>4, <4>1, <4>2
    <3> QED
      BY <3>1 DEF CopiesAreOwn
  <2> QED
    BY <2>7, <2>8, <2>9 DEF S, N
<1>4. AG!TypeOK'
  BY <1>1, <1>2, <1>3 DEF AG!TypeOK
<1>5. RollbacksArePast' /\ TasksFollowRow' /\ LateAreUndone' /\ AG!CeilingHolds'
  BY <1>1 DEF RollbacksArePast, TasksFollowRow, LateAreUndone, AG!Undone, AG!CeilingHolds
<1> QED
  BY <1>3, <1>4, <1>5

LEMMA GateRestarts ==
  ASSUME GateInv, NEW r \in Replicas, AG!Restart(r) PROVE GateInv'
<1> USE DEF GateInv
<1>1. /\ local' = [local EXCEPT ![r] = AG!NoState]
      /\ bound' = [bound EXCEPT ![r] = 0]
      /\ command' = [command EXCEPT ![r] = AG!Idle]
      /\ stage' = [t \in Tasks |-> IF ReplicaOf[t] = r /\ stage[t] # "sent"
                                   THEN "refused" ELSE stage[t]]
      /\ UNCHANGED <<gateProduct, configOf, row, undone, task>>
  BY DEF AG!Restart, AG!Forget
<1>2. AG!TypeOK'
  BY <1>1, GateValuesType, GateAssumption DEF AG!TypeOK
<1>3. CopiesAreOwn'
  BY <1>1 DEF CopiesAreOwn, AG!TypeOK, AG!NoState
<1>4. RollbacksArePast'
  BY <1>1 DEF RollbacksArePast
<1>5. TasksFollowRow' /\ LateAreUndone' /\ AG!CeilingHolds'
  BY <1>1 DEF TasksFollowRow, LateAreUndone, AG!Undone, AG!CeilingHolds, AG!TypeOK
<1> QED
  BY <1>2, <1>3, <1>4, <1>5

\* A step of one request that leaves the row and the operators alone.
RequestStep(t, s, kept) ==
  /\ stage' = [stage EXCEPT ![t] = s]
  /\ task' = [task EXCEPT ![t] = kept]
  /\ UNCHANGED <<gateProduct, configOf, row, command, undone>>

\* What is left to show of such a step is what it does to its own request.
LEMMA GateRequestStep ==
  ASSUME GateInv, NEW t \in Tasks,
         NEW s \in {"called", "configured", "found", "bound", "running",
                    "allowed", "sent", "refused"},
         NEW kept \in TaskRecords,
         RequestStep(t, s, kept),
         local' \in [Replicas -> AG!States], bound' \in [Replicas -> 0..MaxActs],
         CopiesAreOwn',
         kept.seen <= row.act, kept.checked <= row.act,
         s \in {"found", "bound", "running"} =>
           (row.act = kept.seen => row.config = configOf[ReplicaOf[t]]),
         s \in {"bound", "running"} => kept.binding = kept.seen,
         s = "allowed" => /\ kept.config = configOf[ReplicaOf[t]]
                          /\ row.act = kept.checked => row.config = kept.config,
         s # "refused" /\ kept.late => s = "running" /\ AG!Undone(kept.binding),
         s = "sent" /\ (gateProduct = "gigachat" \/ ~kept.moved) =>
           kept.cost <= CeilingOf[kept.config]
  PROVE  GateInv'
<1> USE DEF GateInv, RequestStep
<1>1. AG!TypeOK'
  BY DEF AG!TypeOK, TaskRecords
<1>2. RollbacksArePast'
  BY DEF RollbacksArePast
<1>3. TasksFollowRow'
  BY DEF TasksFollowRow, AG!TypeOK
<1>4. LateAreUndone'
  BY DEF LateAreUndone, AG!TypeOK, AG!Undone
<1>5. AG!CeilingHolds'
  BY DEF AG!CeilingHolds, AG!TypeOK
<1> QED
  BY <1>1, <1>2, <1>3, <1>4, <1>5

\* A request refused on its way forgets what it saw.
LEMMA GateRefuses ==
  ASSUME GateInv, NEW t \in Tasks, AG!Refuse(t),
         UNCHANGED <<gateProduct, configOf, row, local, bound, command, undone>>
  PROVE  GateInv'
<1> DEFINE kept == AG!NewTask(task[t].cost)
<1>1. RequestStep(t, "refused", kept)
  BY DEF AG!Refuse, AG!Move, RequestStep
<1>2. task[t].cost \in AG!Costs /\ row.act \in Nat
  BY GateAssumption DEF GateInv, AG!TypeOK, AG!States
<1>3. kept \in TaskRecords
  BY <1>2, GateValuesType
<1>4. kept.seen = 0 /\ kept.checked = 0 /\ kept.late = FALSE
  BY DEF AG!NewTask
<1>5. local' \in [Replicas -> AG!States] /\ bound' \in [Replicas -> 0..MaxActs] /\ CopiesAreOwn'
  BY DEF GateInv, AG!TypeOK, CopiesAreOwn
<1> HIDE DEF kept
<1> QED
  BY <1>1, <1>2, <1>3, <1>4, <1>5, GateRequestStep

\* What the invariant says of one request, and of the row it is compared with.
LEMMA GateRequestFacts ==
  ASSUME GateInv, NEW t \in Tasks
  PROVE  /\ task[t] \in TaskRecords /\ row \in AG!States /\ row.act \in Nat
         /\ task[t].seen \in Nat /\ task[t].checked \in Nat
         /\ ReplicaOf[t] \in Replicas
         /\ local \in [Replicas -> AG!States] /\ bound \in [Replicas -> 0..MaxActs]
         /\ UNCHANGED <<configOf, local>> => CopiesAreOwn'
BY GateAssumption DEF GateInv, AG!TypeOK, AG!States, TaskRecords, CopiesAreOwn

LEMMA GateConfigures ==
  ASSUME GateInv, NEW t \in Tasks, AG!Configure(t) PROVE GateInv'
<1>1. CASE AG!Refuse(t)
  BY <1>1, GateRefuses DEF AG!Configure
<1>2. CASE AG!Move(t, "configured") /\ task' = [task EXCEPT ![t].config = row.config]
  <2> DEFINE kept == [task[t] EXCEPT !.config = row.config]
  <2>1. kept \in TaskRecords
    BY GateRequestFacts DEF TaskRecords, AG!States
  <2>2. kept.seen = task[t].seen /\ kept.checked = task[t].checked /\ kept.late = task[t].late
    BY GateRequestFacts DEF TaskRecords
  <2>3. RequestStep(t, "configured", kept)
    BY <1>2 DEF AG!Configure, AG!Move, RequestStep
  <2>4. UNCHANGED <<local, bound>> /\ stage[t] = "called" /\ UNCHANGED configOf
    BY DEF AG!Configure
  <2> HIDE DEF kept
  <2>5. kept.seen <= row.act /\ kept.checked <= row.act /\ ~kept.late
    BY <2>2, <2>4 DEF GateInv, TasksFollowRow, LateAreUndone
  <2> QED
    BY <2>1, <2>3, <2>4, <2>5, GateRequestStep, GateRequestFacts
<1> QED
  BY <1>1, <1>2 DEF AG!Configure

LEMMA GateLooksUp ==
  ASSUME GateInv, NEW t \in Tasks, AG!LookUp(t) PROVE GateInv'
<1>1. CASE AG!Refuse(t)
  BY <1>1, GateRefuses DEF AG!LookUp
<1>2. CASE /\ row.config = configOf[ReplicaOf[t]]
           /\ AG!Move(t, "found") /\ task' = [task EXCEPT ![t].seen = row.act]
  <2> DEFINE kept == [task[t] EXCEPT !.seen = row.act]
  <2>1. kept \in TaskRecords
    BY GateRequestFacts DEF TaskRecords, AG!States
  <2>2. kept.seen = row.act /\ kept.checked = task[t].checked /\ kept.late = task[t].late
    BY GateRequestFacts DEF TaskRecords
  <2>3. RequestStep(t, "found", kept)
    BY <1>2 DEF AG!LookUp, AG!Move, RequestStep
  <2>4. UNCHANGED <<local, bound>> /\ stage[t] = "configured" /\ UNCHANGED configOf
    BY DEF AG!LookUp
  <2> HIDE DEF kept
  <2>5. kept.seen <= row.act /\ kept.checked <= row.act /\ ~kept.late
    BY <2>2, <2>4, GateRequestFacts DEF GateInv, TasksFollowRow, LateAreUndone
  <2> QED
    BY <1>2, <2>1, <2>3, <2>4, <2>5, GateRequestStep, GateRequestFacts
<1> QED
  BY <1>1, <1>2 DEF AG!LookUp

LEMMA GateBinds ==
  ASSUME GateInv, NEW t \in Tasks, AG!Bind(t) PROVE GateInv'
<1> DEFINE kept == [task[t] EXCEPT !.binding = task[t].seen]
           copy == AG!NewState(ReplicaOf[t], task[t].seen)
<1>1. kept \in TaskRecords
  BY GateRequestFacts DEF TaskRecords
<1>2. /\ kept.seen = task[t].seen /\ kept.checked = task[t].checked
      /\ kept.late = task[t].late /\ kept.binding = kept.seen
  BY GateRequestFacts DEF TaskRecords
<1>3. RequestStep(t, "bound", kept)
  BY DEF AG!Bind, AG!Move, RequestStep
<1>4. /\ stage[t] = "found" /\ UNCHANGED <<configOf, row>>
      /\ local' = [local EXCEPT ![ReplicaOf[t]] = copy]
      /\ bound' = [bound EXCEPT ![ReplicaOf[t]] = task[t].seen]
  BY DEF AG!Bind, AG!BindTo
<1>5. copy \in AG!States /\ copy.config = configOf[ReplicaOf[t]]
  BY GateRequestFacts DEF AG!NewState, AG!States, TaskRecords, GateInv, AG!TypeOK
<1>6. task[t].seen \in 0..MaxActs
  BY GateRequestFacts DEF TaskRecords
<1> HIDE DEF kept, copy
<1>7. /\ kept.seen <= row.act /\ kept.checked <= row.act /\ ~kept.late
      /\ row.act = kept.seen => row.config = configOf[ReplicaOf[t]]
  BY <1>2, <1>4 DEF GateInv, TasksFollowRow, LateAreUndone
<1>8. local' \in [Replicas -> AG!States] /\ bound' \in [Replicas -> 0..MaxActs]
  BY <1>4, <1>5, <1>6, GateRequestFacts
<1>9. CopiesAreOwn'
  BY <1>4, <1>5, GateRequestFacts DEF CopiesAreOwn, GateInv
<1> QED
  BY <1>1, <1>2, <1>3, <1>7, <1>8, <1>9, GateRequestStep

LEMMA GateRuns ==
  ASSUME GateInv, NEW t \in Tasks, AG!Run(t) PROVE GateInv'
<1> DEFINE kept == [task[t] EXCEPT !.late = AG!Undone(task[t].binding)]
<1>1. AG!Undone(task[t].binding) \in BOOLEAN
  BY DEF AG!Undone
<1>2. kept \in TaskRecords
  BY <1>1, GateRequestFacts DEF TaskRecords
<1>3. /\ kept.seen = task[t].seen /\ kept.checked = task[t].checked
      /\ kept.late = AG!Undone(task[t].binding) /\ kept.binding = task[t].binding
  BY GateRequestFacts DEF TaskRecords
<1>4. RequestStep(t, "running", kept)
  BY DEF AG!Run, AG!Move, RequestStep
<1>5. stage[t] = "bound" /\ UNCHANGED <<configOf, local, bound>>
  BY DEF AG!Run
<1> HIDE DEF kept
<1>6. /\ kept.seen <= row.act /\ kept.checked <= row.act /\ kept.binding = kept.seen
      /\ row.act = kept.seen => row.config = configOf[ReplicaOf[t]]
  BY <1>3, <1>5 DEF GateInv, TasksFollowRow
<1>7. kept.late => AG!Undone(kept.binding)
  BY <1>3
<1> QED
  BY <1>2, <1>4, <1>5, <1>6, <1>7, GateRequestStep, GateRequestFacts

\* The row is enabled, so its activation was not rolled back; it is the one the
\* request is bound to, so that one was not either.
LEMMA GateAllows ==
  ASSUME GateInv, NEW t \in Tasks, AG!AllowsRequest(t) PROVE GateInv'
<1>1. CASE AG!Refuse(t)
  BY <1>1, GateRefuses DEF AG!AllowsRequest
<1>2. CASE /\ AG!SameBinding(row, task[t])
           /\ AG!Move(t, "allowed") /\ task' = [task EXCEPT ![t].checked = row.act]
  <2> DEFINE kept == [task[t] EXCEPT !.checked = row.act]
  <2>1. kept \in TaskRecords
    BY GateRequestFacts DEF TaskRecords, AG!States
  <2>2. /\ kept.seen = task[t].seen /\ kept.checked = row.act
        /\ kept.late = task[t].late /\ kept.config = task[t].config
    BY GateRequestFacts DEF TaskRecords
  <2>3. RequestStep(t, "allowed", kept)
    BY <1>2 DEF AG!AllowsRequest, AG!Move, RequestStep
  <2>4. UNCHANGED <<local, bound>> /\ stage[t] = "running" /\ UNCHANGED configOf
    BY DEF AG!AllowsRequest
  <2>5. row.enabled /\ row.config = task[t].config /\ row.act = task[t].binding
    BY <1>2 DEF AG!SameBinding
  <2> HIDE DEF kept
  <2>6. kept.seen <= row.act /\ kept.checked <= row.act
    BY <2>2, <2>4, GateRequestFacts DEF GateInv, TasksFollowRow
  <2>7. kept.config = configOf[ReplicaOf[t]] /\ row.config = kept.config
    BY <2>2, <2>4, <2>5 DEF GateInv, TasksFollowRow
  <2>8. ~AG!Undone(row.act)
    BY <2>5, GateRequestFacts DEF GateInv, RollbacksArePast, AG!Undone, AG!TypeOK
  <2>9. ~kept.late
    BY <2>2, <2>4, <2>5, <2>8 DEF GateInv, LateAreUndone
  <2> QED
    BY <2>1, <2>3, <2>4, <2>6, <2>7, <2>9, GateRequestStep, GateRequestFacts
<1> QED
  BY <1>1, <1>2 DEF AG!AllowsRequest

LEMMA GateSends ==
  ASSUME GateInv, NEW t \in Tasks, AG!BudgetAllows(t) PROVE GateInv'
<1> DEFINE state == IF gateProduct = "yandexgpt" THEN row ELSE local[ReplicaOf[t]]
           moved == row.act # task[t].checked \/ ~row.enabled
<1>1. CASE AG!Refuse(t)
  BY <1>1, GateRefuses DEF AG!BudgetAllows
<1>2. CASE /\ AG!WithinCeiling(state, task[t].cost)
           /\ AG!Move(t, "sent") /\ task' = [task EXCEPT ![t].moved = moved]
  <2> DEFINE kept == [task[t] EXCEPT !.moved = moved]
  <2>1. moved \in BOOLEAN
    OBVIOUS
  <2> HIDE DEF moved
  <2>2. kept \in TaskRecords
    BY <2>1, GateRequestFacts DEF TaskRecords
  <2>3. /\ kept.seen = task[t].seen /\ kept.checked = task[t].checked
        /\ kept.late = task[t].late /\ kept.config = task[t].config
        /\ kept.cost = task[t].cost /\ kept.moved = moved
    BY GateRequestFacts DEF TaskRecords
  <2>4. RequestStep(t, "sent", kept)
    BY <1>2 DEF AG!BudgetAllows, AG!Move, RequestStep
  <2>5. UNCHANGED <<local, bound>> /\ stage[t] = "allowed" /\ UNCHANGED configOf
    BY DEF AG!BudgetAllows
  <2> HIDE DEF kept
  <2>6. kept.seen <= row.act /\ kept.checked <= row.act /\ ~kept.late
    BY <2>3, <2>5 DEF GateInv, TasksFollowRow, LateAreUndone
  <2>7. state.enabled /\ kept.cost <= CeilingOf[state.config]
    BY <1>2, <2>3 DEF AG!WithinCeiling
  <2>8. gateProduct = "gigachat" \/ ~moved => state.config = task[t].config
    <3>1. task[t].config = configOf[ReplicaOf[t]]
      BY <2>5 DEF GateInv, TasksFollowRow
    <3>2. CASE gateProduct = "gigachat"
      BY <2>7, <3>1, <3>2, GateRequestFacts DEF GateInv, CopiesAreOwn
    <3>3. CASE gateProduct = "yandexgpt" /\ ~moved
      BY <2>5, <3>3 DEF GateInv, TasksFollowRow, moved
    <3> QED
      BY <3>2, <3>3 DEF GateInv, AG!TypeOK
  <2> HIDE DEF state
  <2>9. gateProduct = "gigachat" \/ ~kept.moved => kept.cost <= CeilingOf[kept.config]
    BY <2>3, <2>7, <2>8
  <2> QED
    BY <2>2, <2>4, <2>5, <2>6, <2>9, GateRequestStep, GateRequestFacts
<1> QED
  BY <1>1, <1>2 DEF AG!BudgetAllows

LEMMA GateStep == GateInv /\ [AG!Next]_(AG!vars) => GateInv'
<1> SUFFICES ASSUME GateInv, [AG!Next]_(AG!vars) PROVE GateInv'
  OBVIOUS
<1>1. CASE UNCHANGED AG!vars
  BY <1>1 DEF AG!vars, GateInv, AG!TypeOK, RollbacksArePast, CopiesAreOwn,
              TasksFollowRow, LateAreUndone, AG!Undone, AG!CeilingHolds
<1>2. ASSUME NEW r \in Replicas,
             \/ AG!Activate(r) \/ AG!Activated(r)
             \/ AG!StartRollback(r) \/ AG!RollBack(r) \/ AG!RollBackLost(r)
             \/ AG!RolledBack(r) \/ AG!Restart(r)
      PROVE  GateInv'
  BY <1>2, GateActivates, GateRollsBack, GateCommands, GateRestarts
<1>3. ASSUME NEW t \in Tasks,
             \/ AG!Configure(t) \/ AG!LookUp(t) \/ AG!Bind(t)
             \/ AG!Run(t) \/ AG!AllowsRequest(t) \/ AG!BudgetAllows(t)
      PROVE  GateInv'
  BY <1>3, GateConfigures, GateLooksUp, GateBinds, GateRuns, GateAllows, GateSends
<1> QED
  BY <1>1, <1>2, <1>3 DEF AG!Next

LEMMA GateCorrect == AG!Spec => []GateInv
<1>1. AG!Init => GateInv
  BY GateInitial
<1>2. GateInv /\ [AG!Next]_(AG!vars) => GateInv'
  BY GateStep
<1> QED
  BY <1>1, <1>2, PTL DEF AG!Spec

\* rollback's compare-and-set hits the activation its operator read, and a
\* request that starts to run after the rollback of its activation is never
\* sent, on any number of replicas and through any number of activations: a
\* cached provider is bound to the activated_at it was built for.
THEOREM RollbackIsFinal == AG!Spec => []KillSwitchHolds
<1>1. GateInv => AG!KillSwitchHolds
  BY DEF GateInv, RollbacksArePast, LateAreUndone, AG!KillSwitchHolds
<1>2. AG!Spec => []GateInv
  BY GateCorrect
<1> QED
  BY <1>1, <1>2, PTL DEF KillSwitchHolds

\* GigaChat's budget_allows reads the replica's own copy of the state, which
\* still carries the ceilings of the configuration the request was checked for;
\* YandexGPT's reads the row, where that holds while the row did not move.
THEOREM CeilingsHold == AG!Spec => []CeilingHolds
<1>1. GateInv => AG!CeilingHolds
  BY DEF GateInv
<1>2. AG!Spec => []GateInv
  BY GateCorrect
<1> QED
  BY <1>1, <1>2, PTL DEF CeilingHolds

-----------------------------------------------------------------------------
(* SigningKeys: the cooldowns do not hide a rotated key *)

\* The cached set was fetched in the past; a published key that it misses was
\* published after that.
MissedKeysAreNew ==
  /\ fetched <= now
  /\ fetched # 0 => \A k \in published \ cached : fetched <= since[k]

SigningKeyInv == SK!TypeOK /\ MissedKeysAreNew /\ SK!NewKeyIsFound

LEMMA SigningKeyInitial == SK!Init => SigningKeyInv
BY SigningKeyAssumption DEF SK!Init, SK!None, SigningKeyInv, SK!TypeOK,
       MissedKeysAreNew, SK!NewKeyIsFound

\* The clock and the issuer: nobody asks for a key.
LEMMA IssuerSteps ==
  ASSUME SigningKeyInv,
         \/ SK!Tick
         \/ \E k \in Kids : SK!Publish(k) \/ SK!Withdraw(k)
  PROVE  SigningKeyInv'
<1> USE DEF SigningKeyInv
<1>1. result' = SK!None /\ UNCHANGED <<cached, fetched, single, triedAt, nextForced>>
  BY DEF SK!Tick, SK!Publish, SK!Withdraw
<1>2. /\ SK!None \in [kid : Kids, how : {"none", "found", "unknown", "unreachable"}]
      /\ SK!None.how = "none"
  BY SigningKeyAssumption DEF SK!None
<1>3. SK!NewKeyIsFound'
  BY <1>1, <1>2 DEF SK!NewKeyIsFound
<1>4. CASE SK!Tick
  BY <1>1, <1>2, <1>3, <1>4, SigningKeyAssumption DEF SK!Tick, SK!TypeOK, MissedKeysAreNew
<1>5. ASSUME NEW k \in Kids, SK!Publish(k) PROVE SigningKeyInv'
  BY <1>1, <1>2, <1>3, <1>5, SigningKeyAssumption DEF SK!Publish, SK!TypeOK, MissedKeysAreNew
<1>6. ASSUME NEW k \in Kids, SK!Withdraw(k) PROVE SigningKeyInv'
  BY <1>1, <1>2, <1>3, <1>6, SigningKeyAssumption DEF SK!Withdraw, SK!TypeOK, MissedKeysAreNew
<1> QED
  BY <1>4, <1>5, <1>6

\* What a request for key k may do: the cached set stays, is fetched anew or
\* is lost, and the answer is only "unknown" for a key that the set in use has not.
KeyRequest(k) ==
  /\ UNCHANGED <<now, published, since>>
  /\ UNCHANGED <<cached, fetched>> \/ SK!Refill \/ SK!Forget
  /\ single' \subseteq single \cup published
  /\ triedAt' \in {triedAt, now}
  /\ nextForced' \in {nextForced, now + Life}
  /\ \E how \in {"found", "unknown", "unreachable"} :
       /\ SK!Answer(k, how)
       /\ how = "unknown" => k \notin SK!KnownSet \/ k \notin published

LEMMA KeyRequests ==
  ASSUME NEW k \in Kids,
         \/ SK!Matched(k) \/ SK!FetchFails(k) \/ SK!SecondFetch(k)
         \/ SK!RateLimited(k) \/ SK!FoundSingle(k)
         \/ SK!ForcedRefresh(k) \/ SK!ForcedRefreshFails(k) \/ SK!CoolingDown(k)
  PROVE  KeyRequest(k)
BY DEF KeyRequest, SK!Matched, SK!FetchFails, SK!SecondFetch, SK!RateLimited,
       SK!FoundSingle, SK!ForcedRefresh, SK!ForcedRefreshFails, SK!CoolingDown,
       SK!Answer

LEMMA KeyRequestKeeps ==
  ASSUME SigningKeyInv, NEW k \in Kids, KeyRequest(k)
  PROVE  SigningKeyInv'
<1> USE DEF SigningKeyInv
<1>1. PICK how \in {"found", "unknown", "unreachable"} :
        /\ result' = [kid |-> k, how |-> how]
        /\ how = "unknown" => k \notin SK!KnownSet \/ k \notin published
  BY DEF KeyRequest, SK!Answer
<1>2. SK!TypeOK'
  BY <1>1, SigningKeyAssumption DEF KeyRequest, SK!Refill, SK!Forget, SK!TypeOK
<1>3. MissedKeysAreNew'
  BY DEF KeyRequest, SK!Refill, SK!Forget, SK!TypeOK, MissedKeysAreNew
<1>4. SK!NewKeyIsFound'
  <2>1. SUFFICES ASSUME how = "unknown", k \in published PROVE now <= since[k] + Life
    BY <1>1 DEF SK!NewKeyIsFound, KeyRequest
  <2>2. k \notin SK!KnownSet
    BY <1>1, <2>1
  <2>3. SK!Serves /\ k \notin cached
    BY <2>1, <2>2 DEF SK!KnownSet
  <2>4. fetched <= since[k] /\ now <= fetched + Life
    BY <2>1, <2>3 DEF SK!Serves, MissedKeysAreNew
  <2> QED
    BY <2>1, <2>4, SigningKeyAssumption DEF SK!TypeOK
<1> QED
  BY <1>2, <1>3, <1>4

LEMMA SigningKeysKeep == SK!Spec => []SigningKeyInv
<1>1. SK!Init => SigningKeyInv
  BY SigningKeyInitial
<1>2. SigningKeyInv /\ [SK!Next]_(SK!vars) => SigningKeyInv'
  <2> SUFFICES ASSUME SigningKeyInv, [SK!Next]_(SK!vars) PROVE SigningKeyInv'
    OBVIOUS
  <2>1. CASE UNCHANGED SK!vars
    BY <2>1 DEF SK!vars, SigningKeyInv, SK!TypeOK, MissedKeysAreNew, SK!NewKeyIsFound
  <2>2. CASE SK!Tick \/ \E k \in Kids : SK!Publish(k) \/ SK!Withdraw(k)
    BY <2>2, IssuerSteps
  <2>3. ASSUME NEW k \in Kids,
               \/ SK!Matched(k) \/ SK!FetchFails(k) \/ SK!SecondFetch(k)
               \/ SK!RateLimited(k) \/ SK!FoundSingle(k)
               \/ SK!ForcedRefresh(k) \/ SK!ForcedRefreshFails(k) \/ SK!CoolingDown(k)
        PROVE  SigningKeyInv'
    BY <2>3, KeyRequests, KeyRequestKeeps
  <2> QED
    BY <2>1, <2>2, <2>3 DEF SK!Next
<1> QED
  BY <1>1, <1>2, PTL DEF SK!Spec

\* A key the issuer has published for longer than the lifespan of the cache is
\* never answered "unknown", whatever other tokens did to the two cooldowns of
\* _BoundedPyJWKClient: an expired cache is filled without asking them.
THEOREM RotatedKeyIsFound == SK!Spec => []NewKeyIsFound
<1>1. SigningKeyInv => SK!NewKeyIsFound
  BY DEF SigningKeyInv
<1> QED
  BY <1>1, SigningKeysKeep, PTL DEF NewKeyIsFound

-----------------------------------------------------------------------------
(* KeyedCreate: one result per idempotency key *)

\* What an open transaction knows of its key: nobody else's transaction holds
\* it, unless the key was committed before with the very order it asks for.
OpenCallsHoldKeys ==
  /\ \A c, d \in Calls : KC!Open(c) /\ KC!Open(d) /\ c # d /\ KeyOf[c] = KeyOf[d] =>
       keys[KeyOf[c]] # NoKey
  /\ \A c \in Calls : KC!Open(c) /\ keys[KeyOf[c]] # NoKey =>
       /\ createStage[c] = "reserved" /\ request[c].command = "order"
       /\ keys[KeyOf[c]] = [request |-> request[c], ref |-> KC!IdOf(c)]

\* What an open transaction inserted clashes with nothing, committed or not.
InsertsDoNotClash ==
  \A c \in Calls : createStage[c] = "inserted" => ~KC!RowClash(c) /\ ~KC!RowWaits(c)

\* A fresh id is only in use once its call is done.
FreshIdsAreUsedOnce ==
  \A e \in rows : e.request.command # "order" => e.id \in Calls /\ createStage[e.id] = "done"

\* Every entity is told about by one pair of event and audit, every pair is
\* about an entity.
ToldOf(e) == {t \in told : t.command = e.request.command /\ t.id = e.id}
RowsAreToldOnce ==
  /\ \A e \in rows : \E t : ToldOf(e) = {t}
  /\ \A t \in told : \E e \in rows : t.command = e.request.command /\ t.id = e.id

\* Keys, answers and entities agree, and a thing has one monitor.
KeysNameRows ==
  /\ \A c \in Calls : answer[c] \in KC!Ids =>
       keys[KeyOf[c]] = [request |-> request[c], ref |-> answer[c]]
  /\ \A k \in Keys : keys[k] # NoKey =>
       [request |-> keys[k].request, id |-> keys[k].ref] \in rows
  /\ \A e \in rows : \E k \in Keys : keys[k] = [request |-> e.request, ref |-> e.id]
  /\ \A e, f \in rows :
       e.request = f.request /\ e.request.command = "monitor" => e = f

CreateInv ==
  KC!TypeOK /\ OpenCallsHoldKeys /\ InsertsDoNotClash /\ FreshIdsAreUsedOnce
    /\ RowsAreToldOnce /\ KeysNameRows

LEMMA CreateInitial == KC!Init => CreateInv
<1> SUFFICES ASSUME KC!Init PROVE CreateInv
  OBVIOUS
<1>1. /\ \A c \in Calls : createStage[c] = "called" /\ answer[c] = "none"
      /\ \A k \in Keys : keys[k] = NoKey
      /\ rows = {} /\ told = {}
  BY DEF KC!Init
<1>2. KC!TypeOK
  BY DEF KC!Init, KC!TypeOK
<1> QED
  BY <1>1, <1>2, CreateAssumption DEF CreateInv, OpenCallsHoldKeys, InsertsDoNotClash,
     FreshIdsAreUsedOnce, RowsAreToldOnce, KeysNameRows, KC!Open

\* The parts of the invariant that only the committed tables and answers are in.
LEMMA TablesUnchanged ==
  ASSUME RowsAreToldOnce, KeysNameRows, UNCHANGED <<request, keys, rows, told, answer>>
  PROVE  RowsAreToldOnce' /\ KeysNameRows'
BY DEF RowsAreToldOnce, KeysNameRows, ToldOf, KC!Ids

LEMMA IdsAreIds ==
  ASSUME KC!TypeOK, NEW c \in Calls
  PROVE  KC!IdOf(c) \in KC!Ids /\ request[c] \in KC!Requests
BY DEF KC!TypeOK, KC!IdOf, KC!Ids, KC!Requests

\* A call's transaction goes on, to a stage that it may be in.
CallMoves(c, s) ==
  /\ createStage' = [createStage EXCEPT ![c] = s]
  /\ UNCHANGED <<request, keys, rows, told, answer>>

LEMMA CallsMove ==
  ASSUME CreateInv, NEW c \in Calls,
         NEW s \in {"lookedUp", "reserved", "found", "listed", "inserted"},
         CallMoves(c, s), createStage[c] # "done",
         s # "lookedUp" => \A d \in Calls \ {c} :
           KC!Open(d) /\ KeyOf[d] = KeyOf[c] => keys[KeyOf[c]] # NoKey,
         s # "lookedUp" /\ keys[KeyOf[c]] # NoKey =>
           /\ s = "reserved" /\ request[c].command = "order"
           /\ keys[KeyOf[c]] = [request |-> request[c], ref |-> KC!IdOf(c)],
         s = "inserted" => ~KC!RowClash(c) /\ ~KC!RowWaits(c)
  PROVE  CreateInv'
<1> USE DEF CreateInv, CallMoves
<1>1. KC!TypeOK'
  BY DEF KC!TypeOK
<1>2. /\ \A d \in Calls : d # c => (KC!Open(d)' <=> KC!Open(d))
      /\ KC!Open(c)' => s # "lookedUp"
      /\ createStage'[c] = s
  BY DEF KC!TypeOK, KC!Open
<1>3. \A d \in Calls : KC!IdOf(d)' = KC!IdOf(d)
  BY DEF KC!IdOf
<1>4. OpenCallsHoldKeys'
  <2>1. ASSUME NEW d \in Calls, NEW e \in Calls, KC!Open(d)', KC!Open(e)', d # e,
               KeyOf[d] = KeyOf[e]
        PROVE  keys'[KeyOf[d]] # NoKey
    BY <1>2, <2>1 DEF OpenCallsHoldKeys
  <2>2. ASSUME NEW d \in Calls, KC!Open(d)', keys'[KeyOf[d]] # NoKey
        PROVE  /\ createStage'[d] = "reserved" /\ request'[d].command = "order"
               /\ keys'[KeyOf[d]] = [request |-> request'[d], ref |-> KC!IdOf(d)']
    <3>1. CASE d = c
      BY <1>2, <1>3, <2>2, <3>1
    <3>2. CASE d # c
      BY <1>2, <1>3, <2>2, <3>2 DEF OpenCallsHoldKeys, KC!TypeOK
    <3> QED
      BY <3>1, <3>2
  <2> QED
    BY <2>1, <2>2 DEF OpenCallsHoldKeys
<1>5. InsertsDoNotClash'
  <2>1. SUFFICES ASSUME NEW d \in Calls, createStage'[d] = "inserted"
                 PROVE  ~KC!RowClash(d)' /\ ~KC!RowWaits(d)'
    BY DEF InsertsDoNotClash
  <2>2. ~KC!RowClash(d)
    BY <2>1 DEF InsertsDoNotClash, KC!TypeOK
  <2>3. ~KC!RowClash(d)'
    BY <2>2 DEF KC!RowClash, KC!SameUnique, KC!IdOf
  <2>4. ASSUME NEW e \in Calls \ {d}, createStage'[e] = "inserted",
               KC!SameUnique(request[d], KC!IdOf(d), request[e], KC!IdOf(e))
        PROVE  FALSE
    <3>1. KC!SameUnique(request[e], KC!IdOf(e), request[d], KC!IdOf(d))
      BY <2>4 DEF KC!SameUnique
    <3>2. CASE d = c
      <4>1. createStage[e] = "inserted" /\ ~KC!RowWaits(c)
        BY <2>1, <2>4, <3>2, <1>2 DEF KC!TypeOK
      <4> QED
        BY <2>4, <3>2, <4>1 DEF KC!RowWaits
    <3>3. CASE d # c
      <4>1. createStage[d] = "inserted"
        BY <2>1, <3>3 DEF KC!TypeOK
      <4>2. e = c \/ createStage[e] = "inserted"
        BY <2>4 DEF KC!TypeOK
      <4>3. CASE e = c
        <5>1. ~KC!RowWaits(c)
          BY <1>2, <2>4, <4>3
        <5> QED
          BY <3>1, <3>3, <4>1, <4>3, <5>1 DEF KC!RowWaits
      <4>4. CASE createStage[e] = "inserted"
        BY <2>4, <4>1, <4>4 DEF InsertsDoNotClash, KC!RowWaits
      <4> QED
        BY <4>2, <4>3, <4>4
    <3> QED
      BY <3>2, <3>3
  <2>5. ~KC!RowWaits(d)'
    BY <2>4 DEF KC!RowWaits, KC!SameUnique, KC!IdOf
  <2> QED
    BY <2>3, <2>5
<1>6. FreshIdsAreUsedOnce'
  BY DEF FreshIdsAreUsedOnce, KC!TypeOK
<1> QED
  BY <1>1, <1>4, <1>5, <1>6, TablesUnchanged

\* A call ends without a write: what it returned is what its key already names.
LEMMA CallsEnd ==
  ASSUME CreateInv, NEW c \in Calls,
         NEW outcome \in KC!Ids \cup {"none", "conflict", "rejected"},
         KC!Finish(c, outcome), UNCHANGED <<request, keys, rows, told>>,
         outcome \in KC!Ids =>
           keys[KeyOf[c]] = [request |-> request[c], ref |-> outcome]
  PROVE  CreateInv'
<1> USE DEF CreateInv, KC!Finish
<1>1. KC!TypeOK'
  BY DEF KC!TypeOK, KC!Ids
<1>2. \A d \in Calls : /\ KC!Open(d)' => KC!Open(d) /\ createStage'[d] = createStage[d]
                       /\ createStage'[d] = "inserted" => createStage[d] = "inserted"
                       /\ KC!IdOf(d)' = KC!IdOf(d)
  BY DEF KC!TypeOK, KC!Open, KC!IdOf
<1>3. OpenCallsHoldKeys'
  BY <1>2 DEF OpenCallsHoldKeys
<1>4. InsertsDoNotClash'
  BY <1>2 DEF InsertsDoNotClash, KC!RowClash, KC!RowWaits, KC!SameUnique
<1>5. FreshIdsAreUsedOnce'
  BY DEF FreshIdsAreUsedOnce, KC!TypeOK
<1>6. RowsAreToldOnce'
  BY DEF RowsAreToldOnce, ToldOf
<1>7. KeysNameRows'
  <2>1. \A d \in Calls : answer'[d] \in KC!Ids =>
          keys[KeyOf[d]] = [request |-> request[d], ref |-> answer'[d]]
    BY DEF KeysNameRows, KC!TypeOK
  <2> QED
    BY <2>1 DEF KeysNameRows, KC!Ids
<1> QED
  BY <1>1, <1>3, <1>4, <1>5, <1>6, <1>7

\* A key that names a call's own fresh id, or the id its caller names, names an
\* order: nobody but a call itself uses its fresh id, and then it is done.
LEMMA OwnIdIsOrder ==
  ASSUME CreateInv, NEW c \in Calls, createStage[c] # "done",
         keys[KeyOf[c]] # NoKey, keys[KeyOf[c]].request = request[c],
         keys[KeyOf[c]].ref = KC!IdOf(c)
  PROVE  /\ request[c].command = "order"
         /\ keys[KeyOf[c]] = [request |-> request[c], ref |-> KC!IdOf(c)]
<1> DEFINE e == [request |-> request[c], id |-> KC!IdOf(c)]
<1>1. KeyOf[c] \in Keys
  BY CreateAssumption
<1>2. e \in rows
  BY <1>1 DEF CreateInv, KeysNameRows
<1>3. keys[KeyOf[c]] = [request |-> request[c], ref |-> KC!IdOf(c)]
  BY <1>1 DEF CreateInv, KC!TypeOK
<1>4. request[c].command # "order" => KC!IdOf(c) = c
  BY DEF KC!IdOf
<1>5. request[c].command # "order" => createStage[KC!IdOf(c)] = "done"
  BY <1>2 DEF CreateInv, FreshIdsAreUsedOnce
<1> QED
  BY <1>3, <1>4, <1>5

LEMMA CallsThatMove ==
  ASSUME CreateInv, NEW c \in Calls,
         KC!LookedUp(c) \/ KC!Reserve(c) \/ KC!ListMonitors(c) \/ KC!Insert(c)
  PROVE  CreateInv'
<1>1. CASE KC!LookedUp(c)
  <2>1. CallMoves(c, "lookedUp") /\ createStage[c] # "done"
    BY <1>1 DEF KC!LookedUp, CallMoves
  <2> QED
    BY <2>1, CallsMove
<1>2. CASE KC!Reserve(c)
  <2>1. CallMoves(c, "reserved") /\ createStage[c] # "done" /\ keys[KeyOf[c]] = NoKey
    BY <1>2 DEF KC!Reserve, CallMoves
  <2>2. \A d \in Calls \ {c} : ~(KC!Open(d) /\ KeyOf[d] = KeyOf[c])
    BY <1>2, <2>1 DEF KC!Reserve, KC!KeyWaits
  <2> QED
    BY <2>1, <2>2, CallsMove
<1>3. CASE KC!ListMonitors(c)
  <2>1. PICK s \in {"found", "listed"} : CallMoves(c, s)
    BY <1>3 DEF KC!ListMonitors, CallMoves
  <2>2. KC!Open(c) /\ createStage[c] # "done" /\ keys[KeyOf[c]] = NoKey
    BY <1>3 DEF KC!ListMonitors, KC!Open, CreateInv, OpenCallsHoldKeys
  <2>3. \A d \in Calls \ {c} :
          KC!Open(d) /\ KeyOf[d] = KeyOf[c] => keys[KeyOf[c]] # NoKey
    BY <2>2 DEF CreateInv, OpenCallsHoldKeys
  <2> QED
    BY <2>1, <2>2, <2>3, CallsMove
<1>4. CASE KC!Insert(c)
  <2>1. /\ CallMoves(c, "inserted") /\ ~KC!RowClash(c) /\ ~KC!RowWaits(c)
        /\ createStage[c] \in {"listed", "reserved"}
    BY <1>4 DEF KC!Insert, KC!ReadyToInsert, CallMoves
  <2>2. KC!Open(c) /\ createStage[c] # "done"
    BY <2>1 DEF KC!Open
  <2>3. keys[KeyOf[c]] = NoKey
    <3>1. SUFFICES ASSUME keys[KeyOf[c]] # NoKey PROVE FALSE
      OBVIOUS
    <3>2. keys[KeyOf[c]] = [request |-> request[c], ref |-> KC!IdOf(c)]
      BY <2>2, <3>1 DEF CreateInv, OpenCallsHoldKeys
    <3>3. KeyOf[c] \in Keys
      BY CreateAssumption
    <3>4. [request |-> request[c], id |-> KC!IdOf(c)] \in rows
      BY <3>1, <3>2, <3>3 DEF CreateInv, KeysNameRows
    <3> QED
      BY <2>1, <3>4 DEF KC!RowClash, KC!SameUnique
  <2>4. \A d \in Calls \ {c} : ~(KC!Open(d) /\ KeyOf[d] = KeyOf[c])
    BY <2>2, <2>3 DEF CreateInv, OpenCallsHoldKeys
  <2> QED
    BY <2>1, <2>2, <2>3, <2>4, CallsMove
<1> QED
  BY <1>1, <1>2, <1>3, <1>4

LEMMA CallsThatEnd ==
  ASSUME CreateInv, NEW c \in Calls,
         KC!Replay(c) \/ KC!ReservedAlready(c) \/ KC!InsertRejected(c) \/ KC!Refused(c)
  PROVE  CreateInv'
<1> DEFINE record == keys[KeyOf[c]]
<1>1. KeyOf[c] \in Keys
  BY CreateAssumption
<1>2. record # NoKey => record.ref \in KC!Ids
                        /\ record = [request |-> record.request, ref |-> record.ref]
  BY <1>1 DEF CreateInv, KC!TypeOK
<1>3. ASSUME record # NoKey, UNCHANGED <<request, keys, rows, told>>,
             KC!Finish(c, IF record.request = request[c] THEN record.ref ELSE "conflict")
      PROVE  CreateInv'
  <2>1. CASE record.request = request[c]
    BY <1>2, <1>3, <2>1, CallsEnd
  <2>2. CASE record.request # request[c]
    BY <1>3, <2>2, CallsEnd, CreateAssumption
  <2> QED
    BY <2>1, <2>2
<1>4. CASE KC!Replay(c)
  BY <1>3, <1>4 DEF KC!Replay
<1>5. CASE KC!ReservedAlready(c)
  <2>1. CASE record.request = request[c] /\ record.ref = KC!IdOf(c)
    <3>1. CallMoves(c, "reserved") /\ createStage[c] # "done" /\ record # NoKey
      BY <1>5, <2>1 DEF KC!ReservedAlready, CallMoves
    <3> QED
      BY <2>1, <3>1, OwnIdIsOrder, CallsMove
  <2>2. CASE ~(record.request = request[c] /\ record.ref = KC!IdOf(c))
    BY <1>3, <1>5, <2>2 DEF KC!ReservedAlready
  <2> QED
    BY <2>1, <2>2
<1>6. CASE KC!InsertRejected(c) \/ KC!Refused(c)
  <2>1. KC!Finish(c, "rejected") /\ UNCHANGED <<request, keys, rows, told>>
    BY <1>6 DEF KC!InsertRejected, KC!Refused
  <2> QED
    BY <2>1, CallsEnd, CreateAssumption
<1> QED
  BY <1>4, <1>5, <1>6

\* A transaction that holds its key commits it with id, which names a row: the
\* row it inserted, or one it found.
LEMMA KeysAreNamed ==
  ASSUME CreateInv, NEW c \in Calls, NEW id \in KC!Ids,
         KC!Open(c), keys[KeyOf[c]] = NoKey,
         keys' = [keys EXCEPT ![KeyOf[c]] = [request |-> request[c], ref |-> id]],
         KC!Finish(c, id), UNCHANGED request, rows \subseteq rows',
         [request |-> request[c], id |-> id] \in rows'
  PROVE  /\ \A d \in Calls : answer'[d] \in KC!Ids =>
              keys'[KeyOf[d]] = [request |-> request'[d], ref |-> answer'[d]]
         /\ \A k \in Keys : keys'[k] # NoKey =>
              [request |-> keys'[k].request, id |-> keys'[k].ref] \in rows'
         /\ \A k \in Keys : keys[k] # NoKey => keys'[k] = keys[k]
         /\ keys'[KeyOf[c]] = [request |-> request[c], ref |-> id]
         /\ keys' \in [Keys -> {NoKey} \cup [request : KC!Requests, ref : KC!Ids]]
         /\ OpenCallsHoldKeys'
<1> DEFINE record == [request |-> request[c], ref |-> id]
<1> USE DEF CreateInv
<1>1. KeyOf[c] \in Keys /\ KeyOf \in [Calls -> Keys]
  BY CreateAssumption
<1>2. /\ record \in [request : KC!Requests, ref : KC!Ids]
      /\ record.request = request[c] /\ record.ref = id
  BY IdsAreIds
<1>3. record # NoKey
  BY <1>2, CreateAssumption
<1> HIDE DEF record
<1>4. /\ keys' \in [Keys -> {NoKey} \cup [request : KC!Requests, ref : KC!Ids]]
      /\ keys'[KeyOf[c]] = record
      /\ \A k \in Keys \ {KeyOf[c]} : keys'[k] = keys[k]
  BY <1>1, <1>2 DEF KC!TypeOK, record
<1>5. \A k \in Keys : keys[k] # NoKey => keys'[k] = keys[k]
  BY <1>4
<1>6. ASSUME NEW d \in Calls, answer'[d] \in KC!Ids
      PROVE  keys'[KeyOf[d]] = [request |-> request'[d], ref |-> answer'[d]]
  <2>1. CASE d = c
    <3>1. answer'[c] = id
      BY DEF KC!Finish, KC!TypeOK
    <3> QED
      BY <1>4, <2>1, <3>1 DEF record
  <2>2. CASE d # c
    <3>1. answer'[d] = answer[d]
      BY <2>2 DEF KC!Finish, KC!TypeOK
    <3>2. keys[KeyOf[d]] = [request |-> request[d], ref |-> answer[d]]
      BY <1>6, <3>1 DEF KeysNameRows
    <3>3. [request |-> request[d], ref |-> answer[d]] # NoKey
      BY <1>6, <3>1, IdsAreIds, CreateAssumption
    <3> QED
      BY <1>1, <1>5, <3>1, <3>2, <3>3
  <2> QED
    BY <2>1, <2>2
<1>7. ASSUME NEW k \in Keys, keys'[k] # NoKey
      PROVE  [request |-> keys'[k].request, id |-> keys'[k].ref] \in rows'
  <2>1. CASE k = KeyOf[c]
    BY <1>2, <1>4, <2>1
  <2>2. CASE k # KeyOf[c]
    BY <1>4, <1>7, <2>2 DEF KeysNameRows
  <2> QED
    BY <2>1, <2>2
<1>8. \A d \in Calls : /\ KC!Open(d)' => KC!Open(d) /\ d # c /\ createStage'[d] = createStage[d]
                       /\ KC!IdOf(d)' = KC!IdOf(d)
  BY DEF KC!TypeOK, KC!Open, KC!IdOf, KC!Finish
<1>9. \A d \in Calls : KC!Open(d)' => KeyOf[d] # KeyOf[c]
  BY <1>8 DEF OpenCallsHoldKeys
<1>10. \A d \in Calls : KC!Open(d)' => keys'[KeyOf[d]] = keys[KeyOf[d]]
  BY <1>1, <1>4, <1>9
<1>11. OpenCallsHoldKeys'
  BY <1>8, <1>10 DEF OpenCallsHoldKeys
<1> QED
  BY <1>4, <1>5, <1>6, <1>7, <1>11 DEF record

LEMMA CallsThatFind ==
  ASSUME CreateInv, NEW c \in Calls, KC!CommitFound(c)
  PROVE  CreateInv'
<1> USE DEF CreateInv
<1>1. PICK e \in rows :
        /\ e.request = request[c]
        /\ keys' = [keys EXCEPT ![KeyOf[c]] = KC!Record(c, e.id)]
        /\ KC!Finish(c, e.id)
  BY DEF KC!CommitFound
<1>2. createStage[c] = "found" /\ UNCHANGED <<request, rows, told>>
  BY DEF KC!CommitFound
<1>3. KC!Open(c) /\ keys[KeyOf[c]] = NoKey
  BY <1>2 DEF KC!Open, OpenCallsHoldKeys
<1>4. e \in [request : KC!Requests, id : KC!Ids]
  BY DEF KC!TypeOK
<1>5. e.id \in KC!Ids /\ e = [request |-> request[c], id |-> e.id]
  BY <1>1, <1>4
<1>6. /\ keys' = [keys EXCEPT ![KeyOf[c]] = [request |-> request[c], ref |-> e.id]]
      /\ [request |-> request[c], id |-> e.id] \in rows'
  BY <1>1, <1>2, <1>5 DEF KC!Record
<1>7. /\ \A d \in Calls : answer'[d] \in KC!Ids =>
           keys'[KeyOf[d]] = [request |-> request'[d], ref |-> answer'[d]]
      /\ \A k \in Keys : keys'[k] # NoKey =>
           [request |-> keys'[k].request, id |-> keys'[k].ref] \in rows'
      /\ \A k \in Keys : keys[k] # NoKey => keys'[k] = keys[k]
      /\ keys' \in [Keys -> {NoKey} \cup [request : KC!Requests, ref : KC!Ids]]
      /\ OpenCallsHoldKeys'
  BY <1>1, <1>2, <1>3, <1>5, <1>6, KeysAreNamed
<1>8. KC!TypeOK'
  BY <1>1, <1>2, <1>5, <1>7 DEF KC!TypeOK, KC!Finish
<1>9. \A d \in Calls : /\ createStage'[d] = "inserted" => createStage[d] = "inserted"
                       /\ createStage[d] = "done" => createStage'[d] = "done"
                       /\ KC!IdOf(d)' = KC!IdOf(d)
  BY <1>1, <1>2 DEF KC!TypeOK, KC!IdOf, KC!Finish
<1>10. InsertsDoNotClash'
  BY <1>2, <1>9 DEF InsertsDoNotClash, KC!RowClash, KC!RowWaits, KC!SameUnique
<1>11. FreshIdsAreUsedOnce'
  BY <1>2, <1>9 DEF FreshIdsAreUsedOnce
<1>12. RowsAreToldOnce'
  BY <1>2 DEF RowsAreToldOnce, ToldOf
<1>13. KeysNameRows'
  <2>1. ASSUME NEW f \in rows
        PROVE  \E k \in Keys : keys'[k] = [request |-> f.request, ref |-> f.id]
    <3>1. PICK k \in Keys : keys[k] = [request |-> f.request, ref |-> f.id]
      BY DEF KeysNameRows
    <3>2. [request |-> f.request, ref |-> f.id] # NoKey
      BY CreateAssumption DEF KC!TypeOK
    <3> QED
      BY <1>7, <3>1, <3>2
  <2>2. \A f, g \in rows :
          f.request = g.request /\ f.request.command = "monitor" => f = g
    BY DEF KeysNameRows
  <2> QED
    BY <1>2, <1>7, <2>1, <2>2 DEF KeysNameRows, KC!Ids
<1> QED
  BY <1>7, <1>8, <1>10, <1>11, <1>12, <1>13

LEMMA CallsThatCreate ==
  ASSUME CreateInv, NEW c \in Calls, KC!CommitCreated(c)
  PROVE  CreateInv'
<1> USE DEF CreateInv
<1>0. PICK id, e, pair :
        /\ id = KC!IdOf(c)
        /\ e = [request |-> request[c], id |-> id]
        /\ pair = [by |-> c, command |-> request[c].command, id |-> id]
  OBVIOUS
<1>1. /\ createStage[c] = "inserted"
      /\ keys' = [keys EXCEPT ![KeyOf[c]] = [request |-> request[c], ref |-> id]]
      /\ rows' = rows \cup {e}
      /\ told' = told \cup {pair}
      /\ KC!Finish(c, id)
      /\ UNCHANGED request
  BY <1>0 DEF KC!CommitCreated, KC!Record, KC!Row, KC!Told
<1>2. KC!Open(c) /\ keys[KeyOf[c]] = NoKey
  BY <1>1 DEF KC!Open, OpenCallsHoldKeys
<1>3. id \in KC!Ids /\ request[c] \in KC!Requests
  BY <1>0, IdsAreIds
<1>4. /\ e \in [request : KC!Requests, id : KC!Ids]
      /\ pair \in [by : Calls, command : {"action", "order", "monitor"}, id : KC!Ids]
      /\ pair.command = request[c].command /\ pair.id = id
      /\ e.request = request[c] /\ e.id = id
  BY <1>0, <1>3 DEF KC!Requests
<1>5. \A f \in rows : ~KC!SameUnique(request[c], id, f.request, f.id)
  BY <1>0, <1>1 DEF InsertsDoNotClash, KC!RowClash
<1>6. \A d \in Calls \ {c} : createStage[d] = "inserted" =>
        ~KC!SameUnique(request[d], KC!IdOf(d), request[c], id)
  BY <1>0, <1>1 DEF InsertsDoNotClash, KC!RowWaits
<1>7. request[c].command # "order" => id = c
  BY <1>0 DEF KC!IdOf
<1>8. e \in rows' /\ e = [request |-> request[c], id |-> id] /\ rows \subseteq rows'
  BY <1>0, <1>1
<1>9. /\ \A d \in Calls : answer'[d] \in KC!Ids =>
           keys'[KeyOf[d]] = [request |-> request'[d], ref |-> answer'[d]]
      /\ \A k \in Keys : keys'[k] # NoKey =>
           [request |-> keys'[k].request, id |-> keys'[k].ref] \in rows'
      /\ \A k \in Keys : keys[k] # NoKey => keys'[k] = keys[k]
      /\ keys'[KeyOf[c]] = [request |-> request[c], ref |-> id]
      /\ keys' \in [Keys -> {NoKey} \cup [request : KC!Requests, ref : KC!Ids]]
      /\ OpenCallsHoldKeys'
  BY <1>1, <1>2, <1>3, <1>8, KeysAreNamed
<1>10. KC!TypeOK'
  BY <1>1, <1>3, <1>4, <1>9 DEF KC!TypeOK, KC!Finish
<1>11. /\ \A d \in Calls : /\ createStage'[d] = "inserted" => createStage[d] = "inserted" /\ d # c
                           /\ createStage[d] = "done" => createStage'[d] = "done"
                           /\ KC!IdOf(d)' = KC!IdOf(d)
       /\ createStage'[c] = "done"
  BY <1>1 DEF KC!TypeOK, KC!IdOf, KC!Finish
<1>12. InsertsDoNotClash'
  <2>1. SUFFICES ASSUME NEW d \in Calls, createStage'[d] = "inserted"
                 PROVE  ~KC!RowClash(d)' /\ ~KC!RowWaits(d)'
    BY DEF InsertsDoNotClash
  <2>2. createStage[d] = "inserted" /\ d # c
    BY <1>11, <2>1
  <2>3. ~KC!RowClash(d) /\ ~KC!RowWaits(d)
    BY <2>2 DEF InsertsDoNotClash
  <2>4. ~KC!SameUnique(request[d], KC!IdOf(d), e.request, e.id)
    BY <1>4, <1>6, <2>2
  <2>5. ~KC!RowClash(d)'
    BY <1>1, <1>11, <2>3, <2>4 DEF KC!RowClash, KC!SameUnique
  <2>6. ~KC!RowWaits(d)'
    BY <1>1, <1>11, <2>3 DEF KC!RowWaits, KC!SameUnique
  <2> QED
    BY <2>5, <2>6
<1>13. FreshIdsAreUsedOnce'
  BY <1>1, <1>4, <1>7, <1>11 DEF FreshIdsAreUsedOnce
<1>14. RowsAreToldOnce'
  <2>1. \A f \in rows : ~(f.request.command = pair.command /\ f.id = pair.id)
    BY <1>4, <1>5 DEF KC!SameUnique
  <2>2. ASSUME NEW f \in rows PROVE \E t : ToldOf(f)' = {t}
    <3>1. PICK t : ToldOf(f) = {t}
      BY DEF RowsAreToldOnce
    <3>2. ToldOf(f)' = ToldOf(f)
      BY <1>1, <2>1 DEF ToldOf
    <3> QED
      BY <3>1, <3>2
  <2>3. ToldOf(e)' = {pair}
    <3>1. \A t \in told : ~(t.command = e.request.command /\ t.id = e.id)
      BY <1>4, <2>1 DEF RowsAreToldOnce
    <3> QED
      BY <1>1, <1>4, <3>1 DEF ToldOf
  <2>4. \A t \in told' : \E f \in rows' : t.command = f.request.command /\ t.id = f.id
    BY <1>1, <1>4, <1>8 DEF RowsAreToldOnce
  <2>5. \A f \in rows' : \E t : ToldOf(f)' = {t}
    BY <1>1, <2>2, <2>3
  <2> QED
    BY <2>4, <2>5 DEF RowsAreToldOnce
<1>15. KeysNameRows'
  <2>1. ASSUME NEW f \in rows
        PROVE  \E k \in Keys : keys'[k] = [request |-> f.request, ref |-> f.id]
    <3>1. PICK k \in Keys : keys[k] = [request |-> f.request, ref |-> f.id]
      BY DEF KeysNameRows
    <3>2. [request |-> f.request, ref |-> f.id] # NoKey
      BY CreateAssumption DEF KC!TypeOK
    <3> QED
      BY <1>9, <3>1, <3>2
  <2>2. \E k \in Keys : keys'[k] = [request |-> e.request, ref |-> e.id]
    BY <1>4, <1>9, CreateAssumption
  <2>3. \A f, g \in rows :
          f.request = g.request /\ f.request.command = "monitor" => f = g
    BY DEF KeysNameRows
  <2>4. \A f \in rows : ~(f.request = e.request /\ e.request.command = "monitor")
    BY <1>4, <1>5 DEF KC!SameUnique
  <2>5. \A f \in rows' : \E k \in Keys : keys'[k] = [request |-> f.request, ref |-> f.id]
    BY <1>1, <2>1, <2>2
  <2>6. \A f, g \in rows' :
          f.request = g.request /\ f.request.command = "monitor" => f = g
    BY <1>1, <2>3, <2>4
  <2> QED
    BY <1>9, <2>5, <2>6 DEF KeysNameRows, KC!Ids
<1> QED
  BY <1>9, <1>10, <1>12, <1>13, <1>14, <1>15

LEMMA CreateStep == CreateInv /\ [KC!Next]_(KC!vars) => CreateInv'
<1> SUFFICES ASSUME CreateInv, [KC!Next]_(KC!vars) PROVE CreateInv'
  OBVIOUS
<1>1. CASE UNCHANGED KC!vars
  <2>1. UNCHANGED <<request, createStage, keys, rows, told, answer>>
    BY <1>1 DEF KC!vars
  <2>2. KC!TypeOK'
    BY <2>1 DEF CreateInv, KC!TypeOK, KC!Ids, KC!Requests
  <2>3. OpenCallsHoldKeys'
    BY <2>1 DEF CreateInv, OpenCallsHoldKeys, KC!Open, KC!IdOf
  <2>4. InsertsDoNotClash'
    BY <2>1 DEF CreateInv, InsertsDoNotClash, KC!RowClash, KC!RowWaits, KC!SameUnique,
                KC!IdOf
  <2>5. FreshIdsAreUsedOnce' /\ RowsAreToldOnce' /\ KeysNameRows'
    BY <2>1, TablesUnchanged DEF CreateInv, FreshIdsAreUsedOnce
  <2> QED
    BY <2>2, <2>3, <2>4, <2>5 DEF CreateInv
<1>2. ASSUME NEW c \in Calls,
             \/ KC!LookedUp(c) \/ KC!Reserve(c) \/ KC!ListMonitors(c) \/ KC!Insert(c)
             \/ KC!Replay(c) \/ KC!ReservedAlready(c)
             \/ KC!InsertRejected(c) \/ KC!Refused(c)
      PROVE  CreateInv'
  BY <1>2, CallsThatMove, CallsThatEnd
<1>3. ASSUME NEW c \in Calls, KC!CommitCreated(c) \/ KC!CommitFound(c) PROVE CreateInv'
  BY <1>3, CallsThatCreate, CallsThatFind
<1> QED
  BY <1>1, <1>2, <1>3 DEF KC!Next

LEMMA CreateInvImplies == CreateInv => KC!KeyNamesOneResult
<1> SUFFICES ASSUME CreateInv PROVE KC!KeyNamesOneResult
  OBVIOUS
<1>1. ASSUME NEW e \in rows
      PROVE  \E t \in told :
               {u \in told : u.command = e.request.command /\ u.id = e.id} = {t}
  <2>1. PICK t : ToldOf(e) = {t}
    BY DEF CreateInv, RowsAreToldOnce
  <2>2. t \in told
    BY <2>1 DEF ToldOf
  <2> QED
    BY <2>1, <2>2 DEF ToldOf
<1> QED
  BY <1>1 DEF CreateInv, KeysNameRows, KC!KeyNamesOneResult

\* Whatever calls race under whatever keys, a key stands for one stored result of
\* its own request, whoever was answered under it was given that result, what was
\* created was announced once, and a thing has one monitor: reserve and the
\* unique constraints, waiting for each other's transactions, carry the four
\* create commands.
THEOREM CreatesHappenOnce == KC!Spec => []KeyNamesOneResult
<1>1. KC!Init => CreateInv
  BY CreateInitial
<1>2. CreateInv /\ [KC!Next]_(KC!vars) => CreateInv'
  BY CreateStep
<1>3. CreateInv => KC!KeyNamesOneResult
  BY CreateInvImplies
<1> QED
  BY <1>1, <1>2, <1>3, PTL DEF KC!Spec, KeyNamesOneResult

-----------------------------------------------------------------------------
(* MigrationLedger: the ledger lists what was executed *)

Begins(s, t) == Len(s) <= Len(t) /\ \A i \in 1..Len(s) : s[i] = t[i]

\* What was executed when the ledger has these entries.
Executed(entries, wasAdopted) ==
  IF wasAdopted THEN born \o SubSeq(entries, ML!Baseline + 1, Len(entries))
                ELSE born \o entries

Transacting(r) == phase[r] \in {"locked", "applying"}

LedgerTyped ==
  /\ born \in Seq(ML!Contents) /\ schema \in Seq(ML!Contents) /\ migrations \in Seq(ML!Contents)
  /\ phase \in [Runners -> {"idle", "locked", "applying", "applied", "adopted", "refused"}]
  /\ work \in [Runners -> [schema : Seq(ML!Contents), ledger : Seq(ML!Contents)]]
  /\ adopted \in BOOLEAN

LedgerIsExecuted ==
  /\ adopted => ML!Baseline <= Len(migrations)
  /\ schema = Executed(migrations, adopted)

\* The holder of the lock has read what is committed and goes on from there.
HolderGoesOn ==
  \A r \in Runners :
    /\ Transacting(r) =>
         /\ holder = r
         /\ Begins(migrations, work[r].ledger)
         /\ work[r].schema = Executed(work[r].ledger, adopted)
    /\ phase[r] = "locked" => work[r] = [schema |-> schema, ledger |-> migrations]

AppliedPlansBegin ==
  \A r \in Runners : phase[r] = "applied" => Begins(PlanOf[r], migrations)

LedgerInv == LedgerTyped /\ LedgerIsExecuted /\ HolderGoesOn /\ AppliedPlansBegin

LEMMA BeginsIsSubSeq ==
  ASSUME NEW S, NEW s \in Seq(S), NEW t \in Seq(S), Begins(s, t)
  PROVE  SubSeq(t, 1, Len(s)) = s
<1>1. Len(s) \in Nat /\ Len(t) \in Nat /\ \A i \in 1..Len(s) : t[i] \in S
  <2>1. \A i \in 1..Len(t) : t[i] \in S
    BY ElementOfSeq
  <2>2. Len(s) \in Nat /\ Len(t) \in Nat
    BY LenProperties
  <2> QED
    BY <2>1, <2>2 DEF Begins
<1>2. /\ SubSeq(t, 1, Len(s)) \in Seq(S)
      /\ Len(SubSeq(t, 1, Len(s))) = IF 1 <= Len(s) THEN Len(s) - 1 + 1 ELSE 0
      /\ \A i \in 1..(Len(s) - 1 + 1) : SubSeq(t, 1, Len(s))[i] = t[1 + i - 1]
  BY <1>1, SubSeqProperties
<1>3. Len(SubSeq(t, 1, Len(s))) = Len(s)
  BY <1>1, <1>2
<1>4. \A i \in 1..Len(s) : SubSeq(t, 1, Len(s))[i] = s[i]
  BY <1>1, <1>2 DEF Begins
<1> QED
  BY <1>2, <1>3, <1>4, SeqEqual

\* A migration that is executed and entered keeps the two together.
LEMMA ExecutedAppend ==
  ASSUME LedgerTyped, NEW entries \in Seq(ML!Contents),
         NEW content \in ML!Contents, NEW wasAdopted \in BOOLEAN,
         wasAdopted => ML!Baseline <= Len(entries)
  PROVE  Executed(Append(entries, content), wasAdopted)
           = Append(Executed(entries, wasAdopted), content)
<1> DEFINE longer == Append(entries, content)
           b == ML!Baseline
<1>1. b \in Nat /\ Len(entries) \in Nat
  BY LenProperties, LedgerAssumption DEF ML!Baseline
<1>2. /\ longer \in Seq(ML!Contents) /\ Len(longer) = Len(entries) + 1
      /\ \A i \in 1..Len(entries) : longer[i] = entries[i]
      /\ longer[Len(entries) + 1] = content
      /\ longer = entries \o <<content>>
  BY AppendProperties, AppendIsConcat
<1>3. <<content>> \in Seq(ML!Contents)
  OBVIOUS
<1> HIDE DEF b, longer
<1>4. CASE ~wasAdopted
  <2>1. born \o longer = (born \o entries) \o <<content>>
    BY <1>2, <1>3, ConcatAssociative DEF LedgerTyped
  <2>2. born \o entries \in Seq(ML!Contents)
    BY ConcatProperties DEF LedgerTyped
  <2>3. (born \o entries) \o <<content>> = Append(born \o entries, content)
    BY <2>2, AppendIsConcat
  <2> QED
    BY <1>4, <2>1, <2>3 DEF Executed, longer
<1>5. CASE wasAdopted
  <2> DEFINE tail == SubSeq(entries, b + 1, Len(entries))
  <2>1. b + 1 \in 1..Len(longer) /\ Len(longer) \in (b + 1)..Len(longer)
    BY <1>1, <1>2, <1>5 DEF b
  <2>2. SubSeq(longer, b + 1, Len(longer))
          = SubSeq(longer, b + 1, Len(longer) - 1) \o <<longer[Len(longer)]>>
    BY <1>2, <2>1, SubSeqRecursiveSecond
  <2>3. SubSeq(longer, b + 1, Len(entries)) = tail
    <3>1. \A i \in (b + 1)..Len(entries) :
            longer[i] \in ML!Contents /\ entries[i] \in ML!Contents /\ longer[i] = entries[i]
      <4>1. \A i \in 1..Len(entries) : entries[i] \in ML!Contents
        BY ElementOfSeq
      <4> QED
        BY <1>1, <1>2, <4>1
    <3>2. /\ SubSeq(longer, b + 1, Len(entries)) \in Seq(ML!Contents)
          /\ Len(SubSeq(longer, b + 1, Len(entries)))
               = IF b + 1 <= Len(entries) THEN Len(entries) - (b + 1) + 1 ELSE 0
          /\ \A i \in 1..(Len(entries) - (b + 1) + 1) :
               SubSeq(longer, b + 1, Len(entries))[i] = longer[b + 1 + i - 1]
      BY <1>1, <3>1, SubSeqProperties
    <3>3. /\ tail \in Seq(ML!Contents)
          /\ Len(tail) = IF b + 1 <= Len(entries) THEN Len(entries) - (b + 1) + 1 ELSE 0
          /\ \A i \in 1..(Len(entries) - (b + 1) + 1) : tail[i] = entries[b + 1 + i - 1]
      BY <1>1, <3>1, SubSeqProperties
    <3> HIDE DEF tail
    <3>4. \A i \in 1..Len(tail) : SubSeq(longer, b + 1, Len(entries))[i] = tail[i]
      BY <1>1, <3>1, <3>2, <3>3
    <3> QED
      BY <3>2, <3>3, <3>4, SeqEqual
  <2>4. tail \in Seq(ML!Contents)
    <3>1. \A i \in (b + 1)..Len(entries) : entries[i] \in ML!Contents
      BY <1>1, ElementOfSeq
    <3> QED
      BY <1>1, <3>1, SubSeqProperties
  <2> HIDE DEF tail
  <2>5. SubSeq(longer, b + 1, Len(longer)) = tail \o <<content>>
    <3>1. Len(longer) - 1 = Len(entries) /\ longer[Len(longer)] = content
      BY <1>1, <1>2
    <3> QED
      BY <2>2, <2>3, <3>1
  <2>6. born \o (tail \o <<content>>) = (born \o tail) \o <<content>>
    BY <1>3, <2>4, ConcatAssociative DEF LedgerTyped
  <2>7. born \o tail \in Seq(ML!Contents)
    BY <2>4, ConcatProperties DEF LedgerTyped
  <2>8. (born \o tail) \o <<content>> = Append(born \o tail, content)
    BY <2>7, AppendIsConcat
  <2> QED
    BY <1>5, <2>5, <2>6, <2>8 DEF Executed, tail, b, longer
<1> QED
  BY <1>4, <1>5

\* Entries for the baseline alone, or none, mean that nothing was executed.
LEMMA NothingExecuted ==
  ASSUME LedgerTyped, NEW entries \in Seq(ML!Contents),
         NEW wasAdopted \in BOOLEAN,
         entries = <<>> \/ (wasAdopted /\ Len(entries) = ML!Baseline)
  PROVE  Executed(entries, wasAdopted) = born
<1>1. ML!Baseline \in Nat /\ Len(entries) \in Nat
  BY LenProperties, LedgerAssumption DEF ML!Baseline
<1>2. Len(entries) < ML!Baseline + 1 \/ entries = <<>>
  BY <1>1
<1>3. entries = <<>> => Len(entries) = 0
  BY EmptySeq
<1>4. Len(entries) < ML!Baseline + 1
  BY <1>1, <1>2, <1>3
<1>5. SubSeq(entries, ML!Baseline + 1, Len(entries)) = <<>>
  BY <1>1, <1>4, SubSeqEmpty
<1>6. born \o <<>> = born
  BY ConcatEmptySeq DEF LedgerTyped
<1>7. CASE wasAdopted
  BY <1>5, <1>6, <1>7 DEF Executed
<1>8. CASE entries = <<>> /\ ~wasAdopted
  BY <1>6, <1>8 DEF Executed
<1> QED
  BY <1>7, <1>8

LEMMA LedgerInitial == ML!Init => LedgerInv
<1> SUFFICES ASSUME ML!Init PROVE LedgerInv
  OBVIOUS
<1>1. <<>> \in Seq(ML!Contents)
  BY EmptySeq
<1>2. LedgerTyped
  BY <1>1, LedgerAssumption DEF ML!Init, LedgerTyped
<1>3. LedgerIsExecuted
  BY <1>1, <1>2, NothingExecuted DEF ML!Init, LedgerIsExecuted
<1> QED
  BY <1>2, <1>3 DEF ML!Init, LedgerInv, HolderGoesOn, AppliedPlansBegin, Transacting

\* Nobody but the holder of the lock is in a transaction.
LEMMA OneTransacts ==
  ASSUME HolderGoesOn, NEW q \in Runners, NEW r \in Runners,
         Transacting(q), Transacting(r) \/ holder = r
  PROVE  q = r
BY DEF HolderGoesOn

LEMMA RunnerBegins ==
  ASSUME LedgerInv, NEW r \in Runners, ML!Begin(r) PROVE LedgerInv'
<1> USE DEF LedgerInv
<1>1. /\ holder = NoRunner /\ holder' = r
      /\ work' = [work EXCEPT ![r] = [schema |-> schema, ledger |-> migrations]]
      /\ phase' = [phase EXCEPT ![r] = "locked"]
      /\ UNCHANGED <<born, schema, migrations, adopted>>
  BY DEF ML!Begin
<1>2. \A q \in Runners : ~Transacting(q)
  BY <1>1, LedgerAssumption DEF HolderGoesOn
<1>3. LedgerTyped'
  BY <1>1 DEF LedgerTyped
<1>4. LedgerIsExecuted'
  BY <1>1 DEF LedgerIsExecuted, Executed
<1>5. \A q \in Runners : Transacting(q)' => q = r
  BY <1>1, <1>2 DEF Transacting, LedgerTyped
<1>6. work'[r] = [schema |-> schema, ledger |-> migrations] /\ Begins(migrations, migrations)
  <2>1. Len(migrations) \in Nat
    BY LenProperties DEF LedgerTyped
  <2> QED
    BY <1>1, <2>1 DEF LedgerTyped, Begins
<1>7. HolderGoesOn'
  <2>1. work'[r].schema = schema /\ work'[r].ledger = migrations
    BY <1>6
  <2>2. work'[r].schema = Executed(work'[r].ledger, adopted)
    BY <2>1 DEF LedgerIsExecuted
  <2>3. Executed(work'[r].ledger, adopted) = Executed(work[r].ledger, adopted)'
    BY <1>1 DEF Executed
  <2>4. work'[r] = [schema |-> schema', ledger |-> migrations']
    BY <1>1, <1>6
  <2>5. ASSUME NEW q \in Runners, Transacting(q)'
        PROVE  /\ holder' = q
               /\ Begins(migrations, work[q].ledger)'
               /\ work'[q].schema = Executed(work[q].ledger, adopted)'
    BY <1>1, <1>5, <1>6, <2>1, <2>2, <2>3, <2>5 DEF Begins
  <2>6. ASSUME NEW q \in Runners, phase'[q] = "locked"
        PROVE  work'[q] = [schema |-> schema', ledger |-> migrations']
    BY <1>5, <2>4, <2>6 DEF Transacting
  <2> QED
    BY <2>5, <2>6 DEF HolderGoesOn
<1>8. AppliedPlansBegin'
  BY <1>1 DEF AppliedPlansBegin, LedgerTyped
<1> QED
  BY <1>3, <1>4, <1>7, <1>8

LEMMA RunnerApplies ==
  ASSUME LedgerInv, NEW r \in Runners, ML!ApplyNext(r) PROVE LedgerInv'
<1> USE DEF LedgerInv
<1>1. PICK w \in [schema : Seq(ML!Contents), ledger : Seq(ML!Contents)] : w = work[r]
  BY DEF LedgerTyped
<1>2. PICK n : n = Len(w.ledger) + 1
  OBVIOUS
<1>3. PICK content : content = PlanOf[r][n]
  OBVIOUS
<1>4. /\ Transacting(r) /\ n <= Len(PlanOf[r])
      /\ work' = [work EXCEPT ![r] = [schema |-> Append(w.schema, content),
                                      ledger |-> Append(w.ledger, content)]]
      /\ phase' = [phase EXCEPT ![r] = "applying"]
      /\ UNCHANGED <<born, schema, migrations, holder, adopted>>
  BY <1>1, <1>2, <1>3 DEF ML!ApplyNext, Transacting
<1>5. Len(w.ledger) \in Nat /\ content \in ML!Contents
  <2>1. PlanOf[r] \in Seq(ML!Contents)
    BY LedgerAssumption
  <2>2. Len(w.ledger) \in Nat /\ Len(PlanOf[r]) \in Nat
    BY <2>1, LenProperties
  <2>3. n \in 1..Len(PlanOf[r])
    BY <1>2, <1>4, <2>2
  <2> QED
    BY <1>3, <2>1, <2>2, <2>3, ElementOfSeq
<1>6. PICK next \in [schema : Seq(ML!Contents), ledger : Seq(ML!Contents)] :
        /\ next = [schema |-> Append(w.schema, content), ledger |-> Append(w.ledger, content)]
        /\ next.schema = Append(w.schema, content) /\ next.ledger = Append(w.ledger, content)
  <2>1. Append(w.schema, content) \in Seq(ML!Contents)
    BY <1>5, AppendProperties
  <2>2. Append(w.ledger, content) \in Seq(ML!Contents)
    BY <1>5, AppendProperties
  <2>3. PICK s, l : s = Append(w.schema, content) /\ l = Append(w.ledger, content)
    OBVIOUS
  <2>4. [schema |-> s, ledger |-> l] \in [schema : Seq(ML!Contents), ledger : Seq(ML!Contents)]
    BY <2>1, <2>2, <2>3
  <2> QED
    BY <2>3, <2>4
<1>7. LedgerTyped'
  BY <1>4, <1>6 DEF LedgerTyped
<1>8. LedgerIsExecuted'
  BY <1>4 DEF LedgerIsExecuted, Executed
<1>9. /\ Begins(migrations, w.ledger) /\ w.schema = Executed(w.ledger, adopted) /\ holder = r
  BY <1>1, <1>4 DEF HolderGoesOn
<1>10. Len(migrations) \in Nat
  BY LenProperties DEF LedgerTyped
<1>11. adopted => ML!Baseline <= Len(w.ledger)
  <2>1. ML!Baseline \in Nat
    BY LenProperties, LedgerAssumption DEF ML!Baseline
  <2> QED
    BY <1>5, <1>9, <1>10, <2>1 DEF LedgerIsExecuted, Begins
<1>12. next.schema = Executed(next.ledger, adopted)
  <2>1. w.ledger \in Seq(ML!Contents) /\ adopted \in BOOLEAN
    BY DEF LedgerTyped
  <2> QED
    BY <1>5, <1>6, <1>9, <1>11, <2>1, ExecutedAppend
<1>13. Begins(migrations, next.ledger)
  <2>1. /\ Len(next.ledger) = Len(w.ledger) + 1
        /\ \A i \in 1..Len(w.ledger) : next.ledger[i] = w.ledger[i]
    BY <1>5, <1>6, AppendProperties
  <2>2. Len(migrations) <= Len(w.ledger) /\ \A i \in 1..Len(migrations) : migrations[i] = w.ledger[i]
    BY <1>9 DEF Begins
  <2>3. Len(migrations) <= Len(next.ledger)
    BY <1>5, <1>10, <2>1, <2>2
  <2>4. \A i \in 1..Len(migrations) : i \in 1..Len(w.ledger)
    BY <1>5, <1>10, <2>2
  <2> QED
    BY <2>1, <2>2, <2>3, <2>4 DEF Begins
<1>14. \A q \in Runners : Transacting(q)' => q = r
  BY <1>4, <1>9, OneTransacts DEF Transacting, LedgerTyped
<1>15. work'[r] = next /\ phase'[r] = "applying"
  BY <1>4, <1>6 DEF LedgerTyped
<1>16. HolderGoesOn'
  <2>1. Executed(next.ledger, adopted) = Executed(work[r].ledger, adopted)'
    <3>1. work'[r].ledger = next.ledger /\ born' = born /\ adopted' = adopted
      BY <1>4, <1>15
    <3> QED
      BY <3>1, Zenon DEF Executed
  <2>2. ASSUME NEW q \in Runners, Transacting(q)'
        PROVE  /\ holder' = q
               /\ Begins(migrations, work[q].ledger)'
               /\ work'[q].schema = Executed(work[q].ledger, adopted)'
    BY <1>4, <1>9, <1>12, <1>13, <1>14, <1>15, <2>1, <2>2 DEF Begins
  <2>3. \A q \in Runners : phase'[q] # "locked"
    BY <1>14, <1>15 DEF Transacting
  <2> QED
    BY <2>2, <2>3 DEF HolderGoesOn
<1>17. AppliedPlansBegin'
  BY <1>4 DEF AppliedPlansBegin, LedgerTyped
<1> QED
  BY <1>7, <1>8, <1>16, <1>17

\* A transaction ends: with what its runner did to the tables, or with nothing.
LEMMA RunnerEnds ==
  ASSUME LedgerInv, NEW r \in Runners,
         NEW how \in {"applied", "adopted", "refused"},
         Transacting(r), ML!End(r, how), UNCHANGED born,
         schema' \in Seq(ML!Contents), migrations' \in Seq(ML!Contents),
         adopted' \in BOOLEAN, LedgerIsExecuted',
         \A q \in Runners : Begins(PlanOf[q], migrations) => Begins(PlanOf[q], migrations'),
         how = "applied" => Begins(PlanOf[r], migrations')
  PROVE  LedgerInv'
<1> USE DEF LedgerInv, ML!End
<1>1. LedgerTyped'
  <2>1. <<>> \in Seq(ML!Contents)
    BY EmptySeq
  <2> QED
    BY <2>1 DEF LedgerTyped
<1>2. \A q \in Runners : ~Transacting(q)'
  BY OneTransacts DEF Transacting, LedgerTyped
<1>3. HolderGoesOn'
  BY <1>2 DEF HolderGoesOn, Transacting
<1>4. AppliedPlansBegin'
  BY DEF AppliedPlansBegin, LedgerTyped
<1> QED
  BY <1>1, <1>3, <1>4

LEMMA RunnerSucceeds ==
  ASSUME LedgerInv, NEW r \in Runners, ML!Applied(r) PROVE LedgerInv'
<1> USE DEF LedgerInv
<1>1. PICK w \in [schema : Seq(ML!Contents), ledger : Seq(ML!Contents)] : w = work[r]
  BY DEF LedgerTyped
<1>2. /\ Transacting(r) /\ ML!Agrees(PlanOf[r], w.ledger)
      /\ Len(w.ledger) = Len(PlanOf[r])
      /\ schema' = w.schema /\ migrations' = w.ledger
      /\ ML!End(r, "applied")
      /\ UNCHANGED <<born, adopted>>
  BY <1>1 DEF ML!Applied, Transacting
<1>3. Begins(migrations, w.ledger) /\ w.schema = Executed(w.ledger, adopted)
  BY <1>1, <1>2 DEF HolderGoesOn
<1>4. Len(migrations) \in Nat /\ Len(w.ledger) \in Nat /\ ML!Baseline \in Nat
  BY LenProperties, LedgerAssumption DEF LedgerTyped, ML!Baseline
<1>5. LedgerIsExecuted'
  BY <1>2, <1>3, <1>4 DEF LedgerIsExecuted, Executed, Begins
<1>6. ASSUME NEW q \in Runners, Begins(PlanOf[q], migrations) PROVE Begins(PlanOf[q], migrations')
  <2>1. Len(PlanOf[q]) \in Nat
    BY LenProperties, LedgerAssumption
  <2> QED
    BY <1>2, <1>3, <1>4, <1>6, <2>1 DEF Begins
<1>7. Begins(PlanOf[r], migrations')
  <2>1. DOMAIN w.ledger = 1..Len(w.ledger)
    BY LenProperties
  <2> QED
    BY <1>2, <1>4, <2>1 DEF Begins, ML!Agrees
<1>8. schema' \in Seq(ML!Contents) /\ migrations' \in Seq(ML!Contents) /\ adopted' \in BOOLEAN
  BY <1>2 DEF LedgerTyped
<1> QED
  BY <1>2, <1>5, <1>6, <1>7, <1>8, RunnerEnds

LEMMA RunnerAdopts ==
  ASSUME LedgerInv, NEW r \in Runners, ML!Adopt(r) PROVE LedgerInv'
<1> USE DEF LedgerInv
<1> DEFINE b == ML!Baseline
<1>1. /\ phase[r] = "locked" /\ work[r].ledger = <<>>
      /\ Len(PlanOf[r]) >= b
      /\ migrations' = SubSeq(PlanOf[r], 1, b)
      /\ adopted' = TRUE
      /\ ML!End(r, "adopted")
      /\ UNCHANGED <<born, schema>>
  BY DEF ML!Adopt
<1>2. work[r] = [schema |-> schema, ledger |-> migrations]
  BY <1>1 DEF HolderGoesOn
<1>3. migrations = <<>> /\ Transacting(r)
  BY <1>1, <1>2 DEF Transacting
<1>4. b \in Nat /\ Len(PlanOf[r]) \in Nat
  BY LenProperties, LedgerAssumption DEF ML!Baseline
<1>5. \A i \in 1..b : PlanOf[r][i] \in ML!Contents
  <2>1. PlanOf[r] \in Seq(ML!Contents)
    BY LedgerAssumption
  <2>2. \A i \in 1..Len(PlanOf[r]) : PlanOf[r][i] \in ML!Contents
    BY <2>1, ElementOfSeq
  <2> QED
    BY <1>1, <1>4, <2>2
<1> HIDE DEF b
<1>6. migrations' \in Seq(ML!Contents) /\ Len(migrations') = b
  <2>1. /\ SubSeq(PlanOf[r], 1, b) \in Seq(ML!Contents)
        /\ Len(SubSeq(PlanOf[r], 1, b)) = IF 1 <= b THEN b - 1 + 1 ELSE 0
    BY <1>4, <1>5, SubSeqProperties
  <2> QED
    BY <1>1, <1>4, <2>1
<1>7. schema = born
  BY <1>3, NothingExecuted, EmptySeq DEF LedgerIsExecuted, LedgerTyped
<1>8. PICK entries \in Seq(ML!Contents) : entries = migrations'
  BY <1>6
<1>9. Executed(entries, TRUE) = born
  BY <1>6, <1>8, NothingExecuted DEF b
<1>10. LedgerIsExecuted'
  <2>1. schema' = Executed(entries, TRUE)
    BY <1>1, <1>7, <1>9
  <2>2. Executed(entries, TRUE) = born \o SubSeq(entries, ML!Baseline + 1, Len(entries))
    BY DEF Executed
  <2>3. schema' = Executed(migrations, adopted)'
    BY <1>1, <1>8, <2>1, <2>2 DEF Executed
  <2>4. ML!Baseline <= Len(migrations')
    BY <1>4, <1>6 DEF b
  <2> QED
    BY <2>3, <2>4 DEF LedgerIsExecuted
<1>11. ASSUME NEW q \in Runners, Begins(PlanOf[q], migrations) PROVE Begins(PlanOf[q], migrations')
  <2>1. Len(PlanOf[q]) \in Nat /\ Len(migrations) = 0
    BY <1>3, LenProperties, EmptySeq, LedgerAssumption
  <2> QED
    BY <1>4, <1>6, <1>11, <2>1 DEF Begins
<1>12. schema' \in Seq(ML!Contents) /\ adopted' \in BOOLEAN
  BY <1>1 DEF LedgerTyped
<1> QED
  BY <1>1, <1>3, <1>6, <1>10, <1>11, <1>12, RunnerEnds

LEMMA RunnerGivesUp ==
  ASSUME LedgerInv, NEW r \in Runners,
         ML!ApplyRefused(r) \/ ML!AdoptRefused(r) \/ ML!Abort(r)
  PROVE  LedgerInv'
<1> USE DEF LedgerInv
<1>1. /\ Transacting(r) /\ ML!End(r, "refused")
      /\ UNCHANGED <<born, schema, migrations, adopted>>
  BY DEF ML!ApplyRefused, ML!AdoptRefused, ML!Abort, Transacting
<1>2. LedgerIsExecuted'
  BY <1>1 DEF LedgerIsExecuted, Executed
<1>3. schema' \in Seq(ML!Contents) /\ migrations' \in Seq(ML!Contents) /\ adopted' \in BOOLEAN
  BY <1>1 DEF LedgerTyped
<1> QED
  BY <1>1, <1>2, <1>3, RunnerEnds

LEMMA LedgerStep == LedgerInv /\ [ML!Next]_(ML!vars) => LedgerInv'
<1> SUFFICES ASSUME LedgerInv, [ML!Next]_(ML!vars) PROVE LedgerInv'
  OBVIOUS
<1>1. CASE UNCHANGED ML!vars
  BY <1>1 DEF ML!vars, LedgerInv, LedgerTyped, LedgerIsExecuted, HolderGoesOn,
              AppliedPlansBegin, Executed, Transacting
<1>2. ASSUME NEW r \in Runners,
             \/ ML!Begin(r) \/ ML!ApplyNext(r) \/ ML!Applied(r) \/ ML!ApplyRefused(r)
             \/ ML!Adopt(r) \/ ML!AdoptRefused(r) \/ ML!Abort(r)
      PROVE  LedgerInv'
  BY <1>2, RunnerBegins, RunnerApplies, RunnerSucceeds, RunnerAdopts, RunnerGivesUp
<1> QED
  BY <1>1, <1>2 DEF ML!Next

LEMMA LedgerInvImplies == LedgerInv => ML!LedgerMatchesSchema
<1> SUFFICES ASSUME LedgerInv PROVE ML!LedgerMatchesSchema
  OBVIOUS
<1> USE DEF LedgerInv
<1>1. schema = (IF adopted THEN born \o SubSeq(migrations, ML!Baseline + 1, Len(migrations))
                           ELSE born \o migrations)
  BY DEF LedgerIsExecuted, Executed
<1>2. ASSUME NEW r \in Runners, phase[r] = "applied"
      PROVE  /\ Len(PlanOf[r]) <= Len(migrations) /\ SubSeq(migrations, 1, Len(PlanOf[r])) = PlanOf[r]
             /\ \A v \in DOMAIN PlanOf[r] : PlanOf[r][v] = migrations[v]
  <2>1. Begins(PlanOf[r], migrations)
    BY <1>2 DEF AppliedPlansBegin
  <2>2. PlanOf[r] \in Seq(ML!Contents) /\ migrations \in Seq(ML!Contents)
    BY LedgerAssumption DEF LedgerTyped
  <2>3. SubSeq(migrations, 1, Len(PlanOf[r])) = PlanOf[r]
    BY <2>1, <2>2, BeginsIsSubSeq
  <2>4. DOMAIN PlanOf[r] = 1..Len(PlanOf[r])
    BY <2>2, LenProperties
  <2> QED
    BY <2>1, <2>3, <2>4 DEF Begins
<1> QED
  BY <1>1, <1>2 DEF ML!LedgerMatchesSchema

\* Whatever releases run against a database, apply and adopt_existing_schema leave
\* a ledger that names exactly what was executed after the adopted baseline, once
\* and in order, and two releases that disagree on a migration never both succeed:
\* the advisory lock and one transaction for the tables and the ledger carry it.
THEOREM LedgerCorrect == ML!Spec => []LedgerMatchesSchema
<1>1. ML!Init => LedgerInv
  BY LedgerInitial
<1>2. LedgerInv /\ [ML!Next]_(ML!vars) => LedgerInv'
  BY LedgerStep
<1>3. LedgerInv => ML!LedgerMatchesSchema
  BY LedgerInvImplies
<1> QED
  BY <1>1, <1>2, <1>3, PTL DEF ML!Spec, LedgerMatchesSchema

-----------------------------------------------------------------------------
(* ChangeDetection: what is told of a counterparty *)

\* An observation or a recording, and none.

ChangesTyped ==
  /\ clock \in Nat
  /\ at \in [Threads -> {"idle", "observed", "recording", "done"}]
  /\ seen \in [Threads -> Observations \cup {Nothing}]
  /\ previous \in [Threads -> Observations \cup {Nothing}]
  /\ stored \subseteq Observations
  /\ byKey \in [CD!Days -> Observations \cup {Nothing}]
  /\ overlapped \in BOOLEAN

\* The registry's clock gives observations distinct times; what is stored was
\* observed by a thread that is done.
ObservationsDiffer ==
  /\ \A t \in Threads : at[t] # "idle" => seen[t] \in Observations /\ seen[t].time <= clock
  /\ \A t, u \in Threads : at[t] # "idle" /\ at[u] # "idle" /\ t # u =>
       seen[t].time # seen[u].time
  /\ \A s \in stored : \E t \in Threads : at[t] = "done" /\ seen[t] = s

\* A day's key admits one recording, and names the snapshot it stored.
DaysHaveOneSnapshot ==
  /\ \A t \in Threads : at[t] = "recording" => byKey[DayOf[t]] = Nothing
  /\ \A t, u \in Threads : at[t] = "recording" /\ at[u] = "recording" /\ t # u =>
       DayOf[t] # DayOf[u]
  /\ \A d \in CD!Days : byKey[d] # Nothing => byKey[d] \in stored
  /\ \A s \in stored : \E d \in CD!Days : \A e \in CD!Days : byKey[e] = s <=> e = d

IsNewest(s) == s \in stored /\ \A r \in stored : r.time <= s.time

\* What a transaction took for the latest snapshot is stored, and so is what a
\* change is about.
ChangesAreOfStored ==
  /\ stored # {} => \E s \in stored : IsNewest(s)
  /\ \A t \in Threads : at[t] = "recording" /\ previous[t] # Nothing => previous[t] \in stored
  /\ \A c \in changes : {c.before, c.after} \subseteq stored /\ c.before.fact # c.after.fact

\* As long as nothing overlapped: one transaction at a time, which read the
\* snapshot that still is the latest and holds a newer one.
InOrder ==
  ~overlapped =>
    /\ \A t, u \in Threads : at[t] = "recording" /\ at[u] = "recording" => t = u
    /\ \A t \in Threads : at[t] = "recording" =>
         /\ previous[t] = lastOne
         /\ lastOne # Nothing => lastOne.time < seen[t].time
    /\ IF stored = {} THEN lastOne = Nothing ELSE IsNewest(lastOne)
    /\ changes = {c \in [before : stored, after : stored] :
                    CD!Successive(c.before, c.after) /\ c.before.fact # c.after.fact}

ChangesInv ==
  ChangesTyped /\ ObservationsDiffer /\ DaysHaveOneSnapshot /\ ChangesAreOfStored /\ InOrder

LEMMA ChangesInitial == CD!Init => ChangesInv
<1> SUFFICES ASSUME CD!Init PROVE ChangesInv
  OBVIOUS
<1> USE DEF CD!Init
<1>1. ChangesTyped
  BY DEF ChangesTyped
<1>2. ObservationsDiffer /\ DaysHaveOneSnapshot /\ ChangesAreOfStored
  BY DEF ObservationsDiffer, DaysHaveOneSnapshot, ChangesAreOfStored
<1>3. InOrder
  BY DEF InOrder
<1> QED
  BY <1>1, <1>2, <1>3 DEF ChangesInv

\* Stored snapshots have distinct times, so the newest one is the only one.
LEMMA StoredDiffer ==
  ASSUME ChangesTyped, ObservationsDiffer, NEW s \in stored, NEW r \in stored,
         s.time = r.time
  PROVE  s = r
<1>1. PICK t \in Threads : at[t] = "done" /\ seen[t] = s
  BY DEF ObservationsDiffer
<1>2. PICK u \in Threads : at[u] = "done" /\ seen[u] = r
  BY DEF ObservationsDiffer
<1> QED
  BY <1>1, <1>2 DEF ObservationsDiffer

LEMMA LatestIsNewest ==
  ASSUME ChangesTyped, ObservationsDiffer, ChangesAreOfStored
  PROVE  /\ stored = {} => CD!Latest = Nothing
         /\ stored # {} => IsNewest(CD!Latest)
         /\ \A s : IsNewest(s) => CD!Latest = s
<1>1. stored = {} => CD!Latest = Nothing
  BY DEF CD!Latest
<1>2. ASSUME stored # {} PROVE IsNewest(CD!Latest)
  <2>1. \E s \in stored : \A r \in stored : r.time <= s.time
    BY <1>2 DEF ChangesAreOfStored, IsNewest
  <2>2. CD!Latest = CHOOSE s \in stored : \A r \in stored : r.time <= s.time
    BY <1>2 DEF CD!Latest
  <2>3. CD!Latest \in stored /\ \A r \in stored : r.time <= CD!Latest.time
    BY <2>1, <2>2, Zenon
  <2> QED
    BY <2>3 DEF IsNewest
<1>3. ASSUME NEW s, IsNewest(s) PROVE CD!Latest = s
  <2>1. stored # {}
    BY <1>3 DEF IsNewest
  <2>2. /\ CD!Latest \in stored /\ s \in stored
        /\ CD!Latest.time <= s.time /\ s.time <= CD!Latest.time
    BY <1>2, <1>3, <2>1 DEF IsNewest
  <2>3. CD!Latest.time \in Nat /\ s.time \in Nat
    BY <2>2 DEF ChangesTyped, Observations
  <2>4. CD!Latest.time = s.time
    BY <2>2, <2>3
  <2> QED
    BY <2>2, <2>4, StoredDiffer
<1> QED
  BY <1>1, <1>2, <1>3

\* A step of one thread outside of its transaction: nothing is committed.
LEMMA ThreadsObserve ==
  ASSUME ChangesInv, NEW t \in Threads, CD!Observe(t)
  PROVE  ChangesInv'
<1> USE DEF ChangesInv
<1>1. PICK fact \in Facts : seen' = [seen EXCEPT ![t] = [time |-> clock + 1, fact |-> fact]]
  BY DEF CD!Observe
<1>2. PICK s \in Observations : s.time = clock + 1 /\ seen' = [seen EXCEPT ![t] = s]
  <2>1. [time |-> clock + 1, fact |-> fact] \in Observations
    BY DEF Observations, ChangesTyped
  <2> QED
    BY <1>1, <2>1
<1>3. /\ at[t] = "idle" /\ clock' = clock + 1
      /\ at' = [at EXCEPT ![t] = "observed"]
      /\ UNCHANGED <<previous, stored, lastOne, changes, byKey, overlapped>>
  BY DEF CD!Observe
<1>4. ChangesTyped'
  BY <1>2, <1>3 DEF ChangesTyped
<1>5. /\ \A u \in Threads \ {t} : seen'[u] = seen[u] /\ at'[u] = at[u]
      /\ seen'[t] = s /\ at'[t] = "observed"
  BY <1>2, <1>3 DEF ChangesTyped
<1>6. ObservationsDiffer'
  <2>1. \A u \in Threads \ {t} : at[u] # "idle" =>
          seen[u] \in Observations /\ seen[u].time <= clock /\ seen[u].time \in Nat
    BY DEF ObservationsDiffer, Observations
  <2>2. \A u \in Threads : at'[u] # "idle" => seen'[u] \in Observations /\ seen'[u].time <= clock'
    BY <1>2, <1>3, <1>5, <2>1 DEF ChangesTyped
  <2>3. \A u \in Threads \ {t} : at[u] # "idle" => seen[u].time # s.time
    BY <1>2, <2>1 DEF ChangesTyped
  <2>4. \A u, v \in Threads : at'[u] # "idle" /\ at'[v] # "idle" /\ u # v =>
          seen'[u].time # seen'[v].time
    BY <1>5, <2>3 DEF ObservationsDiffer
  <2>5. \A r \in stored' : \E u \in Threads : at'[u] = "done" /\ seen'[u] = r
    BY <1>3, <1>5 DEF ObservationsDiffer
  <2> QED
    BY <2>2, <2>4, <2>5 DEF ObservationsDiffer
<1>7. DaysHaveOneSnapshot'
  BY <1>3, <1>5 DEF DaysHaveOneSnapshot, CD!Days
<1>8. ChangesAreOfStored'
  BY <1>3, <1>5 DEF ChangesAreOfStored, IsNewest
<1>9. InOrder'
  BY <1>3, <1>5 DEF InOrder, IsNewest, CD!Successive
<1> QED
  BY <1>4, <1>6, <1>7, <1>8, <1>9

LEMMA ThreadsEnd ==
  ASSUME ChangesInv, NEW t \in Threads,
         CD!RecordedBefore(t) \/ CD!Lose(t)
  PROVE  ChangesInv'
<1> USE DEF ChangesInv
<1>1. /\ at[t] # "idle" /\ at' = [at EXCEPT ![t] = "done"]
      /\ UNCHANGED <<clock, seen, previous, stored, lastOne, changes, byKey, overlapped>>
  BY DEF CD!RecordedBefore, CD!Lose
<1>2. ChangesTyped'
  BY <1>1 DEF ChangesTyped
<1>3. \A u \in Threads : /\ at'[u] = "recording" => at[u] = "recording"
                         /\ at'[u] # "idle" => at[u] # "idle"
                         /\ at[u] = "done" => at'[u] = "done"
  BY <1>1 DEF ChangesTyped
<1>4. ObservationsDiffer'
  BY <1>1, <1>3 DEF ObservationsDiffer
<1>5. DaysHaveOneSnapshot'
  BY <1>1, <1>3 DEF DaysHaveOneSnapshot, CD!Days
<1>6. ChangesAreOfStored'
  BY <1>1, <1>3 DEF ChangesAreOfStored, IsNewest
<1>7. InOrder'
  BY <1>1, <1>3 DEF InOrder, IsNewest, CD!Successive
<1> QED
  BY <1>2, <1>4, <1>5, <1>6, <1>7

LEMMA ThreadsStartRecording ==
  ASSUME ChangesInv, NEW t \in Threads, CD!StartRecording(t)
  PROVE  ChangesInv'
<1> USE DEF ChangesInv
<1>1. PICK latest : latest = CD!Latest
  OBVIOUS
<1>2. /\ at[t] = "observed" /\ byKey[DayOf[t]] = Nothing
      /\ previous' = [previous EXCEPT ![t] = latest]
      /\ at' = [at EXCEPT ![t] = "recording"]
      /\ UNCHANGED <<clock, seen, stored, lastOne, changes, byKey>>
  BY <1>1 DEF CD!StartRecording
<1>3. \A u \in Threads \ {t} : at[u] = "recording" => DayOf[u] # DayOf[t]
  BY DEF CD!StartRecording, CD!KeyTaken
<1>4. /\ overlapped' \in BOOLEAN
      /\ ~overlapped' => /\ ~overlapped
                         /\ \A u \in Threads \ {t} : at[u] # "recording"
                         /\ latest = Nothing \/ ~(latest.time > seen[t].time)
  BY <1>1 DEF CD!StartRecording, ChangesTyped
<1>5. latest \in stored \cup {Nothing}
  BY <1>1, LatestIsNewest DEF IsNewest
<1>6. /\ at'[t] = "recording" /\ previous'[t] = latest
      /\ \A u \in Threads \ {t} : at'[u] = at[u] /\ previous'[u] = previous[u]
  BY <1>2 DEF ChangesTyped
<1>7. ChangesTyped'
  BY <1>2, <1>4, <1>5 DEF ChangesTyped
<1>8. ObservationsDiffer'
  BY <1>2, <1>6 DEF ObservationsDiffer
<1>9. DaysHaveOneSnapshot'
  <2>1. \A u, v \in Threads : at'[u] = "recording" /\ at'[v] = "recording" /\ u # v =>
          DayOf[u] # DayOf[v]
    BY <1>3, <1>6 DEF DaysHaveOneSnapshot
  <2> QED
    BY <1>2, <1>6, <2>1 DEF DaysHaveOneSnapshot, CD!Days
<1>10. ChangesAreOfStored'
  BY <1>2, <1>5, <1>6 DEF ChangesAreOfStored, IsNewest
<1>11. InOrder'
  <2>1. SUFFICES ASSUME ~overlapped' PROVE InOrder'
    BY DEF InOrder
  <2>2. \A u \in Threads : at'[u] = "recording" => u = t
    BY <1>4, <1>6, <2>1
  <2>3. lastOne = latest
    BY <1>1, <1>4, <2>1, LatestIsNewest DEF InOrder
  <2>4. lastOne # Nothing => lastOne.time < seen[t].time
    <3>1. SUFFICES ASSUME lastOne # Nothing PROVE lastOne.time < seen[t].time
      OBVIOUS
    <3>2. lastOne \in stored
      BY <1>5, <2>3, <3>1
    <3>3. PICK u \in Threads : at[u] = "done" /\ seen[u] = lastOne
      BY <3>2 DEF ObservationsDiffer
    <3>4. lastOne.time # seen[t].time
      BY <1>2, <3>3 DEF ObservationsDiffer
    <3>5. lastOne.time \in Nat /\ seen[t].time \in Nat
      BY <1>2, <3>2 DEF ChangesTyped, ObservationsDiffer, Observations
    <3> QED
      BY <1>4, <2>1, <2>3, <3>1, <3>4, <3>5
  <2>6. changes' = {c \in [before : stored', after : stored'] :
                     /\ c.before.time < c.after.time
                     /\ ~\E x \in stored' : c.before.time < x.time /\ x.time < c.after.time
                     /\ c.before.fact # c.after.fact}
    BY <1>2, <1>4, <2>1 DEF InOrder, CD!Successive
  <2>7. IF stored' = {} THEN lastOne' = Nothing ELSE IsNewest(lastOne)'
    BY <1>2, <1>4, <2>1 DEF InOrder, IsNewest
  <2> QED
    BY <1>2, <1>6, <2>2, <2>3, <2>4, <2>6, <2>7 DEF InOrder, CD!Successive
<1> QED
  BY <1>7, <1>8, <1>9, <1>10, <1>11

\* The transaction commits: its snapshot is new, and while nothing overlapped it
\* is newer than what is stored.
LEMMA ThreadsCommit ==
  ASSUME ChangesInv, NEW t \in Threads, CD!Commit(t)
  PROVE  ChangesInv'
<1> USE DEF ChangesInv
<1>1. PICK s, before : s = seen[t] /\ before = previous[t]
  OBVIOUS
<1>2. /\ at[t] = "recording"
      /\ stored' = stored \cup {s} /\ lastOne' = s
      /\ changes' = IF before # Nothing /\ before.fact # s.fact
                    THEN changes \cup {[before |-> before, after |-> s]} ELSE changes
      /\ byKey' = [byKey EXCEPT ![DayOf[t]] = s]
      /\ at' = [at EXCEPT ![t] = "done"]
      /\ UNCHANGED <<clock, seen, previous, overlapped>>
  BY <1>1 DEF CD!Commit, CD!AddSnapshot, CD!SetLastSnapshot, CD!Differs, CD!AddChangeEvent
<1>3. /\ s \in Observations /\ s # Nothing /\ s.time \in Nat
      /\ before = Nothing \/ before \in stored
      /\ byKey[DayOf[t]] = Nothing /\ DayOf[t] \in CD!Days
  BY <1>1, <1>2, ChangeAssumption DEF ObservationsDiffer, Observations, ChangesAreOfStored,
     DaysHaveOneSnapshot, CD!Days
<1>4. s \notin stored /\ \A r \in stored : r.time \in Nat /\ r.time # s.time /\ r # Nothing
  <2>1. ASSUME NEW r \in stored PROVE r.time \in Nat /\ r.time # s.time /\ r # Nothing
    <3>1. PICK u \in Threads : at[u] = "done" /\ seen[u] = r
      BY DEF ObservationsDiffer
    <3>2. u # t
      BY <1>2, <3>1
    <3> QED
      BY <1>1, <1>2, <3>1, <3>2, ChangeAssumption DEF ObservationsDiffer, ChangesTyped, Observations
  <2> QED
    BY <2>1
<1>5. /\ at'[t] = "done" /\ \A u \in Threads \ {t} : at'[u] = at[u]
      /\ byKey'[DayOf[t]] = s
      /\ \A d \in CD!Days \ {DayOf[t]} : byKey'[d] = byKey[d]
  BY <1>2, <1>3 DEF ChangesTyped
<1>6. ChangesTyped'
  BY <1>2, <1>3 DEF ChangesTyped
<1>7. ObservationsDiffer'
  <2>1. \A r \in stored' : \E u \in Threads : at'[u] = "done" /\ seen'[u] = r
    BY <1>1, <1>2, <1>5 DEF ObservationsDiffer
  <2> QED
    BY <1>2, <1>5, <2>1 DEF ObservationsDiffer
<1>8. DaysHaveOneSnapshot'
  <2>1. \A u \in Threads : at'[u] = "recording" => at[u] = "recording" /\ u # t
    BY <1>5
  <2>2. \A u \in Threads : at'[u] = "recording" =>
          DayOf[u] # DayOf[t] /\ DayOf[u] \in CD!Days
    BY <1>2, <2>1 DEF DaysHaveOneSnapshot, CD!Days
  <2>3. \A u \in Threads : at'[u] = "recording" => byKey'[DayOf[u]] = Nothing
    BY <1>5, <2>1, <2>2 DEF DaysHaveOneSnapshot
  <2>4. \A d \in CD!Days : byKey'[d] # Nothing => byKey'[d] \in stored'
    BY <1>2, <1>5 DEF DaysHaveOneSnapshot
  <2>5. ASSUME NEW r \in stored
        PROVE  \E d \in CD!Days : \A e \in CD!Days : byKey'[e] = r <=> e = d
    <3>1. PICK d \in CD!Days : \A e \in CD!Days : byKey[e] = r <=> e = d
      BY DEF DaysHaveOneSnapshot
    <3>2. d # DayOf[t] /\ s # r
      BY <1>3, <1>4, <3>1
    <3>3. \A e \in CD!Days : byKey'[e] = r <=> e = d
      BY <1>5, <3>1, <3>2
    <3> QED
      BY <3>3
  <2>6. \A e \in CD!Days : byKey'[e] = s <=> e = DayOf[t]
    BY <1>3, <1>4, <1>5 DEF DaysHaveOneSnapshot
  <2>7. \A r \in stored' : \E d \in CD!Days : \A e \in CD!Days : byKey'[e] = r <=> e = d
    BY <1>2, <1>3, <2>5, <2>6
  <2> QED
    BY <2>1, <2>3, <2>4, <2>7 DEF DaysHaveOneSnapshot, CD!Days
<1>9. ChangesAreOfStored'
  <2>1. \E r \in stored' : IsNewest(r)'
    <3>1. CASE stored = {}
      BY <1>2, <1>3, <3>1 DEF IsNewest
    <3>2. CASE stored # {}
      <4>1. PICK m \in stored : \A r \in stored : r.time <= m.time
        BY <3>2 DEF ChangesAreOfStored, IsNewest
      <4>2. m.time \in Nat
        BY <1>4
      <4>3. CASE m.time < s.time
        BY <1>2, <1>3, <1>4, <4>1, <4>2, <4>3 DEF IsNewest
      <4>4. CASE s.time <= m.time
        BY <1>2, <1>3, <1>4, <4>1, <4>2, <4>4 DEF IsNewest
      <4> QED
        BY <1>3, <4>2, <4>3, <4>4
    <3> QED
      BY <3>1, <3>2
  <2>2. \A c \in changes' : {c.before, c.after} \subseteq stored' /\ c.before.fact # c.after.fact
    BY <1>2, <1>3 DEF ChangesAreOfStored
  <2>3. \A u \in Threads : at'[u] = "recording" /\ previous'[u] # Nothing =>
          previous'[u] \in stored'
    BY <1>2, <1>5 DEF ChangesAreOfStored
  <2> QED
    BY <2>1, <2>2, <2>3 DEF ChangesAreOfStored
<1>10. InOrder'
  <2>1. SUFFICES ASSUME ~overlapped' PROVE InOrder'
    BY DEF InOrder
  <2>2. ~overlapped
    BY <1>2, <2>1
  <2>3. \A u \in Threads : at'[u] # "recording"
    BY <1>2, <1>5, <2>2 DEF InOrder
  <2>4. /\ before = lastOne /\ (lastOne # Nothing => lastOne.time < s.time)
        /\ stored = {} => lastOne = Nothing
        /\ stored # {} => lastOne \in stored /\ \A r \in stored : r.time <= lastOne.time
    BY <1>1, <1>2, <2>2 DEF InOrder, IsNewest
  <2>5. \A r \in stored : r.time < s.time
    BY <1>3, <1>4, <2>4
  <2>6. IsNewest(s)'
    BY <1>2, <1>3, <1>4, <2>5 DEF IsNewest
  <2> DEFINE Told(c, S) ==
               /\ c.before.time < c.after.time
               /\ ~\E x \in S : c.before.time < x.time /\ x.time < c.after.time
               /\ c.before.fact # c.after.fact
  <2>7. changes = {c \in [before : stored, after : stored] : Told(c, stored)}
    BY <2>2 DEF InOrder, CD!Successive
  <2>8. ASSUME NEW c \in [before : stored', after : stored']
        PROVE  Told(c, stored') <=> c \in changes'
    <3>1. c.before \in stored \cup {s} /\ c.after \in stored \cup {s}
      BY <1>2
    <3>2. c = [before |-> c.before, after |-> c.after]
      OBVIOUS
    <3>3. CASE c.before \in stored /\ c.after \in stored
      <4>1. c \in [before : stored, after : stored]
        BY <3>2, <3>3
      <4>2. Told(c, stored') <=> Told(c, stored)
        BY <1>2, <1>3, <1>4, <2>5, <3>3
      <4>3. c # [before |-> before, after |-> s]
        BY <1>4, <3>3
      <4>4. c \in changes' <=> c \in changes
        BY <1>2, <4>3
      <4>5. c \in changes <=> Told(c, stored)
        BY <2>7, <4>1
      <4> QED
        BY <4>2, <4>4, <4>5
    <3>4. CASE c.before \in stored /\ c.after = s
      <4>1. c \notin changes
        BY <1>4, <3>4 DEF ChangesAreOfStored
      <4>2. lastOne \in stored /\ before = lastOne /\ before # Nothing
        BY <1>4, <2>4, <3>4
      <4>3. c \in changes' <=> c = [before |-> before, after |-> s] /\ before.fact # s.fact
        BY <1>2, <4>1, <4>2
      <4>4. c \in changes' <=> c.before = lastOne /\ c.before.fact # s.fact
        BY <3>2, <3>4, <4>2, <4>3
      <4>5. c.before = lastOne => ~\E x \in stored' : c.before.time < x.time /\ x.time < s.time
        BY <1>2, <1>3, <1>4, <2>4, <4>2
      <4>6. c.before # lastOne => c.before.time < lastOne.time /\ lastOne.time < s.time
        <5>1. ASSUME c.before # lastOne PROVE c.before.time # lastOne.time
          BY <3>4, <4>2, <5>1, StoredDiffer
        <5> QED
          BY <1>4, <2>4, <2>5, <3>4, <4>2, <5>1
      <4>7. c.before.time < s.time /\ lastOne \in stored'
        BY <1>2, <2>5, <3>4, <4>2
      <4> QED
        BY <3>4, <4>4, <4>5, <4>6, <4>7
    <3>5. CASE c.before = s
      <4>1. ~(c.before.time < c.after.time)
        BY <1>3, <1>4, <2>5, <3>1, <3>5
      <4>2. c \notin changes
        BY <1>4, <3>5 DEF ChangesAreOfStored
      <4>3. c # [before |-> before, after |-> s] \/ before = Nothing
        BY <1>3, <1>4, <3>5
      <4> QED
        BY <1>2, <4>1, <4>2, <4>3
    <3> QED
      BY <3>1, <3>3, <3>4, <3>5
  <2>9. changes' \subseteq [before : stored', after : stored']
    <3>1. changes \subseteq [before : stored, after : stored]
      BY <2>7
    <3>2. before # Nothing =>
            [before |-> before, after |-> s] \in [before : stored', after : stored']
      BY <1>2, <1>3
    <3> QED
      BY <1>2, <3>1, <3>2
  <2>10. changes' = {c \in [before : stored', after : stored'] : Told(c, stored')}
    <3> HIDE DEF Told
    <3> QED
      BY <2>8, <2>9
  <2> QED
    BY <1>2, <2>3, <2>6, <2>10 DEF InOrder, CD!Successive
<1> QED
  BY <1>6, <1>7, <1>8, <1>9, <1>10

LEMMA ChangesStep == ChangesInv /\ [CD!Next]_(CD!vars) => ChangesInv'
<1> SUFFICES ASSUME ChangesInv, [CD!Next]_(CD!vars) PROVE ChangesInv'
  OBVIOUS
<1>1. CASE UNCHANGED CD!vars
  BY <1>1 DEF CD!vars, ChangesInv, ChangesTyped, ObservationsDiffer, DaysHaveOneSnapshot,
              ChangesAreOfStored, InOrder, IsNewest, CD!Successive, CD!Days
<1>2. ASSUME NEW t \in Threads,
             \/ CD!Observe(t) \/ CD!StartRecording(t) \/ CD!RecordedBefore(t)
             \/ CD!Commit(t) \/ CD!Lose(t)
      PROVE  ChangesInv'
  BY <1>2, ThreadsObserve, ThreadsStartRecording, ThreadsEnd, ThreadsCommit
<1> QED
  BY <1>1, <1>2 DEF CD!Next

LEMMA ChangesInvImplies == ChangesInv => CD!ChangesAreTold
<1> SUFFICES ASSUME ChangesInv PROVE CD!ChangesAreTold
  OBVIOUS
<1> USE DEF ChangesInv
<1>1. ~overlapped => lastOne = CD!Latest
  BY LatestIsNewest DEF InOrder
<1> QED
  BY <1>1 DEF CD!ChangesAreTold, DaysHaveOneSnapshot, ChangesAreOfStored, InOrder

\* Whatever threads of whatever days observe, record and are lost, a day has one
\* snapshot, changes are told of stored snapshots that differ, and, unless the
\* recordings of different days met or came late, of all successive ones that
\* differ and no others: the day's key orders its recordings, nothing else in
\* record_observation does.
THEOREM ChangesCorrect == CD!Spec => []ChangesAreTold
<1>1. CD!Init => ChangesInv
  BY ChangesInitial
<1>2. ChangesInv /\ [CD!Next]_(CD!vars) => ChangesInv'
  BY ChangesStep
<1>3. ChangesInv => CD!ChangesAreTold
  BY ChangesInvImplies
<1> QED
  BY <1>1, <1>2, <1>3, PTL DEF CD!Spec, ChangesAreTold

-----------------------------------------------------------------------------
(* Types: those of four services are in their inductive invariants, those  *)
(* of the ledger and of the changes follow with a little more.             *)

LockTyped == born \in {<<>>, Legacy} /\ holder \in Runners \cup {NoRunner}

LEMMA StepLockTyped == LockTyped /\ [ML!Next]_(ML!vars) => LockTyped'
<1> SUFFICES ASSUME LockTyped, [ML!Next]_(ML!vars) PROVE LockTyped'
  OBVIOUS
<1>1. CASE UNCHANGED ML!vars
  BY <1>1 DEF ML!vars, LockTyped
<1>2. ASSUME NEW r \in Runners, ML!Begin(r) \/ ML!ApplyNext(r) PROVE LockTyped'
  BY <1>2 DEF LockTyped, ML!Begin, ML!ApplyNext
<1>3. ASSUME NEW r \in Runners,
             \/ ML!Applied(r) \/ ML!ApplyRefused(r)
             \/ ML!Adopt(r) \/ ML!AdoptRefused(r) \/ ML!Abort(r)
      PROVE  LockTyped'
  BY <1>3 DEF LockTyped, ML!Applied, ML!ApplyRefused, ML!Adopt, ML!AdoptRefused, ML!Abort, ML!End
<1> QED
  BY <1>1, <1>2, <1>3 DEF ML!Next

LEMMA LedgerTypeCorrect == ML!Spec => []ML!TypeOK
<1>1. ML!Init => LedgerInv /\ LockTyped
  BY LedgerInitial DEF ML!Init, LockTyped
<1>2. LedgerInv /\ LockTyped /\ [ML!Next]_(ML!vars) => LedgerInv' /\ LockTyped'
  BY LedgerStep, StepLockTyped
<1>3. LedgerInv /\ LockTyped => ML!TypeOK
  <2> SUFFICES ASSUME LedgerInv, LockTyped PROVE ML!TypeOK
    OBVIOUS
  <2>1. \A s \in Seq(ML!Contents) : ML!IsListing(s)
    BY ElementOfSeq, LenProperties DEF ML!IsListing
  <2>2. LedgerTyped
    BY DEF LedgerInv
  <2> QED
    BY <2>1, <2>2 DEF ML!TypeOK, LedgerTyped, LockTyped
<1> QED
  BY <1>1, <1>2, <1>3, PTL DEF ML!Spec

ToldTyped ==
  /\ lastOne \in Observations \cup {Nothing}
  /\ changes \subseteq [before : Observations, after : Observations]

LEMMA StepToldTyped == ChangesInv /\ ToldTyped /\ [CD!Next]_(CD!vars) => ToldTyped'
<1> SUFFICES ASSUME ChangesInv, ToldTyped, [CD!Next]_(CD!vars) PROVE ToldTyped'
  OBVIOUS
<1>1. CASE UNCHANGED CD!vars
  BY <1>1 DEF CD!vars, ToldTyped
<1>2. ASSUME NEW t \in Threads,
             CD!Observe(t) \/ CD!StartRecording(t) \/ CD!RecordedBefore(t) \/ CD!Lose(t)
      PROVE  ToldTyped'
  BY <1>2 DEF ToldTyped, CD!Observe, CD!StartRecording, CD!RecordedBefore, CD!Lose
<1>3. ASSUME NEW t \in Threads, CD!Commit(t) PROVE ToldTyped'
  <2>1. seen[t] \in Observations
    BY <1>3 DEF ChangesInv, ObservationsDiffer, CD!Commit
  <2>2. previous[t] = Nothing \/ previous[t] \in Observations
    BY DEF ChangesInv, ChangesTyped
  <2> QED
    BY <1>3, <2>1, <2>2
    DEF ToldTyped, CD!Commit, CD!SetLastSnapshot, CD!Differs, CD!AddChangeEvent
<1> QED
  BY <1>1, <1>2, <1>3 DEF CD!Next

LEMMA ChangesTypeCorrect == CD!Spec => []CD!TypeOK
<1>1. CD!Init => ChangesInv /\ ToldTyped
  BY ChangesInitial DEF CD!Init, ToldTyped
<1>2. ChangesInv /\ ToldTyped /\ [CD!Next]_(CD!vars) => ChangesInv' /\ ToldTyped'
  BY ChangesStep, StepToldTyped
<1>3. ChangesInv /\ ToldTyped => CD!TypeOK
  BY DEF ChangesInv, ChangesTyped, ToldTyped, CD!TypeOK, CD!Snapshots, Observations
<1> QED
  BY <1>1, <1>2, <1>3, PTL DEF CD!Spec

\* The services side by side, whichever of them take a step, keep the values
\* their rows and processes are given.
THEOREM TypesCorrect ==
  AI!Spec /\ AG!Spec /\ SK!Spec /\ KC!Spec /\ ML!Spec /\ CD!Spec => []ServicesTypeOK
<1>1. AI!Spec => []AI!TypeOK
  <2>1. AIInv => AI!TypeOK
    BY DEF AIInv
  <2> QED
    BY <2>1, AIInitial, AIStep, PTL DEF AI!Spec
<1>2. AG!Spec => []AG!TypeOK
  <2>1. GateInv => AG!TypeOK
    BY DEF GateInv
  <2> QED
    BY <2>1, GateCorrect, PTL
<1>3. SK!Spec => []SK!TypeOK
  <2>1. SigningKeyInv => SK!TypeOK
    BY DEF SigningKeyInv
  <2> QED
    BY <2>1, SigningKeysKeep, PTL
<1>4. KC!Spec => []KC!TypeOK
  <2>1. CreateInv => KC!TypeOK
    BY DEF CreateInv
  <2> QED
    BY <2>1, CreateInitial, CreateStep, PTL DEF KC!Spec
<1> QED
  BY <1>1, <1>2, <1>3, <1>4, LedgerTypeCorrect, ChangesTypeCorrect, PTL DEF ServicesTypeOK

=============================================================================
