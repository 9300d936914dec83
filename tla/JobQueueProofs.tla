--------------------------- MODULE JobQueueProofs ---------------------------
(***************************************************************************)
(* Proofs about JobQueue, for any jobs, runners, lease length, retry       *)
(* policy and bounds.  All but TypeOK rest on DistinctWorkers.             *)
(***************************************************************************)
EXTENDS JobQueue, TLAPS

LEMMA DelayType == \A a \in 1..AttemptBound : DelayFor(a) \in Int
BY JobQueueAssumption DEF DelayFor, MinOf

LEMMA NextAttemptType ==
  ASSUME TypeOK, NEW j \in Jobs
  PROVE  NextAttempt(j) \in 1..AttemptBound
BY JobQueueAssumption DEF TypeOK, NextAttempt, MinOf

-----------------------------------------------------------------------------
(* Type correctness *)

LEMMA InitTypeOK == Init => TypeOK
BY JobQueueAssumption DEF Init, TypeOK, JobState, Ready, InTransaction

\* A runner that works on something works on a job: JobRunner enters the handler
\* only with a claimed record.
WorksOnAJob == \A p \in Procs : pc[p] \in Working => job[p] \in Jobs

LEMMA InitWorks == Init => WorksOnAJob
BY DEF Init, WorksOnAJob, Working

LEMMA StepTypeOK == TypeOK /\ WorksOnAJob /\ [Next]_vars => TypeOK'
<1> SUFFICES ASSUME TypeOK, WorksOnAJob, [Next]_vars PROVE TypeOK'
  OBVIOUS
<1> USE JobQueueAssumption DEF TypeOK, JobState, Ready, Ended, InTransaction,
                               rowVars, ledgerVars, procVars
<1>1. ASSUME NEW j \in Jobs, Enqueue(j) PROVE TypeOK'
  BY <1>1 DEF Enqueue
<1>2. ASSUME NEW p \in Procs, StartRun(p) PROVE TypeOK'
  BY <1>2 DEF StartRun
<1>3. ASSUME NEW p \in Procs, NEW j \in Jobs, ClaimNext(p, j) PROVE TypeOK'
  <2>1. NextAttempt(j) \in 1..AttemptBound
    BY NextAttemptType
  <2>2. WorkerOf[p] \in Workers
    OBVIOUS
  <2> QED
    BY <1>3, <2>1, <2>2 DEF ClaimNext
<1>4. ASSUME NEW p \in Procs, ClaimNothing(p) PROVE TypeOK'
  BY <1>4 DEF ClaimNothing, BackToIdle
<1>5. ASSUME NEW p \in Procs, StartRenewal(p) PROVE TypeOK'
  BY <1>5 DEF StartRenewal
<1>6. ASSUME NEW p \in Procs, Renew(p) PROVE TypeOK'
  <2>1. LeaseSeconds - lag[p] \in Int
    OBVIOUS
  <2>2. lease' \in [Jobs -> Int]
    BY <1>6, <2>1 DEF Renew
  <2> QED
    BY <1>6, <2>2 DEF Renew
<1>7. ASSUME NEW p \in Procs, FinishHandler(p) PROVE TypeOK'
  BY <1>7 DEF FinishHandler
<1>8. ASSUME NEW p \in Procs, Record(p) PROVE TypeOK'
  <2>1. job[p] \in Jobs
    BY <1>8 DEF Record, WorksOnAJob, Working
  <2>2. RecordedAttempt(p) \in 1..AttemptBound
    BY <2>1 DEF RecordedAttempt
  <2>3. RecordedState(p) \in {"succeeded", "failed", "retryable_failure"}
    BY DEF RecordedState
  <2>4. EventOf(p) \in [kind : EventKind, job : Jobs, attempt : 1..AttemptBound]
    BY <2>1, <2>2 DEF EventOf, EventKind, Id
  <2>5. AuditOf(p) \in [kind : AuditKind, job : Jobs, attempt : 1..AttemptBound]
    BY <2>1, <2>2 DEF AuditOf, AuditKind, Id
  <2>6. wait' \in [Jobs -> Int]
    <3>1. DelayFor(att[p]) - lag[p] \in Int /\ -MaxLag \in Int
      BY DelayType
    <3> QED
      BY <1>8, <3>1 DEF Record
  <2> QED
    BY <1>8, <2>1, <2>3, <2>4, <2>5, <2>6 DEF Record, BackToIdle
<1>9. ASSUME NEW p \in Procs, RecordRejected(p) PROVE TypeOK'
  BY <1>9 DEF RecordRejected, BackToIdle
<1>10. ASSUME NEW p \in Procs, Crash(p) PROVE TypeOK'
  BY <1>10 DEF Crash, BackToIdle
<1>11. CASE Tick
  BY <1>11 DEF Tick
<1>12. CASE UNCHANGED vars
  BY <1>12 DEF vars
<1> QED
  BY <1>1, <1>2, <1>3, <1>4, <1>5, <1>6, <1>7, <1>8, <1>9, <1>10, <1>11, <1>12
  DEF Next

LEMMA StepWorks == TypeOK /\ WorksOnAJob /\ [Next]_vars => WorksOnAJob'
<1> SUFFICES ASSUME TypeOK, WorksOnAJob, [Next]_vars PROVE WorksOnAJob'
  OBVIOUS
<1> USE DEF TypeOK, WorksOnAJob, Working, rowVars, ledgerVars, procVars, BackToIdle
<1>1. CASE \E j \in Jobs : Enqueue(j)
  BY <1>1 DEF Enqueue
<1>2. ASSUME NEW p \in Procs, \/ StartRun(p) \/ ClaimNothing(p) \/ StartRenewal(p)
                              \/ Renew(p) \/ FinishHandler(p)
      PROVE  WorksOnAJob'
  BY <1>2 DEF StartRun, ClaimNothing, StartRenewal, Renew, FinishHandler
<1>3. ASSUME NEW p \in Procs, NEW j \in Jobs, ClaimNext(p, j) PROVE WorksOnAJob'
  BY <1>3 DEF ClaimNext
<1>4. ASSUME NEW p \in Procs, Record(p) \/ RecordRejected(p) \/ Crash(p)
      PROVE  WorksOnAJob'
  BY <1>4 DEF Record, RecordRejected, Crash
<1>5. CASE Tick \/ UNCHANGED vars
  BY <1>5 DEF Tick, vars
<1> QED
  BY <1>1, <1>2, <1>3, <1>4, <1>5 DEF Next

\* Every reachable state has the values the columns and runners are given.
THEOREM TypeCorrect == Spec => [](TypeOK /\ WorksOnAJob)
<1>1. Init => TypeOK /\ WorksOnAJob
  BY InitTypeOK, InitWorks
<1>2. TypeOK /\ WorksOnAJob /\ [Next]_vars => (TypeOK /\ WorksOnAJob)'
  BY StepTypeOK, StepWorks
<1> QED
  BY <1>1, <1>2, PTL DEF Spec
-----------------------------------------------------------------------------
(* The ledger.  The inductive invariant adds what makes a stale runner      *)
(* harmless: the runner whose worker_id a running row carries made the       *)
(* row's latest claim.                                                       *)

LatestClaim ==
  \A p \in Procs :
    /\ pc[p] \in Working
    /\ state[job[p]] = "running"
    /\ holder[job[p]] = WorkerOf[p]
    => att[p] = attempt[job[p]]

LedgerInv == TypeOK /\ WorksOnAJob /\ LatestClaim /\ LedgerMatchesRows

LEMMA InitLedger == Init => LatestClaim /\ LedgerMatchesRows
BY DEF Init, LatestClaim, LedgerMatchesRows, NoRecordAhead, EndsAgree, RowsRecorded,
       EventsAudited, Working

LEMMA StepLatestClaim ==
  DistinctWorkers /\ TypeOK /\ WorksOnAJob /\ LatestClaim /\ [Next]_vars => LatestClaim'
<1> SUFFICES ASSUME DistinctWorkers, TypeOK, WorksOnAJob, LatestClaim, [Next]_vars
             PROVE  LatestClaim'
  OBVIOUS
<1> USE JobQueueAssumption
    DEF TypeOK, WorksOnAJob, LatestClaim, Working, rowVars, ledgerVars, procVars, BackToIdle
<1>1. ASSUME NEW j \in Jobs, Enqueue(j) PROVE LatestClaim'
  BY <1>1 DEF Enqueue
<1>2. ASSUME NEW p \in Procs, \/ StartRun(p) \/ ClaimNothing(p) \/ StartRenewal(p)
                              \/ Renew(p) \/ FinishHandler(p)
      PROVE  LatestClaim'
  BY <1>2 DEF StartRun, ClaimNothing, StartRenewal, Renew, FinishHandler
<1>3. ASSUME NEW p \in Procs, NEW j \in Jobs, ClaimNext(p, j) PROVE LatestClaim'
  <2> SUFFICES ASSUME NEW q \in Procs, pc'[q] \in Working, state'[job'[q]] = "running",
                      holder'[job'[q]] = WorkerOf[q]
               PROVE  att'[q] = attempt'[job'[q]]
    OBVIOUS
  <2>1. NextAttempt(j) \in 1..AttemptBound
    BY NextAttemptType
  <2>2. CASE q = p
    BY <1>3, <2>1, <2>2 DEF ClaimNext
  <2>3. CASE q # p
    <3>1. job'[q] = job[q] /\ att'[q] = att[q] /\ pc'[q] = pc[q]
      BY <1>3, <2>3 DEF ClaimNext
    <3>2. job[q] # j
      BY <1>3, <2>3, <3>1 DEF ClaimNext, DistinctWorkers
    <3> QED
      BY <1>3, <3>1, <3>2 DEF ClaimNext
  <2> QED
    BY <2>2, <2>3
<1>4. ASSUME NEW p \in Procs, Record(p) PROVE LatestClaim'
  BY <1>4 DEF Record
<1>5. ASSUME NEW p \in Procs, RecordRejected(p) \/ Crash(p) PROVE LatestClaim'
  BY <1>5 DEF RecordRejected, Crash
<1>6. CASE Tick \/ UNCHANGED vars
  BY <1>6 DEF Tick, vars
<1> QED
  BY <1>1, <1>2, <1>3, <1>4, <1>5, <1>6 DEF Next

\* What a runner that passes the guard writes is a record of the row's attempt.
LEMMA RecordsLatest ==
  ASSUME TypeOK, WorksOnAJob, LatestClaim, NEW p \in Procs, Record(p)
  PROVE  /\ job[p] \in Jobs
         /\ state[job[p]] = "running"
         /\ att[p] = attempt[job[p]]
         /\ RecordedAttempt(p) = attempt[job[p]]
BY DEF TypeOK, WorksOnAJob, LatestClaim, Record, CanRecord, HoldsLease, Working,
       RecordedAttempt

LEMMA StepLedger ==
  TypeOK /\ WorksOnAJob /\ LatestClaim /\ LedgerMatchesRows /\ [Next]_vars
  => LedgerMatchesRows'
<1> SUFFICES ASSUME TypeOK, WorksOnAJob, LatestClaim, LedgerMatchesRows, [Next]_vars
             PROVE  LedgerMatchesRows'
  OBVIOUS
<1> USE JobQueueAssumption DEF TypeOK, rowVars, ledgerVars, procVars
<1>1. ASSUME NEW j \in Jobs, Enqueue(j) PROVE LedgerMatchesRows'
  BY <1>1 DEF Enqueue, LedgerMatchesRows, NoRecordAhead, EndsAgree, RowsRecorded,
              EventsAudited, Ended
<1>2. ASSUME NEW p \in Procs, NEW j \in Jobs, ClaimNext(p, j) PROVE LedgerMatchesRows'
  <2>1. /\ state[j] \in {"queued", "retryable_failure", "running"}
        /\ state' = [state EXCEPT ![j] = "running"]
        /\ attempt' = [attempt EXCEPT ![j] = NextAttempt(j)]
        /\ UNCHANGED <<events, audits>>
    BY <1>2 DEF ClaimNext, Due, Ready
  <2>2. \A e \in events : e.job = j => e.attempt < NextAttempt(j)
    <3>1. SUFFICES ASSUME NEW e \in events, e.job = j PROVE e.attempt < NextAttempt(j)
      OBVIOUS
    <3>2. e.attempt \in 1..AttemptBound /\ e.attempt <= attempt[j]
      BY <3>1 DEF LedgerMatchesRows, NoRecordAhead
    <3>3. CASE state[j] = "retryable_failure"
      <4>1. attempt[j] < MaxAttempts
        BY <3>3 DEF LedgerMatchesRows, RowsRecorded, EndsAgree, Id
      <4> QED
        BY <3>2, <3>3, <4>1 DEF NextAttempt, MinOf
    <3>4. CASE state[j] \in {"queued", "running"}
      <4>1. e.attempt < attempt[j]
        BY <3>1, <3>2, <3>4 DEF LedgerMatchesRows, NoRecordAhead, Ended
      <4> QED
        BY <3>2, <3>4, <4>1 DEF NextAttempt, MinOf
    <3> QED
      BY <2>1, <3>3, <3>4
  <2>3. NextAttempt(j) \in 1..AttemptBound
    BY NextAttemptType
  <2>4. NoRecordAhead'
    BY <2>1, <2>2, <2>3 DEF LedgerMatchesRows, NoRecordAhead, Ended
  <2>5. EndsAgree'
    BY <2>1, <2>3 DEF LedgerMatchesRows, EndsAgree
  <2>6. RowsRecorded'
    BY <2>1, <2>3 DEF LedgerMatchesRows, RowsRecorded
  <2>7. EventsAudited'
    BY <2>1 DEF LedgerMatchesRows, EventsAudited
  <2> QED
    BY <2>4, <2>5, <2>6, <2>7 DEF LedgerMatchesRows
<1>3. ASSUME NEW p \in Procs, Record(p) PROVE LedgerMatchesRows'
  <2> DEFINE j == job[p]
             e1 == EventOf(p)
             a1 == AuditOf(p)
  <2>1. /\ j \in Jobs
        /\ state[j] = "running"
        /\ att[p] = attempt[j]
        /\ RecordedAttempt(p) = attempt[j]
    BY <1>3, RecordsLatest
  <2>2. /\ state' = [state EXCEPT ![j] = RecordedState(p)]
        /\ events' = events \cup {e1}
        /\ audits' = audits \cup {a1}
        /\ UNCHANGED attempt
    BY <1>3 DEF Record
  <2>3. /\ RecordedState(p) \in {"succeeded", "retryable_failure", "failed"}
        /\ RecordedState(p) = "retryable_failure" => attempt[j] < MaxAttempts
    BY <2>1 DEF RecordedState, IsRetryable
  <2>4. /\ e1.job = j /\ e1.attempt = attempt[j]
        /\ e1.kind \in EventKind
        /\ e1.kind = "job.completed" <=> RecordedState(p) = "succeeded"
        /\ e1.kind = "job.failed" <=> RecordedState(p) = "failed"
        /\ e1 = Id(e1.kind, j, attempt[j])
    BY <2>1, <2>3 DEF EventOf, Id, EventKind
  <2>5. a1 = Id(IF e1.kind = "job.completed" THEN "job.completed" ELSE "job.failure",
                j, attempt[j])
    BY <2>1, <2>3, <2>4 DEF AuditOf, Id
  <2>6. \A e \in events : e.job = j => e.attempt < attempt[j]
    BY <2>1 DEF LedgerMatchesRows, NoRecordAhead, Ended
  <2>7. NoRecordAhead'
    BY <2>1, <2>2, <2>3, <2>4 DEF LedgerMatchesRows, NoRecordAhead, Ended
  <2>8. EndsAgree'
    BY <2>1, <2>2, <2>3, <2>4 DEF LedgerMatchesRows, EndsAgree, EventKind
  <2>9. RowsRecorded'
    BY <2>1, <2>2, <2>3, <2>4 DEF LedgerMatchesRows, RowsRecorded, EventKind
  <2>10. EventsAudited'
    <3>1. \A e \in events' :
            Id(IF e.kind = "job.completed" THEN "job.completed" ELSE "job.failure",
               e.job, e.attempt) \in audits'
      BY <2>2, <2>4, <2>5 DEF LedgerMatchesRows, EventsAudited
    <3>2. \A a \in audits' : \E e \in events' : e.job = a.job /\ e.attempt = a.attempt
      BY <2>2, <2>4, <2>5 DEF LedgerMatchesRows, EventsAudited, Id
    <3>3. \A e, f \in events' : e.job = f.job /\ e.attempt = f.attempt => e = f
      BY <2>1, <2>2, <2>4, <2>6 DEF LedgerMatchesRows, EventsAudited
    <3> QED
      BY <3>1, <3>2, <3>3 DEF EventsAudited
  <2> QED
    BY <2>7, <2>8, <2>9, <2>10 DEF LedgerMatchesRows
<1>4. CASE UNCHANGED <<state, attempt, events, audits>>
  BY <1>4 DEF LedgerMatchesRows, NoRecordAhead, EndsAgree, RowsRecorded, EventsAudited
<1>5. \/ \E j \in Jobs : Enqueue(j)
      \/ \E p \in Procs : Record(p) \/ \E j \in Jobs : ClaimNext(p, j)
      \/ UNCHANGED <<state, attempt, events, audits>>
  BY DEF Next, StartRun, ClaimNothing, StartRenewal, Renew, FinishHandler,
         RecordRejected, Crash, Tick, vars
<1> QED
  BY <1>1, <1>2, <1>3, <1>4, <1>5

\* The inductive invariant: types, what a working runner works on, that the latest
\* claim of a running row is its holder's, and the ledger.
LEMMA LedgerInvariant == DistinctWorkers => (Spec => []LedgerInv)
<1> SUFFICES ASSUME DistinctWorkers PROVE Spec => []LedgerInv
  OBVIOUS
<1>1. Init => LedgerInv
  BY InitTypeOK, InitWorks, InitLedger DEF LedgerInv
<1>2. LedgerInv /\ [Next]_vars => LedgerInv'
  BY StepTypeOK, StepWorks, StepLatestClaim, StepLedger DEF LedgerInv
<1> QED
  BY <1>1, <1>2, PTL DEF Spec

\* With a worker_id to each instance, the job row, the outbox and the audit log
\* agree in every reachable state.
THEOREM LedgerCorrect == DistinctWorkers => (Spec => []LedgerMatchesRows)
<1> SUFFICES ASSUME DistinctWorkers PROVE Spec => []LedgerMatchesRows
  OBVIOUS
<1>1. LedgerInv => LedgerMatchesRows
  BY DEF LedgerInv
<1> QED
  BY <1>1, LedgerInvariant, PTL

\* A stale runner records nothing, whatever its clock said.
THEOREM StaleRunnerHarmless == DistinctWorkers => (Spec => OutcomeByLatestClaim)
<1> SUFFICES ASSUME DistinctWorkers PROVE Spec => OutcomeByLatestClaim
  OBVIOUS
<1> DEFINE Outcome ==
      \A j \in Jobs : state[j] = "running" /\ state'[j] # "running" =>
        \E p \in Procs : /\ pc[p] = "recording" /\ pc'[p] = "idle"
                          /\ job[p] = j
                          /\ att[p] = attempt[j]
<1>1. LedgerInv /\ [Next]_vars => [Outcome]_vars
  <2> SUFFICES ASSUME LedgerInv, Next PROVE Outcome
    OBVIOUS
  <2> USE DEF LedgerInv, TypeOK, rowVars
  <2>1. ASSUME NEW p \in Procs, Record(p) PROVE Outcome
    BY <2>1, RecordsLatest DEF Record, BackToIdle
  <2>2. CASE \E j \in Jobs : Enqueue(j)
    BY <2>2 DEF Enqueue
  <2>3. CASE \E p \in Procs, j \in Jobs : ClaimNext(p, j)
    BY <2>3 DEF ClaimNext
  <2>4. \/ UNCHANGED state
        \/ \E j \in Jobs : Enqueue(j)
        \/ \E p \in Procs : Record(p) \/ \E j \in Jobs : ClaimNext(p, j)
    BY DEF Next, StartRun, ClaimNothing, StartRenewal, Renew, FinishHandler,
           RecordRejected, Crash, Tick
  <2> QED
    BY <2>1, <2>2, <2>3, <2>4
<1>2. Spec => []LedgerInv
  BY LedgerInvariant
<1>3. Spec => [][Outcome]_vars
  BY <1>1, <1>2, PTL DEF Spec
<1> QED
  BY <1>3 DEF OutcomeByLatestClaim

\* The ids of its event and its audit are free for a runner that holds the lease:
\* an outcome that can be written at all is never rolled back for a taken id, after
\* which the job would be reclaimed and rolled back for ever.
HolderCanRecord ==
  \A p \in Procs :
    pc[p] = "recording" /\ result[p] # "unrecordable" /\ HoldsLease(p) => CanRecord(p)

\* With a worker_id to each instance, what the holder of a lease has to record
\* is never refused (_complete, _record_failure).
THEOREM HolderRecords == DistinctWorkers => (Spec => []HolderCanRecord)
<1> SUFFICES ASSUME DistinctWorkers PROVE Spec => []HolderCanRecord
  OBVIOUS
<1>1. LedgerInv => HolderCanRecord
  <2> SUFFICES ASSUME LedgerInv, NEW p \in Procs,
                      pc[p] = "recording", result[p] # "unrecordable", HoldsLease(p)
               PROVE  CanRecord(p)
    BY DEF HolderCanRecord
  <2>1. /\ job[p] \in Jobs
        /\ state[job[p]] = "running"
        /\ RecordedAttempt(p) = attempt[job[p]]
    BY DEF LedgerInv, WorksOnAJob, LatestClaim, HoldsLease, Working, RecordedAttempt
  <2>2. \A e \in events : ~(e.job = job[p] /\ e.attempt = RecordedAttempt(p))
    BY <2>1 DEF LedgerInv, LedgerMatchesRows, NoRecordAhead, Ended
  <2>3. \A a \in audits : ~(a.job = job[p] /\ a.attempt = RecordedAttempt(p))
    BY <2>2 DEF LedgerInv, LedgerMatchesRows, EventsAudited
  <2>4. EventOf(p).job = job[p] /\ EventOf(p).attempt = RecordedAttempt(p)
    BY DEF EventOf, Id
  <2>5. AuditOf(p).job = job[p] /\ AuditOf(p).attempt = RecordedAttempt(p)
    BY DEF AuditOf, Id
  <2> QED
    BY <2>2, <2>3, <2>4, <2>5 DEF CanRecord
<1> QED
  BY <1>1, LedgerInvariant, PTL

-----------------------------------------------------------------------------
(* The refinement of JobPromise *)

LEMMA InitPromise == Init => Promise!Init
BY DEF Init, Promise!Init, OutcomeOf, RetriesOf, Ended

LEMMA StepPromise == LedgerInv /\ [Next]_vars => [Promise!Next]_(Promise!vars)
<1> SUFFICES ASSUME LedgerInv, [Next]_vars
             PROVE  Promise!Next \/ UNCHANGED Promise!vars
  OBVIOUS
<1> USE DEF LedgerInv, TypeOK, rowVars, ledgerVars
<1>1. ASSUME NEW j \in Jobs, Enqueue(j) PROVE Promise!Next
  <2>1. Promise!Submit(j)
    BY <1>1 DEF Enqueue, Promise!Submit, OutcomeOf, RetriesOf, Ended
  <2> QED
    BY <2>1 DEF Promise!Next
<1>2. ASSUME NEW p \in Procs, NEW j \in Jobs, ClaimNext(p, j)
      PROVE  UNCHANGED Promise!vars
  <2>1. state[j] \in {"queued", "retryable_failure", "running"} /\ events' = events
    BY <1>2 DEF ClaimNext, Due, Ready
  <2>2. \A k \in Jobs : OutcomeOf(k)' = OutcomeOf(k)
    BY <1>2, <2>1 DEF ClaimNext, OutcomeOf, Ended
  <2>3. \A k \in Jobs : RetriesOf(k)' = RetriesOf(k)
    BY <2>1 DEF RetriesOf
  <2> QED
    BY <2>2, <2>3 DEF Promise!vars
<1>3. ASSUME NEW p \in Procs, Record(p) PROVE Promise!Next
  <2>0. PICK j \in Jobs : j = job[p]
    BY <1>3, RecordsLatest
  <2> DEFINE e1 == EventOf(p)
  <2>1. /\ state[j] = "running"
        /\ att[p] = attempt[j]
        /\ RecordedAttempt(p) = attempt[j]
    BY <1>3, <2>0, RecordsLatest
  <2>2. /\ state' = [state EXCEPT ![j] = RecordedState(p)]
        /\ events' = events \cup {e1}
    BY <1>3, <2>0 DEF Record
  <2>3. /\ OutcomeOf(j) = "open"
        /\ \A k \in Jobs \ {j} : OutcomeOf(k)' = OutcomeOf(k)
    BY <2>1, <2>2 DEF OutcomeOf, Ended
  <2>4. /\ e1.job = j /\ e1.attempt = attempt[j]
        /\ e1.kind = "job.retry_scheduled" <=> RecordedState(p) = "retryable_failure"
    BY <2>0, <2>1 DEF EventOf, Id, RecordedState
  <2>5. \A k \in Jobs \ {j} : RetriesOf(k)' = RetriesOf(k)
    BY <2>2, <2>4 DEF RetriesOf
  <2>6. CASE RecordedState(p) = "retryable_failure"
    <3>1. attempt[j] \in 1..(MaxAttempts - 1)
      BY <2>1, <2>6, JobQueueAssumption DEF RecordedState, IsRetryable
    <3>2. \A b \in RetriesOf(j) : b < attempt[j]
      BY <2>1 DEF RetriesOf, LedgerMatchesRows, NoRecordAhead, Ended
    <3>3. RetriesOf(j)' = RetriesOf(j) \cup {attempt[j]}
      BY <2>2, <2>4, <2>6 DEF RetriesOf
    <3>4. OutcomeOf(j)' = "open"
      BY <2>1, <2>2, <2>6 DEF OutcomeOf, Ended
    <3>5. Promise!AnnounceRetry(j, attempt[j])
      <4>1. attempt[j] < MaxAttempts
        BY <3>1, JobQueueAssumption
      <4>2. \A k \in Jobs :
              RetriesOf(k)' = IF k = j THEN RetriesOf(j) \cup {attempt[j]} ELSE RetriesOf(k)
        BY <2>5, <3>3
      <4>3. \A k \in Jobs : OutcomeOf(k)' = OutcomeOf(k)
        BY <2>3, <3>4
      <4> HIDE DEF TypeOK
      <4> QED
        BY <2>3, <3>2, <4>1, <4>2, <4>3 DEF Promise!AnnounceRetry
    <3> QED
      BY <2>1, <3>1, <3>5 DEF Promise!Next
  <2>7. CASE RecordedState(p) \in {"succeeded", "failed"}
    <3>1. RetriesOf(j)' = RetriesOf(j)
      BY <2>2, <2>4, <2>7 DEF RetriesOf
    <3>2. OutcomeOf(j)' = RecordedState(p)
      BY <2>1, <2>2, <2>7 DEF OutcomeOf, Ended
    <3>3. Promise!End(j, RecordedState(p))
      BY <2>1, <2>3, <2>5, <3>1, <3>2 DEF Promise!End
    <3> QED
      BY <2>1, <2>7, <3>3 DEF Promise!Next
  <2> QED
    BY <2>6, <2>7 DEF RecordedState
<1>4. CASE UNCHANGED <<state, events>>
  BY <1>4 DEF Promise!vars, OutcomeOf, RetriesOf
<1>5. \/ \E j \in Jobs : Enqueue(j)
      \/ \E p \in Procs : Record(p) \/ \E j \in Jobs : ClaimNext(p, j)
      \/ UNCHANGED <<state, events>>
  BY DEF Next, StartRun, ClaimNothing, StartRenewal, Renew, FinishHandler,
         RecordRejected, Crash, Tick, vars
<1> QED
  BY <1>1, <1>2, <1>3, <1>4, <1>5

\* The queue implements its abstract promise: a job ends at most once, after at
\* most MaxAttempts - 1 announced retries.
THEOREM QueueKeepsPromise == DistinctWorkers => (Spec => KeepsPromise)
<1> SUFFICES ASSUME DistinctWorkers PROVE Spec => KeepsPromise
  OBVIOUS
<1>1. Spec => []LedgerInv
  BY LedgerInvariant
<1> QED
  BY <1>1, InitPromise, StepPromise, PTL DEF Spec, KeepsPromise, Promise!Spec
=============================================================================
