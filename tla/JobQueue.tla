------------------------------ MODULE JobQueue ------------------------------
(***************************************************************************)
(* The durable execution plane: the job_execution table, the lease-safe    *)
(* statements of PostgresJobRepository and the JobRunner processes that    *)
(* claim a job, run its handler outside any transaction and record what    *)
(* came of it (claim -> handle -> complete/fail -> audit + outbox).        *)
(*                                                                         *)
(* Time is kept relative to the present, as PostgreSQL compares absolute   *)
(* timestamps only with one another: lease[j] is lease_until - now and     *)
(* wait[j] is available_at - now.  A process reads its clock BEFORE it     *)
(* opens the transaction that uses the value; lag[p] is how old the        *)
(* reading is, so "lease_until > now" in the statement is lease > -lag.    *)
(* Below -MaxLag no comparison can tell two values apart, so the counters  *)
(* stop there.                                                             *)
(***************************************************************************)
EXTENDS Integers, FiniteSets

CONSTANTS
  Jobs,          \* job_id values
  Procs,         \* running JobRunner instances
  Workers,       \* worker_id values; two instances may carry the same one
  NoWorker,      \* SQL null in the worker_id column
  NoJob,         \* what a runner between two runs works on
  WorkerOf,      \* the worker_id each instance was constructed with
  LeaseSeconds,  \* JobRunner lease_seconds
  MaxAttempts,   \* RetryPolicy.max_attempts
  InitialDelay,  \* RetryPolicy.initial_delay_seconds
  MaxDelay,      \* RetryPolicy.max_delay_seconds
  RecordableKinds, \* a subset of BOOLEAN: FALSE if a handler may end with a
                   \* blank error text or an output json.dumps rejects
  MaxLag,        \* bound: age of a clock reading when its transaction commits
  AttemptBound   \* bound: attempt numbers above it are not told apart

ASSUME JobQueueAssumption ==
  /\ NoWorker \notin Workers
  /\ NoJob \notin Jobs
  /\ WorkerOf \in [Procs -> Workers]
  /\ LeaseSeconds \in Nat \ {0}
  /\ MaxAttempts \in Nat \ {0}
  /\ InitialDelay \in Nat \ {0}
  /\ MaxDelay \in Nat \ {0}
  /\ RecordableKinds \subseteq BOOLEAN
  /\ MaxLag \in Nat
  /\ AttemptBound \in Nat /\ AttemptBound >= MaxAttempts

VARIABLES
  state,    \* job_execution.state, "absent" before the row exists
  attempt,  \* job_execution.attempt
  holder,   \* job_execution.worker_id
  lease,    \* job_execution.lease_until - now
  wait,     \* job_execution.available_at - now
  events,   \* outbox_event rows the runner appended, by their uuid5 name
  audits,   \* audit_log rows the runner appended, by their uuid5 name
  pc,       \* where each runner is
  job,      \* the job it claimed last
  att,      \* the attempt number of that claim
  result,   \* how its handler ended
  lag       \* the age of the clock reading its open transaction uses

rowVars == <<state, attempt, holder, lease, wait>>
ledgerVars == <<events, audits>>
procVars == <<pc, job, att, result, lag>>
vars == <<rowVars, ledgerVars, procVars>>

-----------------------------------------------------------------------------
(* Values *)

Ready == {"queued", "retryable_failure"}
Ended == {"succeeded", "failed"}
JobState == {"absent", "running"} \cup Ready \cup Ended
EventKind == {"job.completed", "job.retry_scheduled", "job.failed"}
AuditKind == {"job.completed", "job.failure"}

\* The identity uuid5(f"{kind}:{job_id}:{attempt}") gives an event or an audit.
Id(kind, j, a) == [kind |-> kind, job |-> j, attempt |-> a]

InTransaction == {"claiming", "renewing", "recording"}
Working == {"handling", "renewing", "recording"}

\* RetryPolicy.delay_for and is_retryable.
MinOf(x, y) == IF x <= y THEN x ELSE y
DelayFor(a) == MinOf(InitialDelay * 2^(a - 1), MaxDelay)
IsRetryableOffByOne(a) == a <= MaxAttempts  \* mutant
IsRetryable(a) == a < MaxAttempts

-----------------------------------------------------------------------------
(* Rows as the statements of PostgresJobRepository see them *)

\* The WHERE clause of claim_next, at a clock reading of age l.
DueReadyOnly(j, l) == state[j] \in Ready /\ wait[j] <= -l  \* mutant: no reclaim
Due(j, l) ==
  \/ state[j] \in Ready /\ wait[j] <= -l
  \/ state[j] = "running" /\ lease[j] <= -l

\* FOR UPDATE SKIP LOCKED: rows another open transaction may hold.
MayBeLocked(p, j) ==
  \E q \in Procs \ {p} :
    \/ pc[q] = "claiming"
    \/ pc[q] \in {"renewing", "recording"} /\ job[q] = j

\* The WHERE clause renew, complete and fail share.
HoldsLeaseAnyWorker(p) ==  \* mutant: the worker_id is not compared
  /\ state[job[p]] = "running"
  /\ lease[job[p]] > -lag[p]

HoldsLease(p) ==
  /\ state[job[p]] = "running"
  /\ holder[job[p]] = WorkerOf[p]
  /\ lease[job[p]] > -lag[p]

\* The attempt number the UPDATE of claim_next gives the row.
NextAttemptKept(j) == attempt[j]  \* mutant: a reclaim is not a new attempt
NextAttempt(j) ==
  IF state[j] = "queued" /\ attempt[j] = 1 THEN 1
  ELSE MinOf(attempt[j] + 1, AttemptBound)

-----------------------------------------------------------------------------

Init ==
  /\ state = [j \in Jobs |-> "absent"]
  /\ attempt = [j \in Jobs |-> 1]
  /\ holder = [j \in Jobs |-> NoWorker]
  /\ lease = [j \in Jobs |-> -MaxLag]
  /\ wait = [j \in Jobs |-> -MaxLag]
  /\ events = {}
  /\ audits = {}
  /\ pc = [p \in Procs |-> "idle"]
  /\ job = [p \in Procs |-> NoJob]
  /\ att = [p \in Procs |-> 1]
  /\ result = [p \in Procs |-> "none"]
  /\ lag = [p \in Procs |-> 0]

\* JobRepository.enqueue of a new job, due at once or after a delay.  Enqueueing
\* an existing job_id returns the row or raises; neither changes a row.
Enqueue(j) ==
  /\ state[j] = "absent"
  /\ state' = [state EXCEPT ![j] = "queued"]
  /\ \E d \in {0, InitialDelay} : wait' = [wait EXCEPT ![j] = d]
  /\ UNCHANGED <<attempt, holder, lease, ledgerVars, procVars>>

\* The end of a run, whatever became of it.
BackToIdle(p) ==
  /\ pc' = [pc EXCEPT ![p] = "idle"]
  /\ job' = [job EXCEPT ![p] = NoJob]
  /\ att' = [att EXCEPT ![p] = 1]
  /\ result' = [result EXCEPT ![p] = "none"]
  /\ lag' = [lag EXCEPT ![p] = 0]

\* run_next reads the clock, then opens the claiming transaction.
StartRun(p) ==
  /\ pc[p] = "idle"
  /\ pc' = [pc EXCEPT ![p] = "claiming"]
  /\ lag' = [lag EXCEPT ![p] = 0]
  /\ UNCHANGED <<rowVars, ledgerVars, job, att, result>>

\* claim_next takes the first due row, in available_at order, that no other
\* transaction holds.
ClaimNext(p, j) ==
  /\ pc[p] = "claiming"
  /\ Due(j, lag[p])
  /\ \A k \in Jobs : Due(k, lag[p]) /\ wait[k] < wait[j] => MayBeLocked(p, k)
  /\ state' = [state EXCEPT ![j] = "running"]
  /\ attempt' = [attempt EXCEPT ![j] = NextAttempt(j)]
  /\ holder' = [holder EXCEPT ![j] = WorkerOf[p]]
  /\ lease' = [lease EXCEPT ![j] = LeaseSeconds - lag[p]]
  /\ pc' = [pc EXCEPT ![p] = "handling"]
  /\ job' = [job EXCEPT ![p] = j]
  /\ att' = [att EXCEPT ![p] = NextAttempt(j)]
  /\ lag' = [lag EXCEPT ![p] = 0]
  /\ UNCHANGED <<wait, ledgerVars, result>>

\* claim_next finds nothing it may take; run_next returns None.
ClaimNothing(p) ==
  /\ pc[p] = "claiming"
  /\ \A j \in Jobs : Due(j, lag[p]) => MayBeLocked(p, j)
  /\ BackToIdle(p)
  /\ UNCHANGED <<rowVars, ledgerVars>>

\* JobHandlerContext.renew_lease reads the clock and opens a transaction.
StartRenewal(p) ==
  /\ pc[p] = "handling"
  /\ pc' = [pc EXCEPT ![p] = "renewing"]
  /\ lag' = [lag EXCEPT ![p] = 0]
  /\ UNCHANGED <<rowVars, ledgerVars, job, att, result>>

\* PostgresJobRepository.renew; a rejected renewal raises into the handler.
Renew(p) ==
  /\ pc[p] = "renewing"
  /\ lease' = IF HoldsLease(p)
              THEN [lease EXCEPT ![job[p]] = LeaseSeconds - lag[p]] ELSE lease
  /\ pc' = [pc EXCEPT ![p] = "handling"]
  /\ lag' = [lag EXCEPT ![p] = 0]
  /\ UNCHANGED <<state, attempt, holder, wait, ledgerVars, job, att, result>>

\* The handler returns, raises PermanentJobError (or has no registration), or
\* raises anything else; the runner then reads the clock for the outcome.  An
\* outcome that cannot be written (a blank error text, which fail refuses, or an
\* output that is not JSON) makes the recording transaction raise.
FinishHandler(p) ==
  /\ pc[p] = "handling"
  /\ \E r \in {"done", "retryable", "permanent"}, recordable \in RecordableKinds :
       result' = [result EXCEPT ![p] = IF recordable THEN r ELSE "unrecordable"]
  /\ pc' = [pc EXCEPT ![p] = "recording"]
  /\ lag' = [lag EXCEPT ![p] = 0]
  /\ UNCHANGED <<rowVars, ledgerVars, job, att>>

\* What the recording transaction writes: the row's new state, the event and
\* the audit.  complete names them by the row's attempt, fail by the claim's.
RecordedAttempt(p) == IF result[p] = "done" THEN attempt[job[p]] ELSE att[p]
RecordedStateRaw(p) == result[p]  \* mutant: the outcome instead of its state
RecordedState(p) ==
  IF result[p] = "done" THEN "succeeded"
  ELSE IF result[p] = "retryable" /\ IsRetryable(att[p]) THEN "retryable_failure"
  ELSE "failed"
EventOf(p) ==
  Id(IF RecordedState(p) = "succeeded" THEN "job.completed"
     ELSE IF RecordedState(p) = "failed" THEN "job.failed"
     ELSE "job.retry_scheduled",
     job[p], RecordedAttempt(p))
AuditOf(p) ==
  Id(IF RecordedState(p) = "succeeded" THEN "job.completed" ELSE "job.failure",
     job[p], RecordedAttempt(p))

\* The audit id is a primary key, and appending an event under an id that is
\* already taken raises: either rolls the transaction back.
CanRecord(p) ==
  /\ result[p] # "unrecordable"
  /\ HoldsLease(p)
  /\ EventOf(p) \notin events
  /\ AuditOf(p) \notin audits

\* _complete and _record_failure: row, event and audit in one transaction.
Record(p) ==
  /\ pc[p] = "recording"
  /\ CanRecord(p)
  /\ state' = [state EXCEPT ![job[p]] = RecordedState(p)]
  /\ holder' = [holder EXCEPT ![job[p]] = NoWorker]
  /\ lease' = [lease EXCEPT ![job[p]] = -MaxLag]
  /\ wait' = [wait EXCEPT ![job[p]] =
                IF RecordedState(p) = "retryable_failure"
                THEN DelayFor(att[p]) - lag[p] ELSE -MaxLag]
  /\ events' = events \cup {EventOf(p)}
  /\ audits' = audits \cup {AuditOf(p)}
  /\ BackToIdle(p)
  /\ UNCHANGED attempt

\* complete or fail raises, or a later statement of the transaction does: the
\* rollback leaves the row as it was and run_next raises to its caller.
RecordRejected(p) ==
  /\ pc[p] = "recording"
  /\ ~CanRecord(p)
  /\ BackToIdle(p)
  /\ UNCHANGED <<rowVars, ledgerVars>>

\* The process dies, with its open transaction, and is started again.
Crash(p) ==
  /\ pc[p] # "idle"
  /\ BackToIdle(p)
  /\ UNCHANGED <<rowVars, ledgerVars>>

\* One unit of time.  No clock reading gets older than MaxLag.
Tick ==
  /\ \A p \in Procs : pc[p] \in InTransaction => lag[p] < MaxLag
  /\ lease' = [j \in Jobs |-> IF lease[j] > -MaxLag THEN lease[j] - 1 ELSE lease[j]]
  /\ wait' = [j \in Jobs |-> IF wait[j] > -MaxLag THEN wait[j] - 1 ELSE wait[j]]
  /\ lag' = [p \in Procs |-> IF pc[p] \in InTransaction THEN lag[p] + 1 ELSE lag[p]]
  /\ UNCHANGED <<state, attempt, holder, ledgerVars, pc, job, att, result>>

Next ==
  \/ \E j \in Jobs : Enqueue(j)
  \/ \E p \in Procs :
       \/ StartRun(p)
       \/ \E j \in Jobs : ClaimNext(p, j)
       \/ ClaimNothing(p)
       \/ StartRenewal(p)
       \/ Renew(p)
       \/ FinishHandler(p)
       \/ Record(p)
       \/ RecordRejected(p)
       \/ Crash(p)
  \/ Tick

Spec == Init /\ [][Next]_vars

(***************************************************************************)
(* Fairness.  Runners poll forever and transactions end (weak fairness);   *)
(* time passes.  A runner is not killed, or made to skip a locked row,     *)
(* every time it could claim; a handler that keeps renewing ends one day,  *)
(* and is not too slow, nor its process killed, every time (strong         *)
(* fairness of ClaimNext, FinishHandler, FinishInTime and Record).         *)
(* Nothing is assumed of Enqueue, StartRenewal and Crash.                  *)
(***************************************************************************)
FinishInTime(p) == pc[p] = "handling" /\ HoldsLease(p) /\ FinishHandler(p)

Fairness ==
  /\ WF_vars(Tick)
  /\ \A p \in Procs :
       /\ WF_vars(StartRun(p))
       /\ WF_vars(ClaimNothing(p))
       /\ SF_vars(\E j \in Jobs : ClaimNext(p, j))
       /\ WF_vars(Renew(p))
       /\ SF_vars(FinishHandler(p))
       /\ WF_vars(RecordRejected(p))
       /\ SF_vars(FinishInTime(p))
       /\ SF_vars(Record(p))

FairSpec == Spec /\ Fairness

-----------------------------------------------------------------------------
(* Properties *)

\* Every column and every runner's local state has a value the code can give it.
TypeOK ==
  /\ state \in [Jobs -> JobState]
  /\ attempt \in [Jobs -> 1..AttemptBound]
  /\ holder \in [Jobs -> Workers \cup {NoWorker}]
  /\ lease \in [Jobs -> Int]
  /\ wait \in [Jobs -> Int]
  /\ events \subseteq [kind : EventKind, job : Jobs, attempt : 1..AttemptBound]
  /\ audits \subseteq [kind : AuditKind, job : Jobs, attempt : 1..AttemptBound]
  /\ pc \in [Procs -> {"idle", "handling"} \cup InTransaction]
  /\ job \in [Procs -> Jobs \cup {NoJob}]
  /\ att \in [Procs -> 1..AttemptBound]
  /\ result \in [Procs -> {"none", "done", "retryable", "permanent", "unrecordable"}]
  /\ lag \in [Procs -> 0..MaxLag]

\* No two live instances were given the same worker_id.  The constructor does not
\* enforce it: its default is the constant "worker".
DistinctWorkers ==
  \A p, q \in Procs : WorkerOf[p] = WorkerOf[q] => p = q

\* No record is of a later attempt than the row's, and none is of the attempt
\* that is waiting or running.
NoRecordAhead ==
  \A e \in events :
    /\ e.attempt <= attempt[e.job]
    /\ e.attempt = attempt[e.job] =>
         state[e.job] \in {"retryable_failure"} \cup Ended

\* An event that ends a job is of its last attempt and agrees with the row.
EndsAgree ==
  \A e \in events :
    /\ e.kind = "job.completed" =>
         state[e.job] = "succeeded" /\ e.attempt = attempt[e.job]
    /\ e.kind = "job.failed" =>
         state[e.job] = "failed" /\ e.attempt = attempt[e.job]
    /\ e.kind = "job.retry_scheduled" => e.attempt < MaxAttempts

\* A row whose attempt was recorded has the event of that outcome.
RowsRecorded ==
  \A j \in Jobs :
    /\ state[j] = "succeeded" => Id("job.completed", j, attempt[j]) \in events
    /\ state[j] = "failed" => Id("job.failed", j, attempt[j]) \in events
    /\ state[j] = "retryable_failure" =>
         Id("job.retry_scheduled", j, attempt[j]) \in events

\* Events and audits come in pairs, one pair to an attempt.
EventsAudited ==
  /\ \A e \in events :
       Id(IF e.kind = "job.completed" THEN "job.completed" ELSE "job.failure",
          e.job, e.attempt) \in audits
  /\ \A a \in audits : \E e \in events : e.job = a.job /\ e.attempt = a.attempt
  /\ \A e, f \in events : e.job = f.job /\ e.attempt = f.attempt => e = f

\* The row, its events and its audits tell one story (job_runner.py: the state,
\* the event and the audit of an attempt are one transaction, their ids derived
\* from the attempt number).  A violation is also a record that can never be
\* written, because its id is taken, so that the job is reclaimed for ever.
LedgerMatchesRows == NoRecordAhead /\ EndsAgree /\ RowsRecorded /\ EventsAudited

\* The refinement mapping to JobPromise: how a job stands in its row, and the
\* attempts a job.retry_scheduled event was appended for.
OutcomeOf(j) ==
  IF state[j] \in {"absent"} \cup Ended THEN state[j] ELSE "open"
RetriesOf(j) ==
  {e.attempt : e \in {f \in events : f.kind = "job.retry_scheduled" /\ f.job = j}}

Promise == INSTANCE JobPromise WITH
  outcome <- [j \in Jobs |-> OutcomeOf(j)],
  retries <- [j \in Jobs |-> RetriesOf(j)]

\* The queue implements JobPromise: through reclaims, stale runners and crashes a
\* job is ended at most once (the terminal states of foundation/jobs.py), and
\* RetryPolicy.max_attempts bounds the retries announced on the outbox.
KeepsPromise == Promise!Spec

\* A runner whose lease expired and whose job was claimed again records nothing:
\* a job leaves "running" only by the runner that made its latest claim.  (The
\* guard of complete and fail is the worker id, not the attempt, and the
\* runner's clock reading may be older than the expiry.)
OutcomeByLatestClaim ==
  [][\A j \in Jobs : state[j] = "running" /\ state'[j] # "running" =>
       \E p \in Procs : /\ pc[p] = "recording" /\ pc'[p] = "idle"
                         /\ job[p] = j
                         /\ att[p] = attempt[j]]_vars

\* Whatever crashes, overruns and retries happen on the way, a job that was
\* enqueued ends: it succeeds, or fails for good at the retry limit at latest.
EveryJobSettles ==
  \A j \in Jobs : state[j] = "queued" ~> state[j] \in Ended

=============================================================================
