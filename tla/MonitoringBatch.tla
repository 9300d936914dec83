--------------------------- MODULE MonitoringBatch ---------------------------
(***************************************************************************)
(* The checkpointed monitoring of counterparties: the daily batch and its  *)
(* items, the lease-safe statements of                                     *)
(* PostgresCounterpartyMonitoringBatchRepository and the worker instances  *)
(* that collect due monitors page by page, claim items, ask the registry   *)
(* in parallel threads and finalize the batch.                             *)
(*                                                                         *)
(* Calendar time is a day and a slot of the day: it decides which monitors *)
(* are due for a batch.  The last day has no end.  Items are not looked at *)
(* so closely: `leased` says that lease_until has not passed and `due`     *)
(* that available_at has, and each may change at any moment.  A run takes  *)
(* the defaults of run_once: its own clock and the key of that day.        *)
(***************************************************************************)
EXTENDS Integers, FiniteSets

CONSTANTS
  Monitors,     \* monitor_id values, in the order of the index
  Procs,        \* running CounterpartyMonitoringWorker instances
  Workers,      \* worker_id values; two instances may carry the same one
  NoWorker,     \* SQL null in the lease_worker_id column
  WorkerOf,     \* the worker_id each instance was constructed with
  LastDay,      \* bound: days
  Slots,        \* bound: slots of a day told apart
  PageLimit,    \* materialization_limit
  Parallelism,  \* max_parallelism
  MaxAttempts,  \* max_attempts
  Backoff,      \* bound: slots a back-off may reach ahead
  AttemptBound  \* bound: attempt numbers above it are not told apart

ASSUME MonitoringAssumption ==
  /\ Monitors \subseteq Nat \ {0}
  /\ NoWorker \notin Workers
  /\ WorkerOf \in [Procs -> Workers]
  /\ LastDay \in Nat \ {0}
  /\ Slots \in Nat \ {0}
  /\ PageLimit \in Nat \ {0}
  /\ Parallelism \in Nat \ {0}
  /\ MaxAttempts \in Nat \ {0}
  /\ Backoff \in Nat
  /\ AttemptBound \in Nat /\ AttemptBound > MaxAttempts

VARIABLES
  today, slot,  \* the calendar
  monitors,     \* counterparty_monitor rows, all of them active
  nextCheck,    \* next_check_at, in slots
  inError,      \* monitors with a last_error_code
  status,       \* counterparty_monitoring_batch.status, "absent" before the row
  cursor,       \* next_cursor, 0 for null
  collected,    \* collection_complete
  wanted,       \* history: who was due for every run under way when the batch was
                \* opened, and whose next check no other batch has set since
  state,        \* counterparty_monitoring_batch_item.state
  attempt,      \* .attempt
  holder,       \* .lease_worker_id
  leased,       \* .lease_until has not passed
  due,          \* .available_at has passed
  recorded,     \* items whose observation is stored under its idempotency key
  audits,       \* audit_log rows of failed attempts
  pc,           \* where each worker instance is
  scheduled,    \* the time it read when its run began
  day,          \* the day of the batch it works on
  thread,       \* its pool: one record per item
  quiet         \* finalize_batch counted no open item

calendarVars == <<today, slot>>
monitorVars == <<monitors, nextCheck, inError>>
batchVars == <<status, cursor, collected, wanted>>
itemVars == <<state, attempt, holder, leased, due>>
ledgerVars == <<recorded, audits>>
procVars == <<pc, scheduled, day, thread, quiet>>
vars == <<calendarVars, monitorVars, batchVars, itemVars, ledgerVars, procVars>>

-----------------------------------------------------------------------------
(* Values *)

Days == 1..LastDay
Items == Days \X Monitors
Open == {"pending", "running", "retryable"}
Settled == {"completed", "failed"}
ItemState == {"absent"} \cup Open \cup Settled
BatchStatus == {"absent", "collecting", "running", "completed"}
ThreadPc == {"none", "claimed", "asking", "recorded", "failing", "raised"}
Thread == [at : ThreadPc, attempt : 0..AttemptBound, late : BOOLEAN,
           seen : 0..(Slots * LastDay), retryable : BOOLEAN]
NoThread == [at |-> "none", attempt |-> 0, late |-> FALSE, seen |-> 0,
             retryable |-> FALSE]
Busy == {"claimed", "asking", "recorded", "failing"}

Now == (today - 1) * Slots + slot
MinOf(x, y) == IF x <= y THEN x ELSE y
FirstOf(S, n) == {m \in S : Cardinality({x \in S : x <= m}) <= n}

\* _fail: an attempt is retried while the limit is not reached, after a back-off
\* that may end in a later slot than it began.
ShouldRetry(retryable, a) == retryable /\ a < MaxAttempts
AvailableFrom(time, outcome) == IF outcome = "retryable" THEN time..(time + Backoff) ELSE {time}

-----------------------------------------------------------------------------
(* Rows as the statements of the repository see them *)

\* The page materialize_due_items selects for a run that began at a time.
DueAt(time) == {m \in monitors : nextCheck[m] <= time}
Page(p) ==
  IF collected[day[p]] THEN {}
  ELSE FirstOf({m \in DueAt(scheduled[p]) : m > cursor[day[p]]}, PageLimit)
CompletesOnFullPage(page) == Cardinality(page) <= PageLimit  \* mutant
CompletesCollection(page) == Cardinality(page) < PageLimit

\* The WHERE clause of claim_items, over the rows s.
ClaimableUntouched(s, i) ==  \* mutant: an expired lease is not reclaimed
  s[i] \in {"pending", "retryable"} /\ due[i]
ClaimableUnlessDone(s, i) ==  \* mutant: a failed item is tried again
  \/ s[i] \in {"pending", "retryable", "failed"} /\ due[i]
  \/ s[i] = "running" /\ ~leased[i]
Claimable(s, i) ==
  \/ s[i] \in {"pending", "retryable"} /\ due[i]
  \/ s[i] = "running" /\ ~leased[i]

\* The attempt number the UPDATE of claim_items gives the row.
NextAttemptKept(i) == attempt[i]  \* mutant: not counted
NextAttempt(i) == MinOf(attempt[i] + 1, AttemptBound)

\* SKIP LOCKED: rows another worker's open transaction may hold.
MayBeLocked(p, i) ==
  \E q \in Procs \ {p} : thread[q][i].at \in {"recorded", "failing"}

\* The WHERE clause complete_item and fail_item share, with the time the
\* thread read when it started.
HoldsLeaseAnyWorker(p, i) == state[i] = "running"  \* mutant
HoldsLease(p, i) ==
  /\ state[i] = "running"
  /\ holder[i] = WorkerOf[p]
  /\ attempt[i] = thread[p][i].attempt => ~thread[p][i].late

OpenItems(d) == {i \in Items : i[1] = d /\ state[i] \in Open}

-----------------------------------------------------------------------------

Init ==
  /\ today \in Days /\ slot = 0
  /\ monitors = {}
  /\ nextCheck = [m \in Monitors |-> 0]
  /\ inError = {}
  /\ status = [d \in Days |-> "absent"]
  /\ cursor = [d \in Days |-> 0]
  /\ collected = [d \in Days |-> FALSE]
  /\ wanted = [d \in Days |-> {}]
  /\ state = [i \in Items |-> "absent"]
  /\ attempt = [i \in Items |-> 0]
  /\ holder = [i \in Items |-> NoWorker]
  /\ leased = [i \in Items |-> FALSE]
  /\ due = [i \in Items |-> TRUE]
  /\ recorded = {}
  /\ audits = {}
  /\ pc = [p \in Procs |-> "idle"]
  /\ scheduled = [p \in Procs |-> 0]
  /\ day = [p \in Procs |-> today]
  /\ thread = [p \in Procs |-> [i \in Items |-> NoThread]]
  /\ quiet = [p \in Procs |-> FALSE]

\* save_monitoring: a new monitor is due at once.
AddMonitor(m) ==
  /\ m \notin monitors
  /\ monitors' = monitors \cup {m}
  /\ nextCheck' = [nextCheck EXCEPT ![m] = Now]
  /\ UNCHANGED <<calendarVars, inError, batchVars, itemVars, ledgerVars, procVars>>

\* run_once reads the clock, which says whose turn it is and in which batch.
BeginRun(p) ==
  /\ pc[p] = "idle"
  /\ pc' = [pc EXCEPT ![p] = "starting"]
  /\ scheduled' = [scheduled EXCEPT ![p] = Now]
  /\ day' = [day EXCEPT ![p] = today]
  /\ UNCHANGED <<calendarVars, monitorVars, batchVars, itemVars, ledgerVars, thread, quiet>>

\* Those who are due for every run of the batch that has read its clock.
DueForAll(d) ==
  {m \in monitors :
     \A q \in Procs : pc[q] = "starting" /\ day[q] = d => nextCheck[m] <= scheduled[q]}

\* start_or_resume_daily_batch and materialize_due_items for the batch of a run.
Collect(d, page) ==
  /\ wanted' = [wanted EXCEPT ![d] = IF status[d] = "absent" THEN DueForAll(d) ELSE @]
  /\ collected' = [collected EXCEPT ![d] = @ \/ CompletesCollection(page)]
  /\ cursor' = [cursor EXCEPT ![d] =
                  IF page = {} THEN @ ELSE CHOOSE m \in page : \A x \in page : x <= m]
  /\ status' = [status EXCEPT ![d] =
                  IF collected[d] THEN @
                  ELSE IF page # {} \/ \E m \in Monitors : state[<<d, m>>] # "absent"
                  THEN "running" ELSE "collecting"]

\* The first transaction of run_once.  The row lock of the batch serialises it
\* with the same transaction of other workers, who may have read the clock
\* later, and the day may be over.
StartRun(p) ==
  /\ pc[p] = "starting"
  /\ LET d == day[p]
         page == Page(p)
         rows == [i \in Items |->
                    IF i[1] = d /\ i[2] \in page /\ state[i] = "absent"
                    THEN "pending" ELSE state[i]]
         ready == {m \in Monitors : Claimable(rows, <<d, m>>)}
     IN \E locked \in SUBSET {m \in ready : MayBeLocked(p, <<d, m>>)} :
          LET claimed == {d} \X FirstOf(ready \ locked, Parallelism)
          IN /\ Collect(d, page)
             /\ state' = [i \in Items |-> IF i \in claimed THEN "running" ELSE rows[i]]
             /\ attempt' = [i \in Items |-> IF i \in claimed THEN NextAttempt(i) ELSE attempt[i]]
             /\ holder' = [i \in Items |-> IF i \in claimed THEN WorkerOf[p] ELSE holder[i]]
             /\ leased' = [i \in Items |-> i \in claimed \/ leased[i]]
             /\ thread' = [thread EXCEPT ![p] = [i \in Items |->
                             IF i \in claimed
                             THEN [NoThread EXCEPT !.at = "claimed", !.attempt = NextAttempt(i)]
                             ELSE NoThread]]
  /\ pc' = [pc EXCEPT ![p] = "working"]
  /\ UNCHANGED <<calendarVars, monitorVars, due, ledgerVars, scheduled, day, quiet>>

-----------------------------------------------------------------------------
(* _process_item, in a thread of the pool *)

\* The monitor of an item is no longer up to the batches of other days.
SetFor(i) == wanted' = [d \in Days |-> IF d = i[1] THEN wanted[d] ELSE wanted[d] \ {i[2]}]

\* The thread reads its clock, and gives up at once after too many attempts.
StartItem(p, i) ==
  /\ thread[p][i].at = "claimed"
  /\ thread' = [thread EXCEPT ![p][i].at =
                  IF thread[p][i].attempt > MaxAttempts
                  THEN "failing" ELSE "asking",
                              ![p][i].late = ~leased[i],
                              ![p][i].seen = Now]
  /\ UNCHANGED <<calendarVars, monitorVars, batchVars, itemVars, ledgerVars,
                 pc, scheduled, day, quiet>>

\* The provider answers and record_observation commits: once for an item,
\* a repetition finds the completed key and returns the stored snapshot.
RecordObservation(p, i) ==
  /\ thread[p][i].at = "asking"
  /\ recorded' = recorded \cup {i}
  /\ IF i \in recorded THEN UNCHANGED <<nextCheck, inError, wanted>>
     ELSE /\ nextCheck' = [nextCheck EXCEPT ![i[2]] = thread[p][i].seen + Slots]
          /\ inError' = inError \ {i[2]}
          /\ SetFor(i)
  /\ thread' = [thread EXCEPT ![p][i].at = "recorded"]
  /\ UNCHANGED <<calendarVars, monitors, status, cursor, collected, itemVars, audits,
                 pc, scheduled, day, quiet>>

\* The provider or the recording raises: outages and time-outs are retryable,
\* an answer about another counterparty is not.
ObservationFails(p, i) ==
  /\ thread[p][i].at = "asking"
  /\ \E retryable \in BOOLEAN :
       thread' = [thread EXCEPT ![p][i].at = "failing", ![p][i].retryable = retryable]
  /\ UNCHANGED <<calendarVars, monitorVars, batchVars, itemVars, ledgerVars,
                 pc, scheduled, day, quiet>>

Complete(p, i) ==
  /\ thread[p][i].at = "recorded"
  /\ HoldsLease(p, i)
  /\ state' = [state EXCEPT ![i] = "completed"]
  /\ holder' = [holder EXCEPT ![i] = NoWorker]
  /\ leased' = [leased EXCEPT ![i] = FALSE]
  /\ thread' = [thread EXCEPT ![p][i] = NoThread]
  /\ UNCHANGED <<calendarVars, monitorVars, batchVars, attempt, due, ledgerVars,
                 pc, scheduled, day, quiet>>

\* complete_item updates no row: IntegrityViolation, which _fail reports.
CompletionRejected(p, i) ==
  /\ thread[p][i].at = "recorded"
  /\ ~HoldsLease(p, i)
  /\ thread' = [thread EXCEPT ![p][i].at = "failing", ![p][i].retryable = FALSE]
  /\ UNCHANGED <<calendarVars, monitorVars, batchVars, itemVars, ledgerVars,
                 pc, scheduled, day, quiet>>

\* The UPDATE of fail_item: a retry is due after its back-off.
FailItem(i, outcome) ==
  /\ state' = [state EXCEPT ![i] = outcome]
  /\ holder' = [holder EXCEPT ![i] = NoWorker]
  /\ leased' = [leased EXCEPT ![i] = FALSE]
  /\ due' = [due EXCEPT ![i] = outcome # "retryable"]

\* set_monitor_error, whatever an observation has set since.
SetMonitorError(m, time) ==
  /\ inError' = inError \cup {m}
  /\ nextCheck' = [nextCheck EXCEPT ![m] = time]

\* fail_item, set_monitor_error and the audit, in one transaction: the item and
\* the monitor are due again at the same time, be it after midnight.
Fail(p, i) ==
  LET t == thread[p][i]
      outcome == IF ShouldRetry(t.retryable, t.attempt) THEN "retryable" ELSE "failed"
  IN
  /\ t.at = "failing"
  /\ HoldsLease(p, i)
  /\ FailItem(i, outcome)
  /\ \E time \in AvailableFrom(t.seen, outcome) : SetMonitorError(i[2], time)
  /\ SetFor(i)
  /\ audits' = audits \cup {[item |-> i, attempt |-> t.attempt, outcome |-> outcome]}
  /\ thread' = [thread EXCEPT ![p][i] = NoThread]
  /\ UNCHANGED <<calendarVars, monitors, status, cursor, collected, attempt, recorded,
                 pc, scheduled, day, quiet>>

\* fail_item updates no row: the thread ends with the exception.
FailureRejected(p, i) ==
  /\ thread[p][i].at = "failing"
  /\ ~HoldsLease(p, i)
  /\ thread' = [thread EXCEPT ![p][i] = [NoThread EXCEPT !.at = "raised"]]
  /\ UNCHANGED <<calendarVars, monitorVars, batchVars, itemVars, ledgerVars,
                 pc, scheduled, day, quiet>>

-----------------------------------------------------------------------------
(* The end of run_once *)

ThreadsDone(p) == \A i \in Items : thread[p][i].at \notin Busy

\* future.result raises the exception of a thread; the batch is not finalized.
RunRaises(p) ==
  /\ pc[p] = "working"
  /\ ThreadsDone(p)
  /\ \E i \in Items : thread[p][i].at = "raised"
  /\ pc' = [pc EXCEPT ![p] = "idle"]
  /\ thread' = [thread EXCEPT ![p] = [i \in Items |-> NoThread]]
  /\ UNCHANGED <<calendarVars, monitorVars, batchVars, itemVars, ledgerVars,
                 scheduled, day, quiet>>

\* finalize_batch counts the open items before it locks the batch.
CountOpen(p) ==
  /\ pc[p] = "working"
  /\ \A i \in Items : thread[p][i].at = "none"
  /\ quiet' = [quiet EXCEPT ![p] = OpenItems(day[p]) = {}]
  /\ pc' = [pc EXCEPT ![p] = "finalizing"]
  /\ UNCHANGED <<calendarVars, monitorVars, batchVars, itemVars, ledgerVars,
                 scheduled, day, thread>>

Finalize(p) ==
  /\ pc[p] = "finalizing"
  /\ status' = [status EXCEPT ![day[p]] =
                  IF collected[day[p]] /\ quiet[p] THEN "completed" ELSE "running"]
  /\ pc' = [pc EXCEPT ![p] = "idle"]
  /\ quiet' = [quiet EXCEPT ![p] = FALSE]
  /\ UNCHANGED <<calendarVars, monitorVars, cursor, collected, wanted,
                 itemVars, ledgerVars, scheduled, day, thread>>

\* The process dies; its open transactions are rolled back, its leases stay.
Crash(p) ==
  /\ pc[p] # "idle"
  /\ pc' = [pc EXCEPT ![p] = "idle"]
  /\ thread' = [thread EXCEPT ![p] = [i \in Items |-> NoThread]]
  /\ quiet' = [quiet EXCEPT ![p] = FALSE]
  /\ UNCHANGED <<calendarVars, monitorVars, batchVars, itemVars, ledgerVars,
                 scheduled, day>>

-----------------------------------------------------------------------------
(* Time *)

LeaseExpires(i) ==
  /\ state[i] = "running" /\ leased[i]
  /\ leased' = [leased EXCEPT ![i] = FALSE]
  /\ UNCHANGED <<calendarVars, monitorVars, batchVars, state, attempt, holder, due,
                 ledgerVars, procVars>>

BackoffEnds(i) ==
  /\ ~due[i]
  /\ due' = [due EXCEPT ![i] = TRUE]
  /\ UNCHANGED <<calendarVars, monitorVars, batchVars, state, attempt, holder, leased,
                 ledgerVars, procVars>>

\* A slot passes, and with the last one of a day the day.
Tick ==
  /\ Now < Slots * LastDay - 1
  /\ slot' = (slot + 1) % Slots
  /\ today' = IF slot' = 0 THEN today + 1 ELSE today
  /\ UNCHANGED <<monitorVars, batchVars, itemVars, ledgerVars, procVars>>

ThreadStep(p, i) ==
  \/ StartItem(p, i)
  \/ RecordObservation(p, i)
  \/ ObservationFails(p, i)
  \/ Complete(p, i)
  \/ CompletionRejected(p, i)
  \/ Fail(p, i)
  \/ FailureRejected(p, i)

Next ==
  \/ \E m \in Monitors : AddMonitor(m)
  \/ \E p \in Procs :
       \/ BeginRun(p)
       \/ StartRun(p)
       \/ RunRaises(p)
       \/ CountOpen(p)
       \/ Finalize(p)
       \/ Crash(p)
       \/ \E i \in Items : ThreadStep(p, i)
  \/ \E i \in Items : LeaseExpires(i) \/ BackoffEnds(i)
  \/ Tick

Spec == Init /\ [][Next]_vars

\* What a recovering system is spared: another crash (one that loses something:
\* the end of a run that changes no row looks the same), or a lease that expires
\* under the thread that works on its item.
Disturbance ==
  \/ \E p \in Procs : Crash(p) /\ ~Finalize(p) /\ ~RunRaises(p)
  \/ \E p \in Procs, i \in Items :
       thread[p][i].at \in Busy /\ thread[p][i].attempt = attempt[i] /\ LeaseExpires(i)

\* The worker is called again and again (the last day has no end), time passes,
\* threads go on, and disturbances end at last, however many there were.
Fairness ==
  /\ <>[][~Disturbance]_vars
  /\ WF_vars(Tick)
  /\ \A i \in Items : WF_vars(LeaseExpires(i)) /\ WF_vars(BackoffEnds(i))
  /\ \A p \in Procs :
       /\ WF_vars(BeginRun(p)) /\ WF_vars(StartRun(p))
       /\ WF_vars(RunRaises(p) \/ CountOpen(p) \/ Finalize(p))
       /\ \A i \in Items : WF_vars(ThreadStep(p, i))

LiveSpec == Spec /\ Fairness

-----------------------------------------------------------------------------
(* Correctness *)

DistinctWorkers == \A p, q \in Procs : WorkerOf[p] = WorkerOf[q] => p = q

TypeOK ==
  /\ today \in Days /\ slot \in 0..(Slots - 1)
  /\ monitors \subseteq Monitors /\ inError \subseteq Monitors
  /\ nextCheck \in [Monitors -> Nat]
  /\ status \in [Days -> BatchStatus]
  /\ cursor \in [Days -> {0} \cup Monitors]
  /\ collected \in [Days -> BOOLEAN]
  /\ wanted \in [Days -> SUBSET Monitors]
  /\ state \in [Items -> ItemState]
  /\ attempt \in [Items -> 0..AttemptBound]
  /\ holder \in [Items -> Workers \cup {NoWorker}]
  /\ leased \in [Items -> BOOLEAN]
  /\ due \in [Items -> BOOLEAN]
  /\ recorded \subseteq Items
  /\ audits \subseteq [item : Items, attempt : 1..AttemptBound,
                      outcome : {"retryable", "failed"}]
  /\ pc \in [Procs -> {"idle", "starting", "working", "finalizing"}]
  /\ scheduled \in [Procs -> Nat] /\ day \in [Procs -> Days]
  /\ thread \in [Procs -> [Items -> Thread]]
  /\ quiet \in [Procs -> BOOLEAN]

\* A thread that lost its item settles nothing: an item leaves "running" only
\* through the claim that is its latest (complete_item, fail_item).
SettledByLatestClaim ==
  [][\A i \in Items : state[i] = "running" /\ state'[i] # "running" =>
       \E p \in Procs : /\ thread[p][i].at \in {"recorded", "failing"}
                         /\ thread'[p][i] = NoThread
                         /\ thread[p][i].attempt = attempt[i]]_vars

\* fail_item, set_monitor_error and the audit commit together: the audit log
\* has exactly one outcome for each failed attempt, the last one agrees with
\* the row, and neither a running nor a successful attempt has any (_fail).
AuditsMatchItems ==
  /\ \A i \in Items : state[i] \in {"retryable", "failed"} =>
       [item |-> i, attempt |-> attempt[i], outcome |-> state[i]] \in audits
  /\ \A a \in audits :
       /\ a.attempt <= attempt[a.item]
       /\ a.attempt = attempt[a.item] => state[a.item] = a.outcome
       /\ a.outcome = "failed" <=> a.attempt = attempt[a.item] /\ state[a.item] = "failed"

\* A collection that is complete missed no monitor but those another batch has
\* set a next check for since it was opened: whoever was due then, for every run
\* under way, is in it (materialize_due_items over several pages and runs, each
\* with the time its run began).
CollectionIsExhaustive ==
  \A d \in Days : collected[d] => \A m \in wanted[d] : state[<<d, m>>] # "absent"

\* The batches implement MonitorPromise.
Promise == INSTANCE MonitorPromise WITH
  closed <- {d \in Days : collected[d]},
  items <- {i \in Items : state[i] # "absent"},
  observed <- recorded,
  completed <- {i \in Items : state[i] = "completed"},
  failed <- {i \in Items : state[i] = "failed"}
KeepsMonitorPromise == Promise!Spec

\* The batch of a day that does not end is completed for good once it is
\* opened, whatever outages, losses of leases and crashes happened.
BatchIsCompleted ==
  status[LastDay] # "absent" ~> [](status[LastDay] = "completed")

=============================================================================
