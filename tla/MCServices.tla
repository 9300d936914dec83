------------------------------ MODULE MCServices ------------------------------
(***************************************************************************)
(* The components that share nothing, side by side: a behaviour picks one  *)
(* of them and only that one moves, the others stay as they start.  Their  *)
(* instances are small, chosen to finish under the liveness properties.    *)
(***************************************************************************)
EXTENDS Services

CONSTANTS NoRequest, NoDelivery  \* model values

VARIABLES
  component,
  job_state, job_attempt, job_holder, job_lease, job_wait, job_events,
  job_audits, job_pc, job_job, job_att, job_result, job_lag,
  send_status, send_holder, send_lease, send_request, send_answered,
  send_effect, send_events, send_quarantine, send_pc, send_req, send_key,
  send_lag,
  out_status, out_attempt, out_holder, out_lease, out_wait, out_taken,
  out_audits, out_pc, out_batch, out_current, out_lag,
  mon_today, mon_slot, mon_monitors, mon_nextCheck, mon_inError, mon_status,
  mon_cursor, mon_collected, mon_wanted, mon_state,
  mon_attempt, mon_holder, mon_leased, mon_due, mon_recorded, mon_audits,
  mon_pc, mon_scheduled, mon_day, mon_thread, mon_quiet,
  in_key, in_body, in_spam, in_at, in_snapshot, in_verdict, in_owner, in_hash,
  in_leased, in_done, in_accepted, in_stored, in_cached, in_fresh, in_events,
  in_published, in_held, in_projected, in_notices, in_marked, in_answered,
  in_batch

jobsVars ==
  <<job_state, job_attempt, job_holder, job_lease, job_wait, job_events,
    job_audits, job_pc, job_job, job_att, job_result, job_lag>>
sendsVars ==
  <<send_status, send_holder, send_lease, send_request, send_answered,
    send_effect, send_events, send_quarantine, send_pc, send_req, send_key,
    send_lag>>
outboxVars ==
  <<out_status, out_attempt, out_holder, out_lease, out_wait, out_taken,
    out_audits, out_pc, out_batch, out_current, out_lag>>
monitoringVars ==
  <<mon_today, mon_slot, mon_monitors, mon_nextCheck, mon_inError, mon_status,
    mon_cursor, mon_collected, mon_wanted, mon_state,
    mon_attempt, mon_holder, mon_leased, mon_due, mon_recorded, mon_audits,
    mon_pc, mon_scheduled, mon_day, mon_thread, mon_quiet>>
intakeVars ==
  <<in_key, in_body, in_spam, in_at, in_snapshot, in_verdict, in_owner,
    in_hash, in_leased, in_done, in_accepted, in_stored, in_cached, in_fresh,
    in_events, in_published, in_held, in_projected, in_notices, in_marked,
    in_answered, in_batch>>
createsVars ==
  <<request, createStage, keys, rows, told, answer>>
changesVars ==
  <<clock, at, seen, previous, stored, lastOne, changes, byKey, overlapped>>
aiVars ==
  <<product, asks, step, ledger, runs, reply, failing, token, sentFor>>
activationVars ==
  <<gateProduct, configOf, row, local, bound, command, undone, stage, task>>
migrationsVars ==
  <<born, schema, migrations, holder, phase, work, adopted>>
keysVars ==
  <<now, published, since, cached, fetched, single, triedAt, nextForced, result>>

-----------------------------------------------------------------------------

OwnName == [p \in {"p1", "p2"} |-> p]

\* Two calls of one key and one of another; the second is another process's.
KeyOfCall == [c \in Calls |-> IF c = "c3" THEN "k2" ELSE "k1"]
ProcessOfCall == [c \in Calls |-> IF c = "c2" THEN "p2" ELSE "p1"]

\* One request, on the first replica; its cost is above one of the ceilings.
ReplicaOfTask == [t \in Tasks |-> "r1"]
Ceilings == [c \in Configs |-> IF c = "c1" THEN 1 ELSE 2]

\* Two threads of one day and one of the next.
DayOfThread == [t \in Threads |-> IF t = 3 THEN 2 ELSE 1]

\* Three releases: one older, one newer, one with an edited migration.
Plans ==
  [r \in Runners |->
    CASE r = "old" -> <<"a", "b">> [] r = "new" -> <<"a", "b", "c">> [] OTHER -> <<"a", "B">>]
OldTables == <<"a">>

JQ == INSTANCE JobQueue WITH
  Jobs <- {"j1"}, Procs <- {"p1", "p2"}, Workers <- {"p1", "p2"},
  NoWorker <- "nobody", NoJob <- "no job", WorkerOf <- OwnName,
  LeaseSeconds <- 2, MaxAttempts <- 2, InitialDelay <- 1, MaxDelay <- 2,
  RecordableKinds <- {TRUE}, MaxLag <- 1, AttemptBound <- 3,
  state <- job_state, attempt <- job_attempt, holder <- job_holder,
  lease <- job_lease, wait <- job_wait, events <- job_events,
  audits <- job_audits, pc <- job_pc, job <- job_job, att <- job_att,
  result <- job_result, lag <- job_lag

CS == INSTANCE CommercialSend WITH
  Actions <- {"a1"}, Clients <- {"p1", "p2"}, Keys <- {"k1"}, Bodies <- {"b1"},
  NoClient <- "nobody", Gone <- "gone", NoBody <- "no body", NoKey <- "no key",
  LeaseSeconds <- 2, MaxLag <- 1, status <- send_status, holder <- send_holder,
  lease <- send_lease, request <- send_request, answered <- send_answered,
  effect <- send_effect, events <- send_events, quarantine <- send_quarantine,
  pc <- send_pc, req <- send_req, key <- send_key, lag <- send_lag

OD == INSTANCE OutboxDelivery WITH
  Events <- {"e1", "e2"}, Procs <- {"p1"}, Workers <- {"p1"},
  NoWorker <- "nobody", WorkerOf <- [p \in {"p1"} |-> p], LeaseSeconds <- 2,
  Limit <- 2, MaxLag <- 1, AttemptBound <- 1, status <- out_status, attempt <- out_attempt,
  holder <- out_holder, lease <- out_lease, wait <- out_wait,
  taken <- out_taken, audits <- out_audits, pc <- out_pc, batch <- out_batch,
  current <- out_current, lag <- out_lag

MB == INSTANCE MonitoringBatch WITH
  Monitors <- {1}, Procs <- {"p1", "p2"}, Workers <- {"p1", "p2"},
  NoWorker <- "nobody", WorkerOf <- OwnName, LastDay <- 1, Slots <- 2,
  PageLimit <- 1, Parallelism <- 1, MaxAttempts <- 1, Backoff <- 0, AttemptBound <- 2,
  today <- mon_today, slot <- mon_slot, monitors <- mon_monitors,
  nextCheck <- mon_nextCheck, inError <- mon_inError, status <- mon_status,
  cursor <- mon_cursor, collected <- mon_collected,
  wanted <- mon_wanted, state <- mon_state, attempt <- mon_attempt,
  holder <- mon_holder, leased <- mon_leased, due <- mon_due,
  recorded <- mon_recorded, audits <- mon_audits, pc <- mon_pc,
  scheduled <- mon_scheduled, day <- mon_day, thread <- mon_thread,
  quiet <- mon_quiet

PI == INSTANCE PublicIntake WITH
  Requests <- {"r1"}, Keys <- {"k1"}, Bodies <- {"b1"},
  Dispatchers <- {"d1"}, MaxPending <- 1, Limit <- 2,
  NoRequest <- "none", key <- in_key, body <- in_body, spam <- in_spam,
  at <- in_at, snapshot <- in_snapshot, verdict <- in_verdict,
  owner <- in_owner, hash <- in_hash, leased <- in_leased, done <- in_done,
  accepted <- in_accepted, stored <- in_stored, cached <- in_cached,
  fresh <- in_fresh, events <- in_events, published <- in_published,
  held <- in_held, projected <- in_projected, notices <- in_notices,
  marked <- in_marked, answered <- in_answered, batch <- in_batch

-----------------------------------------------------------------------------

\* A component that does not move starts in one state.  A request that meets the
\* gates costs more than one of the two ceilings; what the first AI call asks is
\* called "a".
Pinned ==
  /\ component = "intake" \/ in_spam = [r \in {"r1"} |-> FALSE]
  /\ \/ component = "creates"
     \/ request = [c \in Calls |-> [command |-> "order", thing |-> "t1"]]
  /\ \/ component = "ai"
     \/ /\ product = "gigachat"
        /\ asks = [c \in Calls |-> "a"]
  /\ \/ component = "activation"
     \/ gateProduct = "gigachat" /\ configOf = [r \in Replicas |-> "c1"]
  /\ task = [t \in Tasks |-> AG!NewTask(2)]
  /\ component = "migrations" \/ born = <<>>
  /\ component = "keys" \/ (now = 1 /\ published = {})

Init ==
  /\ component \in {"jobs", "sends", "outbox", "monitoring", "intake", "creates",
                    "changes", "ai", "activation", "migrations", "keys"}
  /\ Pinned
  /\ JQ!Init /\ CS!Init /\ OD!Init /\ MB!Init
  /\ PI!Init /\ KC!Init /\ CD!Init /\ AI!Init
  /\ AG!Init /\ ML!Init /\ SK!Init
  /\ asks["c1"] = "a"

Only(name) == component = name /\ UNCHANGED component

JobQueueNext ==
  /\ Only("jobs")
  /\ JQ!Next
  /\ UNCHANGED <<sendsVars, outboxVars, monitoringVars, intakeVars,
                 createsVars, changesVars, aiVars, activationVars,
                 migrationsVars, keysVars>>

CommercialSendNext ==
  /\ Only("sends")
  /\ CS!Next
  /\ UNCHANGED <<jobsVars, outboxVars, monitoringVars, intakeVars,
                 createsVars, changesVars, aiVars, activationVars,
                 migrationsVars, keysVars>>

OutboxDeliveryNext ==
  /\ Only("outbox")
  /\ OD!Next
  /\ UNCHANGED <<jobsVars, sendsVars, monitoringVars, intakeVars,
                 createsVars, changesVars, aiVars, activationVars,
                 migrationsVars, keysVars>>

MonitoringBatchNext ==
  /\ Only("monitoring")
  /\ MB!Next
  /\ UNCHANGED <<jobsVars, sendsVars, outboxVars, intakeVars, createsVars,
                 changesVars, aiVars, activationVars, migrationsVars,
                 keysVars>>

PublicIntakeNext ==
  /\ Only("intake")
  /\ PI!Next
  /\ UNCHANGED <<jobsVars, sendsVars, outboxVars, monitoringVars,
                 createsVars, changesVars, aiVars, activationVars,
                 migrationsVars, keysVars>>

KeyedCreateNext ==
  /\ Only("creates")
  /\ KC!Next
  /\ UNCHANGED <<jobsVars, sendsVars, outboxVars, monitoringVars, intakeVars,
                 changesVars, aiVars, activationVars, migrationsVars,
                 keysVars>>

ChangeDetectionNext ==
  /\ Only("changes")
  /\ CD!Next
  /\ UNCHANGED <<jobsVars, sendsVars, outboxVars, monitoringVars, intakeVars,
                 createsVars, aiVars, activationVars, migrationsVars,
                 keysVars>>

AIExecutionNext ==
  /\ Only("ai")
  /\ AI!Next
  /\ UNCHANGED <<jobsVars, sendsVars, outboxVars, monitoringVars, intakeVars,
                 createsVars, changesVars, activationVars, migrationsVars,
                 keysVars>>

ActivationGateNext ==
  /\ Only("activation")
  /\ AG!Next
  /\ UNCHANGED <<jobsVars, sendsVars, outboxVars, monitoringVars, intakeVars,
                 createsVars, changesVars, aiVars, migrationsVars, keysVars>>

MigrationLedgerNext ==
  /\ Only("migrations")
  /\ ML!Next
  /\ UNCHANGED <<jobsVars, sendsVars, outboxVars, monitoringVars, intakeVars,
                 createsVars, changesVars, aiVars, activationVars, keysVars>>

SigningKeysNext ==
  /\ Only("keys")
  /\ SK!Next
  /\ UNCHANGED <<jobsVars, sendsVars, outboxVars, monitoringVars, intakeVars,
                 createsVars, changesVars, aiVars, activationVars,
                 migrationsVars>>

Next ==
  \/ JobQueueNext \/ CommercialSendNext \/ OutboxDeliveryNext
  \/ MonitoringBatchNext \/ PublicIntakeNext \/ KeyedCreateNext
  \/ ChangeDetectionNext \/ AIExecutionNext \/ ActivationGateNext
  \/ MigrationLedgerNext \/ SigningKeysNext

vars == <<component,
          jobsVars, sendsVars, outboxVars, monitoringVars, intakeVars,
          createsVars, changesVars, aiVars, activationVars, migrationsVars,
          keysVars>>

Spec == Init /\ [][Next]_vars

-----------------------------------------------------------------------------
(* Liveness, each under the fairness its module states and justifies *)

\* An enqueued job ends as succeeded or failed, crashes of runners included.
EveryJobSettles == component = "jobs" /\ JQ!Fairness => JQ!EveryJobSettles

\* A claimed send ends as sent or failed.
EveryClaimSettles == component = "sends" /\ CS!Fairness => CS!EveryClaimSettles

\* A stored event is published.
EveryEventPublished == component = "outbox" /\ OD!Fairness => OD!EveryEventPublished

\* A monitoring batch that was opened is completed and stays so.
BatchIsCompleted == component = "monitoring" /\ MB!Fairness => MB!BatchIsCompleted

\* An accepted request arrives in Shema's own tables.
EveryRequestProjected == component = "intake" /\ PI!Fairness => PI!EveryRequestProjected

===============================================================================
