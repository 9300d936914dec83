# SHEMA business platform: TLA+ specifications

This directory specifies the SHEMA business platform in TLA+: the work it does
in the background, the commands that race, and the protocols with its
providers. TLC checks every specification on small instances; TLAPS proves the
properties that matter most for every value of the constants. `PROJECT.json`
lists the runs, the source lines of each definition, the hazards and the
theorems.

    tlc -workers 2 -config JobQueue.cfg MCJobQueue    # one run
    tlapm JobQueueProofs.tla                          # one module of proofs

In this text `app/` stands for `src/src/shema_platform/application/`,
`platform/` for `src/src/shema_platform/platform/`, and likewise for the other
packages of `shema_platform`.

## 1. The system

The platform is a Python service over PostgreSQL. Application services
(`app/`) carry out commands inside a unit of work (`platform/postgres.py`): one
READ COMMITTED transaction, committed when the `with` block ends and rolled
back when it raises. Three tables are shared by all services and are written in
the *same* transaction as the business row: `outbox_event` (what is announced),
`audit_log` (what was done) and `idempotency_key` (which command was answered,
and with what). Providers (messaging, company data, AI) are called *outside*
transactions, under leases kept in the rows. No service keeps state in memory
that another relies on: processes interact through rows, and everything hard
comes from what may happen between two transactions.

`JobRunner` and `OutboxDispatcher` are kernel parts: the repository's tests
construct them, its HTTP composition does not yet. The public intake has a
database of its own, so that it outlives an outage of Shema's: an accepted
request is projected into Shema's database afterwards.

### Inventory

| Component | State | Operations | What is hard | What makes it correct |
|---|---|---|---|---|
| Durable jobs (`app/job_runner.py`) | `job_execution`; runner: claimed job, attempt | enqueue, claim, renew, complete, fail | lease expiry during a handler, stale clock readings, crash between claim and record, an outcome that cannot be written | row, event and audit agree; only the latest claim ends a job; retries stop at the limit; every job ends |
| Outbox (`app/outbox_dispatcher.py`) | delivery columns of `outbox_event`; dispatcher: the rest of its batch | store, claim batch, publish, mark, audit failure | batches that outlive their lease, publisher that raises after delivery, abandoned batches | at least once, nothing closed that was not delivered; audits match rows |
| Commercial send (`app/commercial_execution.py`) | `commercial_action` with a send lease, `idempotency_key`, `quarantine_record` | create, reserve and claim, call, complete, quarantine | two callers and one effect, late and unknown answers, crash after the effect | an outcome is whole or absent; no effect without a reservation; unknown outcomes are not resent |
| Repeat orders (`app/repeat_order.py`) | `repeat_order_plan` with a revision, `order_header`, `order_line`, `economic_entry` | create, pause, resume, skip, cancel, edit, next, confirm | reads without locks, optimistic revision, repeated calls that miss their key, prices that change | calls act as if one at a time; one draft per plan; revenue once per confirmed order |
| Keyed creates (`app/critical_workflows.py`, `app/order.py`, favorites and monitors) | the created row, `idempotency_key` | create under a key | repeated calls racing, one key for two kinds of command | one result per key, told once |
| Monitoring (`app/counterparty_monitoring*.py`) | monitors, daily batches, items with leases, snapshots, change events | open batch, materialise, claim, observe, complete, fail, finalise | time read before the provider call, counting before locking, retries across midnight, recordings that meet | a batch collects every due monitor but those another day's item has rescheduled; an item is settled once; a day has one snapshot and changes are told; a batch is completed |
| Public intake (`app/public_intake.py`) | requests, reservations, budgets, circuit, preflight cache, intake outbox | submit, preflight, project, dispatch | reservation takeover, capacity checked once for two events, crash before projection, a cache over stored snapshots | one request per key; the backlog is bounded; accepted requests are projected |
| Provider activation (`foundation/*_activation.py`, `platform/provider_activation_postgres.py`, `adapters/ai/*_activation.py`) | activation row; per replica: state, bound provider | activate, roll back, look up, check | two replicas over one row, state used after it was read | a rollback undoes what it saw and stops what runs later; ceilings hold |
| AI runtime (`app/ai*.py`, `adapters/ai/`) | `ai_run`, keys; adapter: failure code, token | reserve, check, authorize, send, store, complete | retries, failures and crashes around one external call | one external call per key |
| OIDC (`adapters/iam/oidc.py`) | key set cache, cache of single keys, cooldowns | look up, refill, refresh | rotation within a cooldown | a published key is found again |
| Migrations (`platform/migrations.py`) | ledger of versions and checksums | apply, adopt | concurrent runners of several releases, edited files | versions applied once and in order |
| Search and research (`app/search_run.py`, `app/research*.py`) | none beyond a call | plan, collect under a budget, deduplicate, rank | budget boundaries, partial failure of sources | the result equals a reference definition |
| Intelligence and messaging adapters, HTTP API, web workspace, policies, telemetry, readiness checklist | none with a protocol | requests, parsing, pure decisions | provider I/O | not a subject for TLC |

Interactions: every service *appends* to the outbox and the audit log in its own
transaction; the dispatcher reads the outbox. Commercial send, repeat orders
and critical creates share the idempotency table under different operation
names. Repeat orders write the order and economics tables that the order
service also writes. Monitoring and intake call the counterparty lookup, which
depends on provider activation, budgets and health. Monitoring, commercial
actions, orders and favorites share the key table as well.

## 2. Modules

| Module | Models |
|---|---|
| `JobQueue` | `JobRunner`, `PostgresJobRepository`, `RetryPolicy`, migration 0006 |
| `JobPromise` | what a submitter may rely on: one end, increasing retries below the limit |
| `OutboxDelivery` | `OutboxDispatcher`, `PostgresOutboxRepository`, migration 0007 |
| `OutboxPromise` | at-least-once publication of committed events |
| `CommercialSend` | `CommercialActionSendWorkflow`, the send statements of its repository, migrations 0004 and 0008 |
| `SendPromise` | one settlement per action, true and permanent answers |
| `RepeatPlan` | the plan object of `domain/repeat_order.py` and its transitions |
| `RepeatOrder` | `RepeatOrderService` and the repositories it writes, migration 0010 |
| `SerialPlan` | the same commands carried out one at a time, in one step each |
| `MonitoringBatch` | `CounterpartyMonitoringWorker` and the batch repository |
| `MonitorPromise` | what the daily batches promise |
| `PublicIntake` | `PublicIntakeService`, its preflight, both repositories and the dispatcher of the intake outbox |
| `IntakePromise` | what callers and operators of the intake may rely on |
| `KeyedCreate` | the create workflows of actions and orders, `save_monitoring`, `save_favorite` |
| `ChangeDetection` | `CounterpartyMonitoringService.record_observation` |
| `AIExecution` | `IdempotentAIExecutionService`, `AIGateway`, the YandexGPT and GigaChat adapters |
| `ActivationGate` | the production gates of both products over `provider_activation_state` |
| `MigrationLedger` | `MigrationRunner.apply` and `adopt_existing_schema` |
| `SigningKeys` | `PyJWTSigningKeyProvider` and the client caches under it |
| `IdentifierRules` | the two implementations of the INN, OGRN and OGRNIP checksums |
| `Services` | the six small services as instances, what their constants have to satisfy, and what they promise |
| `MCServices` | `Services` beside small instances of the other components, and every liveness property |
| other `MC*` | constants of the TLC instances |
| `*Proofs` | theorems about the module they extend |

### Conventions shared by the models

*One transaction, one step, where nothing can come between.* A statement that
locks the row it judges (`UPDATE ... WHERE`, `SELECT ... FOR UPDATE`) is one
step with the writes that follow in its transaction. Where a transaction reads
without a lock and writes later (`RepeatOrder`, the status read of a completing
send), the read and the write are separate steps, and other transactions may
commit between them. `SKIP LOCKED` is the choice to leave a due row alone that
another open transaction may hold (`MayBeLocked`).

*Time is relative.* Rows hold absolute timestamps that PostgreSQL only ever
compares. The models keep the difference to the present: `lease` is
`lease_until - now`, `wait` is `available_at - now`. The code reads its clock in
Python *before* the statement that uses the value; `lag` is the age of that
reading, so `lease_until > :now` becomes `lease > -lag`. `Tick` lets one unit
pass. Below `-MaxLag` no comparison can tell two values apart, so the counters
stop there.

*A crash* returns a process to its start and leaves no trace of its open
transaction. A process that died is started again; in `CommercialSend` its
worker id, a fresh uuid for each call, becomes `Gone`.

*Ids that are names.* An event or audit id is
`uuid5(f"{kind}:{id}:{attempt}")`: the model has the record it is made of, and
the primary key or `on conflict` rule of the table as a guard.

### JobQueue

| Model | Code |
|---|---|
| `state`, `attempt`, `holder`, `lease`, `wait` | the columns of `job_execution` |
| `StartRun`, `ClaimNext`, `ClaimNothing` | `run_next` up to the claim; `claim_next` |
| `StartRenewal`, `Renew` | `JobHandlerContext.renew_lease`; `renew` |
| `FinishHandler` | the handler returns or raises; the runner classifies |
| `Record`, `RecordRejected` | `_complete` / `_record_failure` with `complete`, `fail`, outbox and audit |
| `DelayFor`, `IsRetryable` | `foundation/recovery.py` |

An outcome may be one the code cannot record: `fail` refuses a blank error text,
and the outbox refuses an output that is not JSON. `RecordableKinds` says
whether such handlers exist.

### OutboxDelivery

`ClaimPending` leases a set of at most `Limit` due events and hands over their
deliveries *in no particular order*: `UPDATE ... RETURNING` does not promise the
order of its subquery. `Publish` and `PublishFails` are the external publisher;
a failed call may have delivered. The failure audit is a transaction of its own
whose errors are swallowed, so it may be absent. `MarkPublished` is the second
transaction, of row and audit.

### CommercialSend

A call reserves its key and claims the action (`Claim`), calls the provider
(`CallAnswered`, `CallUnknown`, `CallRaises`), and then either completes
(`FindSending` followed by `CompleteSend`, or `AnswerSent` when another call has
completed) or quarantines (`Quarantine`). Ownership and policy of the caller only
reject calls before they write, so the calls modelled are those that pass. The
provider keeps the first body per effect key and refuses another, which is what
`adapters/communication/safety.py` requires of a provider before it may be used.

### RepeatOrder

`Begin` is the look at the key, `Read` the unlocked reads of plan, order and
price, and `CreatePlan`, `MutatePlan`, `CreateNext`, `Confirm` the writes, guarded
by the revision that was read and by the unique keys. `Abandon` is any raise and
any crash: the transaction leaves no trace. An audit row stands also for the
outbox event appended with it under the same name. An occurrence of the schedule
is a number of cadence intervals; the calendar arithmetic of `next_after` is left
out.

### MonitoringBatch and ChangeDetection

| Model | Code |
|---|---|
| `nextCheck`, `inError` | `next_check_at` and `last_error_code` of `counterparty_monitor` |
| `scheduled`, `day`, `pc`, `thread`, `quiet` | the locals of `run_once`: its time, the day its batch key names, where it is, its pool, the result of the count |
| `BeginRun` | `run_once` reads the clock, once for the whole run |
| `StartRun` | its first transaction: open the batch, take the next page of those due at the time of the run, claim up to `max_parallelism` items |
| `StartItem` | a thread of the pool reads its clock; `seen` is that time, `late` that the lease had passed |
| `RecordObservation`, `ObservationFails` | the provider call with `record_observation` |
| `Complete`, `Fail` and their rejections | `complete_item`, `fail_item` with `set_monitor_error` and the audit |
| `RunRaises`, `CountOpen`, `Finalize` | the end of `run_once`; `finalize_batch` counts before it locks |

A calendar of days and slots decides who is due. `nextCheck` is a slot: an
observation sets it a day ahead, a failure to where its back-off ends, which may be
up to `Backoff` slots after the thread read its clock (`AvailableFrom`), be it after
midnight. The item's own lease and back-off only decide whether it may be claimed;
they are flags (`leased`, `due`) that time may flip at any moment. Several threads
of one worker hold items at once: `thread` has a record for each. `wanted` is
history: the monitors that were due when a batch was opened, for every run of it
that had read its clock by then, less those whose next check an item of another day
has set since (`SetFor`).

`ChangeDetection` opens up the one step `RecordObservation`: two threads that
read the latest snapshot before either has committed. `byKey` is the item's
idempotency key. Observations of different days share no key, and their overlap
is in the code; `overlapped` remembers it, so that the property says exactly
what is promised without it and what remains true with it.

### PublicIntake

A request stands for one call of `submit`, which draws a fresh `request_id`.
`Reserve`, `Admit`, the preflight actions, `Accept`, `Project` and `MarkProjected`
are its transactions in their order; each has its refusals, and the call may die
between any two. `Claim`, `Deliver`, `Publish` are `dispatch_pending`, which
projects again what a call left unprojected. All dispatchers carry one worker id,
as in the code's default, so a lease does not tell them apart. `verdict` is what
a preflight found, as far as the events depend on it.

### KeyedCreate, AIExecution

`KeyedCreate` takes the transactions apart at each statement that may wait for
another one: the insert of a key and the insert of a unique row wait for an open
transaction that inserted the same value (`KeyWaits`, `RowWaits`).

`AIExecution` follows one task through three transactions and the call between
them. A failure keeps the pending key: its external outcome is unknown. The
adapter a call uses is that of its process for good; a new adapter that a new
activation builds there, and which would be ready again while calls are in
progress, is not in this model; `ActivationGate` has the binding to activations.

### ActivationGate, MigrationLedger, SigningKeys, IdentifierRules

`ActivationGate` has both products: YandexGPT checks ceilings on the row, GigaChat
on the replica's copy. An activation is named by its number (its `activated_at`).
`MigrationLedger` describes a migration by its content, which is what its checksum
stands for, so an edited file is another content at the same version.
`SigningKeys` keeps a clock, as cooldowns and the lifespan of the cache are
compared with each other. `IdentifierRules` computes both checksums digit by
digit, the exception of `zip(strict=True)` included.

## 3. Runs

| Run | Instance | Properties | Shows |
|---|---|---|---|
| `job_queue` | 2 jobs, 2 runners with ids of their own, lease 2, 2 attempts, delays 1..2, `MaxLag` 1, `AttemptBound` 3 | `TypeOK`, `LedgerMatchesRows`, `OutcomeByLatestClaim`, `KeepsPromise` | the safety of claims, reclaims, stale runners and refused records |
| `job_queue_blank` | 1 job, any outcome | `EveryJobSettles`, violated | finding 1 |
| `commercial_send` | 2 actions, 2 callers, 2 keys, 2 bodies, lease 2, `MaxLag` 1 | `TypeOK`, `OutcomeIsWhole`, `ReservedBeforeEffect`, `KeepsSendPromise` | races between calls over one action or one key |
| `commercial_send_unknown` | 1 action, 2 callers, 1 key | `UnknownIsNotResent`, violated | finding 2 |
| `outbox_delivery` | 2 events, 2 dispatchers with ids of their own, batches of 2, lease 2, `MaxLag` 1, `AttemptBound` 3 | `TypeOK`, `AuditsMatchRows`, `PublishedByLatestClaim`, `KeepsOutboxPromise` | the safety of delivery |
| `repeat_order` | 1 plan, 2 calls at a time, 4 keys, 2 orders, 2 prices | `TypeOK`, `EffectsAreCounted`, `DraftsAreAwaited`, `RevenueMatchesOrders`, `ActsSerially` | READ COMMITTED calls are serialisable here |
| `repeat_order_stale` | 1 call at a time, 3 keys | `StaleDraftIsRecreated`, violated | finding 3 |
| `monitoring` | 2 monitors, 2 workers with 2 threads, 2 days of one slot, pages of 1, 2 attempts, back-offs of up to a slot, `Bounded` | `TypeOK`, `AuditsMatchItems`, `CollectionIsExhaustive`, `SettledByLatestClaim`, `KeepsMonitorPromise` | races between workers over a batch, lost leases, retries within a day and over midnight, crashes |
| `intake` | 2 calls, 2 keys, 2 bodies, 1 dispatcher, backlog of 1 | `TypeOK`, `ReservationMatchesRequest`, `EventsMatchRequests`, `BacklogBounded`, `KeepsIntakePromise` | takeover of reservations, replay, refusals and crashes |
| `intake_lost` | the same | `AcceptedIsReconstructible`, violated | finding 4 |
| `identifiers` | numbers with every pair of check digits over a stem | `SupportedIsMonitored`, violated | finding 5 |
| `services` | one small instance of each component, in `MCServices` | `ServicesTypeOK`, `KeyNamesOneResult`, `ChangesAreTold`, `OneCallPerKey`, `KillSwitchHolds`, `CeilingHolds`, `LedgerMatchesSchema`, `NewKeyIsFound`; `EveryJobSettles`, `EveryClaimSettles`, `EveryEventPublished`, `BatchIsCompleted`, `EveryRequestProjected` | the safety of the small components; the liveness of all |

`services` holds components that share no state; those of the six small services,
and their safety properties, are in `Services`. A behaviour of `MCServices` picks
one of them (`component`) and the others stay at their initial states, so the
state space is the sum of theirs and not the product. Each liveness property is
stated for behaviours of its component under the fairness of its module:
`component = "jobs" /\ JQ!Fairness => JQ!EveryJobSettles`. That each of these
fairness conditions can be met was checked too: TLC refutes
`Fairness => []<>FALSE` for every one of them.

### Bounds, and why they are enough

- *Two actors.* Each hazard needs a stale process and a current one; a third is
  another stale one, and the rows do not tell stale processes apart.
- *Lease 2, lag 1.* A lease can be live for both, expired for both, and live for a
  reading one unit old while expired for a fresh one. These are the cases the
  comparisons distinguish.
- *Attempts.* The limit is 2: a retry below it, a failure at it, and reclaims
  that pass it. Above `AttemptBound` (which is above the limit) the model no
  longer counts. In the outbox nothing depends on the count but the names of the
  audits, so the liveness instance folds all attempts into one.
- *Two jobs, events, actions.* Enough for the claim order, `SKIP LOCKED`, a
  partial batch, and one command key used for two actions. Liveness is checked for
  one job, action or monitor with two processes each. For the outbox, and for a
  request of the intake, it is checked with one dispatcher and two events: what may
  strand an event is the batch it is in, and a dispatcher that was started again is
  the second process.
- *Monitoring.* Two monitors and pages of one need two runs to collect a day and
  let both threads of a worker be busy. `AttemptBound` 3 is above the limit of 2,
  so a reclaim that passes the limit is distinct. A behaviour begins on either
  day (`Bounded` is a state constraint). From the last one, which has no end, there
  is one batch of both monitors, with three attempts between them. Over midnight
  there are two batches, yesterday's of monitor 2 alone and today's of both, with
  two attempts: yesterday's thread may fail or record between the two pages of
  today's batch and move its monitor past the second one. That this happens was
  checked: without `SetFor` in `Fail`, TLC reports a completed collection without
  monitor 2 after exactly these steps. The liveness instance has one monitor, one
  attempt, no back-off that passes a slot, and a day of two slots. In it
  a batch may be written running though its last item has just settled, and a
  later run completes it; that a batch written completed too early, which takes two
  pages, gets its remaining items done is not checked (see the plan).
- *Intake.* Two calls over one key race and take over; over two keys they meet in
  the cache and the capacity. `MaxPending` 1 makes two events overshoot, `Limit` 4
  takes whatever there is. The first call's key and body are fixed, as the names
  are interchangeable. One dispatcher, which may die and start again; that several
  do no harm is what the theorems of `PublicIntakeProofs` say.
- *Small components.* `KeyedCreate` and `AIExecution`: two calls of one key and one
  of another. `ChangeDetection`: two threads of one day and one of the next.
  `ActivationGate`: two replicas, two configurations with ceilings on either side
  of a cost, two activations, so one comes after a rollback. `MigrationLedger`: an
  older, a newer and an edited release. `SigningKeys`: a known and an unknown key
  id, a lifespan of 2 and a cooldown of 1 over 5 moments.
- *Four keys, two orders.* A plan, its next order, its confirmation and one more
  command racing any of them; a longer run with five keys passed as well.
  Operators run out of keys, so this run does not check deadlock; nor do `monitoring`,
  `intake` and `services`, whose calls, days or processes come to an end. `MaxScheduled` 2
  stops the schedule after two steps.
- *Symmetry* is used in safety runs only, over values the models treat alike.

### Fairness

The liveness properties and finding 3 assume, and the code justifies, this much:

- Time passes, and an open transaction ends (weak fairness of `Tick`, of the
  claims that find nothing, of rejected recordings and marks).
- Runners, dispatchers and the monitoring worker are called again and again;
  callers of the send workflow retry. The code has no scheduler of its own and
  docs place the loop with the host, so this is an assumption on the host.
- In `JobQueue`, `OutboxDelivery` and `CommercialSend`: a process is not killed,
  and a due row not locked by another, *every* time it could be claimed; a handler
  or provider call is not late *every* time; a recording transaction is not killed
  *every* time (strong fairness of `ClaimNext`, `FinishHandler`, `FinishInTime`,
  `Record`, `Claim`, `AnsweredInTime`, `FoundInTime`, `CompleteSend`,
  `ClaimPending`, `PublishInTime`, `MarkPublished`). Which event of a batch the
  publisher accepts in time is left open.
- In `MonitoringBatch` and `PublicIntake` a system is considered that recovers:
  disturbances end at last (`<>[][~Disturbance]_vars`), however many there were,
  and weak fairness suffices from then on. A disturbance is a crash, an outage of
  Shema for the dispatcher, or a lease that expires under the process that works
  on its row. A run that ends without changing a row looks to the model just like
  a crash of the process; such ends (`Finalize`, `RunRaises`, `PublishRejected`)
  are not disturbances, as otherwise the condition would forbid the system to go
  on. Failures of the *provider* are no disturbance: they may recur for ever, and
  the batch is completed all the same. So are dying *callers* of the intake:
  nothing at all is assumed of calls.
- Nothing is assumed of renewals, unknown outcomes or refusals. `EveryRequestProjected`
  is stated for behaviours in which no stored request has lost its snapshot, which
  finding 4 shows the code does not guarantee.
- In `RepeatOrder` an operator keeps asking for the next order and for the
  confirmation, and calls end. The violated property fails although they do.

## 4. Proofs

Each proof module follows the same line: a type invariant, the strengthening
that makes the safety invariants inductive, a lemma per step and conjunct, and
the refinement step by step.

| Module | Inductive invariant | Theorems |
|---|---|---|
| `JobQueueProofs` | types; a working runner works on a job; a runner whose id holds the row has the row's attempt (`LatestClaim`); `LedgerMatchesRows` | `TypeCorrect`, `LedgerCorrect`, `StaleRunnerHarmless`, `HolderRecords`, `QueueKeepsPromise` |
| `CommercialSendProofs` | types; a call past its claim has its key reserved for its request (`CallsReserved`); `OutcomeIsWhole`; `ReservedBeforeEffect` | `TypeCorrect`, `OutcomeWhole`, `EffectReserved`, `HolderCompletes`, `ReportedIsFinal`, `SendKeepsPromise` |
| `OutboxDeliveryProofs` | types; deliveries in hand are of claims that were made, of the latest claim if their dispatcher holds the row, in one hand only, and without an audit yet (`HeldIsKnown`, `HeldIsLatest`, `HeldIsUnshared`, `HeldIsUnaudited`); `AuditsMatchRows` | `TypeCorrect`, `AuditsCorrect`, `LatestClaimPublishes`, `HolderMarks`, `DeliveryKeepsPromise` |
| `RepeatOrderProofs` | types, also of calls (`CallsWork`) and prices; what a call read is not newer than the row, and still admits the command if the revision is the same (`SeenIsOlder`, `SeenAdmits`); `DraftsAreAwaited`; `RevenueMatchesOrders`; the audits are those of the used keys, whose number is the revision (`AuditsTellKeys`, `RevisionsCount`); the total a confirmation resolved is the draft's (`ConfirmsAsResolved`) | `TypeCorrect`, `DraftsStayAwaited`, `RevenueCorrect`, `EffectsCorrect`, `DraftsAreSoldAsResolved`, `CommandsAreSerial` |
| `MonitoringBatchProofs` | types, finiteness of the monitors and attempts (`Typed`); with them, for collections: a thread works on an item that exists (`ThreadsHaveItems`), so a failure moves a monitor that has its item or one that is another batch's; whoever is wanted has its item if the cursor has passed it, and otherwise is due still, for every run that has read its clock (`CollectedSoFar`, `WantedAreDue`), as no clock is ahead (`ClocksInThePast`); a batch not opened has no cursor (`UnopenedIsEmpty`); for attempts: a thread whose id holds a running item has its attempt, and what may be retried has attempt numbers left (`LatestClaim`, `RetriesLeft`), `AuditsMatchItems`; for the refinement: a thread completes an item only with its observation stored (`ThreadsHaveItems` again); a completed batch was collected to its end (`CompletedIsCollected`); `PoolsAreBounded` | `TypeCorrect`, `CollectionsComplete`, `CompletionMissesNobody`, `OverForGood`, `ParallelismHolds`, `AuditsCorrect`, `StaleThreadHarmless`, `MonitoringKeepsPromise` |
| `PublicIntakeProofs` | types; a call past its preflight has a snapshot that no longer changes (`Preflighted`); stored requests and calls agree (`CallsFollow`); the owner of a key asked what is reserved (`OwnersMatch`); a dispatcher delivers stored events and marks what it projected (`DeliveriesFollow`); `ReservationMatchesRequest`; `EventsMatchRequests`. For the backlog: `BacklogBounded` itself, as the one step that checks the capacity appends two events at most and found room for one (`BacklogInv`) | `TypeCorrect`, `ReservationsCorrect`, `EventsCorrect`, `UnprojectedQueued`, `OnlyRefreshes`, `BacklogCorrect`, `IntakeKeepsPromise` |
| `ServicesProofs` | `AIInv`, `GateInv`, `SigningKeyInv`, `CreateInv`, `LedgerInv`, `ChangesInv`: one for each component, see below | `AIOneCallPerKey`, `RollbackIsFinal`, `CeilingsHold`, `RotatedKeyIsFound`, `CreatesHappenOnce`, `LedgerCorrect`, `ChangesCorrect`, `TypesCorrect` |

*Why a strengthening is needed.* `LedgerMatchesRows` alone is not inductive: in an
arbitrary state two runners may hold what they believe to be the same attempt,
and both record it. `complete` and `fail` compare the worker id and not the
attempt, so the argument is that a runner whose id stands in the row made the
latest claim, which is `LatestClaim`; and that is true only if no two live
instances share an id.

*What liveness rests on.* That something is done in the end cannot be proved here;
that it stays possible can. The holder of a live lease is never refused for an
event or an audit whose id is taken, which would roll its transaction back at
every retry (`HolderRecords`, `HolderMarks`, `HolderCompletes`), and a stored request
that has not arrived in Shema has all its events still to be delivered
(`UnprojectedQueued`). A batch may be written completed too early: `finalize_batch`
counts the open items before it locks the batch, and a page may be collected in
between. Even then the race of collecting and counting has skipped nobody
(`CompletionMissesNobody`); and once it
has nothing open it never has again, nor is a batch reopened that is written
completed while nobody holds an older count (`OverForGood`), which is the "for
good" of `BatchIsCompleted`. `ParallelismHolds` is the limit of `claim_items`: an
instance never has more than `max_parallelism` items in hand, whatever overlaps.

*The small components.* `ServicesProofs` is about the instances of `Services`, for any
values of their parameters; each theorem is about one of them, and `TypesCorrect`
about the domains of all.

- `AIExecution`: a call between its reservation and its end holds its key, and one
  whose request went out holds it for good (`CallsHoldKeys`). Nothing gives a
  reservation back, so no retry reaches the provider.
- `ActivationGate`: activation numbers only grow, so what was rolled back lies
  before what is enabled (`RollbacksArePast`); a request in hand carries the
  binding it was built for (`TasksFollowRow`), so one that starts late is bound to
  an activation that stays undone (`LateAreUndone`).
- `SigningKeys`: a published key the cache misses is younger than the cache
  (`MissedKeysAreNew`).
- `KeyedCreate`: what an open transaction reserved or inserted clashes with nothing,
  committed or not (`OpenCallsHoldKeys`, `InsertsDoNotClash`).
- `MigrationLedger`: the tables hold what the ledger lists after an adopted
  baseline, whose contents nobody compares, on top of what the database was born
  with (`LedgerIsExecuted`), the holder of the lock goes on from
  there (`HolderGoesOn`), and every release that succeeded is a beginning of the
  ledger (`AppliedPlansBegin`). No two releases are compared: both begin one list.
- `ChangeDetection`: stored observations differ in time, and as long as no
  recording met another one the snapshot a recording read is still the latest
  (`InOrder`).

*What the proofs found.* That `CollectionIsExhaustive` holds for two workers and a
page of one says little about others: an earlier form of it, with another history
of who was due, held in every run and is false for three instances. The form that
is checked and proved has two exemptions, and both are in the code. A monitor
whose item of another day is observed or fails while today's batch is open gets
another `next_check_at`; a failure's back-off puts it past the pages to come, and
the collection is completed without it. A run that read its clock earlier than
the one that opened the batch takes its pages as of that earlier time, so a
monitor that fell due in between is not counted as wanted. Such a monitor is left
to the next day's batch. No document says otherwise: the contract
(`src/architecture/counterparty_monitoring_contract.json`) names a default
frequency, not a day by which a check is made. The theorem says that nothing else,
no overlap of runs, pages, workers and crashes, leaves a monitor out.

Where the code does depart from a document, theorems say how far:

- Finding 2: an unknown outcome that is reported while the lease lasts is final
  (`ReportedIsFinal`).
- Finding 3: a plan that waits for a draft goes on waiting until a call that resolved
  exactly the draft's total confirms it and books that total
  (`DraftsAreSoldAsResolved`). No race frees the plan, and none sells at an old price.
- Finding 4: a stored request becomes unreadable in one way only, when another call,
  whose provider answered, refreshes the cache row that holds its snapshot
  (`OnlyRefreshes`). No crash, take-over, repeated call or dispatcher loses anything.

*Assumptions.* The `ASSUME`s of the modules (constants are of their kind, null
values are not ordinary ones, `Bodies` of the intake is not empty). The theorems of
`JobQueueProofs` except `TypeCorrect`, `AuditsCorrect`, `LatestClaimPublishes` and
`HolderMarks` of the outbox, and `AuditsCorrect` and `StaleThreadHarmless` of the
batches assume `DistinctWorkers`: no two live instances carry the same `worker_id`. The
constructors do not enforce it (their defaults are constants), and without it
TLC finds `OutcomeByLatestClaim` and `AuditsMatchRows` violated. That
an event is published at least once (`DeliveryKeepsPromise`) and that an item is
observed at most once and settled for good (`MonitoringKeepsPromise`) need no such
assumption. `Services` names what
each of its instances needs: `AIAssumption` (each call is served by a process, an
absent key is no key), `GateAssumption` (each request is served by a replica, there
is a configuration), `SigningKeyAssumption` (the durations are numbers, time has a
second moment, there is a key id), `CreateAssumption` (each call has a key of the
table, the nulls are no values), `LedgerAssumption` (releases are sequences of
contents, a free lock names no runner) and `ChangeAssumption` (no snapshot is no
snapshot). TLC evaluates all of them in the run `services`.

*Only model-checked.* Liveness (`EveryJobSettles`, `EveryClaimSettles`,
`EveryEventPublished`, `BatchIsCompleted`, `EveryRequestProjected`): fairness and
`ENABLED` are out of the prover's reach. The check digits of `IdentifierRules`, and
the five violations.

## 5. Findings

1. *A failure that cannot be recorded is retried for ever* (`job_queue_blank`).
   `PostgresJobRepository.fail` refuses a blank error text, which is what a
   handler that raises `TimeoutError()` leaves; the outbox refuses an output that
   is not JSON. The recording transaction rolls back, the row stays running and is
   reclaimed at every expiry. `src/docs/V1.4_EXECUTION_PLANE.md:66` says failures
   "stop at the attempt limit".
2. *An unknown outcome may be sent again* (`commercial_send_unknown`). When the
   unknown outcome is reported after the lease ran out, only the evidence is
   written; the action stays SENDING and the next attempt calls the adapter.
   `src/docs/P43_MAX_AMBIGUOUS_OUTCOME_SAFETY.md:9` and `:22` say the action is
   durably FAILED and no later attempt reaches the adapter.
3. *A stale draft blocks its plan* (`repeat_order_stale`). `confirm_repeat_order`
   tells the operator to recreate the draft, and no command can: each refuses a
   plan with a pending order. The plan waits until the old price returns.

4. *A stored request loses its snapshot* (`intake_lost`).
   `PostgresPublicIntakeRepository.save_preflight_cache` upserts by cache key and
   gives the row the new `snapshot_id`. A request that was stored with the old one
   cannot be read back (`get_by_idempotency_key` raises), nor projected: two
   overlapping calls about one counterparty suffice, and so does a second call
   after the cache expired. `src/docs/ROADMAP.md:395` promises reconstruction
   "from intake record → preflight snapshot → Shema request context".
5. *A 12-digit INN cannot be monitored* (`identifiers`).
   `validate_counterparty_identifier` pairs ten digits with eleven weights under
   `zip(..., strict=True)`, so every such number raises. The contract
   (`src/architecture/counterparty_monitoring_contract.json:8`) supports INN, and
   lookup and preflight accept its 12-digit form.

## 6. Not modelled

Provider adapters other than the two of AI, HTTP mapping, the web workspace,
policies, telemetry and the readiness checklist have no state that several steps
share: they are requests, parsers and pure decisions. Search and research are
sequential computations within one request.

Within the modelled components these are left out: the text of messages and
errors, the payload of events, the contents of order lines (an order has a price),
calendar arithmetic, and calls that are refused before they write (an unknown
owner, a missing permission). A provider that does *not* deduplicate is outside
the model of the send. Connection loss is a crash. The circuit and the budgets of
the intake count calls in windows of time: what a call can tell of them is that it
may be refused (`Refuse`), and that is modelled; that their counters are right is
not. All requests of `PublicIntake` concern one counterparty, as only those meet
in the cache. `ActivationGate` leaves out health probes and evidence, which decide
whether an operator may activate. `MigrationLedger` does not look into a migration:
a statement either succeeds or aborts the transaction; nor into a legacy schema,
which has the columns of the baseline or not. Of recordings of different days that
meet, `ChangesAreTold` says only that what is told lies between stored snapshots
that differ. `release.py` writes and
checks a manifest, without a protocol. Favorites are created (`KeyedCreate`) and
never changed; monitors are created active and stay so.

## 7. Plan

Done: the core, monitoring, intake, and the small components, model-checked; every
safety property of a passing run proved, and what the liveness properties and the
findings rest on.

Next, in this order:

1. The check digits: that the two implementations agree on every length both of
   them accept, as a property TLC checks (their sums are folds, and induction over
   data is out of the prover's reach).
2. `SearchRun`: the budgeted collection as functions, against a reference
   definition over bounded inputs.
3. That the run after a batch was written completed too early takes up what is
   left in it: `BatchIsCompleted` for two monitors, whose instance is at present too
   large for the run it is in.
