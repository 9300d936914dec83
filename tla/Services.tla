------------------------------ MODULE Services ------------------------------
(***************************************************************************)
(* The six services that share no row: each is an instance with the        *)
(* parameters and variables of its own names.  A name that two of them     *)
(* have is qualified for one (gateProduct, createStage, ...).  What they   *)
(* promise is stated here, for the runs of MCServices and for the          *)
(* theorems of ServicesProofs.                                             *)
(***************************************************************************)
EXTENDS Integers, Sequences

CONSTANTS
  Calls, KeyOf, Asks, Processes, ProcessOf, NoRecord,         \* AIExecution
  Replicas, Tasks, ReplicaOf, Configs, CeilingOf, MaxActs,    \* ActivationGate
  Kids, IssuerKeys, Life, Cooldown, LastNow,                  \* SigningKeys
  Things, Keys, NoKey,                                        \* KeyedCreate
  Runners, PlanOf, Legacy, NoRunner,                          \* MigrationLedger
  Threads, Facts, DayOf, Nothing                              \* ChangeDetection

VARIABLES
  product, asks, step, ledger, runs, reply, failing, token, sentFor,
  gateProduct, configOf, row, local, bound, command, undone, stage, task,
  now, published, since, cached, fetched, single, triedAt, nextForced, result,
  request, createStage, keys, rows, told, answer,
  born, schema, migrations, holder, phase, work, adopted,
  clock, at, seen, previous, stored, lastOne, changes, byKey, overlapped

AI == INSTANCE AIExecution
AG == INSTANCE ActivationGate WITH product <- gateProduct
SK == INSTANCE SigningKeys WITH Keys <- IssuerKeys
KC == INSTANCE KeyedCreate WITH stage <- createStage
ML == INSTANCE MigrationLedger WITH ledger <- migrations
CD == INSTANCE ChangeDetection

-----------------------------------------------------------------------------
(* Assumptions *)

\* A call is served by a process, and no stored key is the absent one.
ASSUME AIAssumption ==
  /\ ProcessOf \in [Calls -> Processes]
  /\ NoRecord \notin [asks : Asks, by : Calls, done : BOOLEAN]

\* A request is served by a replica, and there is some configuration.
ASSUME GateAssumption ==
  /\ ReplicaOf \in [Tasks -> Replicas]
  /\ Configs # {}
  /\ MaxActs \in Nat

\* Durations are whole, the clock can move on, and tokens name keys.
ASSUME SigningKeyAssumption ==
  /\ Life \in Nat /\ Cooldown \in Nat
  /\ LastNow \in Nat /\ LastNow >= 2
  /\ Kids # {}

\* Each call has a key of the table, and what stands for "no result" is no result.
ASSUME CreateAssumption ==
  /\ KeyOf \in [Calls -> Keys]
  /\ NoKey \notin [request : KC!Requests, ref : KC!Ids]
  /\ {"none", "conflict", "rejected"} \cap KC!Ids = {}

\* A release's plan and what a database older than the ledger has are sequences
\* of contents, and what stands for a free lock is no runner.
ASSUME LedgerAssumption ==
  /\ PlanOf \in [Runners -> Seq(ML!Contents)]
  /\ Legacy \in Seq(ML!Contents)
  /\ NoRunner \notin Runners

\* No snapshot is not a snapshot.
Observations == [time : Nat, fact : Facts]
ASSUME ChangeAssumption == Nothing \notin Observations

-----------------------------------------------------------------------------
(* Correctness *)

\* The rows and processes of these services stay within their domains.
ServicesTypeOK ==
  KC!TypeOK /\ CD!TypeOK /\ AI!TypeOK /\ AG!TypeOK /\ ML!TypeOK /\ SK!TypeOK

\* An idempotency key stands for one stored and once announced result
\* (KeyedCreate).
KeyNamesOneResult == KC!KeyNamesOneResult

\* Changes between the stored snapshots of a counterparty are announced
\* (ChangeDetection).
ChangesAreTold == CD!ChangesAreTold

\* Retries of an AI task under its key reach the provider once at most
\* (AIExecution).
OneCallPerKey == AI!OneCallPerKey

\* A rollback disables what its operator saw, and no request goes out after it
\* (ActivationGate).
KillSwitchHolds == AG!KillSwitchHolds

\* No request is sent above the ceiling of its configuration (ActivationGate).
CeilingHolds == AG!CeilingHolds

\* schema_migration lists what was executed, and releases never disagree on it
\* (MigrationLedger).
LedgerMatchesSchema == ML!LedgerMatchesSchema

\* The cooldowns of refreshes do not hide a rotated key beyond its lifespan
\* (SigningKeys).
NewKeyIsFound == SK!NewKeyIsFound

=============================================================================
