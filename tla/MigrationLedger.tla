--------------------------- MODULE MigrationLedger ---------------------------
(***************************************************************************)
(* MigrationRunner: apply and adopt_existing_schema, run by the processes  *)
(* of several releases against one database.  Each is one transaction      *)
(* under an advisory lock: what it executes and what it writes into        *)
(* schema_migration become visible together or not at all.                 *)
(***************************************************************************)
EXTENDS Naturals, Sequences, FiniteSets

CONSTANTS
  Runners,
  PlanOf,    \* the plan of each runner's release: its contents, by version
  Legacy,    \* what was executed on a database older than the ledger
  NoRunner

VARIABLES
  born,     \* what the database had before any runner
  schema,   \* contents executed, committed
  ledger,   \* schema_migration: the checksum of each version, committed
  holder,   \* holder of the advisory lock
  phase,    \* where each runner is
  work,     \* what the open transaction of a runner sees
  adopted   \* history: the ledger was seeded by adoption

vars == <<born, schema, ledger, holder, phase, work, adopted>>

-----------------------------------------------------------------------------

\* V1_4_BASELINE_VERSION
Baseline == Len(Legacy)

\* _validate_applied_ledger and the comparison of names and checksums.
AgreesInVersions(plan, entries) == Len(entries) <= Len(plan)  \* mutant
Agrees(plan, entries) ==
  Len(entries) <= Len(plan) /\ \A v \in DOMAIN entries : entries[v] = plan[v]

\* _verify_v1_4_schema: the columns of the baseline are there.
HasBaseline(executed) == Len(executed) >= Baseline

Init ==
  /\ born \in {<<>>, Legacy}
  /\ schema = born
  /\ ledger = <<>>
  /\ holder = NoRunner
  /\ phase = [r \in Runners |-> "idle"]
  /\ work = [r \in Runners |-> [schema |-> <<>>, ledger |-> <<>>]]
  /\ adopted = FALSE

Begin(r) ==
  /\ phase[r] = "idle"
  /\ holder = NoRunner
  /\ holder' = r
  /\ work' = [work EXCEPT ![r] = [schema |-> schema, ledger |-> ledger]]
  /\ phase' = [phase EXCEPT ![r] = "locked"]
  /\ UNCHANGED <<born, schema, ledger, adopted>>

End(r, how) ==
  /\ holder' = NoRunner
  /\ phase' = [phase EXCEPT ![r] = how]
  /\ work' = [work EXCEPT ![r] = [schema |-> <<>>, ledger |-> <<>>]]

\* apply: the next migration of the plan, its DDL and its ledger row.
ApplyNext(r) ==
  LET w == work[r]
      next == Len(w.ledger) + 1 IN
  /\ phase[r] \in {"locked", "applying"}
  /\ Agrees(PlanOf[r], w.ledger)
  /\ next <= Len(PlanOf[r])
  /\ work' = [work EXCEPT ![r] = [schema |-> Append(w.schema, PlanOf[r][next]),
                                  ledger |-> Append(w.ledger, PlanOf[r][next])]]
  /\ phase' = [phase EXCEPT ![r] = "applying"]
  /\ UNCHANGED <<born, schema, ledger, holder, adopted>>

Applied(r) ==
  /\ phase[r] \in {"locked", "applying"}
  /\ Agrees(PlanOf[r], work[r].ledger)
  /\ Len(work[r].ledger) = Len(PlanOf[r])
  /\ schema' = work[r].schema
  /\ ledger' = work[r].ledger
  /\ End(r, "applied")
  /\ UNCHANGED <<born, adopted>>

ApplyRefused(r) ==
  /\ phase[r] = "locked"
  /\ ~Agrees(PlanOf[r], work[r].ledger)
  /\ End(r, "refused")
  /\ UNCHANGED <<born, schema, ledger, adopted>>

\* adopt_existing_schema: ledger rows for the baseline, no DDL.
Adopt(r) ==
  /\ phase[r] = "locked"
  /\ work[r].ledger = <<>>
  /\ HasBaseline(work[r].schema)
  /\ Len(PlanOf[r]) >= Baseline
  /\ ledger' = SubSeq(PlanOf[r], 1, Baseline)
  /\ adopted' = TRUE
  /\ End(r, "adopted")
  /\ UNCHANGED <<born, schema>>

AdoptRefused(r) ==
  /\ phase[r] = "locked"
  /\ \/ work[r].ledger # <<>>
     \/ ~HasBaseline(work[r].schema)
     \/ Len(PlanOf[r]) < Baseline
  /\ End(r, "refused")
  /\ UNCHANGED <<born, schema, ledger, adopted>>

\* A statement fails or the process ends: rollback, and the lock is freed.
Abort(r) ==
  /\ phase[r] \in {"locked", "applying"}
  /\ End(r, "refused")
  /\ UNCHANGED <<born, schema, ledger, adopted>>

Next ==
  \E r \in Runners :
    \/ Begin(r) \/ ApplyNext(r) \/ Applied(r) \/ ApplyRefused(r)
    \/ Adopt(r) \/ AdoptRefused(r) \/ Abort(r)

Spec == Init /\ [][Next]_vars

-----------------------------------------------------------------------------
(* Correctness *)

Contents == UNION {{PlanOf[r][v] : v \in DOMAIN PlanOf[r]} : r \in Runners}
              \cup {Legacy[v] : v \in DOMAIN Legacy}
IsListing(s) == \A i \in DOMAIN s : s[i] \in Contents

TypeOK ==
  /\ born \in {<<>>, Legacy}
  /\ IsListing(schema) /\ IsListing(ledger)
  /\ holder \in Runners \cup {NoRunner}
  /\ phase \in [Runners -> {"idle", "locked", "applying", "applied", "adopted", "refused"}]
  /\ \A r \in Runners : IsListing(work[r].schema) /\ IsListing(work[r].ledger)
  /\ adopted \in BOOLEAN

\* The ledger names what was executed: every migration once and in order.  An
\* adopted baseline is taken as listed (of its contents only the columns were
\* looked at) and not executed again; a legacy database's own contents come
\* only before it when nobody adopted it.  A release whose runner reported
\* success has all its migrations in the ledger, with its own contents, for
\* good: two releases that disagree on a migration never both succeed.
LedgerMatchesSchema ==
  /\ schema = (IF adopted THEN born \o SubSeq(ledger, Baseline + 1, Len(ledger))
                          ELSE born \o ledger)
  /\ \A r \in Runners : phase[r] = "applied" =>
       Len(PlanOf[r]) <= Len(ledger) /\ SubSeq(ledger, 1, Len(PlanOf[r])) = PlanOf[r]
  /\ \A q, r \in Runners : phase[q] = "applied" /\ phase[r] = "applied" =>
       \A v \in DOMAIN PlanOf[q] \cap DOMAIN PlanOf[r] : PlanOf[q][v] = PlanOf[r][v]

=============================================================================
