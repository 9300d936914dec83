--------------------------- MODULE ChangeDetection ---------------------------
(***************************************************************************)
(* CounterpartyMonitoringService.record_observation: what a worker thread  *)
(* observed of one counterparty becomes a snapshot, and a difference with  *)
(* the latest snapshot becomes a change event, an outbox event and an      *)
(* audit record, in one transaction at read committed.  A day's item is    *)
(* recorded once: its idempotency key makes later recordings wait for the  *)
(* first and return its snapshot.  Threads of different days share no key. *)
(***************************************************************************)
EXTENDS Naturals

CONSTANTS
  Threads,  \* worker threads with an item of the one monitor
  Facts,    \* what the registry may say about the counterparty
  DayOf,    \* the day whose batch the item of each thread belongs to
  Nothing   \* no snapshot

VARIABLES
  clock,     \* the registry's clock: observations have distinct times
  at,        \* where each thread is
  seen,      \* the observation a thread holds
  previous,  \* the latest snapshot its transaction read
  stored,    \* snapshots, committed
  lastOne,   \* counterparty_monitor.last_snapshot_id
  changes,   \* change events, with their outbox event and audit
  byKey,     \* the snapshot each day's key was completed with
  overlapped \* history: recordings of different days met, or came late

vars == <<clock, at, seen, previous, stored, lastOne, changes, byKey, overlapped>>

Days == {DayOf[t] : t \in Threads}
Snapshots == [time : Nat, fact : Facts]

\* get_latest_snapshot: order by observed_at desc.
Latest == IF stored = {} THEN Nothing ELSE CHOOSE s \in stored : \A r \in stored : r.time <= s.time

\* detect_counterparty_changes compares the payloads.
DiffersFromNothing(before, after) == before = Nothing \/ before.fact # after.fact  \* mutant
Differs(before, after) == before # Nothing /\ before.fact # after.fact

\* The pending key of a day's item, inserted by a transaction still open.
KeyNeverTaken(t) == FALSE  \* mutant
KeyTaken(t) == \E u \in Threads \ {t} : at[u] = "recording" /\ DayOf[u] = DayOf[t]

-----------------------------------------------------------------------------

Init ==
  /\ clock = 0
  /\ at = [t \in Threads |-> "idle"]
  /\ seen = [t \in Threads |-> Nothing]
  /\ previous = [t \in Threads |-> Nothing]
  /\ stored = {}
  /\ lastOne = Nothing
  /\ changes = {}
  /\ byKey = [d \in Days |-> Nothing]
  /\ overlapped = FALSE

\* The provider answers with what the registry says, which may have changed.
Observe(t) ==
  /\ at[t] = "idle"
  /\ clock' = clock + 1
  /\ \E fact \in Facts : seen' = [seen EXCEPT ![t] = [time |-> clock + 1, fact |-> fact]]
  /\ at' = [at EXCEPT ![t] = "observed"]
  /\ UNCHANGED <<previous, stored, lastOne, changes, byKey, overlapped>>

\* reserve, then get_latest_snapshot.
StartRecording(t) ==
  /\ at[t] = "observed"
  /\ ~KeyTaken(t)
  /\ byKey[DayOf[t]] = Nothing
  /\ previous' = [previous EXCEPT ![t] = Latest]
  /\ at' = [at EXCEPT ![t] = "recording"]
  /\ overlapped' = \/ overlapped
                   \/ \E u \in Threads \ {t} : at[u] = "recording"
                   \/ Latest # Nothing /\ Latest.time > seen[t].time
  /\ UNCHANGED <<clock, seen, stored, lastOne, changes, byKey>>

\* The key names a stored snapshot: this observation is dropped.
RecordedBefore(t) ==
  /\ at[t] = "observed"
  /\ ~KeyTaken(t)
  /\ byKey[DayOf[t]] # Nothing
  /\ at' = [at EXCEPT ![t] = "done"]
  /\ UNCHANGED <<clock, seen, previous, stored, lastOne, changes, byKey, overlapped>>

AddSnapshot(s) == stored' = stored \cup {s}

\* The monitor shows this snapshot, whichever it showed.
SetLastSnapshot(s) == lastOne' = s

\* A repeated pair is inserted once.
AddChangeEvent(before, after) ==
  changes' = changes \cup {[before |-> before, after |-> after]}

\* The rest of record_observation: rows, outbox, audit and the completed key.
Commit(t) ==
  /\ at[t] = "recording"
  /\ AddSnapshot(seen[t])
  /\ SetLastSnapshot(seen[t])
  /\ IF Differs(previous[t], seen[t])
     THEN AddChangeEvent(previous[t], seen[t]) ELSE UNCHANGED changes
  /\ byKey' = [byKey EXCEPT ![DayOf[t]] = seen[t]]
  /\ at' = [at EXCEPT ![t] = "done"]
  /\ UNCHANGED <<clock, seen, previous, overlapped>>

\* The thread or its process ends: the transaction is rolled back.
Lose(t) ==
  /\ at[t] \in {"observed", "recording"}
  /\ at' = [at EXCEPT ![t] = "done"]
  /\ UNCHANGED <<clock, seen, previous, stored, lastOne, changes, byKey, overlapped>>

Next ==
  \E t \in Threads :
    Observe(t) \/ StartRecording(t) \/ RecordedBefore(t) \/ Commit(t) \/ Lose(t)

Spec == Init /\ [][Next]_vars

-----------------------------------------------------------------------------
(* Correctness *)

TypeOK ==
  /\ clock \in Nat
  /\ at \in [Threads -> {"idle", "observed", "recording", "done"}]
  /\ seen \in [Threads -> Snapshots \cup {Nothing}]
  /\ previous \in [Threads -> Snapshots \cup {Nothing}]
  /\ stored \subseteq Snapshots
  /\ lastOne \in Snapshots \cup {Nothing}
  /\ changes \subseteq [before : Snapshots, after : Snapshots]
  /\ byKey \in [Days -> Snapshots \cup {Nothing}]
  /\ overlapped \in BOOLEAN

Successive(s, r) ==
  s.time < r.time /\ ~\E x \in stored : s.time < x.time /\ x.time < r.time

\* A day has one snapshot whoever recorded it and however often; every change
\* told is between two stored snapshots that differ; and as long as the
\* recordings of different days neither met nor came late, exactly the
\* differences of successive snapshots were told, and the monitor shows the
\* newest one.  When such recordings meet, a change is compared with a snapshot
\* that is not the latest (record_observation reads it without a lock): only
\* the first two parts are left then.
ChangesAreTold ==
  /\ \A d \in Days : byKey[d] # Nothing => byKey[d] \in stored
  /\ \A s \in stored : \E d \in Days : \A e \in Days : byKey[e] = s <=> e = d
  /\ \A c \in changes : {c.before, c.after} \subseteq stored /\ c.before.fact # c.after.fact
  /\ ~overlapped =>
       /\ lastOne = Latest
       /\ changes = {c \in [before : stored, after : stored] :
                       Successive(c.before, c.after) /\ c.before.fact # c.after.fact}

=============================================================================
