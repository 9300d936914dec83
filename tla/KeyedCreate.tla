----------------------------- MODULE KeyedCreate -----------------------------
(***************************************************************************)
(* The commands that create something once per idempotency key:            *)
(* CommercialActionCreateWorkflow, OrderCreateWorkflow, save_monitoring    *)
(* and save_favorite.  Each is one transaction at read committed: reserve  *)
(* the key, insert the entity, append its event and its audit.  An insert  *)
(* waits for the open transaction that inserted the same unique value.     *)
(*                                                                         *)
(* An action is created under a fresh id, an order under the id its caller *)
(* names, a monitor (or a favorite) under a fresh id but once per thing it *)
(* is about.  Three kinds of command share one table of keys.              *)
(***************************************************************************)

CONSTANTS
  Calls,    \* concurrent calls; a call's own name is the fresh id it draws
  Things,   \* what a request is about: an order_id, an INN
  Keys,     \* idempotency keys
  KeyOf,    \* the key of each call
  NoKey     \* no committed record under a key

VARIABLES
  request,  \* what each call asks: command and thing, and so its request_hash
  stage,    \* where each call is
  keys,     \* idempotency_key rows, committed
  rows,     \* created entities, committed
  told,     \* outbox events and audits, committed: one pair per occurrence
  answer    \* what each call returned

vars == <<request, stage, keys, rows, told, answer>>

-----------------------------------------------------------------------------

Requests == [command : {"action", "order", "monitor"}, thing : Things]

\* The id the entity of call c gets.
IdOf(c) == IF request[c].command = "order" THEN request[c].thing ELSE c
Ids == Calls \cup Things

Open(c) == stage[c] \in {"reserved", "found", "listed", "inserted"}

\* Another open transaction inserted this key: INSERT waits for its end.
KeyWaitsNever(c) == FALSE  \* mutant
KeyWaits(c) ==
  keys[KeyOf[c]] = NoKey /\ \E d \in Calls \ {c} : Open(d) /\ KeyOf[d] = KeyOf[c]

\* What is unique about an entity: its id, and for a monitor its thing.
SameUnique(q, i, r, j) ==
  \/ i = j /\ q.command = r.command
  \/ q.command = "monitor" /\ r = q
RowWaits(c) ==
  \E d \in Calls \ {c} :
    stage[d] = "inserted" /\ SameUnique(request[c], IdOf(c), request[d], IdOf(d))
RowClash(c) ==
  \E e \in rows : SameUnique(request[c], IdOf(c), e.request, e.id)

Finish(c, outcome) ==
  /\ stage' = [stage EXCEPT ![c] = "done"]
  /\ answer' = [answer EXCEPT ![c] = outcome]

-----------------------------------------------------------------------------

Init ==
  /\ request \in [Calls -> Requests]
  /\ stage = [c \in Calls |-> "called"]
  /\ keys = [k \in Keys |-> NoKey]
  /\ rows = {}
  /\ told = {}
  /\ answer = [c \in Calls |-> "none"]

\* uow.idempotency.get of the critical workflows: a committed key answers.
Replay(c) ==
  LET record == keys[KeyOf[c]] IN
  /\ stage[c] = "called"
  /\ request[c].command # "monitor"
  /\ record # NoKey
  /\ Finish(c, IF record.request = request[c] THEN record.ref ELSE "conflict")
  /\ UNCHANGED <<request, keys, rows, told>>

LookedUp(c) ==
  /\ stage[c] = "called"
  /\ request[c].command = "monitor" \/ keys[KeyOf[c]] = NoKey
  /\ stage' = [stage EXCEPT ![c] = "lookedUp"]
  /\ UNCHANGED <<request, keys, rows, told, answer>>

Reserve(c) ==
  /\ stage[c] = "lookedUp"
  /\ ~KeyWaits(c)
  /\ keys[KeyOf[c]] = NoKey
  /\ stage' = [stage EXCEPT ![c] = "reserved"]
  /\ UNCHANGED <<request, keys, rows, told, answer>>

\* reserve finds the key of a transaction that committed meanwhile.  A record
\* that already names the caller's own id looks like the caller's reservation.
ReservedAlready(c) ==
  LET record == keys[KeyOf[c]] IN
  /\ stage[c] = "lookedUp"
  /\ ~KeyWaits(c)
  /\ record # NoKey
  /\ IF record.request = request[c] /\ record.ref = IdOf(c)
     THEN stage' = [stage EXCEPT ![c] = "reserved"] /\ UNCHANGED answer
     ELSE Finish(c, IF record.request = request[c] THEN record.ref ELSE "conflict")
  /\ UNCHANGED <<request, keys, rows, told>>

\* list_monitors: if it shows the thing, the key is completed with its id.
ListMonitors(c) ==
  /\ stage[c] = "reserved"
  /\ request[c].command = "monitor"
  /\ stage' = [stage EXCEPT ![c] =
                IF \E e \in rows : e.request = request[c] THEN "found" ELSE "listed"]
  /\ UNCHANGED <<request, keys, rows, told, answer>>

ReadyToInsert(c) ==
  /\ stage[c] = IF request[c].command = "monitor" THEN "listed" ELSE "reserved"
  /\ ~RowWaits(c)

Insert(c) ==
  /\ ReadyToInsert(c)
  /\ ~RowClash(c)
  /\ stage' = [stage EXCEPT ![c] = "inserted"]
  /\ UNCHANGED <<request, keys, rows, told, answer>>

\* A unique constraint, or `on conflict do nothing` and then no stored row:
\* the exception rolls the reservation back with everything else.
InsertRejected(c) ==
  /\ ReadyToInsert(c)
  /\ RowClash(c)
  /\ Finish(c, "rejected")
  /\ UNCHANGED <<request, keys, rows, told>>

RecordUncompleted(c, id) ==  \* mutant: the reservation is never completed
  [request |-> request[c], ref |-> NoKey]
Record(c, id) == [request |-> request[c], ref |-> id]

\* The created entity, and its outbox event with its audit.
Row(c) == [request |-> request[c], id |-> IdOf(c)]
Told(c) == [by |-> c, command |-> request[c].command, id |-> IdOf(c)]

CommitCreated(c) ==
  /\ stage[c] = "inserted"
  /\ keys' = [keys EXCEPT ![KeyOf[c]] = Record(c, IdOf(c))]
  /\ rows' = rows \cup {Row(c)}
  /\ told' = told \cup {Told(c)}
  /\ Finish(c, IdOf(c))
  /\ UNCHANGED request

CommitFound(c) ==
  /\ stage[c] = "found"
  /\ \E e \in rows :
       /\ e.request = request[c]
       /\ keys' = [keys EXCEPT ![KeyOf[c]] = Record(c, e.id)]
       /\ Finish(c, e.id)
  /\ UNCHANGED <<request, rows, told>>

\* Policy, ownership or a lost connection: the transaction is rolled back.
Refused(c) ==
  /\ stage[c] \in {"called", "lookedUp"} \/ Open(c)
  /\ Finish(c, "rejected")
  /\ UNCHANGED <<request, keys, rows, told>>

Next ==
  \E c \in Calls :
    \/ Replay(c) \/ LookedUp(c)
    \/ Reserve(c) \/ ReservedAlready(c)
    \/ ListMonitors(c) \/ Insert(c) \/ InsertRejected(c)
    \/ CommitCreated(c) \/ CommitFound(c)
    \/ Refused(c)

Spec == Init /\ [][Next]_vars

-----------------------------------------------------------------------------
(* Correctness *)

TypeOK ==
  /\ request \in [Calls -> Requests]
  /\ stage \in [Calls -> {"called", "lookedUp", "reserved", "found", "listed",
                         "inserted", "done"}]
  /\ keys \in [Keys -> {NoKey} \cup [request : Requests, ref : Ids]]
  /\ rows \subseteq [request : Requests, id : Ids]
  /\ told \subseteq [by : Calls, command : {"action", "order", "monitor"}, id : Ids]
  /\ answer \in [Calls -> Ids \cup {"none", "conflict", "rejected"}]

\* Whatever the interleaving of the calls, a key stands for one stored result
\* of its own request; every call that was answered under it was given that
\* result; what was created was told exactly once; and one thing has at most
\* one monitor (reserve, complete and the unique constraints together).
KeyNamesOneResult ==
  /\ \A c \in Calls : answer[c] \in Ids =>
       keys[KeyOf[c]] = [request |-> request[c], ref |-> answer[c]]
  /\ \A k \in Keys : keys[k] # NoKey =>
       [request |-> keys[k].request, id |-> keys[k].ref] \in rows
  /\ \A e \in rows :
       /\ \E t \in told : {u \in told : u.command = e.request.command /\ u.id = e.id} = {t}
       /\ \E k \in Keys : keys[k] = [request |-> e.request, ref |-> e.id]
  /\ \A e, f \in rows :
       e.request = f.request /\ e.request.command = "monitor" => e = f

=============================================================================
