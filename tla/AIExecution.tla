----------------------------- MODULE AIExecution -----------------------------
(***************************************************************************)
(* One AI task from IdempotentAIExecutionService to the provider and back. *)
(* The key is reserved in one transaction, the provider is called outside  *)
(* of any, AIGateway stores the run with its audit in a second transaction *)
(* and the key is completed in a third.  Whatever goes wrong in between    *)
(* leaves the key pending: its external outcome is unknown.                *)
(*                                                                         *)
(* Each process has one adapter.  An adapter that failed once reports      *)
(* itself unhealthy (_last_failure_code) and ScopedAIProvider stops asking *)
(* it; GigaChat's adapter also keeps an access token under a lock.         *)
(***************************************************************************)

CONSTANTS
  Calls,      \* requests to run a task; the run of a call has the call's name
  KeyOf,      \* the idempotency key of each call
  Asks,       \* contents of a request (its hash)
  Processes,
  ProcessOf,  \* the process that serves each call
  NoRecord    \* no record under a key

VARIABLES
  product,  \* "yandexgpt" or "gigachat"
  asks,     \* what each call asks
  step,     \* where each call is
  ledger,   \* idempotency_key rows
  runs,     \* ai_run rows, each with its audit record
  reply,    \* the run each call returned
  failing,  \* adapters with a _last_failure_code
  token,    \* adapters with a cached access token
  sentFor   \* history: calls whose request went out to the provider

vars == <<product, asks, step, ledger, runs, reply, failing, token, sentFor>>

-----------------------------------------------------------------------------

\* _ai_request_hash and the pending reservation it is stored with.
Reservation(c) == [asks |-> asks[c], by |-> c, done |-> FALSE]
KeysUsed == {KeyOf[c] : c \in Calls}
Working(c) == step[c] \in {"reserved", "checked", "authorized", "sent", "received", "stored"}

\* uow.ai_runs.get
IsStored(run) == run \in runs

\* readiness(), and what ends an invoke: a failure code set or cleared.
HasFailed(c) == ProcessOf[c] \in failing
Marked(c) == failing \cup {ProcessOf[c]}
Cleared(c) == failing \ {ProcessOf[c]}

\* ScopedAIProvider.run goes on with an activated adapter that is ready.
Ready(c) == ~HasFailed(c)

Goto(c, s) == step' = [step EXCEPT ![c] = s]

\* `except Exception: raise`: the reservation is deliberately kept.
KeyAfterFailureFreed(c) == [ledger EXCEPT ![KeyOf[c]] = NoRecord]  \* mutant
KeyAfterFailure(c) == ledger

Init ==
  /\ product \in {"yandexgpt", "gigachat"}
  /\ asks \in [Calls -> Asks]
  /\ step = [c \in Calls |-> "called"]
  /\ ledger = [k \in KeysUsed |-> NoRecord]
  /\ runs = {}
  /\ reply = [c \in Calls |-> NoRecord]
  /\ failing = {}
  /\ token = {}
  /\ sentFor = {}

Reserve(c) ==
  /\ step[c] = "called"
  /\ ledger[KeyOf[c]] = NoRecord
  /\ ledger' = [ledger EXCEPT ![KeyOf[c]] = Reservation(c)]
  /\ Goto(c, "reserved")
  /\ UNCHANGED <<product, asks, runs, reply, failing, token, sentFor>>

\* Another hash, a pending reservation or a missing run is a conflict.
ReservedBefore(c) ==
  LET record == ledger[KeyOf[c]]
      usable == record.asks = asks[c] /\ record.done /\ IsStored(record.by) IN
  /\ step[c] = "called"
  /\ record # NoRecord
  /\ reply' = [reply EXCEPT ![c] = IF usable THEN record.by ELSE NoRecord]
  /\ Goto(c, IF usable THEN "answered" ELSE "conflict")
  /\ UNCHANGED <<product, asks, ledger, runs, failing, token, sentFor>>

\* Permission, policy, trust and activation are checked, then readiness.
Check(c) ==
  /\ step[c] = "reserved"
  /\ Ready(c)
  /\ Goto(c, "checked")
  /\ UNCHANGED <<product, asks, ledger, runs, reply, failing, token, sentFor>>

Fail(c) ==
  /\ Goto(c, "failed")
  /\ ledger' = KeyAfterFailure(c)

\* Nothing was sent: refused by a check, by the readiness of the adapter, or
\* by the prompt and deadline checks that invoke makes before its `try`.
Refuse(c) ==
  /\ step[c] \in {"reserved", "checked"}
  /\ Fail(c)
  /\ UNCHANGED <<product, asks, runs, reply, failing, token, sentFor>>

\* _get_access_token, under its lock; YandexGPT sends its key with the request.
Authorize(c) ==
  /\ step[c] = "checked"
  /\ token' = IF product = "gigachat" THEN token \cup {ProcessOf[c]} ELSE token
  /\ Goto(c, "authorized")
  /\ UNCHANGED <<product, asks, ledger, runs, reply, failing, sentFor>>

\* The token service refused, answered nonsense or not in time, or the
\* deadline passed before the request could go out.
AuthorizeFails(c) ==
  /\ step[c] \in {"checked", "authorized"}
  /\ product = "gigachat"
  /\ failing' = Marked(c)
  /\ Fail(c)
  /\ UNCHANGED <<product, asks, runs, reply, token, sentFor>>

TokenExpires(p) ==
  /\ p \in token
  /\ token' = token \ {p}
  /\ UNCHANGED <<product, asks, step, ledger, runs, reply, failing, sentFor>>

Send(c) ==
  /\ step[c] = "authorized"
  /\ sentFor' = sentFor \cup {c}
  /\ Goto(c, "sent")
  /\ UNCHANGED <<product, asks, ledger, runs, reply, failing, token>>

\* A usable response clears the failure code of the adapter.
Receive(c) ==
  /\ step[c] = "sent"
  /\ failing' = Cleared(c)
  /\ Goto(c, "received")
  /\ UNCHANGED <<product, asks, ledger, runs, reply, token, sentFor>>

\* A status other than 200, an unusable body, a cost or a deadline exceeded
\* marks the adapter; a response that fails validate_provider_response does not.
ReceiveFailure(c) ==
  /\ step[c] = "sent"
  /\ failing' \in {failing, Marked(c)}
  /\ Fail(c)
  /\ UNCHANGED <<product, asks, runs, reply, token, sentFor>>

\* AIGateway.execute after the call: its own checks, then the run and audit.
AddRun(c) == runs' = runs \cup {c}

Store(c) ==
  /\ step[c] = "received"
  /\ AddRun(c)
  /\ Goto(c, "stored")
  /\ UNCHANGED <<product, asks, ledger, reply, failing, token, sentFor>>

StoreFails(c) ==
  /\ step[c] = "received"
  /\ Fail(c)
  /\ UNCHANGED <<product, asks, runs, reply, failing, token, sentFor>>

Complete(c) ==
  /\ step[c] = "stored"
  /\ ledger' = [ledger EXCEPT ![KeyOf[c]].done = TRUE]
  /\ reply' = [reply EXCEPT ![c] = c]
  /\ Goto(c, "answered")
  /\ UNCHANGED <<product, asks, runs, failing, token, sentFor>>

\* A process ends, the adapter's memory and the calls it serves with it.
Restart(p) ==
  /\ \E c \in Calls : ProcessOf[c] = p /\ Working(c)
  /\ step' = [c \in Calls |-> IF ProcessOf[c] = p /\ Working(c) THEN "failed" ELSE step[c]]
  /\ failing' = failing \ {p}
  /\ token' = token \ {p}
  /\ UNCHANGED <<product, asks, ledger, runs, reply, sentFor>>

Next ==
  \/ \E c \in Calls :
       \/ Reserve(c) \/ ReservedBefore(c)
       \/ Check(c) \/ Refuse(c)
       \/ Authorize(c) \/ AuthorizeFails(c)
       \/ Send(c) \/ Receive(c) \/ ReceiveFailure(c)
       \/ Store(c) \/ StoreFails(c) \/ Complete(c)
  \/ \E p \in Processes : TokenExpires(p) \/ Restart(p)

Spec == Init /\ [][Next]_vars

-----------------------------------------------------------------------------
(* Correctness *)

TypeOK ==
  /\ product \in {"yandexgpt", "gigachat"}
  /\ asks \in [Calls -> Asks]
  /\ step \in [Calls -> {"called", "reserved", "checked", "authorized", "sent",
                        "received", "stored", "answered", "conflict", "failed"}]
  /\ ledger \in [KeysUsed -> {NoRecord} \cup [asks : Asks, by : Calls, done : BOOLEAN]]
  /\ runs \subseteq Calls
  /\ reply \in [Calls -> Calls \cup {NoRecord}]
  /\ failing \subseteq Processes
  /\ token \subseteq Processes
  /\ sentFor \subseteq Calls

\* However often a task is retried under its key, and whatever failed or
\* crashed meanwhile, the provider is asked once at most; the key keeps the
\* name of the call that asked; and an answer is a stored run of that very
\* request, the only one under the key ("a retry with the same key must not
\* silently issue another external call").
OneCallPerKey ==
  /\ \A c, d \in sentFor : KeyOf[c] = KeyOf[d] => c = d
  /\ \A c \in sentFor : ledger[KeyOf[c]] # NoRecord /\ ledger[KeyOf[c]].by = c
  /\ runs \subseteq sentFor
  /\ \A c \in Calls : reply[c] # NoRecord =>
       /\ reply[c] \in runs
       /\ KeyOf[reply[c]] = KeyOf[c] /\ asks[reply[c]] = asks[c]

=============================================================================
