----------------------------- MODULE JobPromise -----------------------------
(***************************************************************************)
(* What the execution plane promises of a job, whoever runs it and however *)
(* often: it ends at most once, every retry announced is of a later        *)
(* attempt than the ones before, all of them below the attempt limit, and  *)
(* nothing is announced once it has ended.                                 *)
(***************************************************************************)
EXTENDS Integers

CONSTANTS Jobs, MaxAttempts

VARIABLES
  outcome,  \* "absent", "open", or how the job ended
  retries   \* the attempts whose retry was announced

vars == <<outcome, retries>>

Init ==
  /\ outcome = [j \in Jobs |-> "absent"]
  /\ retries = [j \in Jobs |-> {}]

Submit(j) ==
  /\ outcome[j] = "absent"
  /\ outcome' = [outcome EXCEPT ![j] = "open"]
  /\ UNCHANGED retries

AnnounceRetry(j, a) ==
  /\ outcome[j] = "open"
  /\ a < MaxAttempts
  /\ \A b \in retries[j] : b < a
  /\ retries' = [retries EXCEPT ![j] = @ \cup {a}]
  /\ UNCHANGED outcome

End(j, o) ==
  /\ outcome[j] = "open"
  /\ outcome' = [outcome EXCEPT ![j] = o]
  /\ UNCHANGED retries

Next ==
  \E j \in Jobs :
    \/ Submit(j)
    \/ \E a \in 1..(MaxAttempts - 1) : AnnounceRetry(j, a)
    \/ \E o \in {"succeeded", "failed"} : End(j, o)

Spec == Init /\ [][Next]_vars
=============================================================================
