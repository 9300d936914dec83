--------------------------- MODULE ActivationGate ---------------------------
(***************************************************************************)
(* YandexGPTProductionGate and GigaChatProductionGate over the canonical   *)
(* row of provider_activation_state.  Operators activate and roll back on  *)
(* any replica; a replica keeps a provider bound to one activation and a   *)
(* local copy of its state; a request asks the gate for the provider and,  *)
(* when it runs, checks the canonical row, then the ceilings (YandexGPT    *)
(* reads the row once more, GigaChat its replica's local copy).            *)
(***************************************************************************)
EXTENDS Naturals

CONSTANTS
  Replicas,
  Tasks,      \* requests, each served by one replica
  ReplicaOf,
  Configs,    \* configuration versions
  CeilingOf,  \* the cost ceiling a configuration carries
  MaxActs     \* bound: activations; the n-th has the n-th activated_at

VARIABLES
  product,   \* which of the two gates
  configOf,  \* the configuration each replica was started with
  row,       \* the canonical row
  local,     \* _state of each replica's gate
  bound,     \* the activation its cached provider is bound to, 0 for none
  command,   \* the operator's command in progress on each replica
  undone,    \* history: rollbacks, what they disabled and what they had seen
  stage,     \* where each request is
  task       \* what a request holds

vars == <<product, configOf, row, local, bound, command, undone, stage, task>>

-----------------------------------------------------------------------------

\* A row of provider_activation_state, and a gate's copy of it.
States == [enabled : BOOLEAN, act : 0..MaxActs, config : Configs]

Costs == {CeilingOf[c] : c \in Configs}
Idle == [name |-> "none", act |-> 0]
Undone(n) == \E u \in undone : u.disabled = n

\* allows_request: the row is enabled with this binding and configuration.
SameBindingAnyAct(r, t) == r.enabled /\ r.config = t.config  \* mutant
SameBinding(r, t) == r.enabled /\ r.config = t.config /\ r.act = t.binding

\* budget_allows
WithinNoCeiling(state, cost) == state.enabled  \* mutant
WithinCeiling(state, cost) == state.enabled /\ cost <= CeilingOf[state.config]

\* `where provider_activation_state.enabled = false`
Activable == ~row.enabled

NewState(r, n) == [enabled |-> TRUE, act |-> n, config |-> configOf[r]]
NoConfig == CHOOSE c \in Configs : TRUE
NoState == [enabled |-> FALSE, act |-> 0, config |-> NoConfig]
NewTask(cost) == [config |-> NoConfig, seen |-> 0, binding |-> 0, checked |-> 0,
                  cost |-> cost, late |-> FALSE, moved |-> FALSE]

-----------------------------------------------------------------------------

Init ==
  /\ product \in {"yandexgpt", "gigachat"}
  /\ configOf \in [Replicas -> Configs]
  /\ row = NoState
  /\ local = [r \in Replicas |-> NoState]
  /\ bound = [r \in Replicas |-> 0]
  /\ command = [r \in Replicas |-> Idle]
  /\ undone = {}
  /\ stage = [t \in Tasks |-> "called"]
  /\ \E cost \in [Tasks -> Costs] : task = [t \in Tasks |-> NewTask(cost[t])]

\* activate, up to the commit of the row; refused while the row is enabled.
Activate(r) ==
  /\ command[r] = Idle
  /\ Activable
  /\ row.act < MaxActs
  /\ row' = NewState(r, row.act + 1)
  /\ command' = [command EXCEPT ![r] = [name |-> "activate", act |-> row.act + 1]]
  /\ UNCHANGED <<product, configOf, local, bound, undone, stage, task>>

\* _state and _provider of a replica: set to an activation, or cleared.
BindTo(r, n) ==
  /\ local' = [local EXCEPT ![r] = NewState(r, n)]
  /\ bound' = [bound EXCEPT ![r] = n]
Forget(r) ==
  /\ local' = [local EXCEPT ![r] = NoState]
  /\ bound' = [bound EXCEPT ![r] = 0]

\* activate, after the commit.
Activated(r) ==
  /\ command[r].name = "activate"
  /\ BindTo(r, command[r].act)
  /\ command' = [command EXCEPT ![r] = Idle]
  /\ UNCHANGED <<product, configOf, row, undone, stage, task>>

\* rollback reads the row; nothing to do when it is disabled.
StartRollback(r) ==
  /\ command[r] = Idle
  /\ row.enabled
  /\ command' = [command EXCEPT ![r] = [name |-> "rollback", act |-> row.act]]
  /\ UNCHANGED <<product, configOf, row, local, bound, undone, stage, task>>

\* The compare-and-set on activation_version and activated_at.
TargetAny(r) == row.enabled  \* mutant
Target(r) == row.enabled /\ row.act = command[r].act

RollBack(r) ==
  /\ command[r].name = "rollback"
  /\ Target(r)
  /\ row' = [row EXCEPT !.enabled = FALSE]
  /\ undone' = undone \cup {[disabled |-> row.act, seen |-> command[r].act]}
  /\ command' = [command EXCEPT ![r] = [name |-> "withdrawn", act |-> 0]]
  /\ UNCHANGED <<product, configOf, local, bound, stage, task>>

RollBackLost(r) ==
  /\ command[r].name = "rollback"
  /\ ~Target(r)
  /\ command' = [command EXCEPT ![r] = Idle]
  /\ UNCHANGED <<product, configOf, row, local, bound, undone, stage, task>>

RolledBack(r) ==
  /\ command[r].name = "withdrawn"
  /\ Forget(r)
  /\ command' = [command EXCEPT ![r] = Idle]
  /\ UNCHANGED <<product, configOf, row, undone, stage, task>>

-----------------------------------------------------------------------------

Move(t, s) == stage' = [stage EXCEPT ![t] = s]
Refuse(t) == Move(t, "refused") /\ task' = [task EXCEPT ![t] = NewTask(task[t].cost)]

\* configuration_version(): the canonical row's, even of a disabled one.
Configure(t) ==
  /\ stage[t] = "called"
  /\ IF row.act = 0
     THEN Refuse(t)
     ELSE Move(t, "configured") /\ task' = [task EXCEPT ![t].config = row.config]
  /\ UNCHANGED <<product, configOf, row, local, bound, command, undone>>

\* provider() reads the row, the replica's configuration must be the row's.
LookUp(t) ==
  /\ stage[t] = "configured"
  /\ IF row.enabled /\ row.config = configOf[ReplicaOf[t]]
     THEN Move(t, "found") /\ task' = [task EXCEPT ![t].seen = row.act]
     ELSE Refuse(t)
  /\ UNCHANGED <<product, configOf, row, local, bound, command, undone>>

\* provider(), after the read: keep the binding or build another, set _state.
Bind(t) ==
  /\ stage[t] = "found"
  /\ BindTo(ReplicaOf[t], task[t].seen)
  /\ task' = [task EXCEPT ![t].binding = task[t].seen]
  /\ Move(t, "bound")
  /\ UNCHANGED <<product, configOf, row, command, undone>>

\* GatedProvider.run begins: was its activation rolled back before?
Run(t) ==
  /\ stage[t] = "bound"
  /\ task' = [task EXCEPT ![t].late = Undone(task[t].binding)]
  /\ Move(t, "running")
  /\ UNCHANGED <<product, configOf, row, local, bound, command, undone>>

AllowsRequest(t) ==
  /\ stage[t] = "running"
  /\ IF SameBinding(row, task[t])
     THEN Move(t, "allowed") /\ task' = [task EXCEPT ![t].checked = row.act]
     ELSE Refuse(t)
  /\ UNCHANGED <<product, configOf, row, local, bound, command, undone>>

BudgetAllows(t) ==
  LET state == IF product = "yandexgpt" THEN row ELSE local[ReplicaOf[t]] IN
  /\ stage[t] = "allowed"
  /\ IF WithinCeiling(state, task[t].cost)
     THEN /\ Move(t, "sent")
          /\ task' = [task EXCEPT ![t].moved = row.act # task[t].checked \/ ~row.enabled]
     ELSE Refuse(t)
  /\ UNCHANGED <<product, configOf, row, local, bound, command, undone>>

\* A new process starts with the gate disabled and nothing bound.
Restart(r) ==
  /\ command[r] # Idle \/ bound[r] # 0
  /\ Forget(r)
  /\ command' = [command EXCEPT ![r] = Idle]
  /\ stage' = [t \in Tasks |-> IF ReplicaOf[t] = r /\ stage[t] # "sent" THEN "refused" ELSE stage[t]]
  /\ UNCHANGED <<product, configOf, row, undone, task>>

Next ==
  \/ \E r \in Replicas :
       \/ Activate(r) \/ Activated(r)
       \/ StartRollback(r) \/ RollBack(r) \/ RollBackLost(r) \/ RolledBack(r)
       \/ Restart(r)
  \/ \E t \in Tasks :
       \/ Configure(t) \/ LookUp(t) \/ Bind(t)
       \/ Run(t) \/ AllowsRequest(t) \/ BudgetAllows(t)

Spec == Init /\ [][Next]_vars

-----------------------------------------------------------------------------
(* Correctness *)

TypeOK ==
  /\ product \in {"yandexgpt", "gigachat"}
  /\ configOf \in [Replicas -> Configs]
  /\ row \in States
  /\ local \in [Replicas -> States]
  /\ bound \in [Replicas -> 0..MaxActs]
  /\ command \in [Replicas -> [name : {"none", "activate", "rollback", "withdrawn"},
                               act : 0..MaxActs]]
  /\ undone \subseteq [disabled : 1..MaxActs, seen : 1..MaxActs]
  /\ stage \in [Tasks -> {"called", "configured", "found", "bound", "running",
                          "allowed", "sent", "refused"}]
  /\ task \in [Tasks -> [config : Configs, seen : 0..MaxActs, binding : 0..MaxActs,
                         checked : 0..MaxActs, cost : Costs, late : BOOLEAN,
                         moved : BOOLEAN]]

\* A rollback disables the activation its operator saw and no later one, and
\* a request that begins to run after the rollback of its activation is not
\* sent, whichever replica rolled back and whatever was activated since: a
\* cached provider does not come back to life with the next activation.
KillSwitchHolds ==
  /\ \A u \in undone : u.disabled = u.seen
  /\ \A t \in Tasks : stage[t] = "sent" => ~task[t].late

\* A request that was sent costs no more than the configuration it ran under
\* allows, on every replica and whatever other replicas activate.  YandexGPT
\* reads the ceilings from the row after the check of the activation: there,
\* when the row moved in between, nothing is said.
CeilingHolds ==
  \A t \in Tasks :
    stage[t] = "sent" /\ (product = "gigachat" \/ ~task[t].moved) =>
      task[t].cost <= CeilingOf[task[t].config]

=============================================================================
