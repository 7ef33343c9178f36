-------------------------- MODULE IptablesExecutor --------------------------
(***************************************************************************)
(* What IptablesRestoreInterface::execute promises its callers: a command  *)
(* changes the tables of each family of its target at most once, only      *)
(* while the call lasts, and did so for all of them if the call returns 0. *)
(* It says nothing about what happened if the call returns an error.       *)
(***************************************************************************)
EXTENDS Integers

CONSTANTS Families,      \* address families: IPv4 and IPv6
          Targets,       \* IptablesTarget: target -> families
          Commands       \* the calls, numbered

VARIABLES
    applied,             \* kernel: [Families -> [Commands -> how often it was applied]]
    current,             \* the call in progress: its command (0: none)
    target,              \* and its target
    result               \* command -> what execute returned (1: nothing yet)

executorVars == <<applied, current, target, result>>

ExecutorInit ==
    /\ applied = [f \in Families |-> [n \in Commands |-> 0]]
    /\ current = 0
    /\ target \in DOMAIN Targets
    /\ result = [n \in Commands |-> 1]

Call(n, t) ==
    /\ current = 0 /\ result[n] = 1
    /\ current' = n /\ target' = t
    /\ UNCHANGED <<applied, result>>

Apply(f) ==
    /\ current # 0 /\ f \in Targets[target]
    /\ applied[f][current] = 0
    /\ applied' = [applied EXCEPT ![f][current] = 1]
    /\ UNCHANGED <<current, target, result>>

Return(res) ==
    /\ current # 0
    /\ res = 0 => \A f \in Targets[target] : applied[f][current] = 1
    /\ result' = [result EXCEPT ![current] = res]
    /\ current' = 0
    /\ UNCHANGED <<applied, target>>

ExecutorNext ==
    \/ \E n \in Commands, t \in DOMAIN Targets : Call(n, t)
    \/ \E f \in Families : Apply(f)
    \/ \E res \in {0, -1} : Return(res)

ExecutorSpec == ExecutorInit /\ [][ExecutorNext]_executorVars
=============================================================================
