--------------------- MODULE IptablesRestoreController ---------------------
(***************************************************************************)
(* IptablesRestoreController: commands are piped to a long-running         *)
(* iptables-restore child per family, followed by a ping that the child    *)
(* echoes once it has come to it.  Children are slow, hang, reject         *)
(* commands and die, at any moment.  execute holds mLock throughout, so    *)
(* there is one call at a time; its steps are the system calls it makes.   *)
(* poll(2) itself is taken not to fail (it can for want of memory only),   *)
(* and a command to fit into the pipe, so that writing it does not block.  *)
(***************************************************************************)
EXTENDS Integers, Sequences

CONSTANTS Families, Targets, Commands,
          MAX_RETRIES    \* polls per command, 50 in the code

IPTABLES_PROCESS == "V4"
IP6TABLES_PROCESS == "V6"
PING == 0                \* in a child's stdin: the ping, or the number of a command

ASSUME IptablesAssumption ==
    /\ Families = {IPTABLES_PROCESS, IP6TABLES_PROCESS}
    /\ Targets \in [DOMAIN Targets -> SUBSET Families]
    /\ Commands \subseteq Nat \ {0}
    /\ MAX_RETRIES \in Nat

VARIABLES
    applied,             \* kernel: [Families -> [Commands -> how often it was applied]]
    current, target, result,
    pc,                  \* where execute is
    family,              \* the family that sendCommand works on
    timeout,             \* polls made
    res,                 \* errors so far: 0 or -1
    running,             \* family -> is its child alive
    stdin,               \* family -> what its child has not read
    stdout               \* family -> pings that its child has written

callVars == <<current, target, result>>
childVars == <<running, stdin, stdout>>
restoreVars == <<applied, callVars, pc, family, timeout, res, childVars>>

(* Init forks both children; either may fail and is then tried again by need. *)
RestoreInit ==
    /\ applied = [f \in Families |-> [n \in Commands |-> 0]]
    /\ current = 0 /\ target \in DOMAIN Targets /\ result = [n \in Commands |-> 1]
    /\ pc = "idle" /\ family = IPTABLES_PROCESS /\ timeout = 0 /\ res = 0
    /\ running \in [Families -> BOOLEAN]
    /\ stdin = [f \in Families |-> <<>>] /\ stdout = [f \in Families |-> 0]
-----------------------------------------------------------------------------
(* execute begins: IPv4 first. *)
execute(n, t) ==
    /\ pc = "idle" /\ result[n] = 1
    /\ current' = n /\ target' = t
    /\ family' = IPTABLES_PROCESS /\ res' = 0
    /\ pc' = "family"
    /\ UNCHANGED <<applied, result, timeout, childVars>>

(* The two ifs of execute around sendCommand. *)
chooseFamily ==
    /\ pc = "family"
    /\ IF family \in Targets[target]
       THEN pc' = "check" /\ UNCHANGED family
       ELSE IF family = IPTABLES_PROCESS
            THEN pc' = pc /\ family' = IP6TABLES_PROCESS
            ELSE pc' = "return" /\ UNCHANGED family
    /\ UNCHANGED <<applied, callVars, timeout, res, childVars>>

return ==
    /\ pc = "return"
    /\ pc' = "idle"
    /\ result' = [result EXCEPT ![current] = res]
    /\ current' = 0
    /\ UNCHANGED <<applied, target, family, timeout, res, childVars>>

(* sendCommand is over with -1 or 0; execute goes on with IPv6 in either case. *)
CommandEnds(r) ==
    /\ pc' = IF family = IPTABLES_PROCESS THEN "family" ELSE "return"
    /\ family' = IP6TABLES_PROCESS
    /\ res' = IF r = 0 THEN res ELSE -1

(* IptablesProcess::stop: kill the child and wait for it; its pipes go with it. *)
Stop(f) ==
    /\ running' = [running EXCEPT ![f] = FALSE]
    /\ stdin' = [stdin EXCEPT ![f] = <<>>]
    /\ stdout' = [stdout EXCEPT ![f] = 0]

(* A live child is used; for a dead one another is forked, which may fail. *)
sendCommandForks ==
    /\ pc = "check"
    /\ IF running[family]
       THEN pc' = "write" /\ UNCHANGED <<family, res, childVars>>
       ELSE \/ /\ pc' = "write"
               /\ running' = [running EXCEPT ![family] = TRUE]
               /\ stdin' = [stdin EXCEPT ![family] = <<>>]
               /\ stdout' = [stdout EXCEPT ![family] = 0]
               /\ UNCHANGED <<family, res>>
            \/ CommandEnds(-1) /\ UNCHANGED childVars
    /\ UNCHANGED <<applied, callVars, timeout>>

(* Command and ping; EPIPE if the child has died since. *)
sendCommandWrites ==
    /\ pc = "write"
    /\ IF running[family]
       THEN /\ pc' = "drain"
            /\ stdin' = [stdin EXCEPT ![family] = @ \o <<current, PING>>]
            /\ UNCHANGED <<family, res>>
       ELSE CommandEnds(-1) /\ UNCHANGED stdin
    /\ timeout' = 0
    /\ UNCHANGED <<applied, callVars, running, stdout>>

(* A loop that only ends with an acknowledgement. *)
pollWithoutLimit ==
    /\ pc = "drain" /\ stdout[family] = 0
    /\ UNCHANGED <<applied, callVars, pc, family, timeout, res, childVars>>

(***************************************************************************)
(* One turn of the loop of drainAndWaitForAck without an acknowledgement:  *)
(* a timeout, output on stderr, or a closed pipe; then the child is gone.  *)
(***************************************************************************)
pollAgain ==
    /\ pc = "drain" /\ timeout < MAX_RETRIES
    /\ stdout[family] = 0
    /\ timeout' = timeout + 1
    /\ UNCHANGED <<applied, callVars, pc, family, res, childVars>>

(* The ping is read, and with it whatever else the child wrote. *)
receivedAck ==
    /\ pc = "drain" /\ timeout < MAX_RETRIES
    /\ stdout[family] > 0
    /\ stdout' = [stdout EXCEPT ![family] = 0]
    /\ CommandEnds(0)
    /\ UNCHANGED <<applied, callVars, timeout, running, stdin>>

(* A timeout that leaves the child alone. *)
timedOutWithoutStop ==
    /\ pc = "drain" /\ timeout >= MAX_RETRIES
    /\ CommandEnds(-1)
    /\ UNCHANGED <<applied, callVars, timeout, childVars>>

(* No acknowledgement: the child is killed. *)
timedOut ==
    /\ pc = "drain" /\ timeout >= MAX_RETRIES
    /\ CommandEnds(-1)
    /\ Stop(family)
    /\ UNCHANGED <<applied, callVars, timeout>>
-----------------------------------------------------------------------------
(* A child reads on: it applies a command or echoes the ping. *)
ChildReads(f) ==
    /\ running[f] /\ stdin[f] # <<>>
    /\ stdin' = [stdin EXCEPT ![f] = Tail(@)]
    /\ IF Head(stdin[f]) = PING
       THEN stdout' = [stdout EXCEPT ![f] = @ + 1] /\ UNCHANGED applied
       ELSE applied' = [applied EXCEPT ![f][Head(stdin[f])] = @ + 1] /\ UNCHANGED stdout
    /\ UNCHANGED <<callVars, pc, family, timeout, res, running>>

(* It exits over a command it rejects, crashes or is killed by somebody else. *)
ChildDies(f) ==
    /\ running[f]
    /\ running' = [running EXCEPT ![f] = FALSE]
    /\ stdin' = [stdin EXCEPT ![f] = <<>>]
    /\ UNCHANGED <<applied, callVars, pc, family, timeout, res, stdout>>

ControllerStep ==
    \/ chooseFamily \/ return
    \/ sendCommandForks \/ sendCommandWrites
    \/ pollAgain \/ receivedAck \/ timedOut

RestoreNext ==
    \/ \E n \in Commands, t \in DOMAIN Targets : execute(n, t)
    \/ ControllerStep
    \/ \E f \in Families : ChildReads(f) \/ ChildDies(f)

RestoreSpec == RestoreInit /\ [][RestoreNext]_restoreVars

(* netd runs; nothing is asked of the children. *)
FairRestoreSpec == RestoreSpec /\ WF_restoreVars(ControllerStep)
-----------------------------------------------------------------------------
Executor ==
    INSTANCE IptablesExecutor WITH applied <- applied, current <- current, target <- target, result <- result

(***************************************************************************)
(* execute keeps its promise (module IptablesExecutor) with children that  *)
(* are late or die at any point: 0 only after the command was applied to   *)
(* every family of the target, never twice, and never after execute has    *)
(* returned, because a child that did not answer is killed and its late    *)
(* answer cannot be taken for that of another command.                     *)
(***************************************************************************)
KeepsPromise == Executor!ExecutorSpec

(***************************************************************************)
(* execute returns, also if a child hangs forever: otherwise mLock stays   *)
(* taken and every controller that uses iptables stops.                    *)
(***************************************************************************)
ExecuteReturns == pc # "idle" ~> pc = "idle"
============================================================================
