------------------ MODULE IptablesRestoreControllerProofs ------------------
(***************************************************************************)
(* IptablesRestoreController implements IptablesExecutor, for every set of *)
(* commands and targets and every number of polls: what TLC checks as      *)
(* KeepsPromise on a small instance.                                       *)
(***************************************************************************)
EXTENDS IptablesRestoreController, TLAPS

RestoreTypeOK ==
    /\ applied \in [Families -> [Commands -> Nat]]
    /\ current \in Commands \cup {0}
    /\ target \in DOMAIN Targets
    /\ result \in [Commands -> {0, -1, 1}]
    /\ pc \in {"idle", "family", "check", "write", "drain", "return"}
    /\ family \in Families
    /\ timeout \in Nat
    /\ res \in {0, -1}
    /\ running \in [Families -> BOOLEAN]
    /\ stdin \in [Families -> Seq(Nat)]
    /\ stdout \in [Families -> Nat]

(* A call in progress has its own command, and no other command was applied before its call. *)
CallsAreFresh ==
    /\ pc = "idle" <=> current = 0
    /\ current # 0 => result[current] = 1
    /\ \A n \in Commands, f \in Families : result[n] = 1 /\ n # current => applied[f][n] = 0

(* Only the child that execute waits for has anything to read or has written anything. *)
OthersAreQuiet ==
    \A f \in Families : ~(pc = "drain" /\ f = family) => stdin[f] = <<>> /\ stdout[f] = 0

(* That child has all of the command to read, the ping, or nothing. *)
ChildIsAt(f) ==
    \/ stdin[f] = <<current, PING>> /\ applied[f][current] = 0 /\ stdout[f] = 0
    \/ stdin[f] = <<PING>> /\ applied[f][current] = 1 /\ stdout[f] = 0
    \/ stdin[f] = <<>> /\ (stdout[f] > 0 => applied[f][current] = 1)

Waiting == pc = "drain" => ChildIsAt(family)

(* sendCommand is called for the families of the target, in order. *)
FamiliesInOrder ==
    /\ pc \in {"check", "write", "drain"} => family \in Targets[target]
    /\ pc \in {"family", "check", "write"} => applied[family][current] = 0
    /\ pc \in {"family", "check", "write", "drain"} /\ family = IPTABLES_PROCESS =>
          applied[IP6TABLES_PROCESS][current] = 0

(* While there was no error, the families that are done have the command. *)
DoneIsApplied ==
    /\ pc \in {"family", "check", "write", "drain"} /\ family = IP6TABLES_PROCESS
         /\ res = 0 /\ IPTABLES_PROCESS \in Targets[target] =>
          applied[IPTABLES_PROCESS][current] = 1
    /\ pc = "return" /\ res = 0 =>
          \A f \in Targets[target] : applied[f][current] = 1

RestoreInv ==
    /\ RestoreTypeOK /\ CallsAreFresh /\ OthersAreQuiet
    /\ Waiting /\ FamiliesInOrder /\ DoneIsApplied
-----------------------------------------------------------------------------
(* What a child does with its input: the command first, then the ping (ChildReads). *)
LEMMA ReadingInOrder ==
    ASSUME NEW n \in Nat
    PROVE  /\ <<>> \o <<n, PING>> = <<n, PING>>
           /\ Head(<<n, PING>>) = n /\ Tail(<<n, PING>>) = <<PING>>
           /\ Head(<<PING>>) = PING /\ Tail(<<PING>>) = <<>>
           /\ <<n, PING>> # <<>> /\ <<PING>> # <<>> /\ <<n, PING>> # <<PING>>
           /\ <<>> \in Seq(Nat) /\ <<PING>> \in Seq(Nat) /\ <<n, PING>> \in Seq(Nat)
PROOF BY DEF PING

(* The children forked by Init have nothing to read and no command was applied. *)
LEMMA InitRestore == RestoreInit => RestoreInv
<1> SUFFICES ASSUME RestoreInit PROVE RestoreInv
  OBVIOUS
<1>1. RestoreTypeOK
  BY IptablesAssumption DEF RestoreInit, RestoreTypeOK
<1>2. CallsAreFresh /\ OthersAreQuiet /\ Waiting /\ FamiliesInOrder /\ DoneIsApplied
  BY IptablesAssumption
  DEF RestoreInit, CallsAreFresh, OthersAreQuiet, Waiting, FamiliesInOrder, DoneIsApplied
<1> QED
  BY <1>1, <1>2 DEF RestoreInv

(* execute is called for a command that was not called before. *)
LEMMA ExecuteKeeps ==
    ASSUME RestoreInv, NEW n \in Commands, NEW t \in DOMAIN Targets, execute(n, t)
    PROVE  RestoreInv'
<1> USE IptablesAssumption DEF RestoreInv, execute, childVars
<1>1. RestoreTypeOK'
  BY DEF RestoreTypeOK
<1>2. CallsAreFresh'
  BY DEF RestoreTypeOK, CallsAreFresh
<1>3. OthersAreQuiet' /\ Waiting'
  BY DEF OthersAreQuiet, Waiting
<1>4. FamiliesInOrder' /\ DoneIsApplied'
  BY DEF RestoreTypeOK, CallsAreFresh, FamiliesInOrder, DoneIsApplied, IPTABLES_PROCESS, IP6TABLES_PROCESS
<1> QED
  BY <1>1, <1>2, <1>3, <1>4

(* The ifs of execute skip a family only if it is not in the target. *)
LEMMA ChooseFamilyKeeps == RestoreInv /\ chooseFamily => RestoreInv'
<1> SUFFICES ASSUME RestoreInv, chooseFamily PROVE RestoreInv'
  OBVIOUS
<1> USE IptablesAssumption DEF RestoreInv, chooseFamily, callVars, childVars, IPTABLES_PROCESS, IP6TABLES_PROCESS
<1>1. RestoreTypeOK'
  BY DEF RestoreTypeOK
<1>2. CallsAreFresh'
  BY DEF RestoreTypeOK, CallsAreFresh
<1>3. OthersAreQuiet' /\ Waiting'
  BY DEF OthersAreQuiet, Waiting
<1>4. FamiliesInOrder'
  BY DEF RestoreTypeOK, FamiliesInOrder
<1>5. DoneIsApplied'
  BY DEF RestoreTypeOK, DoneIsApplied
<1> QED
  BY <1>1, <1>2, <1>3, <1>4, <1>5

(* execute returns, and its command is not called again. *)
LEMMA ReturnKeeps == RestoreInv /\ return => RestoreInv'
<1> SUFFICES ASSUME RestoreInv, return PROVE RestoreInv'
  OBVIOUS
<1> USE IptablesAssumption DEF RestoreInv, return, childVars
<1>1. RestoreTypeOK'
  BY Zenon DEF RestoreTypeOK
<1>2. CallsAreFresh'
  BY DEF RestoreTypeOK, CallsAreFresh
<1>3. OthersAreQuiet' /\ Waiting' /\ FamiliesInOrder' /\ DoneIsApplied'
  BY DEF OthersAreQuiet, Waiting, FamiliesInOrder, DoneIsApplied
<1> QED
  BY <1>1, <1>2, <1>3

(***************************************************************************)
(* sendCommand ends for a family, with success only if the command was     *)
(* applied, and leaves a child that has nothing to read: execute goes on   *)
(* with IPv6, which has not seen the command, or returns.                  *)
(***************************************************************************)
LEMMA CommandEndsKeeps ==
    ASSUME RestoreInv, NEW r \in {0, -1}, CommandEnds(r),
           pc \in {"check", "write", "drain"},
           r = 0 => applied[family][current] = 1,
           UNCHANGED <<applied, callVars>>,
           timeout' \in Nat,
           running' \in [Families -> BOOLEAN],
           stdin' \in [Families -> Seq(Nat)], stdout' \in [Families -> Nat],
           \A f \in Families : stdin'[f] = <<>> /\ stdout'[f] = 0
    PROVE  RestoreInv'
<1> USE IptablesAssumption DEF RestoreInv, CommandEnds, callVars, IPTABLES_PROCESS, IP6TABLES_PROCESS
<1>1. RestoreTypeOK'
  BY DEF RestoreTypeOK
<1>2. CallsAreFresh'
  BY DEF RestoreTypeOK, CallsAreFresh
<1>3. OthersAreQuiet' /\ Waiting'
  BY DEF OthersAreQuiet, Waiting
<1>4. FamiliesInOrder'
  BY DEF RestoreTypeOK, FamiliesInOrder
<1>5. DoneIsApplied'
  <2>1. CASE family = "V4"
    BY <2>1 DEF RestoreTypeOK, DoneIsApplied
  <2>2. CASE family = "V6"
    BY <2>2 DEF RestoreTypeOK, DoneIsApplied
  <2> QED
    BY <2>1, <2>2 DEF RestoreTypeOK
<1> QED
  BY <1>1, <1>2, <1>3, <1>4, <1>5

(* A child is there, is forked, or cannot be forked (sendCommand). *)
LEMMA ForksKeeps == RestoreInv /\ sendCommandForks => RestoreInv'
<1> SUFFICES ASSUME RestoreInv, sendCommandForks PROVE RestoreInv'
  OBVIOUS
<1>1. CASE CommandEnds(-1) /\ UNCHANGED childVars
  <2>1. \A f \in Families : stdin'[f] = <<>> /\ stdout'[f] = 0
    BY <1>1 DEF RestoreInv, sendCommandForks, OthersAreQuiet, childVars
  <2> QED
    BY <1>1, <2>1, CommandEndsKeeps DEF RestoreInv, RestoreTypeOK, sendCommandForks, childVars
<1>2. CASE pc' = "write"
  <2> USE <1>2, IptablesAssumption DEF RestoreInv, sendCommandForks, callVars, childVars, IPTABLES_PROCESS, IP6TABLES_PROCESS
  <2>1. family' = family /\ res' = res
    BY DEF CommandEnds
  <2>2. stdin' = stdin /\ stdout' = stdout /\ running' \in [Families -> BOOLEAN]
    <3>1. stdin[family] = <<>> /\ stdout[family] = 0
      BY DEF RestoreTypeOK, OthersAreQuiet
    <3>2. /\ [stdin EXCEPT ![family] = <<>>] = stdin
          /\ [stdout EXCEPT ![family] = 0] = stdout
      BY <3>1 DEF RestoreTypeOK
    <3> QED
      BY <3>2, Zenon DEF RestoreTypeOK, CommandEnds
  <2>3. RestoreTypeOK'
    BY <2>1, <2>2 DEF RestoreTypeOK
  <2>4. CallsAreFresh' /\ OthersAreQuiet' /\ Waiting'
    BY <2>1, <2>2 DEF RestoreTypeOK, CallsAreFresh, OthersAreQuiet, Waiting
  <2>5. FamiliesInOrder' /\ DoneIsApplied'
    BY <2>1, <2>2 DEF RestoreTypeOK, FamiliesInOrder, DoneIsApplied
  <2> QED
    BY <2>3, <2>4, <2>5
<1> QED
  BY <1>1, <1>2 DEF sendCommandForks

(* The command is written to a child that has nothing to read, or the child has died. *)
LEMMA WritesKeeps == RestoreInv /\ sendCommandWrites => RestoreInv'
<1> SUFFICES ASSUME RestoreInv, sendCommandWrites PROVE RestoreInv'
  OBVIOUS
<1>1. CASE ~running[family]
  <2>1. \A f \in Families : stdin'[f] = <<>> /\ stdout'[f] = 0
    BY <1>1 DEF RestoreInv, sendCommandWrites, OthersAreQuiet
  <2> QED
    BY <1>1, <2>1, CommandEndsKeeps DEF RestoreInv, RestoreTypeOK, sendCommandWrites
<1>2. CASE running[family]
  <2> USE <1>2, IptablesAssumption DEF RestoreInv, sendCommandWrites, callVars, IPTABLES_PROCESS, IP6TABLES_PROCESS
  <2>1. current \in Nat /\ stdin[family] = <<>>
    BY DEF RestoreTypeOK, OthersAreQuiet
  <2>2. stdin' = [stdin EXCEPT ![family] = <<current, PING>>]
    BY <2>1, ReadingInOrder
  <2>3. RestoreTypeOK'
    BY <2>1, <2>2, ReadingInOrder DEF RestoreTypeOK
  <2>4. CallsAreFresh' /\ OthersAreQuiet'
    BY <2>2 DEF RestoreTypeOK, CallsAreFresh, OthersAreQuiet
  <2>5. Waiting'
    BY <2>2 DEF RestoreTypeOK, OthersAreQuiet, FamiliesInOrder, Waiting, ChildIsAt
  <2>6. FamiliesInOrder' /\ DoneIsApplied'
    BY <2>2 DEF RestoreTypeOK, FamiliesInOrder, DoneIsApplied
  <2> QED
    BY <2>3, <2>4, <2>5, <2>6
<1> QED
  BY <1>1, <1>2

(* A poll without an acknowledgement changes nothing but the count. *)
LEMMA PollAgainKeeps == RestoreInv /\ pollAgain => RestoreInv'
BY DEF RestoreInv, pollAgain, callVars, childVars, RestoreTypeOK, CallsAreFresh, OthersAreQuiet,
       Waiting, ChildIsAt, FamiliesInOrder, DoneIsApplied

(* A ping is only ever read after the command before it was applied. *)
LEMMA AckKeeps == RestoreInv /\ receivedAck => RestoreInv'
<1> SUFFICES ASSUME RestoreInv, receivedAck PROVE RestoreInv'
  OBVIOUS
<1> USE DEF RestoreInv, receivedAck
<1>1. stdin[family] = <<>> /\ applied[family][current] = 1
  BY DEF RestoreTypeOK, Waiting, ChildIsAt
<1>2. \A f \in Families : stdin'[f] = <<>> /\ stdout'[f] = 0
  BY <1>1 DEF RestoreTypeOK, OthersAreQuiet
<1> QED
  BY <1>1, <1>2, CommandEndsKeeps DEF RestoreTypeOK

(* A child that did not answer is killed, with whatever it had left to read. *)
LEMMA TimedOutKeeps == RestoreInv /\ timedOut => RestoreInv'
<1> SUFFICES ASSUME RestoreInv, timedOut PROVE RestoreInv'
  OBVIOUS
<1> USE DEF RestoreInv, timedOut, Stop
<1>1. \A f \in Families : stdin'[f] = <<>> /\ stdout'[f] = 0
  BY DEF RestoreTypeOK, OthersAreQuiet
<1>2. /\ running' \in [Families -> BOOLEAN]
      /\ stdin' \in [Families -> Seq(Nat)] /\ stdout' \in [Families -> Nat]
  BY DEF RestoreTypeOK
<1> QED
  BY <1>1, <1>2, CommandEndsKeeps DEF RestoreTypeOK

(* What a child reads is the command of the call in progress, once, or its ping. *)
LEMMA ReadIsOfThisCall ==
    ASSUME RestoreInv, NEW f \in Families, ChildReads(f)
    PROVE  /\ pc = "drain" /\ f = family /\ current \in Commands /\ f \in Targets[target]
           /\ \/ stdin[f] = <<PING>> /\ applied[f][current] = 1 /\ stdout[f] = 0
              \/ stdin[f] = <<current, PING>> /\ applied[f][current] = 0 /\ stdout[f] = 0
<1> USE IptablesAssumption DEF RestoreInv, ChildReads
<1>1. pc = "drain" /\ f = family
  BY DEF OthersAreQuiet
<1>2. current \in Commands /\ f \in Targets[target]
  BY <1>1 DEF RestoreTypeOK, CallsAreFresh, FamiliesInOrder
<1> QED
  BY <1>1, <1>2 DEF Waiting, ChildIsAt

(* A child applies the command of the call in progress, or answers its ping. *)
LEMMA ChildReadsKeeps ==
    ASSUME RestoreInv, NEW f \in Families, ChildReads(f)
    PROVE  RestoreInv'
<1>0. pc = "drain" /\ f = family /\ current \in Commands /\ current \in Nat /\ current # PING
  BY ReadIsOfThisCall, IptablesAssumption DEF PING
<1> USE <1>0, IptablesAssumption DEF RestoreInv
<1>1. CASE stdin[f] = <<PING>> /\ applied[f][current] = 1 /\ stdout[f] = 0
  <2>1. stdin' = [stdin EXCEPT ![f] = <<>>] /\ stdout' = [stdout EXCEPT ![f] = 1]
    BY <1>1, ReadingInOrder DEF ChildReads, RestoreTypeOK
  <2>2. UNCHANGED <<applied, callVars, pc, family, timeout, res, running>>
    BY <1>1, ReadingInOrder DEF ChildReads
  <2>3. stdin' \in [Families -> Seq(Nat)] /\ stdout' \in [Families -> Nat]
    BY <2>1, ReadingInOrder DEF RestoreTypeOK
  <2>4. RestoreTypeOK'
    BY <2>2, <2>3 DEF RestoreTypeOK, callVars
  <2>5. CallsAreFresh' /\ FamiliesInOrder' /\ DoneIsApplied'
    BY <2>2 DEF CallsAreFresh, FamiliesInOrder, DoneIsApplied, callVars
  <2>6. OthersAreQuiet' /\ Waiting'
    BY <1>1, <2>1, <2>2 DEF RestoreTypeOK, OthersAreQuiet, Waiting, ChildIsAt, callVars
  <2> QED
    BY <2>4, <2>5, <2>6
<1>2. CASE stdin[f] = <<current, PING>> /\ applied[f][current] = 0 /\ stdout[f] = 0
  <2>1. stdin' = [stdin EXCEPT ![f] = <<PING>>] /\ applied' = [applied EXCEPT ![f][current] = 1]
    BY <1>2, ReadingInOrder DEF ChildReads, RestoreTypeOK
  <2>2. UNCHANGED <<stdout, callVars, pc, family, timeout, res, running>>
    BY <1>2, ReadingInOrder DEF ChildReads
  <2>3. stdin' \in [Families -> Seq(Nat)]
    BY <2>1, ReadingInOrder DEF RestoreTypeOK
  <2>4. /\ applied' \in [Families -> [Commands -> Nat]]
        /\ \A g \in Families, n \in Commands :
              applied'[g][n] = IF g = f /\ n = current THEN 1 ELSE applied[g][n]
    BY <2>1 DEF RestoreTypeOK
  <2>5. RestoreTypeOK'
    BY <2>2, <2>3, <2>4 DEF RestoreTypeOK, callVars
  <2>6. CallsAreFresh'
    BY <2>2, <2>4 DEF RestoreTypeOK, CallsAreFresh, callVars
  <2>7. OthersAreQuiet' /\ Waiting'
    BY <1>2, <2>1, <2>2, <2>4 DEF RestoreTypeOK, OthersAreQuiet, Waiting, ChildIsAt, callVars
  <2>8. FamiliesInOrder'
    BY <2>2, <2>4, Zenon DEF RestoreTypeOK, FamiliesInOrder, callVars, IPTABLES_PROCESS, IP6TABLES_PROCESS
  <2>9. DoneIsApplied'
    BY <2>2, <2>4 DEF RestoreTypeOK, DoneIsApplied, callVars, IPTABLES_PROCESS, IP6TABLES_PROCESS
  <2> QED
    BY <2>5, <2>6, <2>7, <2>8, <2>9
<1> QED
  BY <1>1, <1>2, ReadIsOfThisCall

(* A child that dies takes its unread input with it; its output can still be read. *)
LEMMA ChildDiesKeeps ==
    ASSUME RestoreInv, NEW f \in Families, ChildDies(f)
    PROVE  RestoreInv'
<1> USE DEF RestoreInv, ChildDies, callVars
<1>1. RestoreTypeOK'
  BY DEF RestoreTypeOK
<1>2. CallsAreFresh' /\ OthersAreQuiet'
  BY DEF RestoreTypeOK, CallsAreFresh, OthersAreQuiet
<1>3. Waiting'
  BY DEF RestoreTypeOK, Waiting, ChildIsAt
<1>4. FamiliesInOrder' /\ DoneIsApplied'
  BY DEF FamiliesInOrder, DoneIsApplied
<1> QED
  BY <1>1, <1>2, <1>3, <1>4

(* Nothing changes while nothing happens. *)
LEMMA RestoreStutterKeeps == RestoreInv /\ UNCHANGED restoreVars => RestoreInv'
BY DEF RestoreInv, restoreVars, callVars, childVars, RestoreTypeOK, CallsAreFresh, OthersAreQuiet,
       Waiting, ChildIsAt, FamiliesInOrder, DoneIsApplied

(* Every step of execute and of the children keeps the invariant. *)
LEMMA RestoreNextKeeps == RestoreInv /\ [RestoreNext]_restoreVars => RestoreInv'
<1> SUFFICES ASSUME RestoreInv, [RestoreNext]_restoreVars PROVE RestoreInv'
  OBVIOUS
<1>1. CASE \E n \in Commands, t \in DOMAIN Targets : execute(n, t)
  BY <1>1, ExecuteKeeps
<1>2. CASE ControllerStep
  BY <1>2, ChooseFamilyKeeps, ReturnKeeps, ForksKeeps, WritesKeeps, PollAgainKeeps, AckKeeps, TimedOutKeeps
  DEF ControllerStep
<1>3. CASE \E f \in Families : ChildReads(f) \/ ChildDies(f)
  BY <1>3, ChildReadsKeeps, ChildDiesKeeps
<1>4. CASE UNCHANGED restoreVars
  BY <1>4, RestoreStutterKeeps
<1> QED
  BY <1>1, <1>2, <1>3, <1>4 DEF RestoreNext

(***************************************************************************)
(* At every moment of execute, whatever the children do, only the child it *)
(* waits for has anything to read, and that is the command of this call    *)
(* (drainAndWaitForAck kills a child that did not answer).                 *)
(***************************************************************************)
THEOREM RestoreInvariance == RestoreSpec => []RestoreInv
BY InitRestore, RestoreNextKeeps, PTL DEF RestoreSpec
-----------------------------------------------------------------------------
(* A child that reads on applies the command of the call in progress, or changes no table. *)
LEMMA ReadingSimulated ==
    ASSUME RestoreInv, NEW f \in Families, ChildReads(f)
    PROVE  Executor!Apply(f) \/ UNCHANGED Executor!executorVars
<1> USE IptablesAssumption, ReadIsOfThisCall DEF RestoreInv, ChildReads, callVars
<1>1. CASE stdin[f] = <<PING>>
  BY <1>1, ReadingInOrder DEF Executor!executorVars
<1>2. CASE stdin[f] = <<current, PING>> /\ applied[f][current] = 0
  <2>1. current \in Nat /\ current # PING /\ current # 0
    BY Zenon DEF PING
  <2>2. applied' = [applied EXCEPT ![f][current] = 1]
    BY <1>2, <2>1, ReadingInOrder DEF RestoreTypeOK
  <2> QED
    BY <1>2, <2>1, <2>2, Zenon DEF Executor!Apply
<1> QED
  BY <1>1, <1>2, Zenon

(* execute returns 0 only if every family of its target has the command. *)
LEMMA ReturnSimulated == RestoreInv /\ return => Executor!Return(res)
BY DEF RestoreInv, return, CallsAreFresh, DoneIsApplied, Executor!Return

(* Every step is a step of the promise, or none that a caller can see. *)
LEMMA StepSimulated == RestoreInv /\ [RestoreNext]_restoreVars => [Executor!ExecutorNext]_(Executor!executorVars)
<1> SUFFICES ASSUME RestoreInv, [RestoreNext]_restoreVars
             PROVE  [Executor!ExecutorNext]_(Executor!executorVars)
  OBVIOUS
<1>1. CASE \E n \in Commands, t \in DOMAIN Targets : execute(n, t)
  <2>1. PICK n \in Commands, t \in DOMAIN Targets : execute(n, t)
    BY <1>1
  <2>2. Executor!Call(n, t)
    BY <2>1 DEF RestoreInv, CallsAreFresh, execute, Executor!Call
  <2> QED
    BY <2>2 DEF Executor!ExecutorNext
<1>2. CASE return
  BY <1>2, ReturnSimulated DEF RestoreInv, RestoreTypeOK, Executor!ExecutorNext
<1>3. CASE chooseFamily \/ sendCommandForks \/ sendCommandWrites \/ pollAgain \/ receivedAck \/ timedOut
  BY <1>3 DEF chooseFamily, sendCommandForks, sendCommandWrites, pollAgain, receivedAck, timedOut,
              callVars, Executor!executorVars
<1>4. CASE \E f \in Families : ChildReads(f)
  BY <1>4, ReadingSimulated DEF Executor!ExecutorNext
<1>5. CASE \E f \in Families : ChildDies(f)
  BY <1>5 DEF ChildDies, callVars, Executor!executorVars
<1>6. CASE UNCHANGED restoreVars
  BY <1>6 DEF restoreVars, callVars, Executor!executorVars
<1> QED
  BY <1>1, <1>2, <1>3, <1>4, <1>5, <1>6 DEF RestoreNext, ControllerStep

(***************************************************************************)
(* execute keeps its promise to the controllers, with children that hang   *)
(* or die at any point, any number of commands and any MAX_RETRIES:        *)
(* IptablesRestoreController implements IptablesExecutor.                  *)
(***************************************************************************)
THEOREM ExecuteKeepsPromise == RestoreSpec => KeepsPromise
<1>1. RestoreInit => Executor!ExecutorInit
  BY DEF RestoreInit, Executor!ExecutorInit
<1>2. RestoreInv /\ [RestoreNext]_restoreVars => [Executor!ExecutorNext]_(Executor!executorVars)
  BY StepSimulated
<1> QED
  BY <1>1, <1>2, RestoreInvariance, PTL DEF RestoreSpec, KeepsPromise, Executor!ExecutorSpec
============================================================================
