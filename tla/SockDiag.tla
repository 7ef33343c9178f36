------------------------------- MODULE SockDiag -------------------------------
(***************************************************************************)
(* class SockDiag (server/SockDiag.cpp): closing the TCP sockets of an     *)
(* address, of users, or on a network whose permission changes.            *)
(*                                                                         *)
(* The kernel dumps the sockets that a bytecode program accepts; the call  *)
(* then asks it to close, one by one, those that its filter accepts, while *)
(* applications open and close sockets.  The dump of a family is one step. *)
(* Each call has sockets of its own, so calls of two threads interleave.   *)
(***************************************************************************)
EXTENDS Integers, Sequences, FiniteSets, SequencesExt

CONSTANTS
    Conns,          \* sockets, by cookie: family, addr, ifindex, uid, mark, loopback, adb, state
    DiagThreads,    \* threads that make calls
    FailingThreads  \* those whose requests may fail

VARIABLES
    conns,          \* cookie -> "new", "open" or "closed"
    diag            \* thread -> its call

AF_INET == "AF_INET"
AF_INET6 == "AF_INET6"
LiveStates == {"ESTABLISHED", "SYN_SENT", "SYN_RECV"}
Open == {c \in DOMAIN Conns : conns[c] = "open"}

NoCall == [op |-> "none", families |-> <<>>, dump |-> {}, before |-> {}, ok |-> TRUE]
-----------------------------------------------------------------------------
(* Bytecode: an instruction has its offset, the sockets its condition holds for (none for a JMP), and the jumps. *)

(* The kernel accepts a socket if the program ends exactly at its length. *)
Accepts(program, length, c) ==
    LET run[at \in 0 .. length] ==
            IF at = length THEN TRUE
            ELSE LET op == CHOOSE op \in program : op.at = at
                     next == at + IF c \in op.cond THEN op.yes ELSE op.no
                 IN  next <= length /\ run[next]
    IN  run[0]

(* sizeof(inet_diag_bc_op), sizeof(inet_diag_hostcond) and sizeof(markmatch) *)
jmplen == 4
hostcondlen == 8
matchlen == 12
rejectoffset == jmplen

(* sendDumpRequest(proto, family, addrstr): IPv4 addresses are mapped for the IPv6 dump. *)
HostProgram(addr, family) ==
    LET addrlen == IF family = AF_INET THEN 4 ELSE 16
        yesjump == jmplen + hostcondlen + addrlen
    IN  {[at |-> 0, cond |-> {c \in DOMAIN Conns : Conns[c].addr = addr}, yes |-> yesjump, no |-> yesjump + 4]}

(* LackingPermissionProgram whose first jump misses ends the program instead of rejecting. *)
acceptOtherNetworks(netId, permission) ==
    {[at |-> 0, cond |-> {c \in DOMAIN Conns : Conns[c].mark.netId = netId},
      yes |-> matchlen, no |-> 2 * matchlen + jmplen],
     [at |-> matchlen,
      cond |-> {c \in DOMAIN Conns : Conns[c].mark.explicit /\ permission \subseteq Conns[c].mark.permission},
      yes |-> matchlen, no |-> matchlen + jmplen],
     [at |-> 2 * matchlen, cond |-> {}, yes |-> jmplen, no |-> jmplen + rejectoffset]}

(* The program of destroySocketsLackingPermission; a permission is the set of its bits. *)
LackingPermissionProgram(netId, permission) ==
    {[at |-> 0, cond |-> {c \in DOMAIN Conns : Conns[c].mark.netId = netId},
      yes |-> matchlen, no |-> 2 * matchlen + jmplen + rejectoffset],
     [at |-> matchlen,
      cond |-> {c \in DOMAIN Conns : Conns[c].mark.explicit /\ permission \subseteq Conns[c].mark.permission},
      yes |-> matchlen, no |-> matchlen + jmplen],
     [at |-> 2 * matchlen, cond |-> {}, yes |-> jmplen, no |-> jmplen + rejectoffset]}

(* What the kernel dumps for a call: its states, and its program if it has one. *)
Dumped(call, family) ==
    {c \in Open : /\ Conns[c].family = family
                  /\ CASE call.op = "address" ->
                             /\ Conns[c].state # "TIME_WAIT"
                             /\ Accepts(HostProgram(call.addr, family), jmplen + hostcondlen
                                            + (IF family = AF_INET THEN 4 ELSE 16), c)
                       [] call.op = "permission" ->
                             /\ Conns[c].state \in LiveStates
                             /\ Accepts(LackingPermissionProgram(call.netId, call.permission),
                                        2 * matchlen + jmplen, c)
                       [] call.op = "uids" -> Conns[c].state \in LiveStates}

(* The filters of the calls. *)
shouldDestroy(call, c) ==
    CASE call.op = "address" -> call.ifindex = 0 \/ Conns[c].ifindex = call.ifindex
      [] call.op = "permission" -> ~Conns[c].loopback
      [] call.op = "uids" -> /\ Conns[c].uid \in call.uids \ call.skipUids
                             /\ ~Conns[c].loopback /\ ~Conns[c].adb
-----------------------------------------------------------------------------
(* Calls *)

Begin(th, call) == diag' = [diag EXCEPT ![th] = call @@ [dump |-> {}, before |-> Open, ok |-> TRUE]]
End(th, ok) == diag' = [diag EXCEPT ![th].families = <<>>, ![th].dump = {}, ![th].ok = ok]

Families(hasColon) == IF hasColon THEN <<AF_INET6>> ELSE <<AF_INET, AF_INET6>>

destroySocketsOfAddress(th, addr, hasColon, ifindex) ==
    Begin(th, [op |-> "address", addr |-> addr, ifindex |-> ifindex, families |-> Families(hasColon)])
destroySocketsOfUids(th, uids, skipUids) ==
    Begin(th, [op |-> "uids", uids |-> uids, skipUids |-> skipUids, families |-> Families(FALSE)])
destroySocketsLackingPermission(th, netId, permission) ==
    Begin(th, [op |-> "permission", netId |-> netId, permission |-> permission, families |-> Families(FALSE)])

InDump(th) == diag[th].dump # {}
Busy(th) == InDump(th) \/ diag[th].families # <<>>

(* sendDumpRequest, and the kernel's answer. *)
sendDumpRequest(th) ==
    /\ ~InDump(th) /\ diag[th].families # <<>>
    /\ \/ diag' = [diag EXCEPT ![th].families = Tail(@), ![th].dump = Dumped(diag[th], Head(diag[th].families))]
       \/ th \in FailingThreads /\ End(th, FALSE)     \* the request failed: the other family is not looked at
    /\ UNCHANGED conns

(* readDiagMsg: one message; sockDestroy names the socket by its cookie, so another one is never hit. *)
readDiagMsg(th) ==
    /\ \E c \in diag[th].dump :
          /\ conns' = [conns EXCEPT ![c] = IF shouldDestroy(diag[th], c) THEN "closed" ELSE @]
          /\ diag' = [diag EXCEPT ![th].dump = @ \ {c}]

(* processNetlinkDump fails: the rest of the dump, and the other family, are left. *)
readFails(th) == th \in FailingThreads /\ InDump(th) /\ End(th, FALSE) /\ UNCHANGED conns

openSocket(c) == conns[c] = "new" /\ conns' = [conns EXCEPT ![c] = "open"]
closeConn(c) == conns[c] = "open" /\ conns' = [conns EXCEPT ![c] = "closed"]

DiagStep(th) == sendDumpRequest(th) \/ readDiagMsg(th) \/ readFails(th)
-----------------------------------------------------------------------------
(* Properties *)

(* The sockets a call is documented to close. *)
Intended(call, c) ==
    /\ CASE call.op = "address" -> Conns[c].addr = call.addr /\ call.ifindex \in {0, Conns[c].ifindex}
         [] call.op = "uids" -> Conns[c].uid \in call.uids \ call.skipUids /\ ~Conns[c].adb
         [] call.op = "permission" -> /\ Conns[c].mark.netId = call.netId
                                      /\ ~Conns[c].mark.explicit \/ ~(call.permission \subseteq Conns[c].mark.permission)
    /\ call.op # "address" => ~Conns[c].loopback /\ Conns[c].state \in LiveStates

(***************************************************************************)
(* A call that succeeds has closed every socket it is documented to close, *)
(* of both families, that was open when it began; and it is about to close *)
(* no other one.  For a change of permission these are the sockets that    *)
(* did not select the network explicitly or lack the permission            *)
(* (SockDiag.cpp:458), which a bytecode program with jumps finds.          *)
(***************************************************************************)
CallsCloseTheirSockets ==
    \A th \in DiagThreads : diag[th].op # "none" =>
        /\ ~Busy(th) /\ diag[th].ok => \A c \in diag[th].before : Intended(diag[th], c) => conns[c] = "closed"
        /\ \A c \in diag[th].dump : shouldDestroy(diag[th], c) => Intended(diag[th], c)
===============================================================================
