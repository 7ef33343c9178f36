------------------------------ MODULE NetdClient ------------------------------
(***************************************************************************)
(* The library that bionic loads into every application                    *)
(* (client/NetdClient.cpp, client/FwmarkClient.cpp), composed with the     *)
(* server that marks its sockets and with changes of NetworkController.    *)
(*                                                                         *)
(* A thread runs one call at a time.  A call sends commands and waits for  *)
(* each reply; where the server cannot be reached, FwmarkClient::send      *)
(* reports success.  The sockets are inet sockets: for the others the      *)
(* library only calls libc.                                                *)
(***************************************************************************)
EXTENDS FwmarkServer

CONSTANTS
    ProcessOf,    \* thread -> its process
    FdsOf,        \* process -> the descriptors it can open
    Workloads,    \* which calls each thread makes: thread -> names of calls
    SelectArgs,   \* netIds passed to setNetworkForSocket
    TargetArgs,   \* netIds passed to setNetworkForProcess and setNetworkForResolv
    UserIdArgs,   \* UIDs passed to setNetworkForUser and queryUserAccess
    ControllerArgs, \* what callers of NetworkController pass while sockets are in use
    MaxChanges,   \* bound on the changes of the controller
    MaxRefusals   \* bound on the connections to the server that fail

VARIABLES
    targets,    \* process -> [process: netIdForProcess, resolv: netIdForResolv,
                \*             allowed: allowNetworkingForProcess]
    client,     \* thread -> the library call it is in
    workload,   \* the calls of the threads of this behaviour
    changes,    \* changes of the controller so far
    refusals    \* refused connections so far

clientVars == <<targets, client, workload, changes, refusals>>
socketVars == <<vars, serverVars, clientVars>>

Fds == UNION {FdsOf[p] : p \in DOMAIN FdsOf}

ASSUME ClientsAssumption ==
    /\ ProcessOf \in [Clients -> DOMAIN FdsOf] /\ UidOf \in [Clients -> Nat]
    /\ \A p, q \in DOMAIN FdsOf : p # q => FdsOf[p] \cap FdsOf[q] = {}
    /\ Clients \cap Fds = {} /\ "none" \notin Clients
    /\ SelectArgs \cup TargetArgs \subseteq AllNetIds \cup {NETID_UNSET}
    /\ ControllerArgs.destroyed \cup ControllerArgs.users \subseteq AllNetIds
    /\ ControllerArgs.default \subseteq AllNetIds \cup {NETID_UNSET}
    /\ SUB_PRIORITY_HIGHEST \in SubPriorities

ReturnedCall == [pc |-> "idle", fd |-> "none", netId |-> NETID_UNSET, refused |-> FALSE]
Call(pc, fd, netId) == [pc |-> pc, fd |-> fd, netId |-> netId, refused |-> FALSE]

OpenFds(c) == FdsOf[ProcessOf[c]] \cap DOMAIN sockets
UnusedFds(c) == FdsOf[ProcessOf[c]] \ DOMAIN sockets

Idling(c) == client[c].pc = "idle"
Answered(c, pc) == client[c].pc = pc /\ channel[c].kind = "reply"

WithSocket(fd, mark) == [f \in DOMAIN sockets \cup {fd} |-> IF f = fd THEN mark ELSE sockets[f]]
WithoutSocket(fd) == [f \in DOMAIN sockets \ {fd} |-> sockets[f]]

(* FwmarkClient::send, by a thread that then waits in call. *)
send(c, cmd, call) ==
    \/ /\ channel' = [channel EXCEPT ![c] = cmd]
       /\ client' = [client EXCEPT ![c] = call]
       /\ UNCHANGED refusals
    \/ /\ refusals < MaxRefusals
       /\ refusals' = refusals + 1
       /\ channel' = [channel EXCEPT ![c] = Reply("OK")]
       /\ client' = [client EXCEPT ![c] = [call EXCEPT !.refused = TRUE]]

Finish(c) ==
    /\ channel' = [channel EXCEPT ![c] = Silence]
    /\ client' = [client EXCEPT ![c] = ReturnedCall]
    /\ UNCHANGED refusals

(* What a call leaves alone besides channel, client and refusals. *)
Untouched == UNCHANGED <<vars, server, targets, workload, changes>>

SelectCommand(fd, netId) == Command("SELECT_NETWORK", fd, netId, 0, FALSE)

(* socket(): a socket is created, and marked if the process has chosen a network. *)
netdClientSocket(c) ==
    /\ Idling(c) /\ targets[ProcessOf[c]].allowed
    /\ \E fd \in UnusedFds(c) :
          LET netId == targets[ProcessOf[c]].process
          IN  /\ sockets' = WithSocket(fd, NoMark)
              /\ IF netId = NETID_UNSET THEN UNCHANGED <<channel, client, refusals>>
                 ELSE send(c, SelectCommand(fd, netId), Call("socket", fd, netId))
    /\ Untouched

(* socketReturns whatever the server said. *)
socketReturnsAnyway(c) ==
    /\ Answered(c, "socket")
    /\ UNCHANGED sockets
    /\ Finish(c) /\ Untouched

(* socket() returns, having closed the socket if it could not be marked. *)
socketReturns(c) ==
    /\ Answered(c, "socket")
    /\ sockets' = IF channel[c].error = "OK" THEN sockets ELSE WithoutSocket(client[c].fd)
    /\ Finish(c) /\ Untouched

(* accept4(): the kernel gives the socket the mark of the incoming packet, or none. *)
IncomingMarks ==
    {NoMark} \cup {[netId |-> n, explicitlySelected |-> TRUE, protectedFromVpn |-> TRUE,
                    permission |-> mNetworks[n].mPermission] :
                     n \in {m \in DOMAIN mNetworks : isPhysical(mNetworks[m])}}

netdClientAccept4(c) ==
    /\ Idling(c)
    /\ \E fd \in UnusedFds(c), mark \in IncomingMarks :
          /\ sockets' = WithSocket(fd, mark)
          /\ send(c, Command("ON_ACCEPT", fd, 0, 0, FALSE), Call("accept", fd, NETID_UNSET))
    /\ Untouched

acceptReturns(c) ==
    /\ Answered(c, "accept")
    /\ sockets' = IF channel[c].error = "OK" THEN sockets ELSE WithoutSocket(client[c].fd)
    /\ Finish(c) /\ Untouched

(* connect(): the socket is marked, connected, and the attempt is reported. *)
netdClientConnect(c) ==
    /\ Idling(c)
    /\ \E fd \in OpenFds(c) :
          send(c, Command("ON_CONNECT", fd, 0, 0, mRedirectSocketCalls), Call("connect", fd, NETID_UNSET))
    /\ UNCHANGED sockets /\ Untouched

connectContinues(c) ==
    /\ Answered(c, "connect")
    /\ IF channel[c].error = "OK"
       THEN send(c, Command("ON_CONNECT_COMPLETE", client[c].fd, 0, 0, TRUE),
                 Call("ignored", client[c].fd, NETID_UNSET))
       ELSE Finish(c)
    /\ UNCHANGED sockets /\ Untouched

(* sendto(), sendmsg() and sendmmsg(): hooked only where the property is set. *)
netdClientSend(c) ==
    /\ Idling(c) /\ mRedirectSocketCalls
    /\ \E fd \in OpenFds(c), cmdId \in {"ON_SENDTO", "ON_SENDMSG", "ON_SENDMMSG"} :
          send(c, Command(cmdId, fd, 0, 0, TRUE), Call("ignored", fd, NETID_UNSET))
    /\ UNCHANGED sockets /\ Untouched

setNetworkForSocket(c) ==
    /\ Idling(c)
    /\ \E fd \in OpenFds(c), netId \in SelectArgs :
          send(c, SelectCommand(fd, netId), Call("ignored", fd, netId))
    /\ UNCHANGED sockets /\ Untouched

protectFromVpn(c) ==
    /\ Idling(c)
    /\ \E fd \in OpenFds(c) :
          send(c, Command("PROTECT_FROM_VPN", fd, 0, 0, FALSE), Call("ignored", fd, NETID_UNSET))
    /\ UNCHANGED sockets /\ Untouched

setNetworkForUser(c) ==
    /\ Idling(c)
    /\ \E fd \in OpenFds(c), uid \in UserIdArgs :
          send(c, Command("SELECT_FOR_USER", fd, 0, uid, FALSE), Call("ignored", fd, NETID_UNSET))
    /\ UNCHANGED sockets /\ Untouched

queryUserAccess(c) ==
    /\ Idling(c)
    /\ \E uid \in UserIdArgs, netId \in SelectArgs :
          send(c, Command("QUERY_USER_ACCESS", "none", netId, uid, FALSE), Call("ignored", "none", netId))
    /\ UNCHANGED sockets /\ Untouched

tagSocket(c) ==
    /\ Idling(c)
    /\ \E fd \in OpenFds(c), cmdId \in {"TAG_SOCKET", "UNTAG_SOCKET"} :
          send(c, Command(cmdId, fd, 0, 0, FALSE), Call("ignored", fd, NETID_UNSET))
    /\ UNCHANGED sockets /\ Untouched

(* A call whose result goes to the caller, or to nobody, and changes nothing. *)
callReturns(c) ==
    /\ Answered(c, "ignored")
    /\ Finish(c) /\ UNCHANGED sockets /\ Untouched

(***************************************************************************)
(* setNetworkForTarget, for netIdForProcess and netIdForResolv: a socket   *)
(* of the call's own, named after its thread, is marked to see whether the *)
(* network may be used.                                                    *)
(***************************************************************************)
setNetworkForTarget(c, target) ==
    /\ Idling(c)
    /\ \E netId \in TargetArgs :
          IF netId = NETID_UNSET
          THEN /\ targets' = [targets EXCEPT ![ProcessOf[c]][target] = netId]
               /\ UNCHANGED <<channel, client, refusals, sockets>>
          ELSE /\ sockets' = WithSocket(c, NoMark)
               /\ send(c, SelectCommand(c, netId), Call(target, c, netId))
               /\ UNCHANGED targets
    /\ UNCHANGED <<vars, server, workload, changes>>

targetReturns(c, target) ==
    /\ Answered(c, target)
    /\ targets' = IF channel[c].error = "OK"
                  THEN [targets EXCEPT ![ProcessOf[c]][target] = client[c].netId] ELSE targets
    /\ sockets' = WithoutSocket(c)
    /\ Finish(c) /\ UNCHANGED <<vars, server, workload, changes>>

setAllowNetworkingForProcess(c) ==
    /\ Idling(c)
    /\ targets' = [targets EXCEPT ![ProcessOf[c]].allowed = ~@]
    /\ UNCHANGED <<vars, serverVars, client, workload, changes, refusals>>

closeSocket(c) ==
    /\ Idling(c)
    /\ \E fd \in OpenFds(c) : sockets' = WithoutSocket(fd)
    /\ UNCHANGED <<vars, channel, server, clientVars>>

CallBegins(c) ==
    \/ "socket" \in workload[c] /\ netdClientSocket(c)
    \/ "accept" \in workload[c] /\ netdClientAccept4(c)
    \/ "connect" \in workload[c] /\ netdClientConnect(c)
    \/ "send" \in workload[c] /\ netdClientSend(c)
    \/ "select" \in workload[c] /\ setNetworkForSocket(c)
    \/ "protect" \in workload[c] /\ protectFromVpn(c)
    \/ "user" \in workload[c] /\ (setNetworkForUser(c) \/ queryUserAccess(c))
    \/ "tag" \in workload[c] /\ tagSocket(c)
    \/ "allow" \in workload[c] /\ setAllowNetworkingForProcess(c)
    \/ "close" \in workload[c] /\ closeSocket(c)
    \/ \E target \in {"process", "resolv"} \cap workload[c] : setNetworkForTarget(c, target)

CallContinues(c) ==
    \/ socketReturns(c) \/ acceptReturns(c) \/ connectContinues(c) \/ callReturns(c)
    \/ \E target \in {"process", "resolv"} : targetReturns(c, target)

(* A binder call changes the controller. *)
ControllerChanges ==
    /\ changes < MaxChanges
    /\ \/ \E n \in ControllerArgs.destroyed : destroyNetwork(n)
       \/ \E n \in ControllerArgs.default : setDefaultNetwork(n)
       \/ \E n \in ControllerArgs.users, r \in RangeArgs :
             addUsersToNetwork(n, r, SUB_PRIORITY_HIGHEST) \/ removeUsersFromNetwork(n, r, SUB_PRIORITY_HIGHEST)
       \/ \E p \in PermissionArgs, u \in Uids : setPermissionForUsers(p, {u})
       \/ \E u \in Uids : allowProtect({u}) \/ denyProtect({u})
    /\ changes' = changes + 1
    /\ server' = [server EXCEPT !.steady = server.pc = "idle"]
    /\ UNCHANGED <<sockets, channel, targets, client, workload, refusals>>

ClientInit ==
    /\ sockets = [f \in {} |-> NoMark]
    /\ channel = [c \in Clients |-> Silence]
    /\ server = Idle
    /\ targets = [p \in DOMAIN FdsOf |->
                    [process |-> NETID_UNSET, resolv |-> NETID_UNSET, allowed |-> TRUE]]
    /\ client = [c \in Clients |-> ReturnedCall]
    /\ workload \in Workloads
    /\ changes = 0 /\ refusals = 0

ClientNext ==
    \/ \E c \in Clients : CallBegins(c) \/ CallContinues(c)
    \/ ServerNext /\ UNCHANGED <<vars, clientVars>>
    \/ ControllerChanges

-----------------------------------------------------------------------------
(* Properties *)

(***************************************************************************)
(* FwmarkServer.cpp:176-200: connect() never puts the netId of a secure    *)
(* VPN into a socket, and a VPN's own sockets, which have the protect bit, *)
(* never carry a VPN's netId, in whatever order connect, protect, select   *)
(* and accept are called and whatever the controller does meanwhile.  The  *)
(* sockets of a process that picks a network for another user, a proxy,    *)
(* are the exception.                                                      *)
(***************************************************************************)
ImplicitMarksAvoidVpns ==
    \A fd \in DOMAIN sockets :
        (\A c \in Clients : fd \in FdsOf[ProcessOf[c]] => "user" \notin workload[c]) =>
        LET mark == sockets[fd]
        IN  ~mark.explicitlySelected /\ isVirtualNetwork(mark.netId) =>
               ~mNetworks[mark.netId].mSecure /\ ~mark.protectedFromVpn

(* The mark matches a rule of the network it names (RouteController's explicit rules). *)
Usable(mark, uid) ==
    LET network == mNetworks[mark.netId]
    IN  mark.explicitlySelected => appliesToUser(network, uid) \/ mark.permission >= network.mPermission

(***************************************************************************)
(* A network that a process was allowed to select can be used with the     *)
(* mark it got: permission and access are two questions to the controller  *)
(* (FwmarkServer.cpp:126 and :256), and agree unless it changes between.   *)
(***************************************************************************)
SelectedMarksAreUsable ==
    [][\A fd \in DOMAIN sockets \cap DOMAIN sockets' :
          sockets'[fd] # sockets[fd] /\ server.steady /\ command.cmdId = "SELECT_NETWORK" =>
             Usable(sockets'[fd], clientUid)]_socketVars

(***************************************************************************)
(* A socket that socket() returns is on the network its process had chosen *)
(* when socket() read it, unless the server was away: a socket that could  *)
(* not be put there is closed (NetdClient.cpp:198).                        *)
(***************************************************************************)
NewSocketsFollowProcess ==
    [][\A c \in Clients :
          client[c].pc = "socket" /\ client'[c].pc = "idle" /\ ~client[c].refused
             /\ client[c].fd \in DOMAIN sockets' =>
          LET mark == sockets'[client[c].fd]
          IN  mark.explicitlySelected /\ mark.netId = client[c].netId]_socketVars

===============================================================================
