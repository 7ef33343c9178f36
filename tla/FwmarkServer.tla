----------------------------- MODULE FwmarkServer -----------------------------
(***************************************************************************)
(* class FwmarkServer (server/FwmarkServer.cpp): the thread that marks the *)
(* sockets of applications for them.                                       *)
(*                                                                         *)
(* The thread serves one connection at a time.  Each question it asks      *)
(* NetworkController takes mRWLock for that question alone, so the         *)
(* controller may change between two of them: a step here is one question  *)
(* together with the work up to the next one.  The event reported by       *)
(* ON_CONNECT_COMPLETE and the tags of TAG_SOCKET are not modelled.        *)
(***************************************************************************)
EXTENDS NetworkController

CONSTANTS
    Clients,               \* threads of applications
    UidOf,                 \* thread -> UID of its process
    mRedirectSocketCalls   \* the property ro.vendor.redirect_socket_calls

VARIABLES
    sockets,   \* open inet socket -> its SO_MARK
    channel,   \* thread -> what travels on its connection to the server
    server     \* the call of processClient at hand

serverVars == <<sockets, channel, server>>

Fwmark == [netId : AllNetIds \cup {NETID_UNSET}, explicitlySelected : BOOLEAN,
           protectedFromVpn : BOOLEAN, permission : Permissions]
NoMark == [netId |-> NETID_UNSET, explicitlySelected |-> FALSE, protectedFromVpn |-> FALSE,
           permission |-> PERMISSION_NONE]

(* A FwmarkCommand, with or without a FwmarkConnectInfo after it. *)
Command(cmdId, fd, netId, uid, info) ==
    [kind |-> "command", cmdId |-> cmdId, fd |-> fd, netId |-> netId, uid |-> uid, info |-> info]
Reply(error) == [kind |-> "reply", error |-> error]
Silence == [kind |-> "none"]

(* steady: the controller has not changed since the call began. *)
Idle == [pc |-> "idle", client |-> "none", permission |-> PERMISSION_NONE, mark |-> NoMark, steady |-> TRUE]

command == channel[server.client]
clientUid == UidOf[server.client]

hasDestinationAddress(cmdId) ==
    \/ cmdId = "ON_CONNECT_COMPLETE"
    \/ mRedirectSocketCalls /\ cmdId \in {"ON_SENDTO", "ON_CONNECT", "ON_SENDMSG", "ON_SENDMMSG"}

(* onDataAvailable answers whatever processClient returns, and hangs up. *)
Return(error) ==
    /\ channel' = [channel EXCEPT ![server.client] = Reply(error)]
    /\ server' = Idle

Continue(pc, permission, mark) ==
    /\ server' = [server EXCEPT !.pc = pc, !.permission = permission, !.mark = mark]
    /\ UNCHANGED channel

Bits(p, q) == IF p > q THEN p ELSE q

(* The connection is accepted and the message is read. *)
onDataAvailable(c) ==
    /\ server.pc = "idle" /\ channel[c].kind = "command"
    /\ server' = [Idle EXCEPT !.pc = "permission", !.client = c]
    /\ UNCHANGED <<sockets, channel>>

(* getPermissionForUser, then getsockopt(SO_MARK) and the commands that ask nothing more. *)
readPermission ==
    /\ server.pc = "permission"
    /\ LET permission == getPermissionForUser(clientUid)
           mark == IF command.fd \in DOMAIN sockets THEN sockets[command.fd] ELSE NoMark
           Is(cmdIds) == command.cmdId \in cmdIds
           IfSystem(pc, next) ==
               IF permission # PERMISSION_SYSTEM THEN Return("EPERM") ELSE Continue(pc, permission, next)
       IN  IF command.info # hasDestinationAddress(command.cmdId) THEN Return("EBADMSG")
           ELSE \/ Is({"QUERY_USER_ACCESS"}) /\ IfSystem("query", NoMark)
                \/ Is({"ON_ACCEPT"}) /\ Continue("setMark", Bits(permission, mark.permission), mark)
                \/ Is({"ON_CONNECT"}) /\ Continue("connect", permission, mark)
                \/ Is({"ON_CONNECT_COMPLETE"}) /\ Continue("setMark", permission, mark)
                \/ Is({"SELECT_NETWORK"}) /\
                      IF command.netId = NETID_UNSET THEN Continue("setMark", PERMISSION_NONE, NoMark)
                      ELSE Continue("select", permission, [mark EXCEPT !.netId = command.netId])
                \/ Is({"PROTECT_FROM_VPN"}) /\ Continue("protect", permission, mark)
                \/ Is({"SELECT_FOR_USER"}) /\ IfSystem("forUser", mark)
                \/ Is({"ON_SENDMMSG", "ON_SENDMSG", "ON_SENDTO", "TAG_SOCKET", "UNTAG_SOCKET"}) /\ Return("OK")
    /\ UNCHANGED sockets

(* checkUserNetworkAccess for the UID and network of the command. *)
queryAccess ==
    /\ server.pc = "query"
    /\ Return(checkUserNetworkAccess(command.uid, command.netId))
    /\ UNCHANGED sockets

(* getNetworkForConnect, or isVirtualNetwork with getDefaultNetwork to follow. *)
onConnect ==
    /\ server.pc = "connect"
    /\ LET mark == server.mark
       IN  IF mark.explicitlySelected THEN Continue("setMark", server.permission, mark)
           ELSE IF ~mark.protectedFromVpn
           THEN Continue("setMark", server.permission,
                         [mark EXCEPT !.netId = getNetworkForConnect(clientUid)])
           ELSE Continue(IF isVirtualNetwork(mark.netId) THEN "setMark" ELSE "default",
                         server.permission, mark)
    /\ UNCHANGED sockets

readDefault ==
    /\ server.pc = "default"
    /\ Continue("setMark", server.permission, [server.mark EXCEPT !.netId = mDefaultNetId])
    /\ UNCHANGED sockets

selectNetwork ==
    /\ server.pc = "select"
    /\ LET access == checkUserNetworkAccess(clientUid, command.netId)
       IN  IF access # "OK" THEN Return(access)
           ELSE Continue("canProtect", server.permission,
                         [server.mark EXCEPT !.explicitlySelected = TRUE])
    /\ UNCHANGED sockets

readCanProtect ==
    /\ server.pc = "canProtect"
    /\ Continue("setMark", server.permission,
                [server.mark EXCEPT !.protectedFromVpn = canProtect(clientUid)])
    /\ UNCHANGED sockets

protectFromVpnCommand ==
    /\ server.pc = "protect"
    /\ IF ~canProtect(clientUid) THEN Return("EPERM")
       ELSE Continue("leaveVpn", Bits(server.permission, server.mark.permission),
                     [server.mark EXCEPT !.protectedFromVpn = TRUE])
    /\ UNCHANGED sockets

(* leaveVpn that keeps an implicit mark of a VPN. *)
stayOnVpn ==
    /\ server.pc = "leaveVpn"
    /\ Continue("setMark", server.permission, server.mark)
    /\ UNCHANGED sockets

(* An implicit mark of a VPN is replaced by the default network. *)
leaveVpn ==
    /\ server.pc = "leaveVpn"
    /\ Continue(IF ~server.mark.explicitlySelected /\ isVirtualNetwork(server.mark.netId)
                THEN "default" ELSE "setMark", server.permission, server.mark)
    /\ UNCHANGED sockets

selectForUser ==
    /\ server.pc = "forUser"
    /\ Continue("setMark", server.permission,
                [server.mark EXCEPT !.netId = getNetworkForUser(command.uid),
                                    !.protectedFromVpn = TRUE])
    /\ UNCHANGED sockets

(* setMark with the permission the mark had. *)
setNetIdOnly ==
    /\ server.pc = "setMark"
    /\ sockets' = IF command.fd \in DOMAIN sockets
                  THEN [sockets EXCEPT ![command.fd] = server.mark] ELSE sockets
    /\ Return("OK")

(* setsockopt(SO_MARK); the server holds a descriptor of its own, the client may have closed its. *)
setMark ==
    /\ server.pc = "setMark"
    /\ sockets' = IF command.fd \in DOMAIN sockets
                  THEN [sockets EXCEPT ![command.fd] =
                           [server.mark EXCEPT !.permission = server.permission]]
                  ELSE sockets
    /\ Return("OK")

ServerStep ==
    \/ readPermission \/ queryAccess \/ onConnect \/ readDefault \/ selectNetwork
    \/ readCanProtect \/ protectFromVpnCommand \/ leaveVpn \/ selectForUser \/ setMark

ServerNext == ServerStep \/ \E c \in Clients : onDataAvailable(c)
===============================================================================
