--------------------------- MODULE NetdClientProofs ---------------------------
(***************************************************************************)
(* What the marks of sockets mean, for any number of processes, threads,   *)
(* sockets and networks: NetdClient and FwmarkServer beside a controller   *)
(* that changes between any two questions of the server.                   *)
(***************************************************************************)
EXTENDS NetdClient, NetworkControllerProofs

(* Applications come at a time when netd has run, with whatever networks there are. *)
ClientSpec == (Inv /\ ClientInit) /\ [][ClientNext]_socketVars

NetIdOrUnset == AllNetIds \cup {NETID_UNSET}
ServerPoints == {"idle", "permission", "query", "connect", "default", "select", "canProtect",
                 "protect", "leaveVpn", "forUser", "setMark"}
ClientPoints == {"idle", "socket", "accept", "connect", "ignored", "process", "resolv"}
ServerType == [pc : ServerPoints, client : Clients \cup {"none"}, permission : Permissions,
               mark : Fwmark, steady : BOOLEAN]
CallType == [pc : ClientPoints, fd : Fds \cup Clients \cup {"none"}, netId : NetIdOrUnset, refused : BOOLEAN]
TargetType == [process : NetIdOrUnset, resolv : NetIdOrUnset, allowed : BOOLEAN]

SocketTypeOK ==
    /\ sockets \in [DOMAIN sockets -> Fwmark]
    /\ DOMAIN channel = Clients
    /\ server \in ServerType
    /\ client \in [Clients -> CallType]
    /\ targets \in [DOMAIN FdsOf -> TargetType]

(* Sockets that no proxy may have marked, and what their marks must be like. *)
Covered(fd) == \A c \in Clients : fd \in FdsOf[ProcessOf[c]] => "user" \notin workload[c]
GoodMark(mark) ==
    ~mark.explicitlySelected /\ isVirtualNetwork(mark.netId) =>
        ~mNetworks[mark.netId].mSecure /\ ~mark.protectedFromVpn

(* What a thread has sent, or has been told. *)
ChannelOK(c) ==
    /\ channel[c].kind \in {"none", "reply", "command"}
    /\ client[c].pc = "idle" => channel[c].kind = "none"
    /\ channel[c].kind = "command" =>
          /\ channel[c].netId \in NetIdOrUnset
          /\ channel[c].cmdId = "SELECT_FOR_USER" =>
                channel[c].fd \in FdsOf[ProcessOf[c]] /\ "user" \in workload[c]

(* A network that the UID was allowed to select can be used with the permission. *)
Selectable(uid, netId, permission) ==
    appliesToUser(mNetworks[netId], uid) \/ permission >= mNetworks[netId].mPermission

(* What the server knows at each point of a command. *)
PointOK(cmd, uid, s) ==
    /\ s.pc = "forUser" => cmd.cmdId = "SELECT_FOR_USER"
    /\ s.pc \in {"query", "connect", "default", "protect", "leaveVpn"} => cmd.cmdId # "SELECT_NETWORK"
    /\ s.pc = "default" => ~s.mark.explicitlySelected
    /\ s.pc \in {"connect", "setMark"} /\ Covered(cmd.fd) => GoodMark(s.mark)
    /\ s.pc \in {"select", "canProtect"} => cmd.cmdId = "SELECT_NETWORK" /\ s.mark.netId = cmd.netId
    /\ s.pc = "canProtect" => s.mark.explicitlySelected
    /\ s.pc = "setMark" /\ cmd.cmdId = "SELECT_NETWORK" /\ cmd.netId # NETID_UNSET =>
          s.mark.explicitlySelected /\ s.mark.netId = cmd.netId
    /\ s.pc = "select" /\ s.steady => s.permission = getPermissionForUser(uid)
    /\ s.pc = "canProtect" /\ s.steady => Selectable(uid, s.mark.netId, s.permission)
    /\ s.pc = "setMark" /\ s.steady /\ cmd.cmdId = "SELECT_NETWORK" /\ s.mark.explicitlySelected =>
          Selectable(uid, s.mark.netId, s.permission)

(***************************************************************************)
(* The inductive invariant.  A mark is good when it is written; between    *)
(* the question that makes it so and setsockopt the controller may lose    *)
(* networks, but none of them becomes a VPN.                               *)
(***************************************************************************)
MarkInv ==
    /\ Inv
    /\ SocketTypeOK
    /\ \A fd \in DOMAIN sockets : Covered(fd) => GoodMark(sockets[fd])
    /\ \A c \in Clients : ChannelOK(c)
    /\ server.pc # "idle" =>
          server.client \in Clients /\ command.kind = "command" /\ PointOK(command, clientUid, server)

-----------------------------------------------------------------------------
(* The questions that the server asks *)

(* The network that an application uses by default is not a VPN. *)
LEMMA AppDefaultNetworkIsNotVirtual ==
    ASSUME Inv, NEW uid
    PROVE  ~isVirtualNetwork(appDefaultNetwork(uid))
<1> DEFINE n == getPhysicalOrUnreachableNetworkForUser(uid)
<1>1. n # NETID_UNSET => n \in DOMAIN mNetworks /\ ~isVirtual(mNetworks[n])
  <2> DEFINE candidates ==
               {m \in DOMAIN mNetworks :
                  /\ isPhysical(mNetworks[m]) \/ isUnreachable(mNetworks[m])
                  /\ appliesToUser(mNetworks[m], uid)
                  /\ HighestPriorityFor(mNetworks[m], uid) < SUB_PRIORITY_NO_DEFAULT}
             best == {m \in candidates : \A k \in candidates :
                        HighestPriorityFor(mNetworks[m], uid) <= HighestPriorityFor(mNetworks[k], uid)}
  <2>1. \A m \in best : m \in DOMAIN mNetworks /\ ~isVirtual(mNetworks[m])
    BY Zenon DEF isPhysical, isUnreachable, isVirtual
  <2>2. best \in SUBSET Nat
    BY NetIdsAreNumbers, Zenon DEF Inv, TypeOK
  <2>3. n = LowestOrUnset(best)
    BY Zenon DEF getPhysicalOrUnreachableNetworkForUser
  <2> HIDE DEF best, n
  <2> QED
    BY <2>1, <2>2, <2>3, LowestIsMember, Zenon DEF LowestOrUnset
<1>2. mDefaultNetId # NETID_UNSET => mDefaultNetId \in DOMAIN mNetworks /\ ~isVirtual(mNetworks[mDefaultNetId])
  BY Zenon DEF Inv, DefaultNetworkIsPhysical, isValidNetwork, isPhysical, isVirtual
<1>3. NETID_UNSET \notin DOMAIN mNetworks
  BY NetIdsAreNumbers, Zenon DEF Inv, TypeOK
<1>4. appDefaultNetwork(uid) = IF n # NETID_UNSET THEN n ELSE mDefaultNetId
  BY Zenon DEF appDefaultNetwork
<1> HIDE DEF n
<1> QED
  BY <1>1, <1>2, <1>3, <1>4, Zenon DEF isVirtualNetwork, isValidNetwork

(* getNetworkForConnect answers with a netId, and never with that of a secure VPN. *)
LEMMA NetworkForConnectIsNotSecure ==
    ASSUME Inv, NEW uid
    PROVE  /\ getNetworkForConnect(uid) \in NetIdOrUnset
           /\ isVirtualNetwork(getNetworkForConnect(uid)) => ~mNetworks[getNetworkForConnect(uid)].mSecure
<1>1. getVirtualNetworkForUser(uid) \in DOMAIN mNetworks \cup {NETID_UNSET}
  BY LowestOrUnsetExists, Zenon DEF getVirtualNetworkForUser
<1>2. DOMAIN mNetworks \subseteq AllNetIds
  BY Zenon DEF Inv, TypeOK
<1> QED
  BY <1>1, <1>2, AppDefaultNetworkExists, AppDefaultNetworkIsNotVirtual, Zenon
  DEF getNetworkForConnect, NetIdOrUnset

(* getNetworkForUser and getDefaultNetwork answer with a netId, the latter not with a VPN's. *)
LEMMA NetworkForUserExists ==
    ASSUME Inv, NEW uid
    PROVE  /\ getNetworkForUser(uid) \in NetIdOrUnset
           /\ mDefaultNetId \in NetIdOrUnset /\ ~isVirtualNetwork(mDefaultNetId)
<1>1. getVirtualNetworkForUser(uid) \in DOMAIN mNetworks \cup {NETID_UNSET}
  BY LowestOrUnsetExists, Zenon DEF getVirtualNetworkForUser
<1>2. DOMAIN mNetworks \subseteq AllNetIds /\ NETID_UNSET \notin DOMAIN mNetworks
  BY NetIdsAreNumbers, Zenon DEF Inv, TypeOK
<1>3. getNetworkForUser(uid) \in NetIdOrUnset
  BY <1>1, <1>2, AppDefaultNetworkExists, Zenon DEF getNetworkForUser, NetIdOrUnset
<1>4. mDefaultNetId # NETID_UNSET => mDefaultNetId \in DOMAIN mNetworks /\ ~isVirtual(mNetworks[mDefaultNetId])
  BY Zenon DEF Inv, DefaultNetworkIsPhysical, isValidNetwork, isPhysical, isVirtual
<1> QED
  BY <1>2, <1>3, <1>4, Zenon DEF isVirtualNetwork, isValidNetwork, NetIdOrUnset

(* getPermissionForUser, and the union of two permissions, are permissions. *)
LEMMA PermissionsTyped ==
    ASSUME Inv
    PROVE  /\ \A uid \in Nat : getPermissionForUser(uid) \in Permissions
           /\ \A p, q \in Permissions : Bits(p, q) \in Permissions
BY Zenon DEF Inv, TypeOK, getPermissionForUser, Permissions, Bits

(* What checkUserNetworkAccess lets a UID select, a rule of the network lets it use. *)
LEMMA AccessMeansSelectable ==
    ASSUME Inv, NEW uid \in Nat, NEW netId, checkUserNetworkAccess(uid, netId) = "OK"
    PROVE  Selectable(uid, netId, getPermissionForUser(uid))
<1>1. netId \in DOMAIN mNetworks
  BY Zenon DEF checkUserNetworkAccess, isValidNetwork
<1>2. mNetworks[netId].mPermission \in Permissions
  BY <1>1, Zenon DEF Inv, TypeOK, Network
<1>3. CASE getPermissionForUser(uid) = PERMISSION_SYSTEM
  BY <1>2, <1>3 DEF Selectable, Permissions, PERMISSION_NONE, PERMISSION_NETWORK, PERMISSION_SYSTEM
<1>4. CASE getPermissionForUser(uid) # PERMISSION_SYSTEM
  BY <1>1, <1>4, Zenon DEF checkUserNetworkAccess, nonVirtualAccess, Selectable, isValidNetwork
<1> QED
  BY <1>3, <1>4, Zenon

-----------------------------------------------------------------------------
(* Steps of the server *)

(* While the controller stays as it is, so does what is said about marks and points. *)
LEMMA SameController ==
    ASSUME Inv, UNCHANGED <<vars, workload>>
    PROVE  /\ Inv'
           /\ \A fd : Covered(fd)' <=> Covered(fd)
           /\ \A mark : GoodMark(mark)' <=> GoodMark(mark)
           /\ \A cmd, uid, s : PointOK(cmd, uid, s)' <=> PointOK(cmd, uid, s)
<1>1. Inv'
  BY NextPreservesInv, Zenon
<1>2. mNetworks' = mNetworks /\ mUsers' = mUsers /\ workload' = workload
  BY Zenon DEF vars, networkVars, userVars
<1>3. \A fd : Covered(fd)' <=> Covered(fd)
  BY <1>2, Zenon DEF Covered
<1>4. \A mark : GoodMark(mark)' <=> GoodMark(mark)
  BY <1>2, Zenon DEF GoodMark, isVirtualNetwork, isValidNetwork
<1>5. \A uid, netId, p : Selectable(uid, netId, p)' <=> Selectable(uid, netId, p)
  BY <1>2, Zenon DEF Selectable
<1>6. \A uid : getPermissionForUser(uid)' = getPermissionForUser(uid)
  BY <1>2, Zenon DEF getPermissionForUser
<1>7. \A cmd, uid, s : PointOK(cmd, uid, s)' <=> PointOK(cmd, uid, s)
  BY <1>3, <1>4, <1>5, <1>6 DEF PointOK
<1> QED
  BY <1>1, <1>3, <1>4, <1>7, Zenon

(* Fwmarks have the fields they are built from. *)
LEMMA MarksTyped ==
    ASSUME NEW n \in NetIdOrUnset, NEW e \in BOOLEAN, NEW v \in BOOLEAN, NEW p \in Permissions
    PROVE  /\ [netId |-> n, explicitlySelected |-> e, protectedFromVpn |-> v, permission |-> p] \in Fwmark
           /\ NoMark \in Fwmark
           /\ \A mark \in Fwmark : /\ mark.netId \in NetIdOrUnset /\ mark.explicitlySelected \in BOOLEAN
                                   /\ mark.protectedFromVpn \in BOOLEAN /\ mark.permission \in Permissions
BY Zenon DEF Fwmark, NetIdOrUnset, NoMark, Permissions

(* A call of processClient that has come to another point. *)
At(pc, permission, mark) ==
    [pc |-> pc, client |-> server.client, permission |-> permission, mark |-> mark, steady |-> server.steady]

(* A step of processClient that asks a question goes from a good point to another. *)
LEMMA ContinuePreservesMarkInv ==
    ASSUME MarkInv, UNCHANGED <<vars, clientVars, sockets>>, server.pc # "idle",
           NEW pc \in ServerPoints, NEW permission \in Permissions, NEW mark \in Fwmark,
           Continue(pc, permission, mark),
           PointOK(command, clientUid, At(pc, permission, mark))
    PROVE  MarkInv'
<1>1. server' = At(pc, permission, mark) /\ channel' = channel
  BY Zenon DEF Continue, At, MarkInv, SocketTypeOK, ServerType
<1>2. server' \in ServerType /\ server'.client = server.client
  BY <1>1, Zenon DEF At, MarkInv, SocketTypeOK, ServerType
<1>3. command' = command /\ clientUid' = clientUid
  BY <1>1, <1>2, Zenon DEF command, clientUid
<1>4. UNCHANGED <<client, targets, workload>>
  BY Zenon DEF clientVars
<1>5. /\ Inv'
      /\ \A fd : Covered(fd)' <=> Covered(fd)
      /\ \A m : GoodMark(m)' <=> GoodMark(m)
      /\ \A cmd, uid, s : PointOK(cmd, uid, s)' <=> PointOK(cmd, uid, s)
  BY <1>4, SameController, Zenon DEF MarkInv
<1>6. SocketTypeOK'
  BY <1>1, <1>2, <1>4, Zenon DEF MarkInv, SocketTypeOK
<1>7. (\A fd \in DOMAIN sockets : Covered(fd) => GoodMark(sockets[fd]))'
  BY <1>5, Zenon DEF MarkInv, GoodMark, isVirtualNetwork, isValidNetwork, vars, networkVars
<1>8. \A c \in Clients : ChannelOK(c)'
  BY <1>1, <1>4, Zenon DEF MarkInv, ChannelOK
<1>9. PointOK(command, clientUid, server)'
  BY <1>1, <1>3, <1>5, Zenon
<1>10. server'.client \in Clients /\ command'.kind = "command"
  BY <1>2, <1>3, Zenon DEF MarkInv
<1> QED
  BY <1>5, <1>6, <1>7, <1>8, <1>9, <1>10, Zenon DEF MarkInv

(* A reply ends the call: no mark but a good one has been written, and the thread has its answer. *)
LEMMA ReturnPreservesMarkInv ==
    ASSUME MarkInv, UNCHANGED <<vars, clientVars>>, server.pc # "idle", NEW error, Return(error),
           sockets' \in [DOMAIN sockets' -> Fwmark],
           \A fd \in DOMAIN sockets' : Covered(fd) => GoodMark(sockets'[fd])
    PROVE  MarkInv'
<1>1. server' = Idle /\ channel' = [channel EXCEPT ![server.client] = Reply(error)]
  BY Zenon DEF Return
<1>2. server' \in ServerType /\ server'.pc = "idle"
  BY <1>1, MarksTyped, Zenon DEF Idle, ServerType, ServerPoints, NetIdOrUnset, Permissions
<1>4. UNCHANGED <<client, targets, workload>>
  BY Zenon DEF clientVars
<1>5. /\ Inv'
      /\ \A fd : Covered(fd)' <=> Covered(fd)
      /\ \A m : GoodMark(m)' <=> GoodMark(m)
  BY <1>4, SameController, Zenon DEF MarkInv
<1>6. SocketTypeOK'
  BY <1>1, <1>2, <1>4, Zenon DEF MarkInv, SocketTypeOK
<1>7. (\A fd \in DOMAIN sockets : Covered(fd) => GoodMark(sockets[fd]))'
  BY <1>5, Zenon DEF GoodMark, isVirtualNetwork, isValidNetwork, vars, networkVars
<1>8. \A c \in Clients : ChannelOK(c)'
  <2> TAKE c \in Clients
  <2>1. CASE c = server.client
    <3>1. channel'[c] = Reply(error)
      BY <1>1, <2>1, Zenon DEF MarkInv, SocketTypeOK
    <3>2. client[c].pc # "idle"
      BY <2>1, Zenon DEF MarkInv, ChannelOK, command
    <3> QED
      BY <1>4, <3>1, <3>2 DEF ChannelOK, Reply
  <2>2. CASE c # server.client
    <3>1. channel'[c] = channel[c]
      BY <1>1, <2>2, Zenon DEF MarkInv, SocketTypeOK
    <3> QED
      BY <1>4, <3>1, Zenon DEF ChannelOK, MarkInv
  <2> QED
    BY <2>1, <2>2, Zenon
<1> QED
  BY <1>2, <1>5, <1>6, <1>7, <1>8, Zenon DEF MarkInv

(* A mark of no network is good. *)
LEMMA NoMarkIsGood == ASSUME Inv PROVE GoodMark(NoMark) /\ NoMark \in Fwmark
<1>1. NETID_UNSET \notin DOMAIN mNetworks
  BY NetIdsAreNumbers, Zenon DEF Inv, TypeOK
<1> QED
  BY <1>1, Zenon DEF GoodMark, NoMark, isVirtualNetwork, isValidNetwork, Fwmark, Permissions

(* The facts about the command at hand that every step of processClient starts from. *)
LEMMA CommandAtHand ==
    ASSUME MarkInv, server.pc # "idle"
    PROVE  /\ server.client \in Clients /\ command.kind = "command"
           /\ clientUid \in Nat /\ command.netId \in NetIdOrUnset
           /\ server.permission \in Permissions /\ server.mark \in Fwmark
           /\ server.pc \in ServerPoints
           /\ PointOK(command, clientUid, server)
           /\ command.cmdId = "SELECT_FOR_USER" => ~Covered(command.fd)
<1>1. server.client \in Clients /\ command.kind = "command" /\ PointOK(command, clientUid, server)
  BY Zenon DEF MarkInv
<1>2. ChannelOK(server.client)
  BY <1>1, Zenon DEF MarkInv
<1>3. clientUid \in Nat
  BY <1>1, ClientsAssumption, Zenon DEF clientUid
<1>4. server.permission \in Permissions /\ server.mark \in Fwmark /\ server.pc \in ServerPoints
  BY Zenon DEF MarkInv, SocketTypeOK, ServerType
<1> QED
  BY <1>1, <1>2, <1>3, <1>4, Zenon DEF ChannelOK, command, Covered

(* onDataAvailable takes up a command. *)
LEMMA OnDataAvailablePreservesMarkInv ==
    ASSUME MarkInv, NEW c \in Clients, onDataAvailable(c), UNCHANGED <<vars, clientVars>>
    PROVE  MarkInv'
<1>1. /\ server' = [pc |-> "permission", client |-> c, permission |-> PERMISSION_NONE, mark |-> NoMark,
                    steady |-> TRUE]
      /\ channel' = channel /\ sockets' = sockets /\ channel[c].kind = "command"
  BY Zenon DEF onDataAvailable, Idle
<1>2. server' \in ServerType
  BY <1>1, NoMarkIsGood, Zenon DEF ServerType, ServerPoints, Permissions, MarkInv
<1>3. UNCHANGED <<client, targets, workload>>
  BY Zenon DEF clientVars
<1>4. /\ Inv'
      /\ \A fd : Covered(fd)' <=> Covered(fd)
  BY <1>3, SameController, Zenon DEF MarkInv
<1>5. SocketTypeOK'
  BY <1>1, <1>2, <1>3, Zenon DEF MarkInv, SocketTypeOK
<1>6. (\A fd \in DOMAIN sockets : Covered(fd) => GoodMark(sockets[fd]))'
  BY <1>1, <1>4, Zenon DEF MarkInv, GoodMark, isVirtualNetwork, isValidNetwork, vars, networkVars
<1>7. \A d \in Clients : ChannelOK(d)'
  BY <1>1, <1>3, Zenon DEF MarkInv, ChannelOK
<1>8. server'.client \in Clients /\ command'.kind = "command" /\ server'.pc = "permission"
  BY <1>1, Zenon DEF command
<1>9. PointOK(command, clientUid, server)'
  BY <1>8, Zenon DEF PointOK
<1> QED
  BY <1>4, <1>5, <1>6, <1>7, <1>8, <1>9, Zenon DEF MarkInv

(* Each command begins at a point where it is known what it may do to the mark. *)
LEMMA ReadPermissionPreservesMarkInv ==
    ASSUME MarkInv, readPermission, UNCHANGED <<vars, clientVars>>
    PROVE  MarkInv'
<1> DEFINE permission == getPermissionForUser(clientUid)
           mark == IF command.fd \in DOMAIN sockets THEN sockets[command.fd] ELSE NoMark
<1>1. server.pc # "idle" /\ UNCHANGED sockets
  BY Zenon DEF readPermission
<1>2. /\ clientUid \in Nat /\ command.netId \in NetIdOrUnset
      /\ command.cmdId = "SELECT_FOR_USER" => ~Covered(command.fd)
  BY <1>1, CommandAtHand, Zenon
<1>3. permission \in Permissions /\ PERMISSION_NONE \in Permissions
  BY <1>2, PermissionsTyped, Zenon DEF MarkInv, Permissions
<1>4. mark \in Fwmark /\ (Covered(command.fd) => GoodMark(mark))
  BY NoMarkIsGood, Zenon DEF MarkInv, SocketTypeOK
<1>5. Bits(permission, mark.permission) \in Permissions
  BY <1>3, <1>4, PermissionsTyped, Zenon DEF MarkInv, Fwmark
<1>6. ASSUME NEW error, Return(error) PROVE MarkInv'
  BY <1>1, <1>6, ReturnPreservesMarkInv, Zenon DEF MarkInv, SocketTypeOK
<1>7. ASSUME NEW pc \in ServerPoints, NEW p \in Permissions, NEW m \in Fwmark, Continue(pc, p, m),
             PointOK(command, clientUid, At(pc, p, m))
      PROVE  MarkInv'
  BY <1>1, <1>7, ContinuePreservesMarkInv, Zenon
<1>8. \/ \E error : Return(error)
      \/ /\ command.cmdId = "QUERY_USER_ACCESS" /\ Continue("query", permission, NoMark)
      \/ /\ command.cmdId = "ON_ACCEPT" /\ Continue("setMark", Bits(permission, mark.permission), mark)
      \/ /\ command.cmdId = "ON_CONNECT" /\ Continue("connect", permission, mark)
      \/ /\ command.cmdId = "ON_CONNECT_COMPLETE" /\ Continue("setMark", permission, mark)
      \/ /\ command.cmdId = "SELECT_NETWORK" /\ command.netId = NETID_UNSET
         /\ Continue("setMark", PERMISSION_NONE, NoMark)
      \/ /\ command.cmdId = "SELECT_NETWORK"
         /\ Continue("select", permission, [mark EXCEPT !.netId = command.netId])
      \/ /\ command.cmdId = "PROTECT_FROM_VPN" /\ Continue("protect", permission, mark)
      \/ /\ command.cmdId = "SELECT_FOR_USER" /\ Continue("forUser", permission, mark)
  BY Zenon DEF readPermission
<1> HIDE DEF permission, mark
<1>9. CASE \E error : Return(error)
  BY <1>6, <1>9, Zenon
<1>10. CASE command.cmdId = "QUERY_USER_ACCESS" /\ Continue("query", permission, NoMark)
  <2>1. PointOK(command, clientUid, At("query", permission, NoMark))
    BY <1>10, Zenon DEF PointOK, At
  <2> QED
    BY <1>3, <1>7, <1>10, <2>1, NoMarkIsGood, Zenon DEF ServerPoints, MarkInv
<1>11. CASE command.cmdId = "ON_ACCEPT" /\ Continue("setMark", Bits(permission, mark.permission), mark)
  <2>1. PointOK(command, clientUid, At("setMark", Bits(permission, mark.permission), mark))
    BY <1>4, <1>11, Zenon DEF PointOK, At
  <2> QED
    BY <1>4, <1>5, <1>7, <1>11, <2>1, Zenon DEF ServerPoints
<1>12. CASE command.cmdId = "ON_CONNECT" /\ Continue("connect", permission, mark)
  <2>1. PointOK(command, clientUid, At("connect", permission, mark))
    BY <1>4, <1>12, Zenon DEF PointOK, At
  <2> QED
    BY <1>3, <1>4, <1>7, <1>12, <2>1, Zenon DEF ServerPoints
<1>13. CASE command.cmdId = "ON_CONNECT_COMPLETE" /\ Continue("setMark", permission, mark)
  <2>1. PointOK(command, clientUid, At("setMark", permission, mark))
    BY <1>4, <1>13, Zenon DEF PointOK, At
  <2> QED
    BY <1>3, <1>4, <1>7, <1>13, <2>1, Zenon DEF ServerPoints
<1>14. CASE /\ command.cmdId = "SELECT_NETWORK" /\ command.netId = NETID_UNSET
            /\ Continue("setMark", PERMISSION_NONE, NoMark)
  <2>1. PointOK(command, clientUid, At("setMark", PERMISSION_NONE, NoMark))
    BY <1>14, NoMarkIsGood, Zenon DEF PointOK, At, MarkInv, NoMark
  <2> QED
    BY <1>3, <1>7, <1>14, <2>1, NoMarkIsGood, Zenon DEF ServerPoints, MarkInv
<1>15. CASE /\ command.cmdId = "SELECT_NETWORK"
            /\ Continue("select", permission, [mark EXCEPT !.netId = command.netId])
  <2> DEFINE selected == [mark EXCEPT !.netId = command.netId]
  <2>1. selected \in Fwmark /\ selected.netId = command.netId
    BY <1>2, <1>4, Zenon DEF Fwmark, NetIdOrUnset
  <2> HIDE DEF selected
  <2>2. PointOK(command, clientUid, At("select", permission, selected))
    BY <1>15, <2>1, Zenon DEF PointOK, At, permission
  <2>3. Continue("select", permission, selected)
    BY <1>15, Zenon DEF selected
  <2> QED
    BY <1>3, <1>7, <2>1, <2>2, <2>3, Zenon DEF ServerPoints
<1>16. CASE command.cmdId = "PROTECT_FROM_VPN" /\ Continue("protect", permission, mark)
  <2>1. PointOK(command, clientUid, At("protect", permission, mark))
    BY <1>16, Zenon DEF PointOK, At
  <2> QED
    BY <1>3, <1>4, <1>7, <1>16, <2>1, Zenon DEF ServerPoints
<1>17. CASE command.cmdId = "SELECT_FOR_USER" /\ Continue("forUser", permission, mark)
  <2>1. PointOK(command, clientUid, At("forUser", permission, mark))
    BY <1>17, Zenon DEF PointOK, At
  <2> QED
    BY <1>3, <1>4, <1>7, <1>17, <2>1, Zenon DEF ServerPoints
<1> QED
  BY <1>8, <1>9, <1>10, <1>11, <1>12, <1>13, <1>14, <1>15, <1>16, <1>17, Zenon

(* connect() on a socket without a chosen network gets the UID's network, never a secure VPN. *)
LEMMA OnConnectPreservesMarkInv ==
    ASSUME MarkInv, onConnect, UNCHANGED <<vars, clientVars>>
    PROVE  MarkInv'
<1> DEFINE mark == server.mark
           netId == getNetworkForConnect(clientUid)
           moved == [mark EXCEPT !.netId = netId]
<1>1. server.pc = "connect" /\ UNCHANGED sockets
  BY Zenon DEF onConnect
<1>2. /\ mark \in Fwmark /\ server.permission \in Permissions
      /\ PointOK(command, clientUid, server)
  BY <1>1, CommandAtHand, Zenon
<1>3. /\ Covered(command.fd) => GoodMark(mark)
      /\ command.cmdId # "SELECT_NETWORK"
  BY <1>1, <1>2, Zenon DEF PointOK
<1>4. netId \in NetIdOrUnset /\ (isVirtualNetwork(netId) => ~mNetworks[netId].mSecure)
  BY NetworkForConnectIsNotSecure, Zenon DEF MarkInv
<1> HIDE DEF netId
<1>5. /\ moved \in Fwmark /\ moved.netId = netId
      /\ moved.protectedFromVpn = mark.protectedFromVpn
  BY <1>2, <1>4, Zenon DEF Fwmark, NetIdOrUnset
<1>6. \/ Continue("setMark", server.permission, mark)
      \/ ~mark.protectedFromVpn /\ Continue("setMark", server.permission, moved)
      \/ ~mark.explicitlySelected /\ Continue("default", server.permission, mark)
  BY Zenon DEF onConnect, netId
<1> HIDE DEF mark, moved
<1>7. CASE Continue("setMark", server.permission, mark)
  <2>1. PointOK(command, clientUid, At("setMark", server.permission, mark))
    BY <1>3, Zenon DEF PointOK, At
  <2> QED
    BY <1>1, <1>2, <1>7, <2>1, ContinuePreservesMarkInv, Zenon DEF ServerPoints
<1>8. CASE ~mark.protectedFromVpn /\ Continue("setMark", server.permission, moved)
  <2>1. GoodMark(moved)
    BY <1>4, <1>5, <1>8, Zenon DEF GoodMark
  <2>2. PointOK(command, clientUid, At("setMark", server.permission, moved))
    BY <1>3, <2>1, Zenon DEF PointOK, At
  <2> QED
    BY <1>1, <1>2, <1>5, <1>8, <2>2, ContinuePreservesMarkInv, Zenon DEF ServerPoints
<1>9. CASE ~mark.explicitlySelected /\ Continue("default", server.permission, mark)
  <2>1. PointOK(command, clientUid, At("default", server.permission, mark))
    BY <1>3, <1>9, Zenon DEF PointOK, At
  <2> QED
    BY <1>1, <1>2, <1>9, <2>1, ContinuePreservesMarkInv, Zenon DEF ServerPoints
<1> QED
  BY <1>6, <1>7, <1>8, <1>9, Zenon

(* The default network is no VPN. *)
LEMMA ReadDefaultPreservesMarkInv ==
    ASSUME MarkInv, readDefault, UNCHANGED <<vars, clientVars>>
    PROVE  MarkInv'
<1> DEFINE moved == [server.mark EXCEPT !.netId = mDefaultNetId]
<1>1. server.pc = "default" /\ UNCHANGED sockets /\ Continue("setMark", server.permission, moved)
  BY Zenon DEF readDefault
<1>2. /\ server.mark \in Fwmark /\ server.permission \in Permissions
      /\ PointOK(command, clientUid, server)
  BY <1>1, CommandAtHand, Zenon
<1>3. mDefaultNetId \in NetIdOrUnset /\ ~isVirtualNetwork(mDefaultNetId)
  BY NetworkForUserExists, Zenon DEF MarkInv
<1>4. moved \in Fwmark /\ moved.netId = mDefaultNetId
  BY <1>2, <1>3, Zenon DEF Fwmark, NetIdOrUnset
<1> HIDE DEF moved
<1>5. PointOK(command, clientUid, At("setMark", server.permission, moved))
  BY <1>1, <1>2, <1>3, <1>4, Zenon DEF PointOK, At, GoodMark
<1> QED
  BY <1>1, <1>2, <1>4, <1>5, ContinuePreservesMarkInv, Zenon DEF ServerPoints

(* A network is selected only with access to it; access and permission agree while all is steady. *)
LEMMA SelectNetworkPreservesMarkInv ==
    ASSUME MarkInv, selectNetwork, UNCHANGED <<vars, clientVars>>
    PROVE  MarkInv'
<1> DEFINE access == checkUserNetworkAccess(clientUid, command.netId)
           chosen == [server.mark EXCEPT !.explicitlySelected = TRUE]
<1>1. server.pc = "select" /\ UNCHANGED sockets
  BY Zenon DEF selectNetwork
<1>2. /\ server.mark \in Fwmark /\ server.permission \in Permissions
      /\ clientUid \in Nat
      /\ PointOK(command, clientUid, server)
  BY <1>1, CommandAtHand, Zenon
<1>3. /\ command.cmdId = "SELECT_NETWORK" /\ server.mark.netId = command.netId
      /\ server.steady => server.permission = getPermissionForUser(clientUid)
  BY <1>1, <1>2, Zenon DEF PointOK
<1>4. chosen \in Fwmark /\ chosen.netId = command.netId /\ chosen.explicitlySelected
  BY <1>2, <1>3, Zenon DEF Fwmark
<1>5. access = "OK" => Selectable(clientUid, command.netId, getPermissionForUser(clientUid))
  BY <1>2, AccessMeansSelectable, Zenon DEF MarkInv
<1>6. \/ Return(access)
      \/ access = "OK" /\ Continue("canProtect", server.permission, chosen)
  BY Zenon DEF selectNetwork
<1> HIDE DEF access, chosen
<1>7. CASE Return(access)
  BY <1>1, <1>7, ReturnPreservesMarkInv, Zenon DEF MarkInv, SocketTypeOK
<1>8. CASE access = "OK" /\ Continue("canProtect", server.permission, chosen)
  <2>1. PointOK(command, clientUid, At("canProtect", server.permission, chosen))
    BY <1>3, <1>4, <1>5, <1>8, Zenon DEF PointOK, At
  <2> QED
    BY <1>1, <1>2, <1>4, <1>8, <2>1, ContinuePreservesMarkInv, Zenon DEF ServerPoints
<1> QED
  BY <1>6, <1>7, <1>8, Zenon

(* The protect bit does not matter to an explicit mark. *)
LEMMA ReadCanProtectPreservesMarkInv ==
    ASSUME MarkInv, readCanProtect, UNCHANGED <<vars, clientVars>>
    PROVE  MarkInv'
<1> DEFINE chosen == [server.mark EXCEPT !.protectedFromVpn = canProtect(clientUid)]
<1>1. server.pc = "canProtect" /\ UNCHANGED sockets /\ Continue("setMark", server.permission, chosen)
  BY Zenon DEF readCanProtect
<1>2. /\ server.mark \in Fwmark /\ server.permission \in Permissions
      /\ PointOK(command, clientUid, server)
  BY <1>1, CommandAtHand, Zenon
<1>3. /\ server.mark.explicitlySelected /\ server.mark.netId = command.netId
      /\ server.steady => Selectable(clientUid, server.mark.netId, server.permission)
  BY <1>1, <1>2, Zenon DEF PointOK
<1>4. canProtect(clientUid) \in BOOLEAN
  BY Zenon DEF canProtect
<1>5. /\ chosen \in Fwmark /\ chosen.netId = server.mark.netId
      /\ chosen.explicitlySelected = server.mark.explicitlySelected
  BY <1>2, <1>4, Zenon DEF Fwmark
<1> HIDE DEF chosen
<1>6. PointOK(command, clientUid, At("setMark", server.permission, chosen))
  BY <1>3, <1>5, Zenon DEF PointOK, At, GoodMark
<1> QED
  BY <1>1, <1>2, <1>5, <1>6, ContinuePreservesMarkInv, Zenon DEF ServerPoints

(* protectFromVpn sets the protect bit and goes on to leave the VPN. *)
LEMMA ProtectFromVpnPreservesMarkInv ==
    ASSUME MarkInv, protectFromVpnCommand, UNCHANGED <<vars, clientVars>>
    PROVE  MarkInv'
<1> DEFINE protected == [server.mark EXCEPT !.protectedFromVpn = TRUE]
           permission == Bits(server.permission, server.mark.permission)
<1>1. server.pc = "protect" /\ UNCHANGED sockets
  BY Zenon DEF protectFromVpnCommand
<1>2. /\ server.mark \in Fwmark /\ server.permission \in Permissions
      /\ PointOK(command, clientUid, server)
  BY <1>1, CommandAtHand, Zenon
<1>3. protected \in Fwmark
  BY <1>2, Zenon DEF Fwmark
<1>4. permission \in Permissions
  BY <1>2, PermissionsTyped, Zenon DEF Fwmark, MarkInv
<1>5. Return("EPERM") \/ Continue("leaveVpn", permission, protected)
  BY Zenon DEF protectFromVpnCommand
<1> HIDE DEF permission, protected
<1>6. CASE Return("EPERM")
  BY <1>1, <1>6, ReturnPreservesMarkInv, Zenon DEF MarkInv, SocketTypeOK
<1>7. CASE Continue("leaveVpn", permission, protected)
  <2>1. PointOK(command, clientUid, At("leaveVpn", permission, protected))
    BY <1>1, <1>2, Zenon DEF PointOK, At
  <2> QED
    BY <1>1, <1>3, <1>4, <1>7, <2>1, ContinuePreservesMarkInv, Zenon DEF ServerPoints
<1> QED
  BY <1>5, <1>6, <1>7, Zenon

(* A protected socket keeps its network only if it chose it or if it is no VPN. *)
LEMMA LeaveVpnPreservesMarkInv ==
    ASSUME MarkInv, leaveVpn, UNCHANGED <<vars, clientVars>>
    PROVE  MarkInv'
<1>1. server.pc = "leaveVpn" /\ UNCHANGED sockets
  BY Zenon DEF leaveVpn
<1>2. /\ server.mark \in Fwmark /\ server.permission \in Permissions
      /\ PointOK(command, clientUid, server)
  BY <1>1, CommandAtHand, Zenon
<1>3. command.cmdId # "SELECT_NETWORK"
  BY <1>1, <1>2, Zenon DEF PointOK
<1>4. \/ ~server.mark.explicitlySelected /\ Continue("default", server.permission, server.mark)
      \/ /\ server.mark.explicitlySelected \/ ~isVirtualNetwork(server.mark.netId)
         /\ Continue("setMark", server.permission, server.mark)
  BY Zenon DEF leaveVpn
<1>5. CASE ~server.mark.explicitlySelected /\ Continue("default", server.permission, server.mark)
  <2>1. PointOK(command, clientUid, At("default", server.permission, server.mark))
    BY <1>3, <1>5, Zenon DEF PointOK, At
  <2> QED
    BY <1>1, <1>2, <1>5, <2>1, ContinuePreservesMarkInv, Zenon DEF ServerPoints
<1>6. CASE /\ server.mark.explicitlySelected \/ ~isVirtualNetwork(server.mark.netId)
           /\ Continue("setMark", server.permission, server.mark)
  <2>1. GoodMark(server.mark)
    BY <1>6, Zenon DEF GoodMark
  <2>2. PointOK(command, clientUid, At("setMark", server.permission, server.mark))
    BY <1>3, <2>1, Zenon DEF PointOK, At
  <2> QED
    BY <1>1, <1>2, <1>6, <2>2, ContinuePreservesMarkInv, Zenon DEF ServerPoints
<1> QED
  BY <1>4, <1>5, <1>6, Zenon

(* setNetworkForUser may choose a VPN, but only for sockets of a proxy. *)
LEMMA SelectForUserPreservesMarkInv ==
    ASSUME MarkInv, selectForUser, UNCHANGED <<vars, clientVars>>
    PROVE  MarkInv'
<1> DEFINE netId == getNetworkForUser(command.uid)
           moved == [server.mark EXCEPT !.netId = netId, !.protectedFromVpn = TRUE]
<1>1. server.pc = "forUser" /\ UNCHANGED sockets /\ Continue("setMark", server.permission, moved)
  BY Zenon DEF selectForUser
<1>2. /\ server.mark \in Fwmark /\ server.permission \in Permissions
      /\ PointOK(command, clientUid, server)
      /\ command.cmdId = "SELECT_FOR_USER" => ~Covered(command.fd)
  BY <1>1, CommandAtHand, Zenon
<1>3. command.cmdId = "SELECT_FOR_USER"
  BY <1>1, <1>2, Zenon DEF PointOK
<1>4. netId \in NetIdOrUnset
  BY NetworkForUserExists, Zenon DEF MarkInv
<1> HIDE DEF netId
<1>5. moved \in Fwmark
  BY <1>2, <1>4, Zenon DEF Fwmark, NetIdOrUnset
<1> HIDE DEF moved
<1>6. PointOK(command, clientUid, At("setMark", server.permission, moved))
  BY <1>2, <1>3, Zenon DEF PointOK, At
<1> QED
  BY <1>1, <1>2, <1>5, <1>6, ContinuePreservesMarkInv, Zenon DEF ServerPoints

(* setsockopt writes the mark that the call arrived at, with its permission. *)
LEMMA SetMarkPreservesMarkInv ==
    ASSUME MarkInv, setMark, UNCHANGED <<vars, clientVars>>
    PROVE  MarkInv'
<1> DEFINE written == [server.mark EXCEPT !.permission = server.permission]
<1>1. /\ server.pc = "setMark" /\ Return("OK")
      /\ sockets' = IF command.fd \in DOMAIN sockets THEN [sockets EXCEPT ![command.fd] = written] ELSE sockets
  BY Zenon DEF setMark
<1>2. /\ server.mark \in Fwmark /\ server.permission \in Permissions
      /\ PointOK(command, clientUid, server)
  BY <1>1, CommandAtHand, Zenon
<1>3. /\ written \in Fwmark /\ written.netId = server.mark.netId
      /\ written.explicitlySelected = server.mark.explicitlySelected
      /\ written.protectedFromVpn = server.mark.protectedFromVpn
  BY <1>2, Zenon DEF Fwmark
<1> HIDE DEF written
<1>4. Covered(command.fd) => GoodMark(written)
  BY <1>1, <1>2, <1>3, Zenon DEF PointOK, GoodMark
<1>5. sockets \in [DOMAIN sockets -> Fwmark] /\ \A fd \in DOMAIN sockets : Covered(fd) => GoodMark(sockets[fd])
  BY Zenon DEF MarkInv, SocketTypeOK
<1>6. DOMAIN sockets' = DOMAIN sockets
  BY <1>1, Zenon
<1>7. \A fd \in DOMAIN sockets' : sockets'[fd] = IF fd = command.fd THEN written ELSE sockets[fd]
  BY <1>1, Zenon
<1>8. sockets' \in [DOMAIN sockets' -> Fwmark]
  BY <1>1, <1>3, <1>5, Zenon
<1>9. \A fd \in DOMAIN sockets' : Covered(fd) => GoodMark(sockets'[fd])
  BY <1>4, <1>5, <1>6, <1>7, Zenon
<1> QED
  BY <1>1, <1>8, <1>9, ReturnPreservesMarkInv, Zenon

(* The thread of FwmarkServer keeps the invariant. *)
LEMMA ServerPreservesMarkInv ==
    ASSUME MarkInv, ServerNext, UNCHANGED <<vars, clientVars>>
    PROVE  MarkInv'
<1>1. CASE queryAccess
  <2>1. /\ server.pc = "query" /\ UNCHANGED sockets
        /\ Return(checkUserNetworkAccess(command.uid, command.netId))
    BY <1>1, Zenon DEF queryAccess
  <2> QED
    BY <2>1, ReturnPreservesMarkInv, Zenon DEF MarkInv, SocketTypeOK
<1> QED
  BY <1>1, OnDataAvailablePreservesMarkInv, ReadPermissionPreservesMarkInv, OnConnectPreservesMarkInv,
     ReadDefaultPreservesMarkInv, SelectNetworkPreservesMarkInv, ReadCanProtectPreservesMarkInv,
     ProtectFromVpnPreservesMarkInv, LeaveVpnPreservesMarkInv, SelectForUserPreservesMarkInv,
     SetMarkPreservesMarkInv, Zenon
  DEF ServerNext, ServerStep

-----------------------------------------------------------------------------
(* Changes of the controller *)

(* None of these operations adds a network or makes one a VPN or secure. *)
LEMMA NoNetworkBecomesVpn ==
    ASSUME Inv, ControllerChanges
    PROVE  /\ Inv' /\ DOMAIN mNetworks' \subseteq DOMAIN mNetworks
           /\ \A n \in DOMAIN mNetworks' : /\ mNetworks'[n].type = mNetworks[n].type
                                           /\ mNetworks'[n].mSecure = mNetworks[n].mSecure
<1> DEFINE Shrinks == /\ DOMAIN mNetworks' \subseteq DOMAIN mNetworks
                      /\ \A n \in DOMAIN mNetworks' : /\ mNetworks'[n].type = mNetworks[n].type
                                                      /\ mNetworks'[n].mSecure = mNetworks[n].mSecure
<1> SUFFICES Inv' /\ Shrinks
  BY Zenon
<1>0. \A n \in DOMAIN mNetworks : mNetworks[n] \in Network
  BY Zenon DEF Inv, TypeOK
<1>1. ASSUME NEW n \in ControllerArgs.destroyed, destroyNetwork(n) PROVE Inv' /\ Shrinks
  <2>1. Inv'
    BY <1>1, DestroyNetworkPreservesInv, ClientsAssumption, Zenon
  <2> QED
    BY <1>1, <2>1, Zenon DEF destroyNetwork, Without
<1>2. ASSUME NEW n \in ControllerArgs.default, setDefaultNetwork(n) PROVE Inv' /\ Shrinks
  <2>1. Inv'
    BY <1>2, SetDefaultNetworkPreservesInv, ClientsAssumption, Zenon
  <2>2. \A w \in Network, b \in BOOLEAN : LET v == [w EXCEPT !.mIsDefault = b]
                                          IN  v.type = w.type /\ v.mSecure = w.mSecure
    BY Zenon DEF Network
  <2> QED
    BY <1>0, <1>2, <2>1, <2>2, Zenon DEF setDefaultNetwork
<1>4. ASSUME NEW n \in ControllerArgs.users, NEW r \in RangeArgs,
             addUsersToNetwork(n, r, SUB_PRIORITY_HIGHEST)
      PROVE  Inv' /\ Shrinks
  <2>1. Inv'
    BY <1>4, AddUsersToNetworkPreservesInv, ClientsAssumption, Zenon
  <2>2. n \in DOMAIN mNetworks /\ mNetworks' = [mNetworks EXCEPT ![n] = addToUidRangeMap(@, r, SUB_PRIORITY_HIGHEST)]
    BY <1>4, Zenon DEF addUsersToNetwork, isWrongNetworkForUidRanges, isValidNetwork
  <2>3. /\ addToUidRangeMap(mNetworks[n], r, SUB_PRIORITY_HIGHEST).type = mNetworks[n].type
        /\ addToUidRangeMap(mNetworks[n], r, SUB_PRIORITY_HIGHEST).mSecure = mNetworks[n].mSecure
    BY <1>0, <2>2, Zenon DEF addToUidRangeMap, Network
  <2> QED
    BY <2>1, <2>2, <2>3, Zenon
<1>5. ASSUME NEW n \in ControllerArgs.users, NEW r \in RangeArgs,
             removeUsersFromNetwork(n, r, SUB_PRIORITY_HIGHEST)
      PROVE  Inv' /\ Shrinks
  <2>1. Inv'
    BY <1>5, RemoveUsersFromNetworkPreservesInv, ClientsAssumption, Zenon
  <2>2. /\ n \in DOMAIN mNetworks
        /\ mNetworks' = [mNetworks EXCEPT ![n] = removeFromUidRangeMap(@, r, SUB_PRIORITY_HIGHEST)]
    BY <1>5, Zenon DEF removeUsersFromNetwork, isWrongNetworkForUidRanges, isValidNetwork
  <2>3. /\ removeFromUidRangeMap(mNetworks[n], r, SUB_PRIORITY_HIGHEST).type = mNetworks[n].type
        /\ removeFromUidRangeMap(mNetworks[n], r, SUB_PRIORITY_HIGHEST).mSecure = mNetworks[n].mSecure
    BY <1>0, <2>2, Zenon DEF removeFromUidRangeMap, Network
  <2> QED
    BY <2>1, <2>2, <2>3, Zenon
<1>6. ASSUME NEW u \in Uids,
             (\E p \in PermissionArgs : setPermissionForUsers(p, {u})) \/ allowProtect({u}) \/ denyProtect({u})
      PROVE  Inv' /\ Shrinks
  <2>1. Inv'
    BY <1>6, UserOperationsPreserveInv, Zenon
  <2>2. mNetworks' = mNetworks
    BY <1>6, Zenon DEF setPermissionForUsers, allowProtect, denyProtect, networkVars
  <2> QED
    BY <2>1, <2>2, Zenon
<1> HIDE DEF Shrinks
<1> QED
  BY <1>1, <1>2, <1>4, <1>5, <1>6, Zenon DEF ControllerChanges

(* A change of the controller spoils no mark, and the server knows that it is no longer steady. *)
LEMMA ControllerChangesPreserveMarkInv ==
    ASSUME MarkInv, ControllerChanges
    PROVE  MarkInv'
<1>1. /\ server' = [server EXCEPT !.steady = server.pc = "idle"]
      /\ UNCHANGED <<sockets, channel, targets, client, workload>>
  BY Zenon DEF ControllerChanges
<1>2. /\ server' \in ServerType
      /\ server'.pc = server.pc /\ server'.client = server.client /\ server'.mark = server.mark
      /\ server.pc # "idle" => ~server'.steady
  <2>1. (server.pc = "idle") \in BOOLEAN
    BY Zenon
  <2> QED
    BY <1>1, <2>1, Zenon DEF MarkInv, SocketTypeOK, ServerType
<1>3. /\ Inv' /\ DOMAIN mNetworks' \subseteq DOMAIN mNetworks
      /\ \A n \in DOMAIN mNetworks' : /\ mNetworks'[n].type = mNetworks[n].type
                                      /\ mNetworks'[n].mSecure = mNetworks[n].mSecure
  BY NoNetworkBecomesVpn, Zenon DEF MarkInv
<1>4. \A mark : GoodMark(mark) => GoodMark(mark)'
  BY <1>3, Zenon DEF GoodMark, isVirtualNetwork, isValidNetwork, isVirtual
<1>5. \A fd : Covered(fd)' <=> Covered(fd)
  BY <1>1, Zenon DEF Covered
<1>6. SocketTypeOK'
  BY <1>1, <1>2, Zenon DEF MarkInv, SocketTypeOK
<1>7. (\A fd \in DOMAIN sockets : Covered(fd) => GoodMark(sockets[fd]))'
  BY <1>1, <1>3, <1>5, Zenon DEF MarkInv, GoodMark, isVirtualNetwork, isValidNetwork, isVirtual
<1>8. \A c \in Clients : ChannelOK(c)'
  BY <1>1, Zenon DEF MarkInv, ChannelOK
<1>9. ASSUME server.pc # "idle"
      PROVE  server'.client \in Clients /\ command'.kind = "command" /\ PointOK(command, clientUid, server)'
  <2>1. command' = command /\ clientUid' = clientUid
    BY <1>1, <1>2, Zenon DEF command, clientUid
  <2>2. server.client \in Clients /\ command.kind = "command" /\ PointOK(command, clientUid, server)
    BY <1>9, Zenon DEF MarkInv
  <2>3. GoodMark(server.mark) => GoodMark(server.mark)'
    BY <1>2, <1>3, Zenon DEF GoodMark, isVirtualNetwork, isValidNetwork, isVirtual
  <2>4. Covered(command.fd)' <=> Covered(command.fd)
    BY <1>5, <2>1, Zenon DEF Covered
  <2>5. PointOK(command, clientUid, server)'
    BY <1>2, <1>9, <2>1, <2>2, <2>3, <2>4, Zenon DEF PointOK
  <2> QED
    BY <1>2, <2>1, <2>2, <2>5, Zenon
<1> QED
  BY <1>2, <1>3, <1>6, <1>7, <1>8, <1>9, Zenon DEF MarkInv

-----------------------------------------------------------------------------
(* Steps of the applications *)

(* A thread that is not waiting for the server disturbs nothing but its own call. *)
LEMMA ThreadStepPreservesMarkInv ==
    ASSUME MarkInv, NEW c \in Clients, channel[c].kind # "command", UNCHANGED <<vars, server, workload>>,
           DOMAIN channel' = Clients, client' \in [Clients -> CallType],
           \A d \in Clients \ {c} : channel'[d] = channel[d] /\ client'[d] = client[d],
           ChannelOK(c)',
           targets' \in [DOMAIN FdsOf -> TargetType],
           sockets' \in [DOMAIN sockets' -> Fwmark],
           \A fd \in DOMAIN sockets' :
              (fd \in DOMAIN sockets /\ sockets'[fd] = sockets[fd]) \/ GoodMark(sockets'[fd])
    PROVE  MarkInv'
<1>1. /\ Inv'
      /\ \A fd : Covered(fd)' <=> Covered(fd)
      /\ \A cmd, uid, s : PointOK(cmd, uid, s)' <=> PointOK(cmd, uid, s)
  BY SameController, Zenon DEF MarkInv
<1>2. SocketTypeOK'
  BY Zenon DEF MarkInv, SocketTypeOK
<1>3. (\A fd \in DOMAIN sockets : Covered(fd) => GoodMark(sockets[fd]))'
  BY <1>1, Zenon DEF MarkInv, GoodMark, isVirtualNetwork, isValidNetwork, vars, networkVars
<1>4. \A d \in Clients : ChannelOK(d)'
  BY DEF MarkInv, ChannelOK
<1>5. ASSUME server.pc # "idle"
      PROVE  server'.client \in Clients /\ command'.kind = "command" /\ PointOK(command, clientUid, server)'
  <2>1. server.client \in Clients \ {c} /\ command.kind = "command" /\ PointOK(command, clientUid, server)
    BY <1>5, Zenon DEF MarkInv, command
  <2>2. command' = command /\ clientUid' = clientUid
    BY <2>1, Zenon DEF command, clientUid
  <2> QED
    BY <1>1, <2>1, <2>2, Zenon
<1> QED
  BY <1>1, <1>2, <1>3, <1>4, <1>5, Zenon DEF MarkInv

(* What a thread's own step may do besides opening and closing sockets. *)
CallStep(c) ==
    /\ DOMAIN channel' = Clients /\ client' \in [Clients -> CallType]
    /\ \A d \in Clients \ {c} : channel'[d] = channel[d] /\ client'[d] = client[d]
    /\ ChannelOK(c)'

(* FwmarkClient::send leaves the thread waiting, with a command or with the answer OK. *)
LEMMA SendIsCallStep ==
    ASSUME MarkInv, NEW c \in Clients, UNCHANGED workload,
           NEW cmdId, NEW fd, NEW netId \in NetIdOrUnset, NEW uid, NEW info,
           cmdId = "SELECT_FOR_USER" => fd \in FdsOf[ProcessOf[c]] /\ "user" \in workload[c],
           NEW pc \in ClientPoints \ {"idle"}, NEW f \in Fds \cup Clients \cup {"none"}, NEW n \in NetIdOrUnset,
           send(c, Command(cmdId, fd, netId, uid, info), Call(pc, f, n))
    PROVE  CallStep(c)
<1> DEFINE call == Call(pc, f, n)
           cmd == Command(cmdId, fd, netId, uid, info)
<1>1. call = [pc |-> pc, fd |-> f, netId |-> n, refused |-> FALSE]
  BY Zenon DEF Call
<1>2. /\ call \in CallType /\ call.pc = pc
      /\ [call EXCEPT !.refused = TRUE] \in CallType /\ [call EXCEPT !.refused = TRUE].pc = pc
  <2>1. call \in CallType /\ call.pc = pc
    BY <1>1 DEF CallType
  <2> HIDE DEF call
  <2> QED
    BY <2>1, Zenon DEF CallType
<1>3. client \in [Clients -> CallType] /\ DOMAIN channel = Clients
  BY Zenon DEF MarkInv, SocketTypeOK
<1>4. \E k \in CallType, x \in {cmd, Reply("OK")} :
         client' = [client EXCEPT ![c] = k] /\ k.pc = pc /\ channel' = [channel EXCEPT ![c] = x]
  BY <1>2, Zenon DEF send
<1> HIDE DEF call
<1>5. PICK k \in CallType, x \in {cmd, Reply("OK")} :
         client' = [client EXCEPT ![c] = k] /\ k.pc = pc /\ channel' = [channel EXCEPT ![c] = x]
  BY <1>4, Zenon
<1>6. channel'[c] = x /\ client'[c].pc # "idle"
  BY <1>3, <1>5, Zenon
<1>7. ChannelOK(c)'
  BY <1>5, <1>6 DEF ChannelOK, Command, Reply
<1> QED
  BY <1>3, <1>5, <1>7, Zenon DEF CallStep

(* A call that returns leaves nothing behind on its connection. *)
LEMMA FinishIsCallStep ==
    ASSUME MarkInv, NEW c \in Clients, Finish(c)
    PROVE  CallStep(c)
<1>1. ReturnedCall \in CallType /\ ReturnedCall.pc = "idle"
  BY Zenon DEF ReturnedCall, CallType, ClientPoints, NetIdOrUnset
<1>2. client \in [Clients -> CallType] /\ DOMAIN channel = Clients
  BY Zenon DEF MarkInv, SocketTypeOK
<1>3. channel'[c] = Silence
  BY <1>2, Zenon DEF Finish
<1>4. ChannelOK(c)'
  BY <1>3 DEF ChannelOK, Silence
<1> QED
  BY <1>1, <1>2, <1>4, Zenon DEF CallStep, Finish

(* So does one that never uses it. *)
LEMMA NoCallStep ==
    ASSUME MarkInv, NEW c \in Clients, UNCHANGED <<channel, client, workload>>
    PROVE  CallStep(c)
BY Zenon DEF MarkInv, SocketTypeOK, CallStep, ChannelOK

(* A thread between calls, or one that has been answered, is not waiting for the server. *)
LEMMA NotWaiting ==
    ASSUME MarkInv, NEW c \in Clients, Idling(c) \/ channel[c].kind = "reply"
    PROVE  channel[c].kind # "command"
BY Zenon DEF MarkInv, ChannelOK, Idling

(* Opening a socket with a good mark, and closing one, keep the marks good. *)
LEMMA OpenAndClose ==
    ASSUME MarkInv, NEW fd, NEW mark \in Fwmark, GoodMark(mark),
           sockets' = WithSocket(fd, mark) \/ sockets' = WithoutSocket(fd) \/ sockets' = sockets
    PROVE  /\ sockets' \in [DOMAIN sockets' -> Fwmark]
           /\ \A f \in DOMAIN sockets' :
                 (f \in DOMAIN sockets /\ sockets'[f] = sockets[f]) \/ GoodMark(sockets'[f])
<1>1. sockets \in [DOMAIN sockets -> Fwmark]
  BY Zenon DEF MarkInv, SocketTypeOK
<1> QED
  BY <1>1, Zenon DEF WithSocket, WithoutSocket

(* The mark of an accepted socket is good: it has none, or it counts as chosen. *)
LEMMA IncomingMarksAreGood ==
    ASSUME MarkInv
    PROVE  \A mark \in IncomingMarks : mark \in Fwmark /\ GoodMark(mark)
<1>1. DOMAIN mNetworks \subseteq AllNetIds /\ \A n \in DOMAIN mNetworks : mNetworks[n].mPermission \in Permissions
  BY Zenon DEF MarkInv, Inv, TypeOK, Network
<1>2. ASSUME NEW n \in DOMAIN mNetworks
      PROVE  LET mark == [netId |-> n, explicitlySelected |-> TRUE, protectedFromVpn |-> TRUE,
                          permission |-> mNetworks[n].mPermission]
             IN  mark \in Fwmark /\ GoodMark(mark)
  BY <1>1, Zenon DEF GoodMark, Fwmark
<1> QED
  BY <1>2, NoMarkIsGood, Zenon DEF IncomingMarks, MarkInv

(* The step of a thread that opens or closes one socket at most. *)
LEMMA SocketStepPreservesMarkInv ==
    ASSUME MarkInv, NEW c \in Clients, Idling(c) \/ channel[c].kind = "reply", CallStep(c),
           UNCHANGED <<vars, server, workload>>,
           targets' \in [DOMAIN FdsOf -> TargetType],
           NEW fd, NEW mark \in Fwmark, GoodMark(mark),
           sockets' = WithSocket(fd, mark) \/ sockets' = WithoutSocket(fd) \/ sockets' = sockets
    PROVE  MarkInv'
BY NotWaiting, OpenAndClose, ThreadStepPreservesMarkInv, Zenon DEF CallStep

(* The case of one that leaves the targets alone and opens no socket. *)
LEMMA PlainStepPreservesMarkInv ==
    ASSUME MarkInv, NEW c \in Clients, Idling(c) \/ channel[c].kind = "reply", CallStep(c),
           UNCHANGED <<vars, server, workload, targets>>,
           NEW fd, sockets' = WithoutSocket(fd) \/ sockets' = sockets
    PROVE  MarkInv'
<1>1. NoMark \in Fwmark /\ GoodMark(NoMark)
  BY NoMarkIsGood, Zenon DEF MarkInv
<1>2. targets' \in [DOMAIN FdsOf -> TargetType]
  BY Zenon DEF MarkInv, SocketTypeOK
<1> QED
  BY <1>1, <1>2, SocketStepPreservesMarkInv, Zenon

(* The command and the call of a thread that marks a socket of its process are well formed. *)
LEMMA ArgumentsTyped ==
    /\ \A c \in Clients : \A fd \in FdsOf[ProcessOf[c]] : fd \in Fds
    /\ 0 \in NetIdOrUnset /\ NETID_UNSET \in NetIdOrUnset
    /\ SelectArgs \subseteq NetIdOrUnset /\ TargetArgs \subseteq NetIdOrUnset
BY ClientsAssumption DEF Fds, NetIdOrUnset, NETID_UNSET

(* Each library call begins by keeping the invariant. *)
LEMMA CallBeginsPreservesMarkInv ==
    ASSUME MarkInv, NEW c \in Clients, CallBegins(c)
    PROVE  MarkInv'
<1>1. NoMark \in Fwmark /\ GoodMark(NoMark)
  BY NoMarkIsGood, Zenon DEF MarkInv
<1>2. /\ targets \in [DOMAIN FdsOf -> TargetType] /\ ProcessOf[c] \in DOMAIN FdsOf
      /\ targets[ProcessOf[c]].process \in NetIdOrUnset
  BY ClientsAssumption, Zenon DEF MarkInv, SocketTypeOK, TargetType
<1>3. ASSUME Idling(c), UNCHANGED sockets, Untouched, NEW cmdId, NEW fd \in Fds \cup {"none"},
             NEW netId \in NetIdOrUnset, NEW uid, NEW info, NEW n \in NetIdOrUnset,
             cmdId = "SELECT_FOR_USER" => fd \in FdsOf[ProcessOf[c]] /\ "user" \in workload[c],
             NEW pc \in {"connect", "ignored"},
             send(c, Command(cmdId, fd, netId, uid, info), Call(pc, fd, n))
      PROVE  MarkInv'
  <2>1. UNCHANGED <<vars, server, targets, workload>>
    BY <1>3, Zenon DEF Untouched
  <2>2. CallStep(c)
    BY <1>3, <2>1, SendIsCallStep, Zenon DEF ClientPoints
  <2> QED
    BY <1>3, <2>1, <2>2, PlainStepPreservesMarkInv, Zenon
<1>4. CASE netdClientSocket(c)
  <2>1. UNCHANGED <<vars, server, targets, workload>> /\ Idling(c)
    BY <1>4, Zenon DEF netdClientSocket, Untouched
  <2>2. PICK fd \in UnusedFds(c) :
           /\ sockets' = WithSocket(fd, NoMark)
           /\ \/ UNCHANGED <<channel, client, refusals>>
              \/ send(c, SelectCommand(fd, targets[ProcessOf[c]].process),
                      Call("socket", fd, targets[ProcessOf[c]].process))
    BY <1>4, Zenon DEF netdClientSocket
  <2>3. fd \in Fds
    BY ArgumentsTyped, Zenon DEF UnusedFds
  <2>4. CallStep(c)
    BY <1>2, <2>1, <2>2, <2>3, NoCallStep, SendIsCallStep, Zenon DEF SelectCommand, ClientPoints
  <2>5. targets' \in [DOMAIN FdsOf -> TargetType]
    BY <1>2, <2>1, Zenon
  <2> QED
    BY <1>1, <2>1, <2>2, <2>4, <2>5, SocketStepPreservesMarkInv, Zenon
<1>5. CASE netdClientAccept4(c)
  <2>1. UNCHANGED <<vars, server, targets, workload>> /\ Idling(c)
    BY <1>5, Zenon DEF netdClientAccept4, Untouched
  <2>2. PICK fd \in UnusedFds(c), mark \in IncomingMarks :
           /\ sockets' = WithSocket(fd, mark)
           /\ send(c, Command("ON_ACCEPT", fd, 0, 0, FALSE), Call("accept", fd, NETID_UNSET))
    BY <1>5, Zenon DEF netdClientAccept4
  <2>3. fd \in Fds /\ mark \in Fwmark /\ GoodMark(mark)
    BY ArgumentsTyped, IncomingMarksAreGood, Zenon DEF UnusedFds
  <2>4. CallStep(c)
    BY <2>1, <2>2, <2>3, SendIsCallStep, ArgumentsTyped, Zenon DEF ClientPoints
  <2>5. targets' \in [DOMAIN FdsOf -> TargetType]
    BY <1>2, <2>1, Zenon
  <2> QED
    BY <2>1, <2>2, <2>3, <2>4, <2>5, SocketStepPreservesMarkInv, Zenon
<1>6. OpenFds(c) \subseteq Fds /\ OpenFds(c) \subseteq FdsOf[ProcessOf[c]]
  BY ArgumentsTyped, Zenon DEF OpenFds
<1>7. CASE netdClientConnect(c)
  BY <1>3, <1>6, <1>7, ArgumentsTyped, Zenon DEF netdClientConnect
<1>8. CASE netdClientSend(c)
  BY <1>3, <1>6, <1>8, ArgumentsTyped, Zenon DEF netdClientSend
<1>9. CASE setNetworkForSocket(c)
  BY <1>3, <1>6, <1>9, ArgumentsTyped, Zenon DEF setNetworkForSocket, SelectCommand
<1>10. CASE protectFromVpn(c)
  BY <1>3, <1>6, <1>10, ArgumentsTyped, Zenon DEF protectFromVpn
<1>11. CASE "user" \in workload[c] /\ setNetworkForUser(c)
  BY <1>3, <1>6, <1>11, ArgumentsTyped, Zenon DEF setNetworkForUser
<1>12. CASE queryUserAccess(c)
  BY <1>3, <1>12, ArgumentsTyped, Zenon DEF queryUserAccess
<1>13. CASE tagSocket(c)
  BY <1>3, <1>6, <1>13, ArgumentsTyped, Zenon DEF tagSocket
<1>14. CASE setAllowNetworkingForProcess(c)
  <2>1. /\ UNCHANGED <<vars, server, sockets, channel, client, workload>> /\ Idling(c)
        /\ targets' = [targets EXCEPT ![ProcessOf[c]] =
                          [targets[ProcessOf[c]] EXCEPT !.allowed = ~targets[ProcessOf[c]].allowed]]
    BY <1>14, Zenon DEF setAllowNetworkingForProcess, serverVars
  <2>2. [targets[ProcessOf[c]] EXCEPT !.allowed = ~targets[ProcessOf[c]].allowed] \in TargetType
    BY <1>2, Zenon DEF TargetType
  <2>3. targets' \in [DOMAIN FdsOf -> TargetType]
    BY <1>2, <2>1, <2>2, Zenon
  <2> QED
    BY <1>1, <2>1, <2>3, NoCallStep, SocketStepPreservesMarkInv, Zenon
<1>15. CASE closeSocket(c)
  <2>1. UNCHANGED <<vars, server, channel, client, workload, targets>> /\ Idling(c)
    BY <1>15, Zenon DEF closeSocket, clientVars
  <2>2. PICK fd \in OpenFds(c) : sockets' = WithoutSocket(fd)
    BY <1>15, Zenon DEF closeSocket
  <2> QED
    BY <2>1, <2>2, NoCallStep, PlainStepPreservesMarkInv, Zenon
<1>16. ASSUME NEW target \in {"process", "resolv"}, setNetworkForTarget(c, target) PROVE MarkInv'
  <2>1. UNCHANGED <<vars, server, workload>> /\ Idling(c)
    BY <1>16, Zenon DEF setNetworkForTarget
  <2>2. PICK netId \in TargetArgs :
           \/ /\ targets' = [targets EXCEPT ![ProcessOf[c]] = [targets[ProcessOf[c]] EXCEPT ![target] = netId]]
              /\ UNCHANGED <<channel, client, sockets>>
           \/ /\ sockets' = WithSocket(c, NoMark)
              /\ send(c, SelectCommand(c, netId), Call(target, c, netId))
              /\ UNCHANGED targets
    BY <1>16, Zenon DEF setNetworkForTarget
  <2>3. netId \in NetIdOrUnset
    BY ArgumentsTyped, Zenon
  <2>4. [targets[ProcessOf[c]] EXCEPT ![target] = netId] \in TargetType
    <3>1. targets[ProcessOf[c]] \in TargetType
      BY <1>2, Zenon
    <3>2. CASE target = "process"
      BY <2>3, <3>1, <3>2, Zenon DEF TargetType
    <3>3. CASE target = "resolv"
      BY <2>3, <3>1, <3>3, Zenon DEF TargetType
    <3> QED
      BY <3>2, <3>3, Zenon
  <2>5. targets' \in [DOMAIN FdsOf -> TargetType]
    BY <1>2, <2>2, <2>4, Zenon
  <2>6. CallStep(c)
    BY <2>1, <2>2, <2>3, NoCallStep, SendIsCallStep, Zenon DEF SelectCommand, ClientPoints
  <2> QED
    BY <1>1, <2>1, <2>2, <2>5, <2>6, SocketStepPreservesMarkInv, Zenon
<1> QED
  BY <1>4, <1>5, <1>7, <1>8, <1>9, <1>10, <1>11, <1>12, <1>13, <1>14, <1>15, <1>16, Zenon DEF CallBegins

(* Each library call goes on, and ends, keeping the invariant. *)
LEMMA CallContinuesPreservesMarkInv ==
    ASSUME MarkInv, NEW c \in Clients, CallContinues(c)
    PROVE  MarkInv'
<1>1. client[c] \in CallType /\ targets \in [DOMAIN FdsOf -> TargetType] /\ ProcessOf[c] \in DOMAIN FdsOf
  BY ClientsAssumption, Zenon DEF MarkInv, SocketTypeOK
<1>2. client[c].fd \in Fds \cup Clients \cup {"none"} /\ client[c].netId \in NetIdOrUnset
  BY <1>1, Zenon DEF CallType
<1>3. CASE socketReturns(c) \/ acceptReturns(c) \/ callReturns(c)
  <2>1. /\ UNCHANGED <<vars, server, targets, workload>> /\ channel[c].kind = "reply" /\ Finish(c)
        /\ sockets' = WithoutSocket(client[c].fd) \/ sockets' = sockets
    BY <1>3, Zenon DEF socketReturns, acceptReturns, callReturns, Untouched, Answered
  <2> QED
    BY <2>1, FinishIsCallStep, PlainStepPreservesMarkInv, Zenon
<1>4. CASE connectContinues(c)
  <2>1. /\ UNCHANGED <<vars, server, targets, workload, sockets>> /\ channel[c].kind = "reply"
        /\ \/ Finish(c)
           \/ send(c, Command("ON_CONNECT_COMPLETE", client[c].fd, 0, 0, TRUE),
                   Call("ignored", client[c].fd, NETID_UNSET))
    BY <1>4, Zenon DEF connectContinues, Untouched, Answered
  <2>2. CallStep(c)
    BY <1>2, <2>1, FinishIsCallStep, SendIsCallStep, ArgumentsTyped, Zenon DEF ClientPoints
  <2> QED
    BY <2>1, <2>2, PlainStepPreservesMarkInv, Zenon
<1>5. ASSUME NEW target \in {"process", "resolv"}, targetReturns(c, target) PROVE MarkInv'
  <2>1. /\ UNCHANGED <<vars, server, workload>> /\ channel[c].kind = "reply" /\ Finish(c)
        /\ sockets' = WithoutSocket(c)
        /\ \/ UNCHANGED targets
           \/ targets' = [targets EXCEPT ![ProcessOf[c]] =
                             [targets[ProcessOf[c]] EXCEPT ![target] = client[c].netId]]
    BY <1>5, Zenon DEF targetReturns, Answered
  <2>2. [targets[ProcessOf[c]] EXCEPT ![target] = client[c].netId] \in TargetType
    <3>1. targets[ProcessOf[c]] \in TargetType
      BY <1>1, Zenon
    <3>2. CASE target = "process"
      BY <1>2, <3>1, <3>2, Zenon DEF TargetType
    <3>3. CASE target = "resolv"
      BY <1>2, <3>1, <3>3, Zenon DEF TargetType
    <3> QED
      BY <3>2, <3>3, Zenon
  <2>3. targets' \in [DOMAIN FdsOf -> TargetType]
    BY <1>1, <2>1, <2>2, Zenon
  <2>4. NoMark \in Fwmark /\ GoodMark(NoMark)
    BY NoMarkIsGood, Zenon DEF MarkInv
  <2> QED
    BY <2>1, <2>3, <2>4, FinishIsCallStep, SocketStepPreservesMarkInv, Zenon
<1> QED
  BY <1>3, <1>4, <1>5, Zenon DEF CallContinues

-----------------------------------------------------------------------------
(* The invariant and what follows from it *)

(* No application has called yet. *)
LEMMA ClientInitEstablishesMarkInv == Inv /\ ClientInit => MarkInv
<1> SUFFICES ASSUME Inv, ClientInit PROVE MarkInv
  BY Zenon
<1>1. DOMAIN sockets = {} /\ server = Idle
  BY Zenon DEF ClientInit
<1>2. server \in ServerType /\ server.pc = "idle"
  BY <1>1, NoMarkIsGood, Zenon DEF Idle, ServerType, ServerPoints, Permissions
<1>3. ReturnedCall \in CallType
  BY Zenon DEF ReturnedCall, CallType, ClientPoints, NetIdOrUnset
<1>4. SocketTypeOK
  <2>1. sockets \in [DOMAIN sockets -> Fwmark]
    BY Zenon DEF ClientInit
  <2>2. targets \in [DOMAIN FdsOf -> TargetType]
    BY Zenon DEF ClientInit, TargetType, NetIdOrUnset
  <2> QED
    BY <1>2, <1>3, <2>1, <2>2, Zenon DEF ClientInit, SocketTypeOK
<1>5. \A c \in Clients : ChannelOK(c)
  BY Zenon DEF ClientInit, ChannelOK, Silence
<1> QED
  BY <1>1, <1>2, <1>4, <1>5, Zenon DEF MarkInv

(* A step that changes nothing keeps everything. *)
LEMMA StutteringPreservesMarkInv == ASSUME MarkInv, UNCHANGED socketVars PROVE MarkInv'
<1>1. UNCHANGED <<vars, sockets, channel, server, targets, client, workload>>
  BY Zenon DEF socketVars, serverVars, clientVars
<1>2. /\ Inv'
      /\ \A fd : Covered(fd)' <=> Covered(fd)
      /\ \A cmd, uid, s : PointOK(cmd, uid, s)' <=> PointOK(cmd, uid, s)
  BY <1>1, SameController, Zenon DEF MarkInv
<1>3. SocketTypeOK'
  BY <1>1, Zenon DEF MarkInv, SocketTypeOK
<1>4. (\A fd \in DOMAIN sockets : Covered(fd) => GoodMark(sockets[fd]))'
  BY <1>1, <1>2, Zenon DEF MarkInv, GoodMark, isVirtualNetwork, isValidNetwork, vars, networkVars
<1>5. \A c \in Clients : ChannelOK(c)'
  BY <1>1, Zenon DEF MarkInv, ChannelOK
<1>6. command' = command /\ clientUid' = clientUid
  BY <1>1, Zenon DEF command, clientUid
<1>7. server.pc # "idle" => PointOK(command, clientUid, server)'
  BY <1>1, <1>2, <1>6, Zenon DEF MarkInv
<1> QED
  BY <1>1, <1>2, <1>3, <1>4, <1>5, <1>6, <1>7, Zenon DEF MarkInv

(* Applications, server and controller keep the invariant in whatever order they take steps. *)
LEMMA ClientNextPreservesMarkInv == MarkInv /\ [ClientNext]_socketVars => MarkInv'
<1> SUFFICES ASSUME MarkInv, [ClientNext]_socketVars PROVE MarkInv'
  BY Zenon
<1> QED
  BY CallBeginsPreservesMarkInv, CallContinuesPreservesMarkInv, ServerPreservesMarkInv,
     ControllerChangesPreserveMarkInv, StutteringPreservesMarkInv, Zenon
  DEF ClientNext

(***************************************************************************)
(* FwmarkServer.cpp:176-200 and :225-245: no socket that no proxy marks    *)
(* ever carries the netId of a secure VPN, or of any VPN if it is          *)
(* protected, that its process did not choose; whatever the number of      *)
(* processes and threads, in whatever order they call, and whichever       *)
(* networks are lost meanwhile.                                            *)
(***************************************************************************)
THEOREM MarksAvoidVpns == ClientSpec => []ImplicitMarksAvoidVpns
<1>1. MarkInv => ImplicitMarksAvoidVpns
  BY Zenon DEF MarkInv, ImplicitMarksAvoidVpns, Covered, GoodMark
<1> QED
  BY <1>1, ClientInitEstablishesMarkInv, ClientNextPreservesMarkInv, PTL DEF ClientSpec

(* An open socket gets another mark from the server alone, or it is the socket that *)
(* setNetworkForTarget opens. *)
LEMMA OnlyTheServerMarks ==
    ASSUME MarkInv, [ClientNext]_socketVars,
           NEW fd \in DOMAIN sockets \cap DOMAIN sockets', sockets'[fd] # sockets[fd]
    PROVE  setMark \/ sockets'[fd] = NoMark
<1>1. sockets' # sockets
  BY Zenon
<1>2. \A f, mark : f # fd => WithSocket(f, mark)[fd] = sockets[fd]
  BY Zenon DEF WithSocket
<1>4. \A f : sockets' # WithoutSocket(f)
  BY Zenon DEF WithoutSocket
<1>5. \A f, mark : f \notin DOMAIN sockets => sockets' # WithSocket(f, mark)
  BY <1>2
<1>6. \A f, mark : sockets' = WithSocket(f, mark) => sockets'[fd] = mark
  BY <1>2, Zenon DEF WithSocket
<1>7. ASSUME NEW c \in Clients, CallBegins(c) PROVE sockets'[fd] = NoMark
  <2>1. CASE netdClientSocket(c) \/ netdClientAccept4(c)
    BY <1>5, <2>1, Zenon DEF netdClientSocket, netdClientAccept4, UnusedFds
  <2>2. CASE \/ netdClientConnect(c) \/ netdClientSend(c) \/ setNetworkForSocket(c) \/ protectFromVpn(c)
             \/ setNetworkForUser(c) \/ queryUserAccess(c) \/ tagSocket(c)
    BY <1>1, <2>2, Zenon DEF netdClientConnect, netdClientSend, setNetworkForSocket, protectFromVpn,
       setNetworkForUser, queryUserAccess, tagSocket
  <2>3. CASE setAllowNetworkingForProcess(c)
    BY <1>1, <2>3, Zenon DEF setAllowNetworkingForProcess, serverVars
  <2>4. CASE closeSocket(c)
    BY <1>4, <2>4, Zenon DEF closeSocket
  <2>5. ASSUME NEW target, setNetworkForTarget(c, target) PROVE sockets'[fd] = NoMark
    BY <1>1, <1>6, <2>5, Zenon DEF setNetworkForTarget
  <2> QED
    BY <1>7, <2>1, <2>2, <2>3, <2>4, <2>5, Zenon DEF CallBegins
<1>8. ASSUME NEW c \in Clients, CallContinues(c) PROVE FALSE
  BY <1>1, <1>4, <1>8, Zenon
  DEF CallContinues, socketReturns, acceptReturns, connectContinues, callReturns, targetReturns
<1>9. CASE ServerNext
  BY <1>1, <1>9, Zenon
  DEF ServerNext, ServerStep, readPermission, queryAccess, onConnect, readDefault, selectNetwork,
      readCanProtect, protectFromVpnCommand, leaveVpn, selectForUser, onDataAvailable
<1>10. ~ControllerChanges /\ ~UNCHANGED socketVars
  BY <1>1, Zenon DEF ControllerChanges, socketVars, serverVars
<1> QED
  BY <1>7, <1>8, <1>9, <1>10, Zenon DEF ClientNext

(***************************************************************************)
(* FwmarkServer.cpp:126 and :256: a network that the server lets a process *)
(* select can be used with the mark the socket gets, for any network, UID  *)
(* and permission, if the controller does not change between the question  *)
(* for the permission and the last one.                                    *)
(***************************************************************************)
THEOREM SelectedNetworksAreUsable == ClientSpec => SelectedMarksAreUsable
<1> DEFINE Step == \A fd \in DOMAIN sockets \cap DOMAIN sockets' :
                      sockets'[fd] # sockets[fd] /\ server.steady /\ command.cmdId = "SELECT_NETWORK" =>
                         Usable(sockets'[fd], clientUid)
<1>1. MarkInv /\ [ClientNext]_socketVars => Step
  <2> SUFFICES ASSUME MarkInv, [ClientNext]_socketVars,
                      NEW fd \in DOMAIN sockets \cap DOMAIN sockets', sockets'[fd] # sockets[fd],
                      server.steady, command.cmdId = "SELECT_NETWORK"
               PROVE  Usable(sockets'[fd], clientUid)
    BY Zenon
  <2>1. CASE sockets'[fd] = NoMark
    BY <2>1 DEF Usable, NoMark
  <2>2. CASE setMark
    <3> DEFINE written == [server.mark EXCEPT !.permission = server.permission]
    <3>1. /\ server.pc = "setMark"
          /\ sockets' = IF command.fd \in DOMAIN sockets THEN [sockets EXCEPT ![command.fd] = written] ELSE sockets
      BY <2>2, Zenon DEF setMark
    <3>2. server.mark \in Fwmark /\ server.permission \in Permissions /\ PointOK(command, clientUid, server)
      BY <3>1, CommandAtHand, Zenon
    <3>3. /\ written.netId = server.mark.netId /\ written.permission = server.permission
          /\ written.explicitlySelected = server.mark.explicitlySelected
      BY <3>2, Zenon DEF Fwmark
    <3> HIDE DEF written
    <3>4. sockets'[fd] = written
      BY <3>1, Zenon
    <3>5. written.explicitlySelected => Selectable(clientUid, server.mark.netId, server.permission)
      BY <3>1, <3>2, <3>3, Zenon DEF PointOK
    <3> QED
      BY <3>3, <3>4, <3>5, Zenon DEF Usable, Selectable
  <2> QED
    BY <2>1, <2>2, OnlyTheServerMarks, Zenon
<1>2. MarkInv /\ [ClientNext]_socketVars => [Step]_socketVars
  BY <1>1, Zenon
<1> QED
  BY <1>2, ClientInitEstablishesMarkInv, ClientNextPreservesMarkInv, PTL
  DEF ClientSpec, SelectedMarksAreUsable

-----------------------------------------------------------------------------
(* Sockets being created *)

(* Beside a thread that creates sockets, its process has no thread that closes descriptors or *)
(* chooses networks for them: what else a thread might do to a descriptor it was never given. *)
SocketsArePrivate ==
    \A w \in Workloads : \A c, d \in Clients :
        c # d /\ ProcessOf[c] = ProcessOf[d] /\ "socket" \in w[c] =>
            w[d] \cap {"accept", "close", "select", "user"} = {}

Creating(c) == client[c].pc = "socket"
Chosen(mark, netId) == mark.explicitlySelected /\ mark.netId = netId

(* The server has said that the new socket is on the network of its process. *)
Settled(c) ==
    Creating(c) /\ ~client[c].refused /\ channel[c].kind = "reply" /\ channel[c].error = "OK"

(* The new socket is open; once settled it stays as chosen, also in a command that is being served. *)
CreationOK(c) ==
    /\ Creating(c) =>
          /\ "socket" \in workload[c] /\ client[c].fd \in OpenFds(c) /\ client[c].netId # NETID_UNSET
          /\ channel[c].kind = "command" => channel[c] = SelectCommand(client[c].fd, client[c].netId)
    /\ Settled(c) =>
          /\ Chosen(sockets[client[c].fd], client[c].netId)
          /\ server.pc \notin {"idle", "permission", "query"} /\ command.fd = client[c].fd =>
                Chosen(server.mark, client[c].netId)

(* Who may close a descriptor of another call, and who may choose a network for it. *)
OwnerOK(c) ==
    /\ client[c].pc = "accept" => "accept" \in workload[c] /\ client[c].fd \in FdsOf[ProcessOf[c]]
    /\ channel[c].kind = "command" /\ channel[c].cmdId = "SELECT_NETWORK" =>
          \/ Creating(c) /\ channel[c].fd = client[c].fd
          \/ "select" \in workload[c] /\ channel[c].fd \in FdsOf[ProcessOf[c]]
          \/ channel[c].fd = c

CreationInv ==
    /\ workload \in Workloads
    /\ \A c \in Clients : CreationOK(c) /\ OwnerOK(c)
    /\ \A c, d \in Clients : c # d /\ Creating(c) /\ Creating(d) => client[c].fd # client[d].fd

(* No command but its own chooses a network for a socket that is being created. *)
LEMMA CommandsKeepOffNewSockets ==
    ASSUME MarkInv, CreationInv, SocketsArePrivate, server.pc # "idle",
           NEW c \in Clients, Settled(c), command.fd = client[c].fd
    PROVE  command.cmdId \notin {"SELECT_NETWORK", "SELECT_FOR_USER"}
<1> DEFINE d == server.client
<1>1. d \in Clients /\ channel[d].kind = "command" /\ command = channel[d]
  BY Zenon DEF MarkInv, command
<1>2. d # c /\ Creating(c)
  BY <1>1, Zenon DEF Settled
<1>3. "socket" \in workload[c] /\ client[c].fd \in FdsOf[ProcessOf[c]]
  BY <1>2, Zenon DEF CreationInv, CreationOK, OpenFds
<1> HIDE DEF d
<1>4. command.fd \in FdsOf[ProcessOf[d]] =>
         "select" \notin workload[d] /\ "user" \notin workload[d]
  <2> SUFFICES ASSUME command.fd \in FdsOf[ProcessOf[d]]
               PROVE  "select" \notin workload[d] /\ "user" \notin workload[d]
    BY Zenon
  <2>1. ProcessOf[c] \in DOMAIN FdsOf /\ ProcessOf[d] \in DOMAIN FdsOf
    BY <1>1, ClientsAssumption, Zenon
  <2>2. ProcessOf[c] = ProcessOf[d]
    BY <1>3, <2>1, ClientsAssumption, Zenon
  <2> QED
    BY <1>1, <1>2, <1>3, <2>2, Zenon DEF SocketsArePrivate, CreationInv
<1>5. client[c].fd # d
  BY <1>1, <1>3, ArgumentsTyped, ClientsAssumption, Zenon
<1>6. command.cmdId # "SELECT_FOR_USER"
  BY <1>1, <1>4, Zenon DEF MarkInv, ChannelOK
<1>7. command.cmdId # "SELECT_NETWORK"
  BY <1>1, <1>2, <1>4, <1>5, Zenon DEF CreationInv, OwnerOK
<1> QED
  BY <1>6, <1>7, Zenon

(* The command of a thread that creates a socket chooses the network it asked for. *)
LEMMA CreatorsCommand ==
    ASSUME MarkInv, CreationInv, server.pc # "idle", Creating(server.client)
    PROVE  /\ command.cmdId = "SELECT_NETWORK" /\ command.fd = client[server.client].fd
           /\ command.netId = client[server.client].netId /\ command.netId # NETID_UNSET
           /\ command.fd \in DOMAIN sockets
<1>1. server.client \in Clients /\ command.kind = "command"
  BY Zenon DEF MarkInv
<1>2. command = SelectCommand(client[server.client].fd, client[server.client].netId)
  BY <1>1, Zenon DEF CreationInv, CreationOK, command
<1>3. client[server.client].netId # NETID_UNSET /\ client[server.client].fd \in DOMAIN sockets
  BY <1>1, Zenon DEF CreationInv, CreationOK, OpenFds
<1> QED
  BY <1>2, <1>3, Zenon DEF SelectCommand, Command

(* A question of the server keeps the choice in its mark. *)
LEMMA ContinueKeepsCreation ==
    ASSUME MarkInv, CreationInv, UNCHANGED <<clientVars, sockets>>, server.pc # "idle",
           NEW pc, NEW permission, NEW mark, Continue(pc, permission, mark),
           \A c \in Clients : Settled(c) /\ command.fd = client[c].fd /\ pc # "query" =>
              Chosen(mark, client[c].netId)
    PROVE  CreationInv'
<1>1. /\ channel' = channel /\ client' = client /\ workload' = workload
      /\ server'.client = server.client /\ server'.mark = mark /\ server'.pc = pc
  BY Zenon DEF Continue, clientVars, MarkInv, SocketTypeOK, ServerType
<1>2. command' = command
  BY <1>1, Zenon DEF command
<1>3. \A c \in Clients : (Settled(c)' <=> Settled(c)) /\ (Creating(c)' <=> Creating(c))
  BY <1>1, Zenon DEF Settled, Creating
<1>4. \A c \in Clients : CreationOK(c)'
  BY <1>1, <1>2, <1>3, Zenon DEF CreationInv, CreationOK, OpenFds, Chosen, SelectCommand, Command
<1>5. \A c \in Clients : OwnerOK(c)'
  BY <1>1, <1>3, Zenon DEF CreationInv, OwnerOK
<1> QED
  BY <1>1, <1>3, <1>4, <1>5, Zenon DEF CreationInv

(* A reply settles at most the socket that the command was about. *)
LEMMA ReturnKeepsCreation ==
    ASSUME MarkInv, CreationInv, UNCHANGED clientVars, server.pc # "idle",
           NEW error, Return(error), DOMAIN sockets' = DOMAIN sockets,
           \A c \in Clients : Settled(c) => Chosen(sockets'[client[c].fd], client[c].netId),
           Creating(server.client) /\ error = "OK" =>
              Chosen(sockets'[client[server.client].fd], client[server.client].netId)
    PROVE  CreationInv'
<1> DEFINE d == server.client
<1>1. /\ client' = client /\ workload' = workload /\ server'.pc = "idle"
      /\ channel' = [channel EXCEPT ![d] = Reply(error)]
  BY Zenon DEF Return, clientVars, Idle
<1>2. d \in Clients /\ DOMAIN channel = Clients
  BY Zenon DEF MarkInv, SocketTypeOK
<1> HIDE DEF d
<1>3. /\ channel'[d] = Reply(error)
      /\ \A c \in Clients \ {d} : channel'[c] = channel[c]
  BY <1>1, <1>2, Zenon
<1>4. \A c \in Clients : Creating(c)' <=> Creating(c)
  BY <1>1, Zenon DEF Creating
<1>5. ASSUME NEW c \in Clients PROVE CreationOK(c)' /\ OwnerOK(c)'
  <2>1. CASE c = d
    <3>1. channel'[c].kind = "reply" /\ channel'[c].error = error
      BY <1>3, <2>1 DEF Reply
    <3>2. Settled(c)' => Chosen(sockets'[client[c].fd], client[c].netId)
      BY <1>1, <1>4, <2>1, <3>1, Zenon DEF Settled, d
    <3>3. CreationOK(c)'
      BY <1>1, <1>4, <3>1, <3>2, Zenon DEF CreationInv, CreationOK, OpenFds, Chosen
    <3> QED
      BY <1>1, <1>4, <3>1, <3>3, Zenon DEF CreationInv, OwnerOK
  <2>2. CASE c # d
    <3>1. channel'[c] = channel[c]
      BY <1>3, <2>2, Zenon
    <3>2. Settled(c)' <=> Settled(c)
      BY <1>1, <1>4, <3>1, Zenon DEF Settled
    <3>3. CreationOK(c)'
      BY <1>1, <1>4, <3>1, <3>2 DEF CreationInv, CreationOK, OpenFds, Chosen, SelectCommand, Command
    <3> QED
      BY <1>1, <1>4, <3>1, <3>3, Zenon DEF CreationInv, OwnerOK
  <2> QED
    BY <2>1, <2>2, Zenon
<1> QED
  BY <1>1, <1>4, <1>5, Zenon DEF CreationInv

(* What the server knows of a settled socket while it serves another command for it. *)
LEMMA MarkAtHandIsChosen ==
    ASSUME MarkInv, CreationInv, server.pc \notin {"idle", "permission", "query"},
           NEW c \in Clients, Settled(c), command.fd = client[c].fd
    PROVE  Chosen(server.mark, client[c].netId)
BY Zenon DEF CreationInv, CreationOK

(* The first step of a command keeps the choice, as it reads the mark afresh. *)
LEMMA ReadPermissionKeepsCreation ==
    ASSUME MarkInv, CreationInv, SocketsArePrivate, readPermission, UNCHANGED clientVars
    PROVE  CreationInv'
<1> DEFINE permission == getPermissionForUser(clientUid)
           mark == IF command.fd \in DOMAIN sockets THEN sockets[command.fd] ELSE NoMark
<1>1. server.pc # "idle" /\ UNCHANGED sockets
  BY Zenon DEF readPermission
<1>2. \A c \in Clients : Settled(c) =>
         /\ Chosen(sockets[client[c].fd], client[c].netId) /\ client[c].fd \in DOMAIN sockets
         /\ command.fd = client[c].fd => command.cmdId \notin {"SELECT_NETWORK", "SELECT_FOR_USER"}
  BY <1>1, CommandsKeepOffNewSockets, Zenon DEF CreationInv, CreationOK, Settled, OpenFds
<1>3. \A c \in Clients : Settled(c) /\ command.fd = client[c].fd => Chosen(mark, client[c].netId)
  BY <1>2, Zenon
<1>4. ASSUME NEW error, Return(error), command.cmdId = "SELECT_NETWORK" => error # "OK"
      PROVE  CreationInv'
  BY <1>1, <1>2, <1>4, CreatorsCommand, ReturnKeepsCreation, Zenon
<1>5. \/ \E error \in {"EBADMSG", "EPERM"} : Return(error)
      \/ command.cmdId # "SELECT_NETWORK" /\ Return("OK")
      \/ Continue("query", permission, NoMark)
      \/ \E pc, p : Continue(pc, p, mark)
      \/ command.cmdId = "SELECT_NETWORK" /\ \E pc, p, m : Continue(pc, p, m)
  BY Zenon DEF readPermission
<1> HIDE DEF mark, permission
<1>6. CASE \E error \in {"EBADMSG", "EPERM"} : Return(error)
  BY <1>4, <1>6, Zenon
<1>7. CASE command.cmdId # "SELECT_NETWORK" /\ Return("OK")
  BY <1>4, <1>7, Zenon
<1>8. CASE Continue("query", permission, NoMark)
  BY <1>1, <1>8, ContinueKeepsCreation, Zenon
<1>9. CASE \E pc, p : Continue(pc, p, mark)
  BY <1>1, <1>3, <1>9, ContinueKeepsCreation, Zenon
<1>10. CASE command.cmdId = "SELECT_NETWORK" /\ \E pc, p, m : Continue(pc, p, m)
  BY <1>1, <1>2, <1>10, ContinueKeepsCreation, Zenon
<1> QED
  BY <1>5, <1>6, <1>7, <1>8, <1>9, <1>10, Zenon

(* The questions in between: connect and protect keep a chosen network, and select is about *)
(* another socket. *)
LEMMA QuestionsKeepCreation ==
    ASSUME MarkInv, CreationInv, SocketsArePrivate, UNCHANGED clientVars,
           \/ queryAccess \/ onConnect \/ readDefault \/ selectNetwork \/ readCanProtect
           \/ protectFromVpnCommand \/ leaveVpn \/ selectForUser
    PROVE  CreationInv'
<1>1. server.pc \notin {"idle", "permission", "setMark"} /\ UNCHANGED sockets
  BY Zenon DEF queryAccess, onConnect, readDefault, selectNetwork, readCanProtect, protectFromVpnCommand,
     leaveVpn, selectForUser
<1>2. server.mark \in Fwmark /\ PointOK(command, clientUid, server)
  BY <1>1, CommandAtHand, Zenon
<1>3. \A c \in Clients : Settled(c) /\ command.fd = client[c].fd =>
         /\ server.pc # "query" => Chosen(server.mark, client[c].netId)
         /\ command.cmdId \notin {"SELECT_NETWORK", "SELECT_FOR_USER"}
  BY <1>1, MarkAtHandIsChosen, CommandsKeepOffNewSockets, Zenon
<1>4. ASSUME NEW error, Return(error), command.cmdId = "SELECT_NETWORK" => error # "OK"
      PROVE  CreationInv'
  <2>1. \A c \in Clients : Settled(c) => Chosen(sockets[client[c].fd], client[c].netId)
    BY Zenon DEF CreationInv, CreationOK
  <2> QED
    BY <1>1, <1>4, <2>1, CreatorsCommand, ReturnKeepsCreation, Zenon
<1>5. ASSUME NEW pc, NEW p, NEW m, Continue(pc, p, m),
             \A c \in Clients : Settled(c) /\ command.fd = client[c].fd => Chosen(m, client[c].netId)
      PROVE  CreationInv'
  BY <1>1, <1>5, ContinueKeepsCreation, Zenon
<1>6. CASE queryAccess
  <2>1. command.cmdId # "SELECT_NETWORK"
    BY <1>2, <1>6, Zenon DEF queryAccess, PointOK
  <2> QED
    BY <1>4, <1>6, <2>1, Zenon DEF queryAccess
<1>7. CASE onConnect
  <2>1. \A c \in Clients : ~(Settled(c) /\ command.fd = client[c].fd /\ ~server.mark.explicitlySelected)
    BY <1>3, <1>7, Zenon DEF onConnect, Chosen
  <2>2. \/ \E pc, p : Continue(pc, p, server.mark)
        \/ ~server.mark.explicitlySelected /\ \E pc, p, m : Continue(pc, p, m)
    BY <1>7, Zenon DEF onConnect
  <2> QED
    BY <1>3, <1>5, <1>7, <2>1, <2>2, Zenon DEF onConnect
<1>8. CASE readDefault
  <2>1. \A c \in Clients : ~(Settled(c) /\ command.fd = client[c].fd)
    BY <1>2, <1>3, <1>8, Zenon DEF readDefault, PointOK, Chosen
  <2> QED
    BY <1>5, <1>8, <2>1, Zenon DEF readDefault
<1>9. CASE selectNetwork
  <2>1. command.cmdId = "SELECT_NETWORK"
    BY <1>2, <1>9, Zenon DEF selectNetwork, PointOK
  <2>2. \/ \E error : Return(error) /\ error # "OK"
        \/ \E pc, p, m : Continue(pc, p, m)
    BY <1>9, Zenon DEF selectNetwork
  <2> QED
    BY <1>3, <1>4, <1>5, <2>1, <2>2, Zenon
<1>10. CASE readCanProtect
  <2>1. command.cmdId = "SELECT_NETWORK"
    BY <1>2, <1>10, Zenon DEF readCanProtect, PointOK
  <2> QED
    BY <1>3, <1>5, <1>10, <2>1, Zenon DEF readCanProtect
<1>11. CASE protectFromVpnCommand
  <2> DEFINE protected == [server.mark EXCEPT !.protectedFromVpn = TRUE]
  <2>1. /\ protected.netId = server.mark.netId
        /\ protected.explicitlySelected = server.mark.explicitlySelected
    BY <1>2, Zenon DEF Fwmark
  <2>2. Return("EPERM") \/ \E p : Continue("leaveVpn", p, protected)
    BY <1>11, Zenon DEF protectFromVpnCommand
  <2> HIDE DEF protected
  <2>3. \A c \in Clients : Settled(c) /\ command.fd = client[c].fd => Chosen(protected, client[c].netId)
    BY <1>3, <1>11, <2>1, Zenon DEF Chosen, protectFromVpnCommand
  <2> QED
    BY <1>4, <1>5, <2>2, <2>3, Zenon
<1>12. CASE leaveVpn
  BY <1>3, <1>5, <1>12, Zenon DEF leaveVpn
<1>13. CASE selectForUser
  <2>1. command.cmdId = "SELECT_FOR_USER"
    BY <1>2, <1>13, Zenon DEF selectForUser, PointOK
  <2> QED
    BY <1>3, <1>5, <1>13, <2>1, Zenon DEF selectForUser
<1> QED
  BY <1>6, <1>7, <1>8, <1>9, <1>10, <1>11, <1>12, <1>13, Zenon

(* setsockopt either settles the new socket or writes back what was chosen for it. *)
LEMMA SetMarkKeepsCreation ==
    ASSUME MarkInv, CreationInv, SocketsArePrivate, setMark, UNCHANGED clientVars
    PROVE  CreationInv'
<1> DEFINE written == [server.mark EXCEPT !.permission = server.permission]
<1>1. /\ server.pc = "setMark" /\ Return("OK")
      /\ sockets' = IF command.fd \in DOMAIN sockets THEN [sockets EXCEPT ![command.fd] = written] ELSE sockets
  BY Zenon DEF setMark
<1>2. server.mark \in Fwmark /\ PointOK(command, clientUid, server)
  BY <1>1, CommandAtHand, Zenon
<1>3. /\ written.netId = server.mark.netId
      /\ written.explicitlySelected = server.mark.explicitlySelected
  BY <1>2, Zenon DEF Fwmark
<1> HIDE DEF written
<1>4. /\ DOMAIN sockets' = DOMAIN sockets
      /\ \A fd \in DOMAIN sockets : sockets'[fd] = IF fd = command.fd THEN written ELSE sockets[fd]
  BY <1>1, Zenon
<1>5. \A c \in Clients : Settled(c) => Chosen(sockets'[client[c].fd], client[c].netId)
  <2> SUFFICES ASSUME NEW c \in Clients, Settled(c)
               PROVE  Chosen(sockets'[client[c].fd], client[c].netId)
    BY Zenon
  <2>1. client[c].fd \in DOMAIN sockets /\ Chosen(sockets[client[c].fd], client[c].netId)
    BY Zenon DEF CreationInv, CreationOK, Settled, OpenFds
  <2>2. command.fd = client[c].fd => Chosen(server.mark, client[c].netId)
    BY <1>1, MarkAtHandIsChosen, Zenon
  <2> QED
    BY <1>3, <1>4, <2>1, <2>2, Zenon DEF Chosen
<1>6. Creating(server.client) => Chosen(sockets'[client[server.client].fd], client[server.client].netId)
  BY <1>1, <1>2, <1>3, <1>4, CreatorsCommand, Zenon DEF PointOK, Chosen
<1> QED
  BY <1>1, <1>4, <1>5, <1>6, ReturnKeepsCreation, Zenon

(* The server keeps every new socket as its process chose. *)
LEMMA ServerKeepsCreation ==
    ASSUME MarkInv, CreationInv, SocketsArePrivate, ServerNext, UNCHANGED clientVars
    PROVE  CreationInv'
<1>1. ASSUME NEW c \in Clients, onDataAvailable(c) PROVE CreationInv'
  <2>1. UNCHANGED <<sockets, channel, client, workload>> /\ server'.pc = "permission"
    BY <1>1, Zenon DEF onDataAvailable, Idle, clientVars
  <2>2. \A d \in Clients : (Settled(d)' <=> Settled(d)) /\ (Creating(d)' <=> Creating(d))
    BY <2>1, Zenon DEF Settled, Creating
  <2>3. \A d \in Clients : CreationOK(d)'
    BY <2>1, <2>2, Zenon DEF CreationInv, CreationOK, OpenFds, Chosen, SelectCommand, Command
  <2>4. \A d \in Clients : OwnerOK(d)'
    BY <2>1, <2>2, Zenon DEF CreationInv, OwnerOK
  <2> QED
    BY <2>1, <2>2, <2>3, <2>4, Zenon DEF CreationInv
<1> QED
  BY <1>1, ReadPermissionKeepsCreation, QuestionsKeepCreation, SetMarkKeepsCreation, Zenon
  DEF ServerNext, ServerStep

(* A change of the controller touches no socket and no command. *)
LEMMA ControllerKeepsCreation ==
    ASSUME MarkInv, CreationInv, ControllerChanges
    PROVE  CreationInv'
<1>1. /\ UNCHANGED <<sockets, channel, client, workload>>
      /\ server'.pc = server.pc /\ server'.client = server.client /\ server'.mark = server.mark
  BY Zenon DEF ControllerChanges, MarkInv, SocketTypeOK, ServerType
<1>2. command' = command
  BY <1>1, Zenon DEF command
<1>3. \A c \in Clients : (Settled(c)' <=> Settled(c)) /\ (Creating(c)' <=> Creating(c))
  BY <1>1, Zenon DEF Settled, Creating
<1>4. \A c \in Clients : CreationOK(c)'
  BY <1>1, <1>2, <1>3 DEF CreationInv, CreationOK, OpenFds, Chosen, SelectCommand, Command
<1>5. \A c \in Clients : OwnerOK(c)'
  BY <1>1, <1>3, Zenon DEF CreationInv, OwnerOK
<1> QED
  BY <1>1, <1>3, <1>4, <1>5, Zenon DEF CreationInv

(* A thread's own step matters to the sockets that other threads create only if it closes or *)
(* replaces one of them. *)
LEMMA ThreadStepKeepsCreation ==
    ASSUME MarkInv, CreationInv, NEW c \in Clients, channel[c].kind # "command", CallStep(c),
           UNCHANGED <<server, workload>>,
           CreationOK(c)', OwnerOK(c)',
           \A d \in Clients \ {c} : Creating(d) =>
              /\ client[d].fd \in DOMAIN sockets' /\ sockets'[client[d].fd] = sockets[client[d].fd]
              /\ Creating(c)' => client[d].fd # client'[c].fd
    PROVE  CreationInv'
<1>1. \A d \in Clients \ {c} : channel'[d] = channel[d] /\ client'[d] = client[d]
  BY Zenon DEF CallStep
<1>2. \A d \in Clients \ {c} : (Settled(d)' <=> Settled(d)) /\ (Creating(d)' <=> Creating(d))
  BY <1>1, Zenon DEF Settled, Creating
<1>3. server.pc # "idle" => command' = command
  BY <1>1, Zenon DEF MarkInv, command
<1>4. \A d \in Clients \ {c} : CreationOK(d)'
  <2> SUFFICES ASSUME NEW d \in Clients \ {c} PROVE CreationOK(d)'
    BY Zenon
  <2>1. CreationOK(d) /\ (Settled(d) => Creating(d))
    BY Zenon DEF CreationInv, Settled
  <2>2. OpenFds(d) = FdsOf[ProcessOf[d]] \cap DOMAIN sockets /\ OpenFds(d)' = FdsOf[ProcessOf[d]] \cap DOMAIN sockets'
    BY Zenon DEF OpenFds
  <2> QED
    BY <1>1, <1>2, <1>3, <2>1, <2>2, Zenon DEF CreationOK, Chosen, SelectCommand, Command
<1>5. \A d \in Clients \ {c} : OwnerOK(d)'
  BY <1>1, <1>2 DEF CreationInv, OwnerOK
<1>6. \A d, e \in Clients : d # e /\ Creating(d)' /\ Creating(e)' => client'[d].fd # client'[e].fd
  BY <1>1, <1>2 DEF CreationInv
<1> QED
  BY <1>4, <1>5, <1>6, Zenon DEF CreationInv

(* What send leaves the thread with. *)
LEMMA SendOutcome ==
    ASSUME MarkInv, NEW c \in Clients, NEW cmd, NEW pc, NEW f, NEW n, send(c, cmd, Call(pc, f, n))
    PROVE  /\ client'[c].pc = pc /\ client'[c].fd = f /\ client'[c].netId = n
           /\ \/ channel'[c] = cmd
              \/ channel'[c] = Reply("OK") /\ client'[c].refused
<1> DEFINE call == Call(pc, f, n)
<1>1. call = [pc |-> pc, fd |-> f, netId |-> n, refused |-> FALSE]
  BY Zenon DEF Call
<1>2. LET refusedCall == [call EXCEPT !.refused = TRUE]
      IN  /\ refusedCall.pc = pc /\ refusedCall.fd = f /\ refusedCall.netId = n
          /\ refusedCall.refused
  BY <1>1
<1>3. c \in DOMAIN client /\ c \in DOMAIN channel
  BY Zenon DEF MarkInv, SocketTypeOK
<1> QED
  BY <1>1, <1>2, <1>3, Zenon DEF send

(* Opening an unused descriptor, or the socket of setNetworkForTarget, touches no new socket; *)
(* neither does closing a descriptor that no other thread is creating. *)
LEMMA OtherSocketsStay ==
    ASSUME MarkInv, CreationInv, NEW c \in Clients, NEW fd, NEW mark,
           \/ sockets' = sockets
           \/ sockets' = WithSocket(fd, mark) /\ (fd \notin DOMAIN sockets \/ fd = c)
           \/ /\ sockets' = WithoutSocket(fd)
              /\ \A d \in Clients \ {c} : Creating(d) => client[d].fd # fd
    PROVE  \A d \in Clients \ {c} : Creating(d) =>
              client[d].fd \in DOMAIN sockets' /\ sockets'[client[d].fd] = sockets[client[d].fd]
<1> SUFFICES ASSUME NEW d \in Clients \ {c}, Creating(d)
             PROVE  client[d].fd \in DOMAIN sockets' /\ sockets'[client[d].fd] = sockets[client[d].fd]
  BY Zenon
<1>1. client[d].fd \in DOMAIN sockets /\ client[d].fd \in FdsOf[ProcessOf[d]]
  BY Zenon DEF CreationInv, CreationOK, OpenFds
<1>2. client[d].fd # c
  BY <1>1, ArgumentsTyped, ClientsAssumption, Zenon
<1> QED
  BY <1>1, <1>2, Zenon DEF WithSocket, WithoutSocket

(* The descriptors that a thread beside a creator may close are not the creator's. *)
LEMMA CreatorsDescriptorsAreKept ==
    ASSUME MarkInv, CreationInv, SocketsArePrivate, NEW c \in Clients,
           NEW d \in Clients \ {c}, Creating(d),
           "accept" \in workload[c] \/ "close" \in workload[c],
           NEW fd \in FdsOf[ProcessOf[c]]
    PROVE  client[d].fd # fd
<1>1. "socket" \in workload[d] /\ client[d].fd \in FdsOf[ProcessOf[d]]
  BY Zenon DEF CreationInv, CreationOK, OpenFds
<1>2. ProcessOf[c] \in DOMAIN FdsOf /\ ProcessOf[d] \in DOMAIN FdsOf
  BY ClientsAssumption, Zenon
<1>3. ProcessOf[c] # ProcessOf[d]
  BY <1>1, Zenon DEF SocketsArePrivate, CreationInv
<1> QED
  BY <1>1, <1>2, <1>3, ClientsAssumption, Zenon

(* A thread that is not creating a socket need only account for its command. *)
LEMMA OtherStepKeepsCreation ==
    ASSUME MarkInv, CreationInv, NEW c \in Clients, Idling(c) \/ channel[c].kind = "reply",
           CallStep(c), UNCHANGED <<server, workload>>, client'[c].pc # "socket", OwnerOK(c)',
           NEW fd, NEW mark,
           \/ sockets' = sockets
           \/ sockets' = WithSocket(fd, mark) /\ (fd \notin DOMAIN sockets \/ fd = c)
           \/ /\ sockets' = WithoutSocket(fd)
              /\ \A d \in Clients \ {c} : Creating(d) => client[d].fd # fd
    PROVE  CreationInv'
<1>1. ~Creating(c)' /\ CreationOK(c)'
  BY Zenon DEF Creating, CreationOK, Settled
<1>2. channel[c].kind # "command"
  BY NotWaiting, Zenon
<1>3. \A d \in Clients \ {c} : Creating(d) =>
         client[d].fd \in DOMAIN sockets' /\ sockets'[client[d].fd] = sockets[client[d].fd]
  BY OtherSocketsStay, Zenon
<1> QED
  BY <1>1, <1>2, <1>3, ThreadStepKeepsCreation, Zenon

(* The command that send sends is one that its thread may send. *)
LEMMA SendIsOwned ==
    ASSUME MarkInv, NEW c \in Clients, UNCHANGED workload,
           NEW cmdId, NEW fd, NEW netId, NEW uid, NEW info, NEW pc, NEW f, NEW n,
           send(c, Command(cmdId, fd, netId, uid, info), Call(pc, f, n)),
           pc = "accept" => "accept" \in workload[c] /\ f \in FdsOf[ProcessOf[c]],
           cmdId = "SELECT_NETWORK" =>
              \/ pc = "socket" /\ fd = f
              \/ "select" \in workload[c] /\ fd \in FdsOf[ProcessOf[c]]
              \/ fd = c
    PROVE  OwnerOK(c)' /\ client'[c].pc = pc
<1>1. /\ client'[c].pc = pc /\ client'[c].fd = f
      /\ \/ channel'[c] = Command(cmdId, fd, netId, uid, info)
         \/ channel'[c] = Reply("OK")
  BY SendOutcome
<1> QED
  BY <1>1 DEF OwnerOK, Creating, Command, Reply

(* socket() opens a descriptor that no other thread is creating. *)
LEMMA SocketKeepsCreation ==
    ASSUME MarkInv, CreationInv, NEW c \in Clients, "socket" \in workload[c], netdClientSocket(c)
    PROVE  CreationInv'
<1> DEFINE netId == targets[ProcessOf[c]].process
<1>1. UNCHANGED <<server, workload>> /\ Idling(c)
  BY Zenon DEF netdClientSocket, Untouched
<1>2. PICK fd \in UnusedFds(c) :
         /\ sockets' = WithSocket(fd, NoMark)
         /\ \/ UNCHANGED <<channel, client, refusals>>
            \/ /\ netId # NETID_UNSET
               /\ send(c, SelectCommand(fd, netId), Call("socket", fd, netId))
  BY Zenon DEF netdClientSocket
<1>3. fd \in Fds /\ fd \in FdsOf[ProcessOf[c]] /\ fd \notin DOMAIN sockets
  BY ArgumentsTyped, Zenon DEF UnusedFds
<1>4. netId \in NetIdOrUnset
  BY ClientsAssumption, Zenon DEF MarkInv, SocketTypeOK, TargetType
<1> HIDE DEF netId
<1>5. CallStep(c)
  BY <1>1, <1>2, <1>3, <1>4, NoCallStep, SendIsCallStep, Zenon DEF SelectCommand, ClientPoints
<1>6. CASE UNCHANGED <<channel, client, refusals>>
  <2>1. client'[c].pc # "socket" /\ OwnerOK(c)'
    BY <1>1, <1>6, Zenon DEF Idling, OwnerOK, CreationInv, Creating
  <2> QED
    BY <1>1, <1>2, <1>3, <1>5, <2>1, OtherStepKeepsCreation, Zenon
<1>7. CASE netId # NETID_UNSET /\ send(c, SelectCommand(fd, netId), Call("socket", fd, netId))
  <2>1. /\ client'[c].pc = "socket" /\ client'[c].fd = fd /\ client'[c].netId = netId
        /\ \/ channel'[c] = SelectCommand(fd, netId)
           \/ channel'[c] = Reply("OK") /\ client'[c].refused
    BY <1>7, SendOutcome, Zenon
  <2>2. OwnerOK(c)'
    BY <1>1, <1>7, SendIsOwned, Zenon DEF SelectCommand
  <2>3. ~Settled(c)'
    BY <2>1 DEF Settled, SelectCommand, Command
  <2>4. fd \in OpenFds(c)'
    BY <1>2, <1>3, Zenon DEF OpenFds, WithSocket
  <2>5. CreationOK(c)'
    BY <1>1, <1>7, <2>1, <2>3, <2>4 DEF CreationOK, Reply
  <2>6. \A d \in Clients \ {c} : Creating(d) =>
           client[d].fd \in DOMAIN sockets' /\ sockets'[client[d].fd] = sockets[client[d].fd]
    BY <1>2, <1>3, OtherSocketsStay, Zenon
  <2>7. \A d \in Clients \ {c} : Creating(d) => client[d].fd # fd
    BY <1>3, Zenon DEF CreationInv, CreationOK, OpenFds
  <2>8. channel[c].kind # "command"
    BY <1>1, NotWaiting, Zenon
  <2> QED
    BY <1>1, <1>5, <2>1, <2>2, <2>5, <2>6, <2>7, <2>8, ThreadStepKeepsCreation, Zenon
<1> QED
  BY <1>2, <1>6, <1>7, Zenon

(* The other calls of a thread leave the sockets alone that others create. *)
LEMMA CallBeginsKeepsCreation ==
    ASSUME MarkInv, CreationInv, SocketsArePrivate, NEW c \in Clients, CallBegins(c)
    PROVE  CreationInv'
<1>1. ASSUME Idling(c), UNCHANGED sockets, Untouched, NEW cmdId, NEW fd \in Fds \cup {"none"},
             NEW netId \in NetIdOrUnset, NEW uid, NEW info, NEW n \in NetIdOrUnset,
             cmdId = "SELECT_FOR_USER" => fd \in FdsOf[ProcessOf[c]] /\ "user" \in workload[c],
             cmdId = "SELECT_NETWORK" => fd \in FdsOf[ProcessOf[c]] /\ "select" \in workload[c],
             NEW pc \in {"connect", "ignored"},
             send(c, Command(cmdId, fd, netId, uid, info), Call(pc, fd, n))
      PROVE  CreationInv'
  <2>1. UNCHANGED <<server, workload>>
    BY <1>1, Zenon DEF Untouched
  <2>2. CallStep(c)
    BY <1>1, <2>1, SendIsCallStep, Zenon DEF ClientPoints
  <2>3. OwnerOK(c)' /\ client'[c].pc = pc
    BY <1>1, <2>1, SendIsOwned, Zenon
  <2> QED
    BY <1>1, <2>1, <2>2, <2>3, OtherStepKeepsCreation, Zenon
<1>2. OpenFds(c) \subseteq Fds /\ OpenFds(c) \subseteq FdsOf[ProcessOf[c]]
  BY ArgumentsTyped, Zenon DEF OpenFds
<1>3. ASSUME Idling(c), UNCHANGED <<channel, client, workload>>
      PROVE  CallStep(c) /\ OwnerOK(c)' /\ client'[c].pc # "socket"
  <2>1. OwnerOK(c)'
    BY <1>3, Zenon DEF OwnerOK, CreationInv, Creating
  <2> QED
    BY <1>3, <2>1, NoCallStep, Zenon DEF Idling
<1>4. CASE "accept" \in workload[c] /\ netdClientAccept4(c)
  <2>1. UNCHANGED <<server, workload>> /\ Idling(c)
    BY <1>4, Zenon DEF netdClientAccept4, Untouched
  <2>2. PICK fd \in UnusedFds(c), mark \in IncomingMarks :
           /\ sockets' = WithSocket(fd, mark)
           /\ send(c, Command("ON_ACCEPT", fd, 0, 0, FALSE), Call("accept", fd, NETID_UNSET))
    BY <1>4, Zenon DEF netdClientAccept4
  <2>3. fd \in Fds /\ fd \in FdsOf[ProcessOf[c]] /\ fd \notin DOMAIN sockets
    BY ArgumentsTyped, Zenon DEF UnusedFds
  <2>4. CallStep(c)
    BY <2>1, <2>2, <2>3, SendIsCallStep, ArgumentsTyped, Zenon DEF ClientPoints
  <2>5. OwnerOK(c)' /\ client'[c].pc = "accept"
    BY <1>4, <2>1, <2>2, <2>3, SendIsOwned, Zenon
  <2> QED
    BY <2>1, <2>2, <2>3, <2>4, <2>5, OtherStepKeepsCreation, Zenon
<1>5. CASE netdClientConnect(c)
  BY <1>1, <1>2, <1>5, ArgumentsTyped, Zenon DEF netdClientConnect
<1>6. CASE netdClientSend(c)
  BY <1>1, <1>2, <1>6, ArgumentsTyped, Zenon DEF netdClientSend
<1>7. CASE "select" \in workload[c] /\ setNetworkForSocket(c)
  BY <1>1, <1>2, <1>7, ArgumentsTyped, Zenon DEF setNetworkForSocket, SelectCommand
<1>8. CASE protectFromVpn(c)
  BY <1>1, <1>2, <1>8, ArgumentsTyped, Zenon DEF protectFromVpn
<1>9. CASE "user" \in workload[c] /\ setNetworkForUser(c)
  BY <1>1, <1>2, <1>9, ArgumentsTyped, Zenon DEF setNetworkForUser
<1>10. CASE queryUserAccess(c)
  BY <1>1, <1>10, ArgumentsTyped, Zenon DEF queryUserAccess
<1>11. CASE tagSocket(c)
  BY <1>1, <1>2, <1>11, ArgumentsTyped, Zenon DEF tagSocket
<1>12. CASE setAllowNetworkingForProcess(c)
  <2>1. UNCHANGED <<server, sockets, channel, client, workload>> /\ Idling(c)
    BY <1>12, Zenon DEF setAllowNetworkingForProcess, serverVars
  <2> QED
    BY <1>3, <2>1, OtherStepKeepsCreation, Zenon
<1>13. CASE "close" \in workload[c] /\ closeSocket(c)
  <2>1. UNCHANGED <<server, channel, client, workload>> /\ Idling(c)
    BY <1>13, Zenon DEF closeSocket, clientVars
  <2>2. PICK fd \in OpenFds(c) : sockets' = WithoutSocket(fd)
    BY <1>13, Zenon DEF closeSocket
  <2>3. \A d \in Clients \ {c} : Creating(d) => client[d].fd # fd
    BY <1>2, <1>13, CreatorsDescriptorsAreKept, Zenon
  <2> QED
    BY <1>3, <2>1, <2>2, <2>3, OtherStepKeepsCreation, Zenon
<1>14. ASSUME NEW target \in {"process", "resolv"}, setNetworkForTarget(c, target) PROVE CreationInv'
  <2>1. UNCHANGED <<server, workload>> /\ Idling(c)
    BY <1>14, Zenon DEF setNetworkForTarget
  <2>2. PICK netId \in TargetArgs :
           \/ UNCHANGED <<channel, client, sockets>>
           \/ /\ sockets' = WithSocket(c, NoMark)
              /\ send(c, SelectCommand(c, netId), Call(target, c, netId))
    BY <1>14, Zenon DEF setNetworkForTarget
  <2>3. netId \in NetIdOrUnset
    BY ArgumentsTyped, Zenon
  <2>4. CASE UNCHANGED <<channel, client, sockets>>
    BY <1>3, <2>1, <2>4, OtherStepKeepsCreation, Zenon
  <2>5. CASE /\ sockets' = WithSocket(c, NoMark)
             /\ send(c, SelectCommand(c, netId), Call(target, c, netId))
    <3>1. CallStep(c)
      BY <2>1, <2>3, <2>5, SendIsCallStep, Zenon DEF SelectCommand, ClientPoints
    <3>2. OwnerOK(c)' /\ client'[c].pc = target
      BY <2>1, <2>5, SendIsOwned, Zenon DEF SelectCommand
    <3> QED
      BY <2>1, <2>5, <3>1, <3>2, OtherStepKeepsCreation, Zenon
  <2> QED
    BY <2>2, <2>4, <2>5, Zenon
<1> QED
  BY <1>4, <1>5, <1>6, <1>7, <1>8, <1>9, <1>10, <1>11, <1>12, <1>13, <1>14, SocketKeepsCreation, Zenon
  DEF CallBegins

(* A call that ends closes no socket but its own. *)
LEMMA CallContinuesKeepsCreation ==
    ASSUME MarkInv, CreationInv, SocketsArePrivate, NEW c \in Clients, CallContinues(c)
    PROVE  CreationInv'
<1>1. ASSUME Finish(c), UNCHANGED workload
      PROVE  CallStep(c) /\ OwnerOK(c)' /\ client'[c].pc # "socket"
  <2>1. client'[c].pc = "idle" /\ channel'[c] = Silence
    BY <1>1, Zenon DEF Finish, ReturnedCall, MarkInv, SocketTypeOK
  <2> QED
    BY <1>1, <2>1, FinishIsCallStep DEF OwnerOK, Silence
<1>2. CASE socketReturns(c) \/ acceptReturns(c) \/ callReturns(c)
  <2>1. /\ UNCHANGED <<server, workload>> /\ channel[c].kind = "reply" /\ Finish(c)
        /\ \/ sockets' = sockets
           \/ Creating(c) /\ sockets' = WithoutSocket(client[c].fd)
           \/ client[c].pc = "accept" /\ sockets' = WithoutSocket(client[c].fd)
    BY <1>2, Zenon DEF socketReturns, acceptReturns, callReturns, Untouched, Answered, Creating
  <2>2. /\ UNCHANGED <<server, workload>> /\ channel[c].kind = "reply"
        /\ CallStep(c) /\ OwnerOK(c)' /\ client'[c].pc # "socket"
    BY <1>1, <2>1, Zenon
  <2>3. CASE sockets' = sockets
    BY <2>2, <2>3, OtherStepKeepsCreation, Zenon
  <2>4. CASE Creating(c) /\ sockets' = WithoutSocket(client[c].fd)
    <3> DEFINE fd == client[c].fd
    <3>1. sockets' = WithoutSocket(fd) /\ \A d \in Clients \ {c} : Creating(d) => client[d].fd # fd
      BY <2>4, Zenon DEF CreationInv
    <3> HIDE DEF fd
    <3> QED
      BY <2>2, <3>1, OtherStepKeepsCreation, Zenon
  <2>5. CASE client[c].pc = "accept" /\ sockets' = WithoutSocket(client[c].fd)
    <3> DEFINE fd == client[c].fd
    <3>1. "accept" \in workload[c] /\ client[c].fd \in FdsOf[ProcessOf[c]]
      BY <2>5, Zenon DEF CreationInv, OwnerOK
    <3>2. sockets' = WithoutSocket(fd) /\ \A d \in Clients \ {c} : Creating(d) => client[d].fd # fd
      BY <2>5, <3>1, CreatorsDescriptorsAreKept, Zenon
    <3> HIDE DEF fd
    <3> QED
      BY <2>2, <3>2, OtherStepKeepsCreation, Zenon
  <2> QED
    BY <2>1, <2>3, <2>4, <2>5, Zenon
<1>3. CASE connectContinues(c)
  <2>1. /\ UNCHANGED <<server, workload, sockets>> /\ channel[c].kind = "reply"
        /\ \/ Finish(c)
           \/ send(c, Command("ON_CONNECT_COMPLETE", client[c].fd, 0, 0, TRUE),
                   Call("ignored", client[c].fd, NETID_UNSET))
    BY <1>3, Zenon DEF connectContinues, Untouched, Answered
  <2>2. CASE Finish(c)
    <3>1. CallStep(c) /\ OwnerOK(c)' /\ client'[c].pc # "socket"
      BY <1>1, <2>1, <2>2, Zenon
    <3> QED
      BY <2>1, <3>1, OtherStepKeepsCreation, Zenon
  <2>3. CASE send(c, Command("ON_CONNECT_COMPLETE", client[c].fd, 0, 0, TRUE),
                  Call("ignored", client[c].fd, NETID_UNSET))
    <3>1. client[c].fd \in Fds \cup Clients \cup {"none"}
      BY Zenon DEF MarkInv, SocketTypeOK, CallType
    <3>2. CallStep(c)
      BY <2>1, <2>3, <3>1, SendIsCallStep, ArgumentsTyped, Zenon DEF ClientPoints
    <3>3. OwnerOK(c)' /\ client'[c].pc = "ignored"
      BY <2>1, <2>3, SendIsOwned, Zenon
    <3> QED
      BY <2>1, <3>2, <3>3, OtherStepKeepsCreation, Zenon
  <2> QED
    BY <2>1, <2>2, <2>3, Zenon
<1>4. ASSUME NEW target \in {"process", "resolv"}, targetReturns(c, target) PROVE CreationInv'
  <2>1. /\ UNCHANGED <<server, workload>> /\ channel[c].kind = "reply" /\ Finish(c)
        /\ sockets' = WithoutSocket(c)
    BY <1>4, Zenon DEF targetReturns, Answered
  <2>2. \A d \in Clients \ {c} : Creating(d) => client[d].fd # c
    BY ArgumentsTyped, ClientsAssumption DEF CreationInv, CreationOK, OpenFds
  <2>3. CallStep(c) /\ OwnerOK(c)' /\ client'[c].pc # "socket"
    BY <1>1, <2>1, Zenon
  <2> QED
    BY <2>1, <2>2, <2>3, OtherStepKeepsCreation, Zenon
<1> QED
  BY <1>2, <1>3, <1>4, Zenon DEF CallContinues

(* Both invariants together, for threads that leave each other's new sockets alone. *)
LEMMA CreationInvariance ==
    ASSUME SocketsArePrivate
    PROVE  ClientSpec => [](MarkInv /\ CreationInv)
<1>1. Inv /\ ClientInit => MarkInv /\ CreationInv
  <2> SUFFICES ASSUME Inv, ClientInit PROVE MarkInv /\ CreationInv
    BY Zenon
  <2>1. /\ workload \in Workloads
        /\ \A c \in Clients : client[c].pc = "idle" /\ channel[c].kind = "none"
    BY Zenon DEF ClientInit, ReturnedCall, Silence
  <2>2. \A c \in Clients : ~Creating(c) /\ CreationOK(c) /\ OwnerOK(c)
    BY <2>1, Zenon DEF Creating, CreationOK, OwnerOK, Settled
  <2>3. CreationInv
    BY <2>1, <2>2, Zenon DEF CreationInv
  <2> QED
    BY <2>3, ClientInitEstablishesMarkInv, Zenon
<1>2. (MarkInv /\ CreationInv) /\ [ClientNext]_socketVars => (MarkInv /\ CreationInv)'
  <2> SUFFICES ASSUME MarkInv, CreationInv, [ClientNext]_socketVars PROVE MarkInv' /\ CreationInv'
    BY Zenon
  <2>1. MarkInv'
    BY ClientNextPreservesMarkInv, Zenon
  <2>2. CASE UNCHANGED socketVars
    <3>1. UNCHANGED <<sockets, channel, server, client, workload>>
      BY <2>2, Zenon DEF socketVars, serverVars, clientVars
    <3>2. command' = command
      BY <3>1, Zenon DEF command
    <3>3. \A c \in Clients : (Settled(c)' <=> Settled(c)) /\ (Creating(c)' <=> Creating(c))
      BY <3>1, Zenon DEF Settled, Creating
    <3>4. \A c \in Clients : CreationOK(c)'
      BY <3>1, <3>2, <3>3, Zenon DEF CreationInv, CreationOK, OpenFds, Chosen, SelectCommand, Command
    <3>5. \A c \in Clients : OwnerOK(c)'
      BY <3>1, <3>3, Zenon DEF CreationInv, OwnerOK
    <3> QED
      BY <2>1, <3>1, <3>3, <3>4, <3>5, Zenon DEF CreationInv
  <2>3. CASE ClientNext
    BY <2>1, <2>3, CallBeginsKeepsCreation, CallContinuesKeepsCreation, ServerKeepsCreation,
       ControllerKeepsCreation, Zenon DEF ClientNext
  <2> QED
    BY <2>2, <2>3, Zenon
<1> QED
  BY <1>1, <1>2, PTL DEF ClientSpec

(***************************************************************************)
(* NetdClient.cpp:198: a socket that socket() returns is on the network    *)
(* its process had chosen, unless the server was away; the server's other  *)
(* commands, whatever they are and whichever thread sent them, do not move *)
(* it between the reply and the return.                                    *)
(***************************************************************************)
THEOREM SocketsFollowTheirProcess ==
    ASSUME SocketsArePrivate
    PROVE  ClientSpec => NewSocketsFollowProcess
<1> DEFINE Step == \A c \in Clients :
                      client[c].pc = "socket" /\ client'[c].pc = "idle" /\ ~client[c].refused
                         /\ client[c].fd \in DOMAIN sockets' =>
                      LET mark == sockets'[client[c].fd]
                      IN  mark.explicitlySelected /\ mark.netId = client[c].netId
<1>1. MarkInv /\ CreationInv /\ [ClientNext]_socketVars => Step
  <2> SUFFICES ASSUME MarkInv, CreationInv, [ClientNext]_socketVars,
                      NEW c \in Clients, client[c].pc = "socket", client'[c].pc = "idle",
                      ~client[c].refused, client[c].fd \in DOMAIN sockets'
               PROVE  LET mark == sockets'[client[c].fd]
                      IN  mark.explicitlySelected /\ mark.netId = client[c].netId
    BY Zenon
  <2>1. client' # client
    BY Zenon
  <2>2. ASSUME NEW d \in Clients, CallBegins(d) PROVE FALSE
    <3>1. Idling(d)
      BY <2>2, Zenon DEF CallBegins, netdClientSocket, netdClientAccept4, netdClientConnect, netdClientSend,
         setNetworkForSocket, protectFromVpn, setNetworkForUser, queryUserAccess, tagSocket,
         setAllowNetworkingForProcess, closeSocket, setNetworkForTarget
    <3>2. \A cmd, call : send(d, cmd, call) => \A e \in Clients \ {d} : client'[e] = client[e]
      BY Zenon DEF send, MarkInv, SocketTypeOK
    <3>3. (\E cmd, call : send(d, cmd, call)) \/ client' = client
      BY <2>2, Zenon DEF CallBegins, netdClientSocket, netdClientAccept4, netdClientConnect, netdClientSend,
         setNetworkForSocket, protectFromVpn, setNetworkForUser, queryUserAccess, tagSocket,
         setAllowNetworkingForProcess, closeSocket, clientVars, setNetworkForTarget
    <3>4. c # d
      BY <3>1, Zenon DEF Idling
    <3> QED
      BY <2>1, <3>2, <3>3, <3>4, Zenon
  <2>3. ASSUME NEW d \in Clients, CallContinues(d) PROVE d = c /\ socketReturns(c)
    <3>1. \A cmd, call : send(d, cmd, call) => \A e \in Clients \ {d} : client'[e] = client[e]
      BY Zenon DEF send, MarkInv, SocketTypeOK
    <3>2. Finish(d) => \A e \in Clients \ {d} : client'[e] = client[e]
      BY Zenon DEF Finish, MarkInv, SocketTypeOK
    <3>3. Finish(d) \/ \E cmd, call : send(d, cmd, call)
      BY <2>3, Zenon DEF CallContinues, socketReturns, acceptReturns, connectContinues, callReturns, targetReturns
    <3>4. d = c
      BY <3>1, <3>2, <3>3, Zenon
    <3> QED
      BY <2>3, <3>4, Zenon
      DEF CallContinues, acceptReturns, connectContinues, callReturns, targetReturns, Answered
  <2>4. socketReturns(c)
    BY <2>1, <2>2, <2>3, Zenon DEF ClientNext, ControllerChanges, clientVars, socketVars
  <2>5. channel[c].kind = "reply" /\ channel[c].error = "OK" /\ sockets' = sockets
    BY <2>4, Zenon DEF socketReturns, Answered, WithoutSocket
  <2>6. Settled(c)
    BY <2>5, Zenon DEF Settled, Creating
  <2> QED
    BY <2>5, <2>6, Zenon DEF CreationInv, CreationOK, Chosen
<1>2. MarkInv /\ CreationInv /\ [ClientNext]_socketVars => [Step]_socketVars
  BY <1>1, Zenon
<1> QED
  BY <1>2, CreationInvariance, PTL DEF ClientSpec, NewSocketsFollowProcess
===============================================================================
