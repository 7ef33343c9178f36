---------------------------- MODULE NetworkRouting ----------------------------
(***************************************************************************)
(* NetworkController and RouteController together: the operations of       *)
(* NetworkController that change routing rules, request by request.        *)
(*                                                                         *)
(* mRWLock is held from the beginning of a call to its end, so no query    *)
(* sees the controller's state half way; but packets are routed, and       *)
(* interfaces come and go, between any two requests, and a request may     *)
(* fail.  A call is begun (Begin...), sends its requests one by one        *)
(* (SendRequest), and takes its effect on the controller's own state when  *)
(* it ends (End...).                                                       *)
(***************************************************************************)
EXTENDS NetworkController, RouteController

CONSTANTS
    PhysicalIds,   \* netIds passed to createPhysicalNetwork
    VirtualIds,    \* netIds passed to createVirtualNetwork
    IfaceOrder,    \* the interface names in the order of std::set<std::string>
    InterfaceArgs, \* <<netId, interface>> passed to addInterfaceToNetwork
    UserArgs,      \* <<netId, subPriority>> passed to addUsersToNetwork, removeUsersFromNetwork
    VolatileIfaces, \* interfaces that the kernel deletes and creates again
    TetherArgs,    \* <<input, output>> interfaces passed to enable/disableTethering
    LockdownArgs,  \* UID ranges passed to networkRejectNonSecureVpn
    MaxIfIndex,    \* bound on the interface indices the kernel hands out
    MaxRules,      \* bound on the rules of a family when an interface is added
    MaxFaults      \* bound on the requests that fail without cause

ASSUME RoutingAssumption ==
    /\ PhysicalIds \subseteq NetIds /\ VirtualIds \subseteq NetIds
    /\ {IfaceOrder[i] : i \in DOMAIN IfaceOrder} = Ifaces
    /\ InterfaceArgs \subseteq AllNetIds \X Ifaces /\ UserArgs \subseteq AllNetIds \X SubPriorities
    /\ TetherArgs \subseteq Ifaces \X Ifaces
    /\ VolatileIfaces \subseteq Ifaces /\ LockdownArgs \subseteq Ranges
    /\ IfIndices = 1 .. MaxIfIndex /\ MaxFaults \in Nat /\ MaxRules \in Nat
ASSUME IndicesAssumption ==
    /\ IfaceOrder \in Seq(Ifaces)
    /\ MaxIfIndex \in Nat /\ Len(IfaceOrder) <= MaxIfIndex

VARIABLES
    rules,              \* the kernel's rules, per address family
    sInterfaceToTable,  \* interface -> table, 0 if there is no entry
    ifIndexOf,          \* interface -> its index in the kernel, 0 if there is no interface
    nextIfIndex,        \* the index the kernel gives to the next interface
    call,               \* the call that holds mRWLock
    faults,             \* how many requests failed without cause
    clean               \* no request of a call has failed so far

routeVars == <<rules, sInterfaceToTable, ifIndexOf, nextIfIndex, faults>>
routingVars == <<vars, routeVars, call, clean>>

NoCall == [method |-> "none", args |-> <<>>, todo |-> <<>>, reached |-> {}, failed |-> FALSE]
Idle == call.method = "none"

-----------------------------------------------------------------------------
(* Sending requests *)

(* getRouteTableForInterfaceLocked: what sInterfaceToTable becomes. *)
WithTableFor(iface) ==
    IF iface # NoName /\ sInterfaceToTable[iface] = 0 /\ ifIndexOf[iface] # 0
    THEN [sInterfaceToTable EXCEPT ![iface] = ifIndexOf[iface] + ROUTE_TABLE_OFFSET_FROM_INDEX]
    ELSE sInterfaceToTable

HasTable(iface) == iface \notin {f \in Ifaces : sInterfaceToTable[f] = 0 /\ ifIndexOf[f] = 0}

TableNumber(table, tables) ==
    IF table.iface = NoName THEN table.number
    ELSE tables[table.iface] +
         (IF table.local
          THEN ROUTE_TABLE_OFFSET_FROM_INDEX_FOR_LOCAL - ROUTE_TABLE_OFFSET_FROM_INDEX ELSE 0)

Resolved(rule, tables) == [rule EXCEPT !.table = TableNumber(@, tables)]

(* getIfIndex *)
getIfIndex(iface) ==
    IF sInterfaceToTable[iface] \in {0, ROUTE_TABLE_LOCAL_NETWORK} THEN 0
    ELSE sInterfaceToTable[iface] - ROUTE_TABLE_OFFSET_FROM_INDEX

ApplyTo(families, action, rule) ==
    rules' = [f \in Families |->
                IF f \notin families THEN rules[f]
                ELSE IF action = "add" THEN AddRule(rules[f], rule)
                ELSE DelRule(rules[f], rule)]

(***************************************************************************)
(* modifyIpRule sends the request for IPv4 and, if that succeeds, for      *)
(* IPv6; the iptables command runs for both whatever happens.  FailureSets *)
(* are the families in which a request may have had its effect if it       *)
(* fails; able are the families in which it can have an effect.            *)
(***************************************************************************)
FailureSets(rule, able) ==
    IF rule.action = "mark" THEN SUBSET able \ {Families}
    ELSE {{}, able \cap {AF_INET}}

SendRule(action, unresolved, ok) ==
    LET iface == unresolved.table.iface
        rule  == Resolved(unresolved, WithTableFor(iface))
        able  == {f \in Families : action = "add" \/ CanDelete(rules[f], rule)}
    IN  /\ sInterfaceToTable' = WithTableFor(iface)
        /\ UNCHANGED <<ifIndexOf, nextIfIndex>>
        /\ \/ /\ ok /\ HasTable(iface) /\ able = Families          \* success
              /\ ApplyTo(Families, action, rule) /\ UNCHANGED faults
           \/ /\ ~ok /\ ~HasTable(iface)                           \* -ESRCH
              /\ UNCHANGED <<rules, faults>>
           \/ /\ ~ok /\ HasTable(iface) /\ able # Families         \* -ENOENT
              /\ ApplyTo(IF rule.action = "mark" THEN able ELSE able \cap {AF_INET}, action, rule)
              /\ UNCHANGED faults
           \/ /\ ~ok /\ HasTable(iface) /\ faults < MaxFaults      \* any other error
              /\ \E families \in FailureSets(rule, able) : ApplyTo(families, action, rule)
              /\ faults' = faults + 1

(* getRouteTableForInterface, before modifyPhysicalNetwork and modifyVirtualNetwork do anything. *)
getRouteTableForInterface(iface, ok) ==
    /\ ok = HasTable(iface)
    /\ sInterfaceToTable' = WithTableFor(iface)
    /\ UNCHANGED <<rules, ifIndexOf, nextIfIndex, faults>>

(***************************************************************************)
(* flushRoutes(interface): the local table, then the global one; success   *)
(* with the global one erases the interface from sInterfaceToTable, even   *)
(* if the local one had failed.                                            *)
(***************************************************************************)
flushRoutes(iface, ok) ==
    /\ UNCHANGED <<rules, ifIndexOf, nextIfIndex>>
    /\ \/ /\ ok /\ HasTable(iface)
          /\ sInterfaceToTable' = [sInterfaceToTable EXCEPT ![iface] = 0]
          /\ UNCHANGED faults
       \/ /\ ~ok /\ ~HasTable(iface)
          /\ UNCHANGED <<sInterfaceToTable, faults>>
       \/ /\ ~ok /\ HasTable(iface) /\ faults < MaxFaults
          /\ \/ sInterfaceToTable' = [sInterfaceToTable EXCEPT ![iface] = 0]
             \/ sInterfaceToTable' = WithTableFor(iface)
          /\ faults' = faults + 1

(* addFixedLocalRoutes writes to the local table, which the rules do not depend on. *)
addFixedLocalRoutes(iface, ok) ==
    /\ sInterfaceToTable' = WithTableFor(iface)
    /\ UNCHANGED <<rules, ifIndexOf, nextIfIndex>>
    /\ \/ ok /\ ifIndexOf[iface] # 0 /\ UNCHANGED faults
       \/ ~ok /\ ifIndexOf[iface] = 0 /\ UNCHANGED faults
       \/ ~ok /\ ifIndexOf[iface] # 0 /\ faults < MaxFaults /\ faults' = faults + 1

setTable(iface, table) ==
    /\ sInterfaceToTable' = [sInterfaceToTable EXCEPT ![iface] = table]
    /\ UNCHANGED <<rules, ifIndexOf, nextIfIndex, faults>>

Advance(ok) ==
    /\ call' = IF ok THEN [call EXCEPT !.todo = Tail(@)]
               ELSE [call EXCEPT !.todo = <<>>, !.failed = TRUE]
    /\ clean' = (clean /\ ok)

(* clearTetheringRules deletes until nothing is left; -ENOENT is its success. *)
TetheringRuleOf(iface) ==
    [Rule(RULE_PRIORITY_TETHERING, UnspecifiedTable) EXCEPT !.iif = iface]

clearTetheringRules(iface) ==
    LET more == \A f \in Families : CanDelete(rules[f], Resolved(TetheringRuleOf(iface), <<>>))
    IN  \E ok \in BOOLEAN :
           /\ SendRule("del", TetheringRuleOf(iface), ok)
           /\ IF ok THEN UNCHANGED <<call, clean>>
              ELSE Advance(~more /\ faults' = faults)

SendRequest ==
    /\ call.todo # <<>>
    /\ UNCHANGED vars
    /\ LET request == Head(call.todo)
       IN  \/ /\ request.op \in {"add", "del"}
              /\ \E ok \in BOOLEAN : SendRule(request.op, request.rule, ok) /\ Advance(ok)
           \/ /\ request.op = "getRouteTable"
              /\ \E ok \in BOOLEAN : getRouteTableForInterface(request.arg, ok) /\ Advance(ok)
           \/ /\ request.op = "flushRoutes"
              /\ \E ok \in BOOLEAN : flushRoutes(request.arg, ok) /\ Advance(ok)
           \/ /\ request.op = "addFixedLocalRoutes"
              /\ \E ok \in BOOLEAN : addFixedLocalRoutes(request.arg, ok) /\ Advance(ok)
           \/ request.op = "clearTetheringRules" /\ clearTetheringRules(request.arg)
           \/ /\ request.op = "setLocalTable"
              /\ setTable(request.arg, ROUTE_TABLE_LOCAL_NETWORK) /\ Advance(TRUE)
           \/ request.op = "eraseTable" /\ setTable(request.arg, 0) /\ Advance(TRUE)
           \/ /\ request.op = "reached"
              /\ call' = [call EXCEPT !.todo = Tail(@), !.reached = @ \cup {request.arg}]
              /\ UNCHANGED <<routeVars, clean>>
-----------------------------------------------------------------------------
(* The requests of the methods *)

InOrder(ifaces) == SelectSeq(IfaceOrder, LAMBDA f : f \in ifaces)
ForEach(seq, Requests(_)) == FlattenSeq([i \in DOMAIN seq |-> Requests(seq[i])])
VirtualNetworkIds ==
    SetToSortSeq({n \in DOMAIN mNetworks : isVirtual(mNetworks[n])}, LAMBDA m, n : m < n)

(* addInterfaceToDefaultNetwork and DelegateImpl::modifyFallthrough for every VPN. *)
DefaultRules(iface, permission) ==
    modifyDefaultNetwork(iface, permission)
    \o ForEach(VirtualNetworkIds, LAMBDA n : VirtualNetworkFallthrough(n, iface, permission))

addToDefault(iface, permission) == Modify("add", DefaultRules(iface, permission))
removeFromDefault(iface, permission) == Modify("del", DefaultRules(iface, permission))

addAsDefault(netId) ==
    LET network == mNetworks[netId]
    IN  IF network.mIsDefault THEN <<>>
        ELSE ForEach(InOrder(network.mInterfaces),
                     LAMBDA f : addToDefault(f, network.mPermission))

removeAsDefault(netId, ifaces) ==
    LET network == mNetworks[netId]
    IN  IF ~network.mIsDefault THEN <<>>
        ELSE ForEach(InOrder(ifaces), LAMBDA f : removeFromDefault(f, network.mPermission))

(* modifyFallthroughLocked: from the VPN to every interface of the default network. *)
modifyFallthroughLocked(vpnNetId, action) ==
    IF mDefaultNetId = NETID_UNSET THEN <<>>
    ELSE LET network == mNetworks[mDefaultNetId]
         IN  ForEach(InOrder(network.mInterfaces), LAMBDA f :
                Modify(action, VirtualNetworkFallthrough(vpnNetId, f, network.mPermission)))

(* Every rule for an interface of the network that does not depend on the default network. *)
InterfaceRules(netId, iface) ==
    LET network == mNetworks[netId]
    IN  CASE isPhysical(network) ->
                modifyPhysicalNetwork(netId, iface, network.mUidRangeMap, network.mPermission,
                                      TRUE, network.mIsLocalNetwork)
          [] isVirtual(network) ->
                modifyVirtualNetwork(netId, iface, network.mUidRangeMap, network.mSecure,
                                     TRUE, network.mExcludeLocalRoutes)
          [] OTHER -> modifyLocalNetwork(netId, iface)

ModifyInterface(netId, iface, action) ==
    (IF mNetworks[netId].type = "LOCAL" THEN <<>> ELSE Call("getRouteTable", iface))
    \o Modify(action, InterfaceRules(netId, iface))

physicalAddInterface(netId, iface) ==
    ModifyInterface(netId, iface, "add")
    \o Call("addFixedLocalRoutes", iface)
    \o (IF mNetworks[netId].mIsDefault THEN addToDefault(iface, mNetworks[netId].mPermission)
        ELSE <<>>)

virtualAddInterface(netId, iface) == ModifyInterface(netId, iface, "add")

localAddInterface(netId, iface) ==
    ModifyInterface(netId, iface, "add") \o Call("setLocalTable", iface)

addInterface(netId, iface) ==
    LET network == mNetworks[netId]
    IN  CASE iface \in network.mInterfaces -> <<>>
          [] iface \notin network.mInterfaces /\ isPhysical(network) ->
                physicalAddInterface(netId, iface)
          [] iface \notin network.mInterfaces /\ isVirtual(network) ->
                virtualAddInterface(netId, iface)
          [] OTHER -> localAddInterface(netId, iface)

(* removeInterface that flushes the routes before the last request that needs the table. *)
removeInterfaceFlushFirst(netId, iface) ==
    Call("flushRoutes", iface) \o ModifyInterface(netId, iface, "del")

physicalRemoveInterface(netId, iface) ==
    (IF mNetworks[netId].mIsDefault THEN removeFromDefault(iface, mNetworks[netId].mPermission)
     ELSE <<>>)
    \o ModifyInterface(netId, iface, "del")
    \o Call("flushRoutes", iface) \o Call("clearTetheringRules", iface)

virtualRemoveInterface(netId, iface) ==
    ModifyInterface(netId, iface, "del") \o Call("flushRoutes", iface)

localRemoveInterface(netId, iface) ==
    ModifyInterface(netId, iface, "del") \o Call("eraseTable", iface)

removeInterface(netId, iface) ==
    CASE isPhysical(mNetworks[netId]) -> physicalRemoveInterface(netId, iface)
      [] isVirtual(mNetworks[netId]) -> virtualRemoveInterface(netId, iface)
      [] OTHER -> localRemoveInterface(netId, iface)

(* DummyNetwork::removeInterface always fails. *)
clearInterfaces(netId) ==
    IF hasVariableInterfaces(mNetworks[netId])
    THEN ForEach(InOrder(mNetworks[netId].mInterfaces),
                 LAMBDA f : removeInterface(netId, f) \o Call("reached", f))
    ELSE <<>>

ModifyPermission(netId, iface, permission, local, action) ==
    Call("getRouteTable", iface)
    \o Modify(action, modifyPhysicalNetwork(netId, iface, [q \in {} |-> NoRanges], permission,
                                            TRUE, local))

(* ... that deletes the old rules first. *)
deletePermissionFirst(netId, iface, old, new, local) ==
    ModifyPermission(netId, iface, old, local, "del")
    \o ModifyPermission(netId, iface, new, local, "add")

modifyPhysicalNetworkPermission(netId, iface, old, new, local) ==
    ModifyPermission(netId, iface, new, local, "add")
    \o ModifyPermission(netId, iface, old, local, "del")

(* setPermission that forgets that the network may be the default. *)
setPermissionOfOther(netId, permission) ==
    ForEach(InOrder(mNetworks[netId].mInterfaces), LAMBDA f :
        modifyPhysicalNetworkPermission(netId, f, mNetworks[netId].mPermission, permission,
                                        mNetworks[netId].mIsLocalNetwork))

setPermission(netId, permission) ==
    LET network == mNetworks[netId]
        ifaces  == InOrder(network.mInterfaces)
    IN  IF permission = network.mPermission THEN <<>>
        ELSE ForEach(ifaces, LAMBDA f :
                modifyPhysicalNetworkPermission(netId, f, network.mPermission, permission,
                                                network.mIsLocalNetwork))
             \o (IF network.mIsDefault
                 THEN ForEach(ifaces, LAMBDA f :
                         addToDefault(f, permission) \o removeFromDefault(f, network.mPermission))
                 ELSE <<>>)

(* The per-UID rules of addUsers and removeUsers. *)
physicalUserRules(netId, uidRangeMap) ==
    ForEach(InOrder(mNetworks[netId].mInterfaces), LAMBDA f :
        modifyPhysicalNetwork(netId, f, uidRangeMap, PERMISSION_NONE, FALSE,
                              mNetworks[netId].mIsLocalNetwork))

virtualUserRules(netId, uidRangeMap) ==
    ForEach(InOrder(mNetworks[netId].mInterfaces), LAMBDA f :
        modifyVirtualNetwork(netId, f, uidRangeMap, mNetworks[netId].mSecure, FALSE,
                             mNetworks[netId].mExcludeLocalRoutes))

unreachableUserRules(netId, uidRangeMap) == modifyUnreachableNetwork(netId, uidRangeMap)

UserRules(netId, uidRanges, p) ==
    LET uidRangeMap == [q \in {p} |-> uidRanges]
    IN  CASE isPhysical(mNetworks[netId]) -> physicalUserRules(netId, uidRangeMap)
          [] isVirtual(mNetworks[netId]) -> virtualUserRules(netId, uidRangeMap)
          [] OTHER -> unreachableUserRules(netId, uidRangeMap)
-----------------------------------------------------------------------------
(* Beginning a call: the checks up to the first request. *)

Begin(method, args, todo) ==
    /\ Idle
    /\ call' = [NoCall EXCEPT !.method = method, !.args = args, !.todo = todo]
    /\ UNCHANGED <<vars, routeVars, clean>>

BeginCreateVirtualNetwork(netId, secure, excludeLocalRoutes) ==
    /\ ~isValidNetwork(netId)
    /\ Begin("createVirtualNetwork", <<netId, secure, excludeLocalRoutes>>,
             modifyFallthroughLocked(netId, "add"))

BeginDestroyNetwork(netId) ==
    /\ isValidNetwork(netId) /\ netId \notin {LOCAL_NET_ID, UNREACHABLE_NET_ID}
    /\ Begin("clearInterfaces", <<netId>>, clearInterfaces(netId))

(* setDefaultNetwork that removes the old default first. *)
BeginSetDefaultRemoveFirst(netId) ==
    /\ mayBecomeDefault(netId)
    /\ Begin("setDefaultNetwork", <<netId>>,
             (IF mDefaultNetId = NETID_UNSET THEN <<>>
              ELSE removeAsDefault(mDefaultNetId, mNetworks[mDefaultNetId].mInterfaces))
             \o (IF netId = NETID_UNSET THEN <<>>
                 ELSE addAsDefault(netId) \o Call("reached", netId)))

BeginSetDefaultNetwork(netId) ==
    /\ mayBecomeDefault(netId)
    /\ Begin("setDefaultNetwork", <<netId>>,
             (IF netId = NETID_UNSET THEN <<>>
              ELSE addAsDefault(netId) \o Call("reached", netId))
             \o (IF mDefaultNetId = NETID_UNSET THEN <<>>
                 ELSE removeAsDefault(mDefaultNetId, mNetworks[mDefaultNetId].mInterfaces)))

BeginAddInterface(netId, iface) ==
    /\ isValidNetwork(netId) /\ hasVariableInterfaces(mNetworks[netId])
    /\ getNetworkForInterface(iface) \in {NETID_UNSET, netId}
    /\ Len(rules[AF_INET]) <= MaxRules
    /\ Begin("addInterfaceToNetwork", <<netId, iface>>, addInterface(netId, iface))

BeginRemoveInterface(netId, iface) ==
    /\ isValidNetwork(netId) /\ hasVariableInterfaces(mNetworks[netId])
    /\ iface \in mNetworks[netId].mInterfaces
    /\ Begin("removeInterfaceFromNetwork", <<netId, iface>>, removeInterface(netId, iface))

BeginSetPermission(permission, netIds) ==
    /\ \A i \in DOMAIN netIds : isValidNetwork(netIds[i]) /\ isPhysical(mNetworks[netIds[i]])
    /\ Begin("setPermissionForNetworks", <<permission>>,
             ForEach(netIds, LAMBDA n : setPermission(n, permission) \o Call("reached", n)))

BeginAddUsers(netId, uidRanges, p) ==
    /\ ~isWrongNetworkForUidRanges(netId) /\ isValidSubPriority(mNetworks[netId], p)
    /\ ~overlapsSelf(uidRanges)
    /\ \A r \in Ranges : mNetworks[netId].mUidRangeMap[p][r] + uidRanges[r] <= MaxCopies
    /\ Begin("addUsersToNetwork", <<netId, uidRanges, p>>,
             Modify("add", UserRules(netId, uidRanges, p)))

BeginRemoveUsers(netId, uidRanges, p) ==
    /\ ~isWrongNetworkForUidRanges(netId) /\ isValidSubPriority(mNetworks[netId], p)
    /\ Begin("removeUsersFromNetwork", <<netId, uidRanges, p>>,
             Modify("del", UserRules(netId, uidRanges, p)))
-----------------------------------------------------------------------------
(* Ending a call: its effect on the controller's own state. *)

Ends(method) ==
    /\ call.method = method /\ call.todo = <<>>
    /\ call' = NoCall
    /\ UNCHANGED <<routeVars, clean>>

EndCreateVirtualNetwork ==
    /\ Ends("createVirtualNetwork") /\ ~call.failed
    /\ createVirtualNetwork(call.args[1], call.args[2], call.args[3])

(* destroyNetwork goes on after a failure of clearInterfaces. *)
EndClearInterfaces ==
    /\ call.method = "clearInterfaces" /\ call.todo = <<>>
    /\ LET netId == call.args[1]
           todo == CASE mDefaultNetId = netId ->
                          removeAsDefault(netId, mNetworks[netId].mInterfaces \ call.reached)
                     [] mDefaultNetId # netId /\ isVirtual(mNetworks[netId]) ->
                          modifyFallthroughLocked(netId, "del")
                     [] OTHER -> <<>>
       IN  call' = [NoCall EXCEPT !.method = "destroyNetwork", !.args = <<netId>>, !.todo = todo]
    /\ UNCHANGED <<vars, routeVars, clean>>

EndDestroyNetwork == Ends("destroyNetwork") /\ destroyNetwork(call.args[1])

(* setDefaultNetwork that goes on after an error of removeAsDefault. *)
EndSetDefaultIgnoringErrors ==
    /\ Ends("setDefaultNetwork")
    /\ mDefaultNetId' = call.args[1]
    /\ mNetworks' = [n \in DOMAIN mNetworks |->
                       [mNetworks[n] EXCEPT !.mIsDefault = n = call.args[1]
                                                           \/ (@ /\ call.failed)]]
    /\ UNCHANGED <<addressVars, userVars, polling>>

EndSetDefaultNetwork ==
    /\ Ends("setDefaultNetwork")
    /\ \/ ~call.failed /\ setDefaultNetwork(call.args[1])
       \/ call.failed /\ call.reached # {} /\ setDefaultNetworkInterrupted(call.args[1])
       \/ call.failed /\ call.reached = {} /\ UNCHANGED vars

EndAddInterface ==
    /\ Ends("addInterfaceToNetwork") /\ ~call.failed
    /\ addInterfaceToNetwork(call.args[1], call.args[2], getIfIndex(call.args[2]))

EndRemoveInterface ==
    /\ Ends("removeInterfaceFromNetwork") /\ ~call.failed
    /\ removeInterfaceFromNetwork(call.args[1], call.args[2])

EndSetPermission ==
    /\ Ends("setPermissionForNetworks")
    /\ setPermissionForNetworks(call.args[1], call.reached)

EndAddUsers ==
    /\ Ends("addUsersToNetwork") /\ ~call.failed
    /\ addUsersToNetwork(call.args[1], call.args[2], call.args[3])

EndRemoveUsers ==
    /\ Ends("removeUsersFromNetwork") /\ ~call.failed
    /\ removeUsersFromNetwork(call.args[1], call.args[2], call.args[3])

(* The other methods return the first error and have changed nothing. *)
EndInError ==
    /\ \E method \in {"createVirtualNetwork", "addInterfaceToNetwork",
                      "removeInterfaceFromNetwork", "addUsersToNetwork",
                      "removeUsersFromNetwork"} : Ends(method)
    /\ call.failed
    /\ UNCHANGED vars
-----------------------------------------------------------------------------
(* What does not need mRWLock, and so happens at any time. *)

(* The kernel never uses an index twice. *)
InterfaceDisappears(iface) ==
    /\ ifIndexOf[iface] # 0
    /\ ifIndexOf' = [ifIndexOf EXCEPT ![iface] = 0]
    /\ UNCHANGED <<vars, rules, sInterfaceToTable, nextIfIndex, faults, call, clean>>

InterfaceAppears(iface) ==
    /\ ifIndexOf[iface] = 0 /\ nextIfIndex <= MaxIfIndex
    /\ ifIndexOf' = [ifIndexOf EXCEPT ![iface] = nextIfIndex]
    /\ nextIfIndex' = nextIfIndex + 1
    /\ UNCHANGED <<vars, rules, sInterfaceToTable, faults, call, clean>>

(* TetherController and IpFwdController call these under locks of their own. *)
TetheringRules(list) == SelectSeq(list, LAMBDA r : r.priority = RULE_PRIORITY_TETHERING)

enableTethering(inputInterface, outputInterface) ==
    /\ Len(TetheringRules(rules[AF_INET])) < Cardinality(TetherArgs)
    /\ \E ok \in BOOLEAN :
          SendRule("add", modifyTetheredNetwork(inputInterface, outputInterface)[1], ok)
    /\ UNCHANGED <<vars, call, clean>>

disableTethering(inputInterface, outputInterface) ==
    /\ \E ok \in BOOLEAN :
          SendRule("del", modifyTetheredNetwork(inputInterface, outputInterface)[1], ok)
    /\ UNCHANGED <<vars, call, clean>>

(***************************************************************************)
(* networkRejectNonSecureVpn, for one range; the framework does not        *)
(* install the rule twice.                                                 *)
(***************************************************************************)
(* The prohibit rule, for sockets that have not selected a network only. *)
rejectUnlessSelected(uids) ==
    [OutputRule(RULE_PRIORITY_PROHIBIT_NON_VPN, UnspecifiedTable, uids) EXCEPT
       !.action = "prohibit", !.protected = "no", !.explicit = "no"]

modifyRejectNonSecureNetworkRule(uids) ==
    [OutputRule(RULE_PRIORITY_PROHIBIT_NON_VPN, UnspecifiedTable, uids) EXCEPT
       !.action = "prohibit", !.protected = "no"]

Rejects(list, uids) ==
    \E i \in DOMAIN list : list[i] = Resolved(modifyRejectNonSecureNetworkRule(uids), <<>>)

addUsersToRejectNonSecureNetworkRule(uids) ==
    /\ ~Rejects(rules[AF_INET], uids)
    /\ \E ok \in BOOLEAN : SendRule("add", modifyRejectNonSecureNetworkRule(uids), ok)
    /\ UNCHANGED <<vars, call, clean>>

removeUsersFromRejectNonSecureNetworkRule(uids) ==
    /\ \E ok \in BOOLEAN : SendRule("del", modifyRejectNonSecureNetworkRule(uids), ok)
    /\ UNCHANGED <<vars, call, clean>>

-----------------------------------------------------------------------------
(* RouteController::Init; dummy0 exists when netd starts. *)
InitRules ==
    addLegacyRouteRules \o addLocalNetworkRules(LOCAL_NET_ID) \o addUnreachableRule
    \o modifyOutputInterfaceRules(DUMMY_INTERFACE, InterfaceTable(DUMMY_INTERFACE),
                                  PERMISSION_NONE, AnyUid, SUB_PRIORITY_HIGHEST)

RoutingInit ==
    /\ Init
    /\ ifIndexOf = [f \in Ifaces |-> CHOOSE i \in DOMAIN IfaceOrder : IfaceOrder[i] = f]
    /\ nextIfIndex = Len(IfaceOrder) + 1
    /\ sInterfaceToTable =
          [f \in Ifaces |-> IF f = DUMMY_INTERFACE
                            THEN ifIndexOf[f] + ROUTE_TABLE_OFFSET_FROM_INDEX ELSE 0]
    /\ rules = [family \in Families |->
                  FoldLeft(LAMBDA list, rule : AddRule(list, Resolved(rule, sInterfaceToTable)),
                           <<>>, InitRules)]
    /\ call = NoCall
    /\ faults = 0
    /\ clean = TRUE

BeginNext ==
    \/ \E n \in VirtualIds, v \in VpnArgs : BeginCreateVirtualNetwork(n, v[1], v[2])
    \/ \E n \in AllNetIds : BeginDestroyNetwork(n)
    \/ \E n \in AllNetIds \cup {NETID_UNSET} : BeginSetDefaultNetwork(n)
    \/ \E a \in InterfaceArgs : BeginAddInterface(a[1], a[2])
    \/ \E n \in AllNetIds, f \in Ifaces : BeginRemoveInterface(n, f)
    \/ \E p \in PermissionArgs, n \in PhysicalIds : BeginSetPermission(p, <<n>>)
    \/ \E p \in PermissionArgs, m, n \in PhysicalIds : m # n /\ BeginSetPermission(p, <<m, n>>)
    \/ \E a \in UserArgs, r \in RangeArgs : BeginAddUsers(a[1], r, a[2])
    \/ \E a \in UserArgs, r \in RangeArgs : BeginRemoveUsers(a[1], r, a[2])

CreatePhysicalNetwork(netId, permission, local) ==
    /\ Idle
    /\ createPhysicalNetwork(netId, permission, local)
    /\ UNCHANGED <<routeVars, call, clean>>

EndNext ==
    \/ EndCreateVirtualNetwork \/ EndClearInterfaces \/ EndDestroyNetwork
    \/ EndSetDefaultNetwork \/ EndAddInterface \/ EndRemoveInterface
    \/ EndSetPermission \/ EndAddUsers \/ EndRemoveUsers \/ EndInError

UnlockedNext ==
    \/ \E f \in VolatileIfaces : InterfaceDisappears(f)
    \/ \E f \in VolatileIfaces : InterfaceAppears(f)
    \/ \E t \in TetherArgs : enableTethering(t[1], t[2])
    \/ \E t \in TetherArgs : disableTethering(t[1], t[2])
    \/ \E r \in LockdownArgs : addUsersToRejectNonSecureNetworkRule(r)
    \/ \E r \in LockdownArgs : removeUsersFromRejectNonSecureNetworkRule(r)

RoutingNext ==
    \/ \E n \in PhysicalIds, p \in PermissionArgs, l \in LocalArgs : CreatePhysicalNetwork(n, p, l)
    \/ BeginNext
    \/ SendRequest
    \/ EndNext
    \/ UnlockedNext

RoutingSpec == RoutingInit /\ [][RoutingNext]_routingVars
-----------------------------------------------------------------------------
(* Properties *)

(***************************************************************************)
(* The rules in the kernel are, with multiplicity, those of the networks:  *)
(* what an operation adds for an interface, a UID range, a permission, the *)
(* default network or a VPN's fallthrough is exactly what the operations   *)
(* that undo it delete, in whatever order they are called, as long as no   *)
(* request failed.  Nothing leaks and no deletion hits another's rule,     *)
(* although the deletions are wildcards.                                   *)
(***************************************************************************)
NetworkRules(netId) ==
    LET network == mNetworks[netId]
        withDefault == isPhysical(network) /\ network.mIsDefault
    IN  CASE isUnreachable(network) -> modifyUnreachableNetwork(netId, network.mUidRangeMap)
          [] hasVariableInterfaces(network) ->
                ForEach(InOrder(network.mInterfaces), LAMBDA f :
                    InterfaceRules(netId, f)
                    \o (IF withDefault THEN DefaultRules(f, network.mPermission) ELSE <<>>))
          [] OTHER -> <<>>

ExpectedRules ==
    InitRules \o ForEach(SetToSortSeq(DOMAIN mNetworks, LAMBDA m, n : m < n), NetworkRules)

OwnRules(list) ==
    SelectSeq(list, LAMBDA r :
        r.priority \notin {RULE_PRIORITY_TETHERING, RULE_PRIORITY_PROHIBIT_NON_VPN})

RulesMatchNetworks ==
    clean /\ Idle =>
        LET expected == [i \in DOMAIN ExpectedRules |-> Resolved(ExpectedRules[i], sInterfaceToTable)]
        IN  \A f \in Families : ToBag(OwnRules(rules[f])) = ToBag(expected)

(* Packets whose routing the properties talk about. *)
Packet(netId, explicit, protected, permission, uid) ==
    [netId |-> netId, explicit |-> explicit, protected |-> protected, permission |-> permission,
     uid |-> uid, oif |-> NoName]

SystemUid == FIRST_APPLICATION_UID - 1

TablesOf(ifaces) == {sInterfaceToTable[f] : f \in ifaces} \ {0}

(* The call takes interfaces or the network itself away. *)
Removing(netId) ==
    /\ call.method \in {"removeInterfaceFromNetwork", "clearInterfaces", "destroyNetwork"}
    /\ call.args[1] = netId

(***************************************************************************)
(* A process that may use a physical network and has selected it is routed *)
(* over it at every moment, also in the middle of a permission change:     *)
(* "Add the new rules before deleting the old ones, to avoid race          *)
(* conditions" (modifyPhysicalNetworkPermission).                          *)
(***************************************************************************)
SelectedNetworkIsAlwaysRouted ==
    clean => \A n \in DOMAIN mNetworks :
        isPhysical(mNetworks[n]) /\ mNetworks[n].mInterfaces # {} /\ ~Removing(n) =>
            \A f \in Families :
                RouteOf(rules[f], Packet(n, "yes", "yes", PERMISSION_SYSTEM, SystemUid))
                    \in TablesOf(mNetworks[n].mInterfaces)

(***************************************************************************)
(* While the default network has an interface, and while it is replaced by *)
(* another that has one, unconnected sockets that need no other network    *)
(* are routed over the old or the new one (setDefaultNetwork adds before   *)
(* it removes, and so does setPermission).                                 *)
(***************************************************************************)
DefaultTarget == IF call.method = "setDefaultNetwork" THEN call.args[1] ELSE mDefaultNetId

DefaultIsAlwaysRouted ==
    LET hasInterface(n) == n # NETID_UNSET /\ mNetworks[n].mInterfaces # {}
    IN  clean /\ hasInterface(mDefaultNetId) /\ hasInterface(DefaultTarget)
              /\ ~Removing(mDefaultNetId) =>
        \A f \in Families :
            RouteOf(rules[f], Packet(NETID_UNSET, "no", "yes", PERMISSION_SYSTEM, SystemUid))
                \in TablesOf(UNION {mNetworks[n].mInterfaces : n \in {mDefaultNetId, DefaultTarget}})

(***************************************************************************)
(* The controller's answer and the kernel's agree: a socket of a UID that  *)
(* has selected no network, connected (marked by FwmarkServer with         *)
(* getNetworkForConnect) or not (mark 0), is routed over an interface of   *)
(* the network that getNetworkForUser names, or refused if that is the     *)
(* unreachable network.  Only networks that need no permission are meant:  *)
(* one that needs a permission has no implicit rule                        *)
(* (modifyImplicitNetworkRule).  A UID that two networks claim at the same *)
(* subsidiary priority is not meant, nor one that the unreachable network  *)
(* and another one claim (see PerAppNetworkBeatsUnreachable), nor one in   *)
(* lockdown.                                                               *)
(***************************************************************************)
Ambiguous(uid) ==
    \E m, n \in {k \in DOMAIN mNetworks : ~isVirtual(mNetworks[k]) /\ appliesToUser(mNetworks[k], uid)} :
        /\ m # n
        /\ \/ isUnreachable(mNetworks[m])
           \/ HighestPriorityFor(mNetworks[m], uid) = HighestPriorityFor(mNetworks[n], uid)

InLockdown(uid) ==
    \E f \in Families, r \in Ranges :
        uid \in r.start .. r.stop /\ Rejects(rules[f], r)

SocketRoutes(uid) ==
    {RouteOf(rules[f], Packet(mark, "no", "no", getPermissionForUser(uid), uid)) :
        f \in Families, mark \in {NETID_UNSET, getNetworkForConnect(uid)}}

SocketsFollowController ==
    clean /\ Idle => \A uid \in Uids :
        LET netId == getNetworkForUser(uid)
        IN  ~Ambiguous(uid) /\ ~InLockdown(uid) /\ netId # NETID_UNSET =>
              /\ isUnreachable(mNetworks[netId]) => SocketRoutes(uid) = {0}
              /\ mNetworks[netId].mInterfaces # {}
                 /\ (isPhysical(mNetworks[netId]) => mNetworks[netId].mPermission = PERMISSION_NONE)
                 => SocketRoutes(uid) \subseteq TablesOf(mNetworks[netId].mInterfaces)

(***************************************************************************)
(* While a UID is in lockdown (networkRejectNonSecureVpn), none of its     *)
(* sockets that is not protected from VPNs is routed over a physical       *)
(* network, whatever network it selected, whatever permission it has and   *)
(* whatever call is half done.                                             *)
(***************************************************************************)
LockdownHolds ==
    clean => \A f \in Families, r \in Ranges, uid \in Uids :
        Rejects(rules[f], r) /\ uid \in r.start .. r.stop =>
            \A mark \in DOMAIN mNetworks \cup {NETID_UNSET}, explicit \in {"yes", "no"},
               permission \in Permissions :
                RouteOf(rules[f], Packet(mark, explicit, "no", permission, uid)) \notin
                    TablesOf(UNION {mNetworks[n].mInterfaces :
                                      n \in {m \in DOMAIN mNetworks : isPhysical(mNetworks[m])}})

(***************************************************************************)
(* Unless the kernel refuses a request, an interface can be taken out of   *)
(* its network, also if it has gone already or has come back with another  *)
(* index: its table is found in sInterfaceToTable until the last request   *)
(* that needs it ("it must be done last as further requests to the         *)
(* RouteController regarding this interface will fail to find the          *)
(* interface index in the cache", PhysicalNetwork::removeInterface).       *)
(***************************************************************************)
LostInterfacesCanBeRemoved ==
    faults = 0 /\ call.method \in {"removeInterfaceFromNetwork", "clearInterfaces"} => ~call.failed

(***************************************************************************)
(* "if the same interface disconnects and then reconnects with a different *)
(* interface ID when the reconnect happens the interface will not be in    *)
(* the map" (RouteController.cpp:153-154): the entry of an interface that  *)
(* is in no network is not left over from an earlier index.                *)
(***************************************************************************)
NoStaleTable ==
    Idle => \A f \in Ifaces :
        getNetworkForInterface(f) = NETID_UNSET /\ ifIndexOf[f] # 0 =>
            getIfIndex(f) \in {0, ifIndexOf[f]}
===============================================================================
