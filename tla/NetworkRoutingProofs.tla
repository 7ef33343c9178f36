------------------------- MODULE NetworkRoutingProofs -------------------------
(***************************************************************************)
(* NetworkRouting, in which a call of NetworkController takes many steps,  *)
(* implements NetworkController, in which it takes one: proved for every   *)
(* set of networks, interfaces, UIDs and ranges, any number of rules and   *)
(* any number of requests that fail.                                       *)
(***************************************************************************)
EXTENDS NetworkRouting, NetworkControllerProofs

(* What sInterfaceToTable can hold: no entry, the local network's table, an interface's table. *)
Tables ==
    {0, ROUTE_TABLE_LOCAL_NETWORK}
    \cup (ROUTE_TABLE_OFFSET_FROM_INDEX + 1 .. ROUTE_TABLE_OFFSET_FROM_INDEX + MaxIfIndex)

(* The tables that RouteController remembers are tables of indices the kernel handed out. *)
TablesTyped ==
    /\ ifIndexOf \in [Ifaces -> 0 .. MaxIfIndex]
    /\ nextIfIndex \in Nat \ {0}
    /\ sInterfaceToTable \in [Ifaces -> Tables]

CallTyped ==
    call = [method |-> call.method, args |-> call.args, todo |-> call.todo,
            reached |-> call.reached, failed |-> call.failed]

(***************************************************************************)
(* What a call checked when it began is still true at each of its          *)
(* requests and when it ends, because it holds mRWLock; so the effect that *)
(* it then has on the controller's state is one it may have.               *)
(***************************************************************************)
ChecksStillHold ==
    /\ call.method = "createVirtualNetwork" =>
          \E n \in VirtualIds, v \in VpnArgs :
              call.args = <<n, v[1], v[2]>> /\ ~isValidNetwork(n)
    /\ call.method \in {"clearInterfaces", "destroyNetwork"} =>
          \E n \in AllNetIds : call.args = <<n>> /\ mayDestroy(n)
    /\ call.method = "setDefaultNetwork" =>
          \E n \in AllNetIds \cup {NETID_UNSET} : call.args = <<n>> /\ mayBecomeDefault(n)
    /\ call.method = "addInterfaceToNetwork" =>
          \E n \in AllNetIds, f \in Ifaces : call.args = <<n, f>> /\ mayAddInterface(n, f)
    /\ call.method = "removeInterfaceFromNetwork" =>
          \E n \in AllNetIds, f \in Ifaces :
              /\ call.args = <<n, f>>
              /\ isValidNetwork(n) /\ hasVariableInterfaces(mNetworks[n])
              /\ f \in mNetworks[n].mInterfaces
    /\ call.method = "setPermissionForNetworks" =>
          \E p \in PermissionArgs : call.args = <<p>>
    /\ call.method \in {"addUsersToNetwork", "removeUsersFromNetwork"} =>
          \E n \in AllNetIds, r \in RangeArgs, p \in SubPriorities :
              /\ call.args = <<n, r, p>>
              /\ ~isWrongNetworkForUidRanges(n) /\ isValidSubPriority(mNetworks[n], p)
              /\ call.method = "addUsersToNetwork" =>
                    /\ ~overlapsSelf(r)
                    /\ \A q \in Ranges : mNetworks[n].mUidRangeMap[p][q] + r[q] <= MaxCopies

(* The inductive invariant. *)
RoutingInv == Inv /\ TablesTyped /\ CallTyped /\ ChecksStillHold

-----------------------------------------------------------------------------
(* The tables of interfaces *)

(* An assignment to an entry of sInterfaceToTable, or to no entry at all, keeps its type. *)
LEMMA TableUpdate ==
    ASSUME TablesTyped, NEW iface, NEW table \in Tables
    PROVE  [sInterfaceToTable EXCEPT ![iface] = table] \in [Ifaces -> Tables]
BY Zenon DEF TablesTyped

(* getRouteTableForInterfaceLocked computes the table of an index the kernel handed out. *)
LEMMA TableForInterface ==
    ASSUME TablesTyped, NEW iface
    PROVE  WithTableFor(iface) \in [Ifaces -> Tables]
<1>1. CASE iface \in Ifaces /\ ifIndexOf[iface] # 0
  <2>1. ifIndexOf[iface] + ROUTE_TABLE_OFFSET_FROM_INDEX \in Tables
    BY <1>1, IndicesAssumption DEF TablesTyped, Tables, ROUTE_TABLE_OFFSET_FROM_INDEX
  <2> QED
    BY <2>1, TableUpdate DEF WithTableFor, TablesTyped
<1>2. CASE iface \in Ifaces /\ ifIndexOf[iface] = 0
  BY <1>2 DEF WithTableFor, TablesTyped
<1>3. CASE iface \notin Ifaces
  <2>1. [sInterfaceToTable EXCEPT ![iface] = ifIndexOf[iface] + ROUTE_TABLE_OFFSET_FROM_INDEX]
           = sInterfaceToTable
    BY <1>3 DEF TablesTyped
  <2> QED
    BY <2>1, Zenon DEF WithTableFor, TablesTyped
<1> QED
  BY <1>1, <1>2, <1>3

(* The index that addInterfaceToNetwork reads back from the table is 0 or one of the kernel's. *)
LEMMA IndexFromTable ==
    ASSUME TablesTyped, NEW iface \in Ifaces
    PROVE  getIfIndex(iface) \in IfIndices \cup {0}
BY RoutingAssumption, IndicesAssumption
DEF TablesTyped, Tables, getIfIndex, ROUTE_TABLE_OFFSET_FROM_INDEX, ROUTE_TABLE_LOCAL_NETWORK

(* A rule request, whatever its outcome, keeps the types of the tables. *)
LEMMA SendRuleKeepsTables ==
    ASSUME TablesTyped, NEW action, NEW rule, NEW ok, SendRule(action, rule, ok)
    PROVE  TablesTyped'
<1>1. /\ sInterfaceToTable' = WithTableFor(rule.table.iface)
      /\ UNCHANGED <<ifIndexOf, nextIfIndex>>
  BY DEF SendRule
<1> QED
  BY <1>1, TableForInterface DEF TablesTyped

-----------------------------------------------------------------------------
(* Steps that leave the controller alone *)

(* The checks read the networks and the default network only. *)
LEMMA QueriesUnchanged ==
    ASSUME UNCHANGED <<mNetworks, mDefaultNetId>>
    PROVE  /\ \A n : /\ isValidNetwork(n)' = isValidNetwork(n)
                     /\ mayDestroy(n)' = mayDestroy(n)
                     /\ mayBecomeDefault(n)' = mayBecomeDefault(n)
                     /\ isWrongNetworkForUidRanges(n)' = isWrongNetworkForUidRanges(n)
           /\ \A n, f : mayAddInterface(n, f)' = mayAddInterface(n, f)
<1>1. \A n : /\ isValidNetwork(n)' = isValidNetwork(n)
             /\ mayDestroy(n)' = mayDestroy(n)
             /\ mayBecomeDefault(n)' = mayBecomeDefault(n)
             /\ isWrongNetworkForUidRanges(n)' = isWrongNetworkForUidRanges(n)
  BY DEF isValidNetwork, mayDestroy, mayBecomeDefault, isWrongNetworkForUidRanges
<1>2. \A n, f : mayAddInterface(n, f)' = mayAddInterface(n, f)
  BY DEF isValidNetwork, mayAddInterface, getNetworkForInterface
<1> QED
  BY <1>1, <1>2

(* While the controller's state and the call's arguments stay, so does what the call checked. *)
LEMMA ChecksUndisturbed ==
    ASSUME ChecksStillHold, UNCHANGED vars,
           call'.method = call.method, call'.args = call.args
    PROVE  ChecksStillHold'
<1>1. UNCHANGED <<mNetworks, mDefaultNetId>>
  BY DEF vars, networkVars
<1> QED
  BY <1>1, QueriesUnchanged DEF ChecksStillHold

(* The requests change sInterfaceToTable, the kernel's rules and the call's progress only. *)
LEMMA SendRequestPreservesInv ==
    ASSUME RoutingInv, SendRequest
    PROVE  RoutingInv' /\ UNCHANGED vars
<1> DEFINE request == Head(call.todo)
           SameCall == CallTyped' /\ call'.method = call.method /\ call'.args = call.args
<1>1. UNCHANGED vars
  BY DEF SendRequest
<1>2. ASSUME NEW ok, Advance(ok) PROVE SameCall
  BY <1>2, Zenon DEF Advance, RoutingInv, CallTyped
<1>3. TablesTyped' /\ SameCall
  <2>1. CASE request.op \in {"add", "del"}
    BY <1>2, <2>1, SendRuleKeepsTables, Zenon DEF SendRequest, RoutingInv
  <2>2. CASE request.op = "getRouteTable"
    BY <1>2, <2>2, TableForInterface, Zenon
    DEF SendRequest, RoutingInv, getRouteTableForInterface, TablesTyped
  <2>3. CASE request.op = "flushRoutes"
    <3>1. PICK ok \in BOOLEAN : flushRoutes(request.arg, ok) /\ Advance(ok)
      BY <2>3, Zenon DEF SendRequest
    <3>2. 0 \in Tables
      BY DEF Tables
    <3> QED
      BY <1>2, <3>1, <3>2, TableForInterface, TableUpdate DEF RoutingInv, flushRoutes, TablesTyped
  <2>4. CASE request.op = "addFixedLocalRoutes"
    BY <1>2, <2>4, TableForInterface, Zenon
    DEF SendRequest, RoutingInv, addFixedLocalRoutes, TablesTyped
  <2>5. CASE request.op = "clearTetheringRules"
    <3>1. clearTetheringRules(request.arg)
      BY <2>5, Zenon DEF SendRequest
    <3>2. TablesTyped'
      BY <3>1, SendRuleKeepsTables DEF clearTetheringRules, RoutingInv
    <3>3. SameCall
      BY <1>2, <3>1 DEF clearTetheringRules, RoutingInv, CallTyped
    <3> QED
      BY <3>2, <3>3
  <2>6. CASE request.op = "setLocalTable"
    <3>1. ROUTE_TABLE_LOCAL_NETWORK \in Tables
      BY DEF Tables
    <3> QED
      BY <1>2, <2>6, <3>1, TableUpdate, Zenon DEF SendRequest, RoutingInv, setTable, TablesTyped
  <2>7. CASE request.op = "eraseTable"
    <3>1. 0 \in Tables
      BY DEF Tables
    <3> QED
      BY <1>2, <2>7, <3>1, TableUpdate, Zenon DEF SendRequest, RoutingInv, setTable, TablesTyped
  <2>8. CASE request.op = "reached"
    BY <2>8, Zenon DEF SendRequest, RoutingInv, TablesTyped, routeVars, CallTyped
  <2> QED
    BY <2>1, <2>2, <2>3, <2>4, <2>5, <2>6, <2>7, <2>8, Zenon DEF SendRequest
<1>4. ChecksStillHold'
  BY <1>1, <1>3, ChecksUndisturbed DEF RoutingInv
<1>5. Inv'
  BY <1>1, NextPreservesInv DEF RoutingInv
<1> QED
  BY <1>1, <1>3, <1>4, <1>5 DEF RoutingInv

-----------------------------------------------------------------------------
(* Beginning a call *)

(* A call that begins records its arguments and changes nothing else. *)
LEMMA BeginKeepsTypes ==
    ASSUME RoutingInv, NEW method, NEW args, NEW todo, Begin(method, args, todo)
    PROVE  /\ Inv' /\ TablesTyped' /\ CallTyped' /\ UNCHANGED vars
           /\ call'.method = method /\ call'.args = args
<1>1. UNCHANGED vars /\ call' = [NoCall EXCEPT !.method = method, !.args = args, !.todo = todo]
  BY DEF Begin
<1>2. CallTyped' /\ call'.method = method /\ call'.args = args
  BY <1>1, Zenon DEF NoCall, CallTyped
<1>3. TablesTyped'
  BY DEF Begin, RoutingInv, TablesTyped, routeVars
<1>4. Inv'
  BY <1>1, NextPreservesInv DEF RoutingInv
<1> QED
  BY <1>1, <1>2, <1>3, <1>4

(* The checks that each method makes before its first request are the ones recorded. *)
LEMMA BeginPreservesInv ==
    ASSUME RoutingInv, BeginNext
    PROVE  RoutingInv' /\ UNCHANGED vars
<1> DEFINE Goal == RoutingInv' /\ UNCHANGED vars
<1>1. ASSUME NEW n \in VirtualIds, NEW v \in VpnArgs, BeginCreateVirtualNetwork(n, v[1], v[2])
      PROVE  Goal
  <2>1. PICK todo : Begin("createVirtualNetwork", <<n, v[1], v[2]>>, todo)
    BY <1>1 DEF BeginCreateVirtualNetwork
  <2>2. ChecksStillHold'
    BY QueriesUnchanged, <1>1, <2>1, BeginKeepsTypes
    DEF BeginCreateVirtualNetwork, ChecksStillHold, vars, networkVars
  <2> QED
    BY <2>1, <2>2, BeginKeepsTypes DEF RoutingInv
<1>2. ASSUME NEW n \in AllNetIds, BeginDestroyNetwork(n) PROVE Goal
  <2>1. PICK todo : Begin("clearInterfaces", <<n>>, todo)
    BY <1>2 DEF BeginDestroyNetwork
  <2>2. mayDestroy(n)
    BY <1>2 DEF BeginDestroyNetwork, mayDestroy
  <2>3. ChecksStillHold'
    BY QueriesUnchanged, <2>1, <2>2, BeginKeepsTypes DEF ChecksStillHold, vars, networkVars
  <2> QED
    BY <2>1, <2>3, BeginKeepsTypes DEF RoutingInv
<1>3. ASSUME NEW n \in AllNetIds \cup {NETID_UNSET}, BeginSetDefaultNetwork(n) PROVE Goal
  <2>1. PICK todo : Begin("setDefaultNetwork", <<n>>, todo)
    BY <1>3 DEF BeginSetDefaultNetwork
  <2>2. mayBecomeDefault(n)
    BY <1>3 DEF BeginSetDefaultNetwork
  <2>3. ChecksStillHold'
    BY QueriesUnchanged, <2>1, <2>2, BeginKeepsTypes DEF ChecksStillHold, vars, networkVars
  <2> QED
    BY <2>1, <2>3, BeginKeepsTypes DEF RoutingInv
<1>4. ASSUME NEW a \in InterfaceArgs, BeginAddInterface(a[1], a[2]) PROVE Goal
  <2>1. PICK todo : Begin("addInterfaceToNetwork", <<a[1], a[2]>>, todo)
    BY <1>4 DEF BeginAddInterface
  <2>2. mayAddInterface(a[1], a[2]) /\ a[1] \in AllNetIds /\ a[2] \in Ifaces
    BY <1>4, RoutingAssumption DEF BeginAddInterface, mayAddInterface
  <2>3. ChecksStillHold'
    BY QueriesUnchanged, <2>1, <2>2, BeginKeepsTypes DEF ChecksStillHold, vars, networkVars
  <2> QED
    BY <2>1, <2>3, BeginKeepsTypes DEF RoutingInv
<1>5. ASSUME NEW n \in AllNetIds, NEW f \in Ifaces, BeginRemoveInterface(n, f) PROVE Goal
  <2>1. PICK todo : Begin("removeInterfaceFromNetwork", <<n, f>>, todo)
    BY <1>5 DEF BeginRemoveInterface
  <2>2. /\ isValidNetwork(n) /\ hasVariableInterfaces(mNetworks[n])
        /\ f \in mNetworks[n].mInterfaces
    BY <1>5 DEF BeginRemoveInterface
  <2>3. ChecksStillHold'
    BY QueriesUnchanged, <2>1, <2>2, BeginKeepsTypes DEF ChecksStillHold, vars, networkVars
  <2> QED
    BY <2>1, <2>3, BeginKeepsTypes DEF RoutingInv
<1>6. ASSUME NEW p \in PermissionArgs, NEW netIds, BeginSetPermission(p, netIds) PROVE Goal
  <2>1. PICK todo : Begin("setPermissionForNetworks", <<p>>, todo)
    BY <1>6, Zenon DEF BeginSetPermission
  <2>2. ChecksStillHold'
    BY <2>1, BeginKeepsTypes DEF ChecksStillHold
  <2> QED
    BY <2>1, <2>2, BeginKeepsTypes DEF RoutingInv
<1>7. ASSUME NEW a \in UserArgs, NEW r \in RangeArgs, BeginAddUsers(a[1], r, a[2]) PROVE Goal
  <2>1. PICK todo : Begin("addUsersToNetwork", <<a[1], r, a[2]>>, todo)
    BY <1>7 DEF BeginAddUsers
  <2>2. /\ ~isWrongNetworkForUidRanges(a[1]) /\ isValidSubPriority(mNetworks[a[1]], a[2])
        /\ ~overlapsSelf(r)
        /\ \A q \in Ranges : mNetworks[a[1]].mUidRangeMap[a[2]][q] + r[q] <= MaxCopies
        /\ a[1] \in AllNetIds /\ a[2] \in SubPriorities
    BY <1>7, RoutingAssumption DEF BeginAddUsers
  <2>3. ChecksStillHold'
    BY QueriesUnchanged, <2>1, <2>2, BeginKeepsTypes DEF ChecksStillHold, vars, networkVars
  <2> QED
    BY <2>1, <2>3, BeginKeepsTypes DEF RoutingInv
<1>8. ASSUME NEW a \in UserArgs, NEW r \in RangeArgs, BeginRemoveUsers(a[1], r, a[2]) PROVE Goal
  <2>1. PICK todo : Begin("removeUsersFromNetwork", <<a[1], r, a[2]>>, todo)
    BY <1>8 DEF BeginRemoveUsers
  <2>2. /\ ~isWrongNetworkForUidRanges(a[1]) /\ isValidSubPriority(mNetworks[a[1]], a[2])
        /\ a[1] \in AllNetIds /\ a[2] \in SubPriorities
    BY <1>8, RoutingAssumption DEF BeginRemoveUsers
  <2>3. ChecksStillHold'
    BY QueriesUnchanged, <2>1, <2>2, BeginKeepsTypes DEF ChecksStillHold, vars, networkVars
  <2> QED
    BY <2>1, <2>3, BeginKeepsTypes DEF RoutingInv
<1> QED
  BY <1>1, <1>2, <1>3, <1>4, <1>5, <1>6, <1>7, <1>8, Zenon DEF BeginNext

-----------------------------------------------------------------------------
(* Ending a call *)

(* When no call is in progress, nothing has to be remembered of its checks. *)
LEMMA NoCallChecks ==
    ASSUME call' = NoCall
    PROVE  CallTyped' /\ ChecksStillHold'
<1>1. CallTyped' /\ call'.method = "none"
  BY DEF NoCall, CallTyped
<1> QED
  BY <1>1 DEF ChecksStillHold

(* A call that ends has a step of NetworkController as its effect, or none. *)
LEMMA EndIsAStep ==
    ASSUME RoutingInv, EndNext
    PROVE  [Next]_vars
<1> USE DEF RoutingInv
<1>1. CASE EndCreateVirtualNetwork
  <2>1. PICK n \in VirtualIds, v \in VpnArgs : call.args = <<n, v[1], v[2]>>
    BY <1>1 DEF EndCreateVirtualNetwork, Ends, ChecksStillHold
  <2>2. n \in NetIds /\ createVirtualNetwork(n, v[1], v[2])
    BY <1>1, <2>1, RoutingAssumption DEF EndCreateVirtualNetwork
  <2> QED
    BY <2>2 DEF Next, NetworkNext
<1>2. CASE EndClearInterfaces
  BY <1>2 DEF EndClearInterfaces
<1>3. CASE EndDestroyNetwork
  <2>1. PICK n \in AllNetIds : call.args = <<n>>
    BY <1>3 DEF EndDestroyNetwork, Ends, ChecksStillHold
  <2>2. destroyNetwork(n)
    BY <1>3, <2>1 DEF EndDestroyNetwork
  <2> QED
    BY <2>2 DEF Next, NetworkNext
<1>4. CASE EndSetDefaultNetwork
  <2>1. PICK n \in AllNetIds \cup {NETID_UNSET} : call.args = <<n>>
    BY <1>4 DEF EndSetDefaultNetwork, Ends, ChecksStillHold
  <2>2. CASE setDefaultNetwork(n)
    BY <2>2 DEF Next, NetworkNext
  <2>3. CASE setDefaultNetworkInterrupted(n)
    <3>1. n \in AllNetIds
      BY <2>3 DEF setDefaultNetworkInterrupted
    <3> QED
      BY <2>3, <3>1 DEF Next, NetworkNext
  <2> QED
    BY <1>4, <2>1, <2>2, <2>3 DEF EndSetDefaultNetwork
<1>5. CASE EndAddInterface
  <2>1. PICK n \in AllNetIds, f \in Ifaces : call.args = <<n, f>>
    BY <1>5 DEF EndAddInterface, Ends, ChecksStillHold
  <2>2. addInterfaceToNetwork(n, f, getIfIndex(f))
    BY <1>5, <2>1 DEF EndAddInterface
  <2>3. getIfIndex(f) \in IfIndices \cup {0}
    BY IndexFromTable
  <2> QED
    BY <2>2, <2>3 DEF Next, NetworkNext
<1>6. CASE EndRemoveInterface
  <2>1. PICK n \in AllNetIds, f \in Ifaces : call.args = <<n, f>>
    BY <1>6 DEF EndRemoveInterface, Ends, ChecksStillHold
  <2>2. removeInterfaceFromNetwork(n, f)
    BY <1>6, <2>1 DEF EndRemoveInterface
  <2> QED
    BY <2>2 DEF Next, NetworkNext
<1>7. CASE EndSetPermission
  <2>1. PICK p \in PermissionArgs : call.args = <<p>>
    BY <1>7 DEF EndSetPermission, Ends, ChecksStillHold
  <2>2. setPermissionForNetworks(p, call.reached)
    BY <1>7, <2>1 DEF EndSetPermission
  <2>3. call.reached \in SUBSET AllNetIds
    BY <2>2 DEF setPermissionForNetworks, isValidNetwork, Inv, TypeOK
  <2> QED
    BY <2>2, <2>3 DEF Next, NetworkNext
<1>8. CASE EndAddUsers
  <2>1. PICK n \in AllNetIds, r \in RangeArgs, p \in SubPriorities : call.args = <<n, r, p>>
    BY <1>8 DEF EndAddUsers, Ends, ChecksStillHold
  <2>2. addUsersToNetwork(n, r, p)
    BY <1>8, <2>1 DEF EndAddUsers
  <2> QED
    BY <2>2 DEF Next, UserNext
<1>9. CASE EndRemoveUsers
  <2>1. PICK n \in AllNetIds, r \in RangeArgs, p \in SubPriorities : call.args = <<n, r, p>>
    BY <1>9 DEF EndRemoveUsers, Ends, ChecksStillHold
  <2>2. removeUsersFromNetwork(n, r, p)
    BY <1>9, <2>1 DEF EndRemoveUsers
  <2> QED
    BY <2>2 DEF Next, UserNext
<1>10. CASE EndInError
  BY <1>10 DEF EndInError
<1> QED
  BY <1>1, <1>2, <1>3, <1>4, <1>5, <1>6, <1>7, <1>8, <1>9, <1>10 DEF EndNext

(* After clearInterfaces, destroyNetwork goes on with the same network; other calls are over. *)
LEMMA EndPreservesInv ==
    ASSUME RoutingInv, EndNext
    PROVE  RoutingInv'
<1>1. Inv'
  BY EndIsAStep, NextPreservesInv DEF RoutingInv
<1>2. UNCHANGED routeVars
  BY DEF EndNext, EndCreateVirtualNetwork, EndClearInterfaces, EndDestroyNetwork,
         EndSetDefaultNetwork, EndAddInterface, EndRemoveInterface, EndSetPermission,
         EndAddUsers, EndRemoveUsers, EndInError, Ends
<1>3. TablesTyped'
  BY <1>2 DEF RoutingInv, TablesTyped, routeVars
<1>4. CASE EndClearInterfaces
  <2>1. PICK n \in AllNetIds : call.args = <<n>> /\ mayDestroy(n)
    BY <1>4 DEF EndClearInterfaces, RoutingInv, ChecksStillHold
  <2>2. PICK todo :
           call' = [NoCall EXCEPT !.method = "destroyNetwork", !.args = <<call.args[1]>>,
                                  !.todo = todo]
    BY <1>4, Zenon DEF EndClearInterfaces
  <2>3. CallTyped' /\ call'.method = "destroyNetwork" /\ call'.args = <<n>>
    <3>1. call.args[1] = n
      BY <2>1
    <3>2. call' = [NoCall EXCEPT !.method = "destroyNetwork", !.args = <<n>>, !.todo = todo]
      BY <2>2, <3>1, Zenon
    <3> QED
      BY <3>2, Zenon DEF NoCall, CallTyped
  <2>4. UNCHANGED <<mNetworks, mDefaultNetId>>
    BY <1>4 DEF EndClearInterfaces, vars, networkVars
  <2>5. ChecksStillHold'
    BY <2>1, <2>3, <2>4, QueriesUnchanged DEF ChecksStillHold
  <2> QED
    BY <1>1, <1>3, <2>3, <2>5 DEF RoutingInv
<1>5. CASE ~EndClearInterfaces
  <2>1. call' = NoCall
    BY <1>5 DEF EndNext, EndCreateVirtualNetwork, EndDestroyNetwork, EndSetDefaultNetwork,
                EndAddInterface, EndRemoveInterface, EndSetPermission, EndAddUsers,
                EndRemoveUsers, EndInError, Ends
  <2> QED
    BY <1>1, <1>3, <2>1, NoCallChecks DEF RoutingInv
<1> QED
  BY <1>4, <1>5

-----------------------------------------------------------------------------
(* Steps of others *)

(* What happens without mRWLock does not touch the controller's state or the call. *)
LEMMA UnlockedPreservesInv ==
    ASSUME RoutingInv, UnlockedNext
    PROVE  RoutingInv' /\ UNCHANGED vars
<1>1. UNCHANGED <<vars, call>>
  BY DEF UnlockedNext, InterfaceDisappears, InterfaceAppears, enableTethering, disableTethering,
         addUsersToRejectNonSecureNetworkRule, removeUsersFromRejectNonSecureNetworkRule
<1>2. TablesTyped'
  <2>1. CASE \E f \in VolatileIfaces : InterfaceDisappears(f)
    <3>1. PICK f \in Ifaces : InterfaceDisappears(f)
      BY <2>1, RoutingAssumption
    <3>2. ifIndexOf' \in [Ifaces -> 0 .. MaxIfIndex]
      <4>1. 0 \in 0 .. MaxIfIndex
        BY IndicesAssumption
      <4> QED
        BY <3>1, <4>1 DEF InterfaceDisappears, RoutingInv, TablesTyped
    <3> QED
      BY <3>1, <3>2 DEF InterfaceDisappears, RoutingInv, TablesTyped
  <2>2. CASE \E f \in VolatileIfaces : InterfaceAppears(f)
    <3>1. PICK f \in Ifaces : InterfaceAppears(f)
      BY <2>2, RoutingAssumption
    <3>2. nextIfIndex \in 0 .. MaxIfIndex /\ nextIfIndex' \in Nat \ {0}
      BY <3>1, IndicesAssumption DEF InterfaceAppears, RoutingInv, TablesTyped
    <3>3. ifIndexOf' \in [Ifaces -> 0 .. MaxIfIndex]
      BY <3>1, <3>2 DEF InterfaceAppears, RoutingInv, TablesTyped
    <3> QED
      BY <3>1, <3>2, <3>3 DEF InterfaceAppears, RoutingInv, TablesTyped
  <2>3. CASE \/ \E t \in TetherArgs : enableTethering(t[1], t[2])
             \/ \E t \in TetherArgs : disableTethering(t[1], t[2])
    BY <2>3, SendRuleKeepsTables DEF enableTethering, disableTethering, RoutingInv
  <2>4. CASE \/ \E r \in LockdownArgs : addUsersToRejectNonSecureNetworkRule(r)
             \/ \E r \in LockdownArgs : removeUsersFromRejectNonSecureNetworkRule(r)
    BY <2>4, SendRuleKeepsTables
    DEF addUsersToRejectNonSecureNetworkRule, removeUsersFromRejectNonSecureNetworkRule, RoutingInv
  <2> QED
    BY <2>1, <2>2, <2>3, <2>4 DEF UnlockedNext
<1>3. ChecksStillHold'
  BY <1>1, ChecksUndisturbed DEF RoutingInv
<1>4. CallTyped'
  BY <1>1 DEF RoutingInv, CallTyped
<1>5. Inv'
  BY <1>1, NextPreservesInv DEF RoutingInv
<1> QED
  BY <1>1, <1>2, <1>3, <1>4, <1>5 DEF RoutingInv

(* createPhysicalNetwork sends no request; it takes the lock when no call has it. *)
LEMMA CreatePhysicalPreservesInv ==
    ASSUME RoutingInv, NEW n \in PhysicalIds, NEW p \in PermissionArgs, NEW l \in LocalArgs,
           CreatePhysicalNetwork(n, p, l)
    PROVE  RoutingInv' /\ Next
<1>1. Next
  BY RoutingAssumption DEF CreatePhysicalNetwork, Next, NetworkNext
<1>2. Inv'
  BY <1>1, NextPreservesInv DEF RoutingInv
<1>3. call' = call /\ call'.method = "none" /\ UNCHANGED routeVars
  BY DEF CreatePhysicalNetwork, Idle
<1>4. ChecksStillHold' /\ CallTyped' /\ TablesTyped'
  BY <1>3 DEF ChecksStillHold, RoutingInv, CallTyped, TablesTyped, routeVars
<1> QED
  BY <1>1, <1>2, <1>4 DEF RoutingInv

-----------------------------------------------------------------------------
(* RouteController::Init and the constructor of NetworkController establish the invariant. *)
LEMMA RoutingInitEstablishesInv == RoutingInit => RoutingInv
<1> SUFFICES ASSUME RoutingInit PROVE RoutingInv
  OBVIOUS
<1>1. Inv
  BY InitEstablishesInv, Zenon DEF RoutingInit
<1>2. /\ ifIndexOf = [f \in Ifaces |-> CHOOSE i \in DOMAIN IfaceOrder : IfaceOrder[i] = f]
      /\ nextIfIndex = Len(IfaceOrder) + 1
      /\ sInterfaceToTable =
            [f \in Ifaces |-> IF f = DUMMY_INTERFACE
                              THEN ifIndexOf[f] + ROUTE_TABLE_OFFSET_FROM_INDEX ELSE 0]
      /\ call = NoCall
  BY Zenon DEF RoutingInit
<1>3. \A f \in Ifaces : ifIndexOf[f] \in 1 .. MaxIfIndex
  <2> SUFFICES ASSUME NEW f \in Ifaces PROVE ifIndexOf[f] \in 1 .. MaxIfIndex
    OBVIOUS
  <2>1. \E i \in DOMAIN IfaceOrder : IfaceOrder[i] = f
    BY RoutingAssumption
  <2>2. ifIndexOf[f] \in DOMAIN IfaceOrder
    BY <1>2, <2>1
  <2> QED
    BY <2>2, IndicesAssumption
<1>4. ifIndexOf \in [Ifaces -> 0 .. MaxIfIndex]
  <2>1. ifIndexOf = [f \in Ifaces |-> ifIndexOf[f]]
    BY <1>2
  <2> QED
    BY <1>3, <2>1, IndicesAssumption
<1>5. sInterfaceToTable \in [Ifaces -> Tables] /\ nextIfIndex \in Nat \ {0}
  <2>1. \A f \in Ifaces : ifIndexOf[f] + ROUTE_TABLE_OFFSET_FROM_INDEX \in Tables
    BY <1>3, IndicesAssumption DEF Tables, ROUTE_TABLE_OFFSET_FROM_INDEX
  <2>2. 0 \in Tables
    BY DEF Tables
  <2>3. sInterfaceToTable \in [Ifaces -> Tables]
    BY <1>2, <2>1, <2>2, Zenon
  <2>4. Len(IfaceOrder) \in Nat
    BY IndicesAssumption
  <2> QED
    BY <1>2, <2>3, <2>4
<1>6. CallTyped /\ ChecksStillHold
  BY <1>2 DEF NoCall, CallTyped, ChecksStillHold
<1> QED
  BY <1>1, <1>4, <1>5, <1>6 DEF RoutingInv, TablesTyped

(* Every step of NetworkRouting keeps the invariant and is, for the controller's own state, a *)
(* step of NetworkController or no step. *)
LEMMA RoutingStep == RoutingInv /\ [RoutingNext]_routingVars => RoutingInv' /\ [Next]_vars
<1> SUFFICES ASSUME RoutingInv, [RoutingNext]_routingVars PROVE RoutingInv' /\ [Next]_vars
  OBVIOUS
<1>1. CASE UNCHANGED routingVars
  <2>1. UNCHANGED <<vars, call, ifIndexOf, nextIfIndex, sInterfaceToTable>>
    BY <1>1 DEF routingVars, routeVars
  <2>2. Inv' /\ ChecksStillHold'
    BY <2>1, NextPreservesInv, ChecksUndisturbed DEF RoutingInv
  <2> QED
    BY <2>1, <2>2 DEF RoutingInv, TablesTyped, CallTyped
<1>2. CASE RoutingNext
  BY <1>2, CreatePhysicalPreservesInv, BeginPreservesInv, SendRequestPreservesInv, EndIsAStep,
     EndPreservesInv, UnlockedPreservesInv DEF RoutingNext
<1> QED
  BY <1>1, <1>2

(* What a call has checked stays true until it ends, whatever interfaces come and go, rules are *)
(* changed by others and requests fail in between. *)
THEOREM CallsKeepTheirChecks == RoutingSpec => []ChecksStillHold
<1>1. RoutingInv => ChecksStillHold
  BY DEF RoutingInv
<1> QED
  BY <1>1, RoutingInitEstablishesInv, RoutingStep, PTL DEF RoutingSpec

(* Sent request by request, with failures at any of them, the methods of NetworkController have *)
(* the effects on its state that module NetworkController describes as single steps. *)
THEOREM RoutingImplementsController == RoutingSpec => Spec
<1>1. RoutingInit => Init
  BY Zenon DEF RoutingInit
<1> QED
  BY <1>1, RoutingInitEstablishesInv, RoutingStep, PTL DEF RoutingSpec, Spec

(* So what is proved of NetworkController holds between any two requests. *)
THEOREM RoutingInvariance == RoutingSpec => [](Inv /\ TablesTyped)
<1>1. RoutingInv => Inv /\ TablesTyped
  BY DEF RoutingInv
<1> QED
  BY <1>1, RoutingInitEstablishesInv, RoutingStep, PTL DEF RoutingSpec
===============================================================================
