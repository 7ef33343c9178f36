-------------------------- MODULE NetworkController --------------------------
(***************************************************************************)
(* class NetworkController (server/NetworkController.cpp) with the Network *)
(* objects it owns: what the binder calls network*() and the netlink       *)
(* address events do to the controller's own state.                        *)
(*                                                                         *)
(* Every method that changes this state holds mRWLock exclusively, so each *)
(* is one action.  What the calls into RouteController do to the kernel is *)
(* the subject of module NetworkRouting; here they only succeed or fail.   *)
(* A method that returns an error before it changes anything is a step     *)
(* that changes nothing, and has no action; the two methods that can fail  *)
(* half way have an action for that.                                       *)
(***************************************************************************)
EXTENDS Integers, FiniteSets, NetdConstants, UidRanges

CONSTANTS
    NetIds,          \* netIds that callers pass
    Ifaces,          \* interface names
    Uids,            \* UIDs below 2^31; INVALID_UID, which is denied everything, is not one
    SubPriorities,   \* subsidiary priorities that callers pass
    RangeArgs,       \* UidRanges objects that callers pass
    AllowlistIds,    \* netIds that callers pass to setNetworkAllowlist
    PermissionArgs,  \* permissions that callers pass
    LocalArgs,       \* values of "local" that callers of createPhysicalNetwork pass
    VpnArgs,         \* <<secure, excludeLocalRoutes>> that callers pass
    IfIndices,       \* interface indices
    Addresses,       \* IP addresses
    MAX_OEM_ID,      \* last OEM netId, 50 in the code
    MaxCopies        \* bound on how often a network holds the same range

OemIds == MIN_OEM_ID .. MAX_OEM_ID
AllNetIds == NetIds \cup OemIds \cup {DUMMY_NET_ID, UNREACHABLE_NET_ID, LOCAL_NET_ID}

ASSUME NetIdsAssumption ==
    /\ NetIds \subseteq Nat \ {NETID_UNSET}
    /\ MAX_OEM_ID \in Nat /\ MAX_OEM_ID < DUMMY_NET_ID
ASSUME IfacesAssumption == DUMMY_INTERFACE \in Ifaces
ASSUME MaxCopiesAssumption == MaxCopies \in Nat
ASSUME UidsAssumption == Uids \subseteq Nat
ASSUME SubPrioritiesAssumption == SubPriorities \subseteq Int
ASSUME RangeArgsAssumption == RangeArgs \subseteq UidRangesType
ASSUME FlagArgsAssumption ==
    /\ PermissionArgs \subseteq Permissions
    /\ LocalArgs \subseteq BOOLEAN
    /\ VpnArgs \subseteq BOOLEAN \X BOOLEAN
ASSUME AllowlistIdsAssumption == AllowlistIds \subseteq AllNetIds
ASSUME IfIndicesAssumption == IfIndices \subseteq Nat \ {0}

VARIABLES
    mDefaultNetId,
    mNetworks,            \* netId -> Network
    mUsers,               \* UID -> permission granted, for the UIDs that were set
    mProtectableUsers,
    mIfindexToLastNetId,  \* ifindex -> netId
    mAddressToIfindices,  \* address -> ifindices
    polling               \* the last call to tcpSocketMonitor was resumePolling

networkVars == <<mDefaultNetId, mNetworks>>
addressVars == <<mIfindexToLastNetId, mAddressToIfindices>>
userVars == <<mUsers, mProtectableUsers>>
vars == <<networkVars, addressVars, userVars, polling>>

-----------------------------------------------------------------------------
(* Network objects *)

NetworkTypes == {"LOCAL", "DUMMY", "UNREACHABLE", "PHYSICAL", "VIRTUAL"}

Network ==
    [type : NetworkTypes,
     mInterfaces : SUBSET Ifaces,
     mUidRangeMap : [SubPriorities -> UidRangesType],
     mAllowedUids : [has_value : BOOLEAN, value : UidRangesType],
     mPermission : Permissions,
     mIsDefault : BOOLEAN,
     mIsLocalNetwork : BOOLEAN,
     mSecure : BOOLEAN,
     mExcludeLocalRoutes : BOOLEAN]

NoAllowedUids == [has_value |-> FALSE, value |-> NoRanges]

(* The constructors; permission is what getPermission() returns. *)
NewNetwork(type, permission, local, secure, excludeLocalRoutes) ==
    [type |-> type,
     mInterfaces |-> IF type = "DUMMY" THEN {DUMMY_INTERFACE} ELSE {},
     mUidRangeMap |-> [p \in SubPriorities |-> NoRanges],
     mAllowedUids |-> NoAllowedUids,
     mPermission |-> permission,
     mIsDefault |-> FALSE,
     mIsLocalNetwork |-> local,
     mSecure |-> secure,
     mExcludeLocalRoutes |-> excludeLocalRoutes]

NewPhysicalNetwork(permission, local) == NewNetwork("PHYSICAL", permission, local, FALSE, FALSE)
NewVirtualNetwork(secure, excludeLocalRoutes) ==
    NewNetwork("VIRTUAL", PERMISSION_SYSTEM, FALSE, secure, excludeLocalRoutes)
NewFixedNetwork(type) == NewNetwork(type, PERMISSION_SYSTEM, FALSE, FALSE, FALSE)

isPhysical(network) == network.type = "PHYSICAL"
isVirtual(network) == network.type = "VIRTUAL"
isUnreachable(network) == network.type = "UNREACHABLE"
canAddUsers(network) == network.type \in {"PHYSICAL", "VIRTUAL", "UNREACHABLE"}

(* The interfaces of LocalNetwork, PhysicalNetwork and VirtualNetwork change. *)
hasVariableInterfaces(network) == network.type \in {"LOCAL", "PHYSICAL", "VIRTUAL"}

isValidSubPriority(network, p) ==
    CASE isPhysical(network) -> \/ SUB_PRIORITY_HIGHEST <= p /\ p <= SUB_PRIORITY_LOWEST
                                \/ p = SUB_PRIORITY_NO_DEFAULT
      [] isUnreachable(network) -> SUB_PRIORITY_HIGHEST <= p /\ p <= SUB_PRIORITY_LOWEST
      [] isVirtual(network) -> p = SUB_PRIORITY_HIGHEST
      [] OTHER -> FALSE

(* The subsidiary priorities at which a network has been given the UID. *)
PrioritiesFor(network, uid) == {p \in SubPriorities : hasUid(network.mUidRangeMap[p], uid)}

appliesToUser(network, uid) == PrioritiesFor(network, uid) # {}

(* The *subPriority result of Network::appliesToUser. *)
HighestPriorityFor(network, uid) ==
    CHOOSE p \in PrioritiesFor(network, uid) : \A q \in PrioritiesFor(network, uid) : p <= q

addToUidRangeMap(network, uidRanges, p) ==
    [network EXCEPT !.mUidRangeMap[p] = add(@, uidRanges)]

removeFromUidRangeMap(network, uidRanges, p) ==
    [network EXCEPT !.mUidRangeMap[p] = remove(@, uidRanges)]

setAllowedUids(network, uidRanges) ==
    [network EXCEPT !.mAllowedUids = [has_value |-> TRUE, value |-> uidRanges]]

networkAllowsUid(network, uid) ==
    network.mAllowedUids.has_value => hasUid(network.mAllowedUids.value, uid)
-----------------------------------------------------------------------------
(* Queries: each holds mRWLock shared. *)

isValidNetwork(netId) == netId \in DOMAIN mNetworks

isVirtualNetwork(netId) == isValidNetwork(netId) /\ isVirtual(mNetworks[netId])

(* std::map iterates in the order of its keys. *)
Lowest(netIds) == CHOOSE n \in netIds : \A m \in netIds : n <= m
LowestOrUnset(netIds) == IF netIds = {} THEN NETID_UNSET ELSE Lowest(netIds)

getNetworkForInterface(iface) ==
    LowestOrUnset({n \in DOMAIN mNetworks : iface \in mNetworks[n].mInterfaces})

(* Both return the netId of the network found, or NETID_UNSET for nullptr. *)
getVirtualNetworkForUser(uid) ==
    LowestOrUnset({n \in DOMAIN mNetworks :
                     isVirtual(mNetworks[n]) /\ appliesToUser(mNetworks[n], uid)})

getPhysicalOrUnreachableNetworkForUser(uid) ==
    LET candidates ==
            {n \in DOMAIN mNetworks :
               /\ isPhysical(mNetworks[n]) \/ isUnreachable(mNetworks[n])
               /\ appliesToUser(mNetworks[n], uid)
               /\ HighestPriorityFor(mNetworks[n], uid) < SUB_PRIORITY_NO_DEFAULT}
        best == {n \in candidates : \A m \in candidates :
                   HighestPriorityFor(mNetworks[n], uid) <= HighestPriorityFor(mNetworks[m], uid)}
    IN  LowestOrUnset(best)

appDefaultNetwork(uid) ==
    LET n == getPhysicalOrUnreachableNetworkForUser(uid)
    IN  IF n # NETID_UNSET THEN n ELSE mDefaultNetId

getNetworkForUser(uid) ==
    LET vpn == getVirtualNetworkForUser(uid)
    IN  IF vpn # NETID_UNSET THEN vpn ELSE appDefaultNetwork(uid)

getNetworkForConnect(uid) ==
    LET vpn == getVirtualNetworkForUser(uid)
    IN  IF vpn # NETID_UNSET /\ ~mNetworks[vpn].mSecure THEN vpn ELSE appDefaultNetwork(uid)

getPermissionForUser(uid) ==
    IF uid \in DOMAIN mUsers THEN mUsers[uid]
    ELSE IF uid < FIRST_APPLICATION_UID THEN PERMISSION_SYSTEM ELSE PERMISSION_NONE

canProtect(uid) ==
    getPermissionForUser(uid) = PERMISSION_SYSTEM \/ uid \in mProtectableUsers

isUidAllowed(netId, uid) ==
    \/ netId = NETID_UNSET /\ mDefaultNetId = NETID_UNSET
    \/ isValidNetwork(netId) /\ networkAllowsUid(mNetworks[netId], uid)

(* Access to a network that is neither virtual nor the system's for the taking. *)
nonVirtualAccess(uid, network) ==
    LET vpn == getVirtualNetworkForUser(uid)
    IN  IF vpn # NETID_UNSET /\ mNetworks[vpn].mSecure /\ uid \notin mProtectableUsers THEN "EPERM"
        ELSE IF isPhysical(network) /\ appliesToUser(network, uid) THEN "OK"
        ELSE IF isUnreachable(network) THEN IF appliesToUser(network, uid) THEN "OK" ELSE "EPERM"
        ELSE IF networkAllowsUid(network, uid) /\ getPermissionForUser(uid) >= network.mPermission
             THEN "OK" ELSE "EACCES"

checkUserNetworkAccess(uid, netId) ==
    IF ~isValidNetwork(netId) THEN "ENONET"
    ELSE IF getPermissionForUser(uid) = PERMISSION_SYSTEM THEN "OK"
    ELSE IF isVirtualNetwork(netId)
         THEN IF appliesToUser(mNetworks[netId], uid) THEN "OK" ELSE "EPERM"
    ELSE nonVirtualAccess(uid, mNetworks[netId])

(***************************************************************************)
(* getNetworkForDnsLocked: the network whose DNS servers are used when the *)
(* application asked for netId.  nameservers are the networks for which    *)
(* the resolver has servers.                                               *)
(***************************************************************************)
getNetworkForDns(netId, uid, nameservers) ==
    LET vpn == getVirtualNetworkForUser(uid)
    IN  IF netId = NETID_UNSET /\ vpn = NETID_UNSET THEN appDefaultNetwork(uid)
        ELSE IF checkUserNetworkAccess(uid, netId) = "OK"
             THEN IF isVirtualNetwork(netId) /\ netId \notin nameservers
                  THEN appDefaultNetwork(uid) ELSE netId
        ELSE IF vpn \in nameservers THEN vpn ELSE appDefaultNetwork(uid)
-----------------------------------------------------------------------------
(* Operations: each holds mRWLock exclusively. *)

(* updateTcpSocketMonitorPolling, for the networks the operation leaves. *)
physicalNetworkExists(networks) ==
    \E n \in DOMAIN networks : isPhysical(networks[n]) /\ n >= MIN_NET_ID

updateTcpSocketMonitorPolling == polling' = physicalNetworkExists(mNetworks')

With(netId, network) ==
    [n \in DOMAIN mNetworks \cup {netId} |-> IF n = netId THEN network ELSE mNetworks[n]]
Without(netId) == [n \in DOMAIN mNetworks \ {netId} |-> mNetworks[n]]

Init ==
    /\ mDefaultNetId = NETID_UNSET
    /\ mNetworks = [n \in {LOCAL_NET_ID, DUMMY_NET_ID, UNREACHABLE_NET_ID} |->
                      NewFixedNetwork(CASE n = LOCAL_NET_ID -> "LOCAL"
                                        [] n = DUMMY_NET_ID -> "DUMMY"
                                        [] n = UNREACHABLE_NET_ID -> "UNREACHABLE")]
    /\ mUsers = [u \in {} |-> PERMISSION_NONE]
    /\ mProtectableUsers = Uids \cap {AID_VPN}
    /\ mIfindexToLastNetId = [i \in {} |-> NETID_UNSET]
    /\ mAddressToIfindices = [a \in {} |-> {}]
    /\ polling = FALSE

createPhysicalNetwork(netId, permission, local) ==
    /\ netId \in MIN_NET_ID .. MAX_NET_ID \cup OemIds
    /\ ~isValidNetwork(netId)
    /\ mNetworks' = With(netId, NewPhysicalNetwork(permission, local))
    /\ updateTcpSocketMonitorPolling
    /\ UNCHANGED <<mDefaultNetId, addressVars, userVars>>

freeOemIds == {n \in OemIds : ~isValidNetwork(n)}

createPhysicalOemNetwork(permission) ==
    /\ freeOemIds # {}
    /\ createPhysicalNetwork(Lowest(freeOemIds), permission, FALSE)

createVirtualNetwork(netId, secure, excludeLocalRoutes) ==
    /\ netId \in MIN_NET_ID .. MAX_NET_ID
    /\ ~isValidNetwork(netId)
    /\ mNetworks' = With(netId, NewVirtualNetwork(secure, excludeLocalRoutes))
    /\ UNCHANGED <<mDefaultNetId, addressVars, userVars, polling>>

mayDestroy(netId) == isValidNetwork(netId) /\ netId \notin {LOCAL_NET_ID, UNREACHABLE_NET_ID}

keepDefault(netId) == UNCHANGED mDefaultNetId
unsetDefault(netId) ==
    mDefaultNetId' = IF mDefaultNetId = netId THEN NETID_UNSET ELSE mDefaultNetId

keepLastNetId(netId) == UNCHANGED mIfindexToLastNetId
forgetLastNetId(netId) ==
    LET kept == {i \in DOMAIN mIfindexToLastNetId : mIfindexToLastNetId[i] # netId}
    IN  mIfindexToLastNetId' = [i \in kept |-> mIfindexToLastNetId[i]]

(* A failure of clearInterfaces, removeAsDefault or modifyFallthrough is only reported. *)
destroyNetwork(netId) ==
    /\ mayDestroy(netId)
    /\ mNetworks' = Without(netId)
    /\ unsetDefault(netId)
    /\ forgetLastNetId(netId)
    /\ updateTcpSocketMonitorPolling
    /\ UNCHANGED <<mAddressToIfindices, userVars>>

(***************************************************************************)
(* setDefaultNetwork: the new default network first (addAsDefault), then   *)
(* the old one (removeAsDefault).                                          *)
(***************************************************************************)
mayBecomeDefault(netId) ==
    /\ netId # mDefaultNetId
    /\ netId # NETID_UNSET => isValidNetwork(netId) /\ isPhysical(mNetworks[netId])

setDefaultNetwork(netId) ==
    /\ mayBecomeDefault(netId)
    /\ mDefaultNetId # NETID_UNSET =>
          isValidNetwork(mDefaultNetId) /\ isPhysical(mNetworks[mDefaultNetId])
    /\ mNetworks' = [n \in DOMAIN mNetworks |->
                       CASE n = netId -> [mNetworks[n] EXCEPT !.mIsDefault = TRUE]
                         [] n = mDefaultNetId -> [mNetworks[n] EXCEPT !.mIsDefault = FALSE]
                         [] OTHER -> mNetworks[n]]
    /\ mDefaultNetId' = netId
    /\ UNCHANGED <<addressVars, userVars, polling>>

(* addAsDefault succeeds, and then removeAsDefault of the old default fails. *)
setDefaultNetworkInterrupted(netId) ==
    /\ mayBecomeDefault(netId)
    /\ netId # NETID_UNSET /\ mDefaultNetId # NETID_UNSET
    /\ mNetworks' = [mNetworks EXCEPT ![netId].mIsDefault = TRUE]
    /\ UNCHANGED <<mDefaultNetId, addressVars, userVars, polling>>

mayAddInterface(netId, iface) ==
    /\ isValidNetwork(netId) /\ hasVariableInterfaces(mNetworks[netId])
    /\ getNetworkForInterface(iface) \in {NETID_UNSET, netId}

SetLastNetId(ifIndex, netId) ==
    [i \in DOMAIN mIfindexToLastNetId \cup {ifIndex} |->
       IF i = ifIndex THEN netId ELSE mIfindexToLastNetId[i]]

lastNetIdsAfterAdding(netId, ifIndex) ==
    IF netId # LOCAL_NET_ID /\ ifIndex # 0 THEN SetLastNetId(ifIndex, netId)
    ELSE mIfindexToLastNetId

addInterfaceToNetwork(netId, iface, ifIndex) ==
    /\ mayAddInterface(netId, iface)
    /\ mNetworks' = [mNetworks EXCEPT ![netId].mInterfaces = @ \cup {iface}]
    /\ mIfindexToLastNetId' = lastNetIdsAfterAdding(netId, ifIndex)
    /\ UNCHANGED <<mDefaultNetId, mAddressToIfindices, userVars, polling>>

removeInterfaceFromNetwork(netId, iface) ==
    /\ isValidNetwork(netId) /\ hasVariableInterfaces(mNetworks[netId])
    /\ iface \in mNetworks[netId].mInterfaces
    /\ mNetworks' = [mNetworks EXCEPT ![netId].mInterfaces = @ \ {iface}]
    /\ UNCHANGED <<mDefaultNetId, addressVars, userVars, polling>>

(* The networks of the vector that setPermission reached before the first error. *)
setPermissionForNetworks(permission, netIds) ==
    /\ \A n \in netIds : isValidNetwork(n) /\ isPhysical(mNetworks[n])
    /\ mNetworks' = [n \in DOMAIN mNetworks |->
                       IF n \in netIds THEN [mNetworks[n] EXCEPT !.mPermission = permission]
                       ELSE mNetworks[n]]
    /\ UNCHANGED <<mDefaultNetId, addressVars, userVars, polling>>

isWrongNetworkForUidRanges(netId) == ~(isValidNetwork(netId) /\ canAddUsers(mNetworks[netId]))

addUsersToNetwork(netId, uidRanges, p) ==
    /\ ~isWrongNetworkForUidRanges(netId)
    /\ isValidSubPriority(mNetworks[netId], p)
    /\ ~overlapsSelf(uidRanges)
    /\ \A r \in Ranges : mNetworks[netId].mUidRangeMap[p][r] + uidRanges[r] <= MaxCopies
    /\ mNetworks' = [mNetworks EXCEPT ![netId] = addToUidRangeMap(@, uidRanges, p)]
    /\ UNCHANGED <<mDefaultNetId, addressVars, userVars, polling>>

removeUsersFromNetwork(netId, uidRanges, p) ==
    /\ ~isWrongNetworkForUidRanges(netId)
    /\ isValidSubPriority(mNetworks[netId], p)
    /\ mNetworks' = [mNetworks EXCEPT ![netId] = removeFromUidRangeMap(@, uidRanges, p)]
    /\ UNCHANGED <<mDefaultNetId, addressVars, userVars, polling>>
(***************************************************************************)
(* setNetworkAllowlist: checks every netId, clears every network, then     *)
(* sets.  The vector is a function, as a later entry for a netId wins.     *)
(***************************************************************************)
setNetworkAllowlist(configs) ==
    /\ \A n \in DOMAIN configs : isValidNetwork(n)
    /\ mNetworks' = [n \in DOMAIN mNetworks |->
                       IF n \in DOMAIN configs
                       THEN setAllowedUids(mNetworks[n], configs[n])
                       ELSE [mNetworks[n] EXCEPT !.mAllowedUids = NoAllowedUids]]
    /\ UNCHANGED <<mDefaultNetId, addressVars, userVars, polling>>

setPermissionForUsers(permission, uids) ==
    /\ mUsers' = [u \in DOMAIN mUsers \cup uids |->
                    IF u \in uids THEN permission ELSE mUsers[u]]
    /\ UNCHANGED <<networkVars, addressVars, mProtectableUsers, polling>>

allowProtect(uids) ==
    /\ mProtectableUsers' = mProtectableUsers \cup uids
    /\ UNCHANGED <<networkVars, addressVars, mUsers, polling>>

denyProtect(uids) ==
    /\ mProtectableUsers' = mProtectableUsers \ uids
    /\ UNCHANGED <<networkVars, addressVars, mUsers, polling>>

IfindicesOf(address) ==
    IF address \in DOMAIN mAddressToIfindices THEN mAddressToIfindices[address] ELSE {}

addInterfaceAddress(ifIndex, address) ==
    /\ mAddressToIfindices' =
          [a \in DOMAIN mAddressToIfindices \cup {address} |->
             IF a = address THEN IfindicesOf(a) \cup {ifIndex} ELSE mAddressToIfindices[a]]
    /\ UNCHANGED <<networkVars, mIfindexToLastNetId, userVars, polling>>

(* The interfaces, other than ifIndex, that keep the sockets of the address alive. *)
HandoverPeers(ifIndex, address) ==
    IF ifIndex \notin DOMAIN mIfindexToLastNetId THEN {}
    ELSE {i \in IfindicesOf(address) \ {ifIndex} :
            /\ i \in DOMAIN mIfindexToLastNetId
            /\ mIfindexToLastNetId[i] = mIfindexToLastNetId[ifIndex]
            /\ isVirtualNetwork(mIfindexToLastNetId[i])}

(***************************************************************************)
(* The loop over the remaining ifindices reads mIfindexToLastNetId[idx],   *)
(* which inserts NETID_UNSET for an unknown idx.  The set is unordered and *)
(* the loop stops at the first handover peer, so with a peer any of the    *)
(* others may have been visited; without one, all are.                     *)
(***************************************************************************)
removeInterfaceAddress(ifIndex, address) ==
    /\ ifIndex \in IfindicesOf(address)
    /\ LET others == IfindicesOf(address) \ {ifIndex}
       IN  /\ mAddressToIfindices' =
                 [a \in DOMAIN mAddressToIfindices \ (IF others = {} THEN {address} ELSE {}) |->
                    IF a = address THEN others ELSE mAddressToIfindices[a]]
           /\ \E visited \in SUBSET others :
                 /\ ifIndex \notin DOMAIN mIfindexToLastNetId => visited = {}
                 /\ ifIndex \in DOMAIN mIfindexToLastNetId =>
                       visited = others \/ HandoverPeers(ifIndex, address) # {}
                 /\ mIfindexToLastNetId' =
                       [i \in DOMAIN mIfindexToLastNetId \cup visited |->
                          IF i \in DOMAIN mIfindexToLastNetId THEN mIfindexToLastNetId[i]
                          ELSE NETID_UNSET]
    /\ UNCHANGED <<networkVars, userVars, polling>>

NetworkNext ==
    \/ \E n \in NetIds, p \in PermissionArgs, local \in LocalArgs : createPhysicalNetwork(n, p, local)
    \/ \E p \in PermissionArgs : createPhysicalOemNetwork(p)
    \/ \E n \in NetIds, v \in VpnArgs : createVirtualNetwork(n, v[1], v[2])
    \/ \E n \in AllNetIds : destroyNetwork(n)
    \/ \E n \in AllNetIds \cup {NETID_UNSET} : setDefaultNetwork(n)
    \/ \E n \in AllNetIds : setDefaultNetworkInterrupted(n)
    \/ \E n \in AllNetIds, f \in Ifaces, i \in IfIndices \cup {0} : addInterfaceToNetwork(n, f, i)
    \/ \E n \in AllNetIds, f \in Ifaces : removeInterfaceFromNetwork(n, f)
    \/ \E p \in PermissionArgs, ns \in SUBSET AllNetIds : setPermissionForNetworks(p, ns)

UserNext ==
    \/ \E n \in AllNetIds, r \in RangeArgs, p \in SubPriorities : addUsersToNetwork(n, r, p)
    \/ \E n \in AllNetIds, r \in RangeArgs, p \in SubPriorities : removeUsersFromNetwork(n, r, p)
    \/ \E ns \in SUBSET AllowlistIds : \E configs \in [ns -> RangeArgs] : setNetworkAllowlist(configs)
    \/ \E p \in PermissionArgs, us \in SUBSET Uids : setPermissionForUsers(p, us)
    \/ \E us \in SUBSET Uids : allowProtect(us)
    \/ \E us \in SUBSET Uids : denyProtect(us)

AddressNext ==
    \/ \E i \in IfIndices, a \in Addresses : addInterfaceAddress(i, a)
    \/ \E i \in IfIndices, a \in Addresses : removeInterfaceAddress(i, a)

Next == NetworkNext \/ UserNext \/ AddressNext

Spec == Init /\ [][Next]_vars
-----------------------------------------------------------------------------
(* Properties *)

(* Type: every map has keys and values of its type. *)
TypeOK ==
    /\ mDefaultNetId \in AllNetIds \cup {NETID_UNSET}
    /\ DOMAIN mNetworks \subseteq AllNetIds
    /\ mNetworks \in [DOMAIN mNetworks -> Network]
    /\ DOMAIN mUsers \subseteq Uids
    /\ mUsers \in [DOMAIN mUsers -> Permissions]
    /\ mProtectableUsers \subseteq Uids
    /\ DOMAIN mIfindexToLastNetId \subseteq IfIndices
    /\ mIfindexToLastNetId \in [DOMAIN mIfindexToLastNetId -> AllNetIds \cup {NETID_UNSET}]
    /\ DOMAIN mAddressToIfindices \subseteq Addresses
    /\ mAddressToIfindices \in [DOMAIN mAddressToIfindices -> SUBSET IfIndices]
    /\ polling \in BOOLEAN

(***************************************************************************)
(* The default network, if there is one, exists, is a physical network and *)
(* knows that it is the default, whatever was created, destroyed or half   *)
(* switched before.  So the branches for a default network that cannot be  *)
(* found (setDefaultNetwork, modifyFallthroughLocked) or is not physical   *)
(* ("inconceivable! default network must be a physical network") are dead. *)
(***************************************************************************)
DefaultNetworkIsPhysical ==
    mDefaultNetId # NETID_UNSET =>
        /\ isValidNetwork(mDefaultNetId)
        /\ isPhysical(mNetworks[mDefaultNetId])
        /\ mNetworks[mDefaultNetId].mIsDefault

(***************************************************************************)
(* An interface is in at most one network (the EBUSY check), so that       *)
(* getNetworkForInterface does not depend on the order of the map.         *)
(***************************************************************************)
OneNetworkPerInterface ==
    \A m, n \in DOMAIN mNetworks :
        m # n => mNetworks[m].mInterfaces \cap mNetworks[n].mInterfaces = {}

(***************************************************************************)
(* TCP sockets are polled exactly while a physical network with a regular  *)
(* netId exists: no operation that creates or destroys one forgets         *)
(* updateTcpSocketMonitorPolling.                                          *)
(***************************************************************************)
PollingWhilePhysicalNetworkExists == polling = physicalNetworkExists(mNetworks)

(***************************************************************************)
(* mIfindexToLastNetId never names a network that was destroyed: when a    *)
(* netId is used again, removeInterfaceAddress cannot take the addresses   *)
(* of the old network's interfaces for a handover within the new one.      *)
(***************************************************************************)
LastNetIdsExist ==
    \A i \in DOMAIN mIfindexToLastNetId :
        mIfindexToLastNetId[i] \in DOMAIN mNetworks \cup {NETID_UNSET}

(***************************************************************************)
(* The local and the unreachable network always exist; the resolver,       *)
(* FwmarkServer and the per-UID rules refer to them by number.             *)
(***************************************************************************)
FixedNetworksExist ==
    /\ isValidNetwork(LOCAL_NET_ID) /\ mNetworks[LOCAL_NET_ID].type = "LOCAL"
    /\ isValidNetwork(UNREACHABLE_NET_ID) /\ isUnreachable(mNetworks[UNREACHABLE_NET_ID])

(***************************************************************************)
(* getNetworkContext never sends a DNS query to a network that is gone,    *)
(* whatever netId the application holds on to and whichever networks have  *)
(* DNS servers.                                                            *)
(***************************************************************************)
DnsUsesLiveNetwork ==
    \A uid \in Uids, netId \in AllNetIds \cup {NETID_UNSET},
       nameservers \in SUBSET {n \in DOMAIN mNetworks : isVirtual(mNetworks[n])} :
        getNetworkForDns(netId, uid, nameservers) \in DOMAIN mNetworks \cup {NETID_UNSET}

(***************************************************************************)
(* A UID that is given to a physical network as well as to the unreachable *)
(* network uses the physical network: "There will be a small interval the  *)
(* same uid range exists in both" and "The priority is lower than          *)
(* UID_DEFAULT_NETWORK. Otherwise, the app will be told by                 *)
(* ConnectivityService that it has a network in step 1 of the second case. *)
(* But if it tries to use the network, it will not work."                  *)
(* (RouteController.h:69-82).                                              *)
(***************************************************************************)
PerAppNetworkBeatsUnreachable ==
    \A uid \in Uids :
        (\E n \in DOMAIN mNetworks :
            isPhysical(mNetworks[n]) /\
            \E p \in PrioritiesFor(mNetworks[n], uid) :
                p < SUB_PRIORITY_NO_DEFAULT)
        => getPhysicalOrUnreachableNetworkForUser(uid) # UNREACHABLE_NET_ID

==============================================================================
