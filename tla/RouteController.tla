--------------------------- MODULE RouteController ---------------------------
(***************************************************************************)
(* class RouteController (server/RouteController.cpp): the requests that   *)
(* each of its methods sends to the kernel, in order, and what the kernel  *)
(* does with them.  The methods are operators; module NetworkRouting       *)
(* executes the requests one by one.                                       *)
(*                                                                         *)
(* A routing rule is a record.  Its mark is the part of the fwmark that    *)
(* the rule compares: a netId, the explicit bit, the protect bit and the   *)
(* permission bits that must be set.  In a request, the table of an        *)
(* interface is given by name; getRouteTableForInterface turns it into a   *)
(* number when the request is sent.                                        *)
(***************************************************************************)
EXTENDS Integers, FiniteSets, Sequences, SequencesExt, NetdConstants, UidRanges

RULE_PRIORITY_VPN_OVERRIDE_SYSTEM == 10000
RULE_PRIORITY_VPN_OVERRIDE_OIF == 11000
RULE_PRIORITY_VPN_OUTPUT_TO_LOCAL == 12000
RULE_PRIORITY_SECURE_VPN == 13000
RULE_PRIORITY_PROHIBIT_NON_VPN == 14000
RULE_PRIORITY_UID_EXPLICIT_NETWORK == 15000
RULE_PRIORITY_EXPLICIT_NETWORK == 16000
RULE_PRIORITY_OUTPUT_INTERFACE == 17000
RULE_PRIORITY_LEGACY_SYSTEM == 18000
RULE_PRIORITY_LEGACY_NETWORK == 19000
RULE_PRIORITY_LOCAL_NETWORK == 20000
RULE_PRIORITY_TETHERING == 21000
RULE_PRIORITY_UID_IMPLICIT_NETWORK == 22000
RULE_PRIORITY_IMPLICIT_NETWORK == 23000
RULE_PRIORITY_BYPASSABLE_VPN_NO_LOCAL_EXCLUSION == 24000
RULE_PRIORITY_UID_LOCAL_ROUTES == 25000
RULE_PRIORITY_LOCAL_ROUTES == 26000
RULE_PRIORITY_BYPASSABLE_VPN_LOCAL_EXCLUSION == 27000
RULE_PRIORITY_VPN_FALLTHROUGH == 28000
RULE_PRIORITY_UID_DEFAULT_NETWORK == 29000
RULE_PRIORITY_UID_DEFAULT_UNREACHABLE == 30000
RULE_PRIORITY_DEFAULT_NETWORK == 31000
RULE_PRIORITY_UNREACHABLE == 32000

ROUTE_TABLE_OFFSET_FROM_INDEX == 1000
ROUTE_TABLE_OFFSET_FROM_INDEX_FOR_LOCAL == 1000000000
ROUTE_TABLE_LOCAL_NETWORK == 97
ROUTE_TABLE_LEGACY_NETWORK == 98
ROUTE_TABLE_LEGACY_SYSTEM == 99

AnyNetId == -1
NoName == ""                             \* IIF_NONE, OIF_NONE
Loopback == "lo"                         \* IIF_LOOPBACK
AnyUid == [start |-> -1, stop |-> -1]    \* INVALID_UID, INVALID_UID
RootUid == [start |-> 0, stop |-> 0]     \* UID_ROOT, UID_ROOT

-----------------------------------------------------------------------------
(* Tables and rules as requests name them. *)

FixedTable(number) == [iface |-> NoName, local |-> FALSE, number |-> number]
InterfaceTable(iface) == [iface |-> iface, local |-> FALSE, number |-> 0]
LocalTable(iface) == [iface |-> iface, local |-> TRUE, number |-> 0]
UnspecifiedTable == FixedTable(0)

(* A rule that compares nothing: mask 0, no interface, all UIDs. *)
Rule(priority, table) ==
    [priority |-> priority, action |-> "lookup", table |-> table,
     netId |-> AnyNetId, explicit |-> "any", protected |-> "any", permission |-> PERMISSION_NONE,
     iif |-> NoName, oif |-> NoName, uids |-> AnyUid]

(* Locally generated packets of some UIDs. *)
OutputRule(priority, table, uids) ==
    [Rule(priority, table) EXCEPT !.iif = Loopback, !.uids = uids]

(***************************************************************************)
(* Requests: rule additions and deletions; the iptables command that marks *)
(* incoming packets, as a rule with action "mark"; the other calls that    *)
(* touch the kernel or sInterfaceToTable, by name.                         *)
(***************************************************************************)
Request(op, rule, arg) == [op |-> op, rule |-> rule, arg |-> arg]
NoRule == Rule(0, UnspecifiedTable)
Modify(action, rules) == [i \in DOMAIN rules |-> Request(action, rules[i], NoName)]
Call(op, arg) == <<Request(op, NoRule, arg)>>

modifyIncomingPacketMark(netId, iface, permission) ==
    << [Rule(0, UnspecifiedTable) EXCEPT
          !.action = "mark", !.netId = netId, !.permission = permission, !.iif = iface] >>

modifyVpnOutputToLocalRule(vpnInterface) ==
    << [Rule(RULE_PRIORITY_VPN_OUTPUT_TO_LOCAL, FixedTable(ROUTE_TABLE_LOCAL_NETWORK)) EXCEPT
          !.iif = vpnInterface] >>

VpnPriority(secure, excludeLocalRoutes) ==
    CASE secure -> RULE_PRIORITY_SECURE_VPN
      [] ~secure /\ excludeLocalRoutes -> RULE_PRIORITY_BYPASSABLE_VPN_LOCAL_EXCLUSION
      [] OTHER -> RULE_PRIORITY_BYPASSABLE_VPN_NO_LOCAL_EXCLUSION

modifyVpnUidRangeRule(table, uids, subPriority, secure, excludeLocalRoutes) ==
    << [OutputRule(VpnPriority(secure, excludeLocalRoutes) + subPriority, table, uids) EXCEPT
          !.protected = "no",
          !.explicit = IF secure THEN "any" ELSE "no"] >>

modifyVpnSystemPermissionRule(netId, table, secure, excludeLocalRoutes) ==
    << [Rule(VpnPriority(secure, excludeLocalRoutes), table) EXCEPT
          !.netId = netId, !.permission = PERMISSION_SYSTEM] >>

modifyExplicitNetworkRule(netId, table, permission, uids, subPriority) ==
    << [OutputRule(RULE_PRIORITY_EXPLICIT_NETWORK + subPriority, table, uids) EXCEPT
          !.netId = netId, !.explicit = "yes", !.permission = permission] >>

modifyLocalNetworkRule(table) ==
    << [Rule(RULE_PRIORITY_LOCAL_NETWORK, table) EXCEPT !.explicit = "no"],
       [OutputRule(RULE_PRIORITY_EXPLICIT_NETWORK, table, AnyUid) EXCEPT
          !.netId = LOCAL_NET_ID, !.explicit = "yes"] >>

modifyOutputInterfaceRules(iface, table, permission, uids, subPriority) ==
    (IF uids = AnyUid
     THEN << [OutputRule(RULE_PRIORITY_VPN_OVERRIDE_OIF, table, RootUid) EXCEPT !.oif = iface] >>
     ELSE <<>>)
    \o << [OutputRule(RULE_PRIORITY_OUTPUT_INTERFACE + subPriority, table, uids) EXCEPT
             !.oif = iface, !.permission = permission] >>

modifyImplicitNetworkRule(netId, table) ==
    << [OutputRule(RULE_PRIORITY_IMPLICIT_NETWORK, table, AnyUid) EXCEPT
          !.netId = netId, !.explicit = "no"] >>

modifyVpnLocalExclusionRule(physicalInterface) ==
    << [OutputRule(RULE_PRIORITY_LOCAL_ROUTES, LocalTable(physicalInterface), AnyUid) EXCEPT
          !.explicit = "no"] >>

modifyVpnFallthroughRule(vpnNetId, physicalInterface, permission) ==
    << [Rule(RULE_PRIORITY_VPN_FALLTHROUGH, InterfaceTable(physicalInterface)) EXCEPT
          !.netId = vpnNetId, !.permission = permission] >>

modifyUidNetworkRule(netId, table, uids, subPriority, explicitSelect) ==
    LET priority == IF explicitSelect THEN RULE_PRIORITY_UID_EXPLICIT_NETWORK
                                      ELSE RULE_PRIORITY_UID_IMPLICIT_NETWORK
    IN  << [OutputRule(priority + subPriority, table, uids) EXCEPT
              !.netId = netId, !.explicit = IF explicitSelect THEN "yes" ELSE "no"] >>

(* ... that ignores the subsidiary priority. *)
defaultWithoutSubPriority(table, uids, subPriority) ==
    << [OutputRule(RULE_PRIORITY_UID_DEFAULT_NETWORK, table, uids) EXCEPT !.netId = NETID_UNSET] >>

modifyUidDefaultNetworkRule(table, uids, subPriority) ==
    << [OutputRule(RULE_PRIORITY_UID_DEFAULT_NETWORK + subPriority, table, uids) EXCEPT
          !.netId = NETID_UNSET] >>

modifyUidLocalNetworkRule(iface, uids) ==
    << [OutputRule(RULE_PRIORITY_UID_LOCAL_ROUTES, LocalTable(iface), uids) EXCEPT
          !.explicit = "no"] >>

modifyUidUnreachableRule(netId, uids, subPriority, explicitSelect) ==
    << [modifyUidNetworkRule(netId, UnspecifiedTable, uids, subPriority, explicitSelect)[1] EXCEPT
          !.action = "unreachable"] >>

modifyUidDefaultUnreachableRule(uids, subPriority) ==
    << [OutputRule(RULE_PRIORITY_UID_DEFAULT_UNREACHABLE + subPriority, UnspecifiedTable, uids)
          EXCEPT !.action = "unreachable", !.netId = NETID_UNSET] >>

modifyDefaultNetwork(iface, permission) ==
    << [OutputRule(RULE_PRIORITY_DEFAULT_NETWORK, InterfaceTable(iface), AnyUid) EXCEPT
          !.netId = NETID_UNSET, !.permission = permission] >>

modifyTetheredNetwork(inputInterface, outputInterface) ==
    << [Rule(RULE_PRIORITY_TETHERING, InterfaceTable(outputInterface)) EXCEPT
          !.iif = inputInterface] >>
-----------------------------------------------------------------------------
(* The rules of a network, in the order in which they are added or deleted. *)

(* uidRangeMap is walked in the order of the subsidiary priorities, each in range order. *)
UidRangeEntries(uidRangeMap) ==
    LET copies(p, r) == {[subPriority |-> p, uids |-> r, copy |-> c] : c \in 1 .. uidRangeMap[p][r]}
    IN  SetToSortSeq(UNION {copies(p, r) : p \in DOMAIN uidRangeMap, r \in Ranges}, LAMBDA e, f :
            \/ e.subPriority < f.subPriority
            \/ e.subPriority = f.subPriority /\ compUidRangeParcel(e.uids, f.uids))

ForEachRange(uidRangeMap, RulesFor(_, _)) ==
    LET entries == UidRangeEntries(uidRangeMap)
    IN  FlattenSeq([i \in DOMAIN entries |-> RulesFor(entries[i].uids, entries[i].subPriority)])

modifyPhysicalNetwork(netId, iface, uidRangeMap, permission, modifyNonUidBasedRules, local) ==
    LET table == InterfaceTable(iface)
        uidRules(uids, p) ==
            modifyUidNetworkRule(netId, table, uids, p, TRUE)
            \o modifyUidNetworkRule(netId, table, uids, p, FALSE)
            \o (IF p = SUB_PRIORITY_NO_DEFAULT THEN <<>>
                ELSE modifyUidDefaultNetworkRule(table, uids, p)
                     \o modifyUidLocalNetworkRule(iface, uids))
        networkRules ==
            modifyIncomingPacketMark(netId, iface, permission)
            \o modifyExplicitNetworkRule(netId, table, permission, AnyUid, SUB_PRIORITY_HIGHEST)
            \o (IF local THEN modifyLocalNetworkRule(table) ELSE <<>>)
            \o modifyOutputInterfaceRules(iface, table, permission, AnyUid, SUB_PRIORITY_HIGHEST)
            \o (IF permission = PERMISSION_NONE THEN modifyImplicitNetworkRule(netId, table)
                ELSE <<>>)
    IN  ForEachRange(uidRangeMap, uidRules)
        \o (IF modifyNonUidBasedRules THEN networkRules ELSE <<>>)

modifyVirtualNetwork(netId, iface, uidRangeMap, secure, modifyNonUidBasedRules, excludeLocalRoutes) ==
    LET table == InterfaceTable(iface)
        uidRules(uids, p) ==
            modifyVpnUidRangeRule(table, uids, p, secure, excludeLocalRoutes)
            \o modifyExplicitNetworkRule(netId, table, PERMISSION_NONE, uids, p)
            \o modifyOutputInterfaceRules(iface, table, PERMISSION_NONE, uids, p)
        networkRules ==
            modifyIncomingPacketMark(netId, iface, PERMISSION_NONE)
            \o modifyVpnOutputToLocalRule(iface)
            \o modifyVpnSystemPermissionRule(netId, table, secure, excludeLocalRoutes)
            \o modifyExplicitNetworkRule(netId, table, PERMISSION_NONE, RootUid,
                                         SUB_PRIORITY_HIGHEST)
    IN  ForEachRange(uidRangeMap, uidRules)
        \o (IF modifyNonUidBasedRules THEN networkRules ELSE <<>>)

modifyUnreachableNetwork(netId, uidRangeMap) ==
    LET uidRules(uids, p) ==
            modifyUidUnreachableRule(netId, uids, p, TRUE)
            \o modifyUidUnreachableRule(netId, uids, p, FALSE)
            \o modifyUidDefaultUnreachableRule(uids, p)
    IN  ForEachRange(uidRangeMap, uidRules)

modifyLocalNetwork(netId, iface) ==
    modifyIncomingPacketMark(netId, iface, PERMISSION_NONE)
    \o modifyOutputInterfaceRules(iface, FixedTable(ROUTE_TABLE_LOCAL_NETWORK),
                                  PERMISSION_NONE, AnyUid, SUB_PRIORITY_HIGHEST)

VirtualNetworkFallthrough(vpnNetId, physicalInterface, permission) ==
    modifyVpnFallthroughRule(vpnNetId, physicalInterface, permission)
    \o modifyVpnLocalExclusionRule(physicalInterface)

(* addLegacyRouteRules, addLocalNetworkRules, addUnreachableRule. *)
addLegacyRouteRules ==
    << [Rule(RULE_PRIORITY_LEGACY_SYSTEM, FixedTable(ROUTE_TABLE_LEGACY_SYSTEM)) EXCEPT
          !.explicit = "no"],
       [Rule(RULE_PRIORITY_LEGACY_NETWORK, FixedTable(ROUTE_TABLE_LEGACY_NETWORK)) EXCEPT
          !.explicit = "no"],
       [Rule(RULE_PRIORITY_VPN_OVERRIDE_SYSTEM, FixedTable(ROUTE_TABLE_LEGACY_SYSTEM)) EXCEPT
          !.explicit = "no", !.permission = PERMISSION_SYSTEM] >>

addLocalNetworkRules(localNetId) ==
    modifyExplicitNetworkRule(localNetId, FixedTable(ROUTE_TABLE_LOCAL_NETWORK), PERMISSION_NONE,
                              AnyUid, SUB_PRIORITY_HIGHEST)
    \o << [Rule(RULE_PRIORITY_LOCAL_NETWORK, FixedTable(ROUTE_TABLE_LOCAL_NETWORK)) EXCEPT
             !.explicit = "no"] >>

addUnreachableRule ==
    << [Rule(RULE_PRIORITY_UNREACHABLE, UnspecifiedTable) EXCEPT !.action = "unreachable"] >>
-----------------------------------------------------------------------------
(***************************************************************************)
(* The kernel's rule lists, one per address family, as far as netd relies  *)
(* on them: rules are kept in the order of their priorities, a new rule    *)
(* after those of its priority, duplicates are allowed (there is no        *)
(* NLM_F_EXCL), and a deletion removes the first rule that has every       *)
(* attribute the request carries.  An attribute netd leaves out (mask 0,   *)
(* table 0, no interface, no UIDs) is a wildcard.                          *)
(***************************************************************************)
Families == {4, 6}
AF_INET == 4
AF_INET6 == 6

Mark(rule) == <<rule.netId, rule.explicit, rule.protected, rule.permission>>
NoMark == Mark(NoRule)

Deletes(request, rule) ==
    /\ rule.priority = request.priority /\ rule.action = request.action
    /\ request.table # 0 => rule.table = request.table
    /\ Mark(request) # NoMark => Mark(rule) = Mark(request)
    /\ request.iif # NoName => rule.iif = request.iif
    /\ request.oif # NoName => rule.oif = request.oif
    /\ request.uids # AnyUid => rule.uids = request.uids

CanDelete(list, request) == \E i \in DOMAIN list : Deletes(request, list[i])

AddRule(list, rule) ==
    InsertAt(list, Cardinality({i \in DOMAIN list : list[i].priority <= rule.priority}) + 1, rule)

DelRule(list, request) == RemoveFirstMatch(list, LAMBDA rule : Deletes(request, rule))

(***************************************************************************)
(* Routing of a locally generated packet to a destination off the link:    *)
(* the first rule that matches and whose table has a route decides.  Only  *)
(* the global tables of interfaces have a default route.                   *)
(***************************************************************************)
MatchesPacket(rule, packet) ==
    /\ rule.action # "mark"
    /\ rule.netId \in {AnyNetId, packet.netId}
    /\ rule.explicit \in {"any", packet.explicit}
    /\ rule.protected \in {"any", packet.protected}
    /\ packet.permission >= rule.permission
    /\ rule.iif \in {NoName, Loopback}
    /\ rule.oif \in {NoName, packet.oif}
    /\ rule.uids = AnyUid \/ packet.uid \in rule.uids.start .. rule.uids.stop

IsInterfaceTable(table) ==
    ROUTE_TABLE_OFFSET_FROM_INDEX < table /\ table < ROUTE_TABLE_OFFSET_FROM_INDEX_FOR_LOCAL

(* The table that routes the packet, or 0 if the kernel refuses it. *)
RouteOf(list, packet) ==
    LET i == SelectInSeq(list, LAMBDA rule :
                 /\ MatchesPacket(rule, packet)
                 /\ rule.action = "lookup" => IsInterfaceTable(rule.table))
    IN  IF i = 0 THEN 0 ELSE list[i].table
=============================================================================
