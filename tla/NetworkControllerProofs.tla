----------------------- MODULE NetworkControllerProofs -----------------------
(***************************************************************************)
(* What TLC checks of NetworkController on small instances, proved for     *)
(* every set of netIds, interfaces, UIDs, ranges, priorities and addresses *)
(* that the ASSUMEs of module NetworkController admit.                     *)
(***************************************************************************)
EXTENDS NetworkController, WellFoundedInduction, TLAPS

(* The inductive invariant. *)
Inv ==
    /\ TypeOK
    /\ DefaultNetworkIsPhysical
    /\ OneNetworkPerInterface
    /\ PollingWhilePhysicalNetworkExists
    /\ LastNetIdsExist
    /\ FixedNetworksExist

-----------------------------------------------------------------------------
(* Constants and constructors *)

(* NETID_UNSET is not the netId of a network, and netIds are natural numbers. *)
LEMMA NetIdsAreNumbers == AllNetIds \subseteq Nat /\ NETID_UNSET \notin AllNetIds
BY NetIdsAssumption
DEF AllNetIds, OemIds, NETID_UNSET, MIN_OEM_ID, DUMMY_NET_ID, UNREACHABLE_NET_ID, LOCAL_NET_ID

(* The first key that a map iterates over is one of its keys. *)
LEMMA LowestIsMember ==
    ASSUME NEW S \in SUBSET Nat, S # {}
    PROVE  Lowest(S) \in S /\ \A m \in S : Lowest(S) <= m
<1> DEFINE R == OpToRel(<, Nat)
<1>1. IsWellFoundedOn(R, Nat)
  BY NatLessThanWellFounded, Zenon
<1>2. \A m, n \in Nat : m < n => <<m, n>> \in R
  BY DEF OpToRel
<1> HIDE DEF R
<1>3. PICK n \in S : \A m \in S : ~(<<m, n>> \in R)
  BY <1>1, WFMin, Zenon
<1>4. ASSUME NEW m \in S PROVE n <= m
  <2>1. m \in Nat /\ n \in Nat
    OBVIOUS
  <2>2. ~(m < n)
    BY <1>2, <1>3, <2>1, Zenon
  <2> QED
    BY <2>1, <2>2
<1> QED
  BY <1>4, Zenon DEF Lowest

(* The UidRanges operators return UidRanges objects. *)
LEMMA UidRangesTyped ==
    ASSUME NEW a \in UidRangesType, NEW b \in UidRangesType
    PROVE  /\ add(a, b) \in UidRangesType
           /\ remove(a, b) \in UidRangesType
           /\ NoRanges \in UidRangesType
BY DEF UidRangesType, add, remove, NoRanges

(* The UID ranges of a new network. *)
LEMMA InitialFieldsTyped ==
    /\ NoAllowedUids \in [has_value : BOOLEAN, value : UidRangesType]
    /\ [p \in SubPriorities |-> NoRanges] \in [SubPriorities -> UidRangesType]
<1>1. NoRanges \in UidRangesType
  BY DEF UidRangesType, NoRanges
<1> QED
  BY <1>1 DEF NoAllowedUids

(* The constructors build a Network that is not the default and that has no interfaces, except *)
(* for the dummy network. *)
LEMMA NewNetworkTyped ==
    ASSUME NEW type \in NetworkTypes, NEW permission \in Permissions, NEW local \in BOOLEAN,
           NEW secure \in BOOLEAN, NEW excl \in BOOLEAN
    PROVE  /\ NewNetwork(type, permission, local, secure, excl) \in Network
           /\ NewNetwork(type, permission, local, secure, excl).type = type
           /\ type = "DUMMY" =>
                 NewNetwork(type, permission, local, secure, excl).mInterfaces = {DUMMY_INTERFACE}
           /\ type # "DUMMY" =>
                 NewNetwork(type, permission, local, secure, excl).mInterfaces = {}
<1>1. (IF type = "DUMMY" THEN {DUMMY_INTERFACE} ELSE {}) \in SUBSET Ifaces
  BY IfacesAssumption
<1> QED
  BY <1>1, InitialFieldsTyped DEF NewNetwork, Network

-----------------------------------------------------------------------------
(* The state that the constructor builds satisfies Inv. *)
LEMMA InitEstablishesInv == Init => Inv
<1> SUFFICES ASSUME Init PROVE Inv
  OBVIOUS
<1> DEFINE Fixed == {LOCAL_NET_ID, DUMMY_NET_ID, UNREACHABLE_NET_ID}
<1>1. /\ DOMAIN mNetworks = Fixed
      /\ mNetworks[LOCAL_NET_ID] = NewFixedNetwork("LOCAL")
      /\ mNetworks[DUMMY_NET_ID] = NewFixedNetwork("DUMMY")
      /\ mNetworks[UNREACHABLE_NET_ID] = NewFixedNetwork("UNREACHABLE")
  BY DEF Init, LOCAL_NET_ID, DUMMY_NET_ID, UNREACHABLE_NET_ID
<1>2. \A t \in {"LOCAL", "DUMMY", "UNREACHABLE"} :
         /\ NewFixedNetwork(t) \in Network
         /\ NewFixedNetwork(t).type = t
         /\ t = "DUMMY" => NewFixedNetwork(t).mInterfaces = {DUMMY_INTERFACE}
         /\ t # "DUMMY" => NewFixedNetwork(t).mInterfaces = {}
  <2> SUFFICES ASSUME NEW t \in {"LOCAL", "DUMMY", "UNREACHABLE"}
               PROVE  /\ NewFixedNetwork(t) \in Network
                      /\ NewFixedNetwork(t).type = t
                      /\ t = "DUMMY" => NewFixedNetwork(t).mInterfaces = {DUMMY_INTERFACE}
                      /\ t # "DUMMY" => NewFixedNetwork(t).mInterfaces = {}
    OBVIOUS
  <2>1. t \in NetworkTypes /\ PERMISSION_SYSTEM \in Permissions /\ FALSE \in BOOLEAN
    BY DEF NetworkTypes, Permissions
  <2> QED
    BY <2>1, NewNetworkTyped, Zenon DEF NewFixedNetwork
<1>3. mNetworks \in [DOMAIN mNetworks -> Network]
  <2>1. mNetworks = [n \in DOMAIN mNetworks |-> mNetworks[n]]
    BY DEF Init
  <2> QED
    BY <1>1, <1>2, <2>1
<1>4. TypeOK
  BY <1>1, <1>3, Zenon DEF Init, TypeOK, AllNetIds
<1>5. DefaultNetworkIsPhysical
  BY DEF Init, DefaultNetworkIsPhysical
<1>6. OneNetworkPerInterface
  BY <1>1, <1>2 DEF OneNetworkPerInterface
<1>7. PollingWhilePhysicalNetworkExists
  BY <1>1, <1>2, Zenon DEF Init, PollingWhilePhysicalNetworkExists, physicalNetworkExists, isPhysical
<1>8. LastNetIdsExist
  BY DEF Init, LastNetIdsExist
<1>9. FixedNetworksExist
  BY <1>1, <1>2 DEF FixedNetworksExist, isValidNetwork, isUnreachable
<1> QED
  BY <1>4, <1>5, <1>6, <1>7, <1>8, <1>9 DEF Inv

-----------------------------------------------------------------------------
(* Updates of a Network *)

(* An assignment to mPermission gives a Network of the same kind. *)
LEMMA PermissionUpdate ==
    ASSUME NEW w \in Network, NEW p \in Permissions
    PROVE  LET v == [w EXCEPT !.mPermission = p]
           IN  /\ v \in Network /\ v.type = w.type
               /\ v.mInterfaces = w.mInterfaces /\ v.mIsDefault = w.mIsDefault
BY DEF Network

(* An assignment to mIsDefault gives a Network of the same kind. *)
LEMMA DefaultUpdate ==
    ASSUME NEW w \in Network, NEW b \in BOOLEAN
    PROVE  LET v == [w EXCEPT !.mIsDefault = b]
           IN  /\ v \in Network /\ v.type = w.type
               /\ v.mInterfaces = w.mInterfaces /\ v.mIsDefault = b
BY DEF Network

(* An assignment to mInterfaces gives a Network of the same kind. *)
LEMMA InterfacesUpdate ==
    ASSUME NEW w \in Network, NEW S \in SUBSET Ifaces
    PROVE  LET v == [w EXCEPT !.mInterfaces = S]
           IN  /\ v \in Network /\ v.type = w.type
               /\ v.mInterfaces = S /\ v.mIsDefault = w.mIsDefault
BY DEF Network

(* An assignment to mAllowedUids gives a Network of the same kind. *)
LEMMA AllowedUidsUpdate ==
    ASSUME NEW w \in Network, NEW a \in [has_value : BOOLEAN, value : UidRangesType]
    PROVE  LET v == [w EXCEPT !.mAllowedUids = a]
           IN  /\ v \in Network /\ v.type = w.type
               /\ v.mInterfaces = w.mInterfaces /\ v.mIsDefault = w.mIsDefault
BY DEF Network

(* An assignment to mUidRangeMap gives a Network of the same kind. *)
LEMMA UidRangeMapUpdate ==
    ASSUME NEW w \in Network, NEW p \in SubPriorities, NEW r \in UidRangesType
    PROVE  LET v == [w EXCEPT !.mUidRangeMap[p] = r]
           IN  /\ v \in Network /\ v.type = w.type
               /\ v.mInterfaces = w.mInterfaces /\ v.mIsDefault = w.mIsDefault
BY DEF Network

-----------------------------------------------------------------------------
(***************************************************************************)
(* An operation that keeps the set of networks, their types and interfaces *)
(* and takes mIsDefault from none preserves everything but the types.      *)
(***************************************************************************)
LEMMA SameNetworks ==
    ASSUME Inv, TypeOK',
           mDefaultNetId' = mDefaultNetId,
           mIfindexToLastNetId' = mIfindexToLastNetId,
           polling' = polling,
           DOMAIN mNetworks' = DOMAIN mNetworks,
           \A n \in DOMAIN mNetworks :
              /\ mNetworks'[n].type = mNetworks[n].type
              /\ mNetworks'[n].mInterfaces = mNetworks[n].mInterfaces
              /\ mNetworks[n].mIsDefault => mNetworks'[n].mIsDefault
    PROVE  Inv'
<1>1. DefaultNetworkIsPhysical'
  BY DEF Inv, DefaultNetworkIsPhysical, isValidNetwork, isPhysical
<1>2. OneNetworkPerInterface'
  BY DEF Inv, OneNetworkPerInterface
<1>3. PollingWhilePhysicalNetworkExists'
  BY DEF Inv, PollingWhilePhysicalNetworkExists, physicalNetworkExists, isPhysical
<1>4. LastNetIdsExist'
  BY DEF Inv, LastNetIdsExist
<1>5. FixedNetworksExist'
  BY DEF Inv, FixedNetworksExist, isValidNetwork, isUnreachable
<1> QED
  BY <1>1, <1>2, <1>3, <1>4, <1>5 DEF Inv

(* setPermissionForNetworks, which may have stopped after some of the networks, keeps Inv. *)
LEMMA SetPermissionForNetworksPreservesInv ==
    ASSUME Inv, NEW p \in PermissionArgs, NEW ns \in SUBSET AllNetIds,
           setPermissionForNetworks(p, ns)
    PROVE  Inv'
<1>1. p \in Permissions
  BY FlagArgsAssumption
<1>2. \A n \in DOMAIN mNetworks :
         /\ mNetworks'[n] \in Network
         /\ mNetworks'[n].type = mNetworks[n].type
         /\ mNetworks'[n].mInterfaces = mNetworks[n].mInterfaces
         /\ mNetworks'[n].mIsDefault = mNetworks[n].mIsDefault
  BY <1>1, PermissionUpdate DEF setPermissionForNetworks, Inv, TypeOK
<1>3. TypeOK'
  BY <1>2 DEF setPermissionForNetworks, Inv, TypeOK, addressVars, userVars
<1> QED
  BY <1>2, <1>3, SameNetworks DEF setPermissionForNetworks, addressVars, userVars

(* setDefaultNetwork that fails in removeAsDefault leaves two networks with mIsDefault, and keeps Inv. *)
LEMMA SetDefaultNetworkInterruptedPreservesInv ==
    ASSUME Inv, NEW netId \in AllNetIds, setDefaultNetworkInterrupted(netId)
    PROVE  Inv'
<1>1. netId \in DOMAIN mNetworks
  BY DEF setDefaultNetworkInterrupted, mayBecomeDefault, isValidNetwork
<1>2. \A n \in DOMAIN mNetworks :
         /\ mNetworks'[n] \in Network
         /\ mNetworks'[n].type = mNetworks[n].type
         /\ mNetworks'[n].mInterfaces = mNetworks[n].mInterfaces
         /\ mNetworks[n].mIsDefault => mNetworks'[n].mIsDefault
  BY <1>1, DefaultUpdate, Zenon DEF setDefaultNetworkInterrupted, Inv, TypeOK
<1>3. TypeOK'
  BY <1>2, Zenon DEF setDefaultNetworkInterrupted, Inv, TypeOK, addressVars, userVars
<1> QED
  BY <1>2, <1>3, SameNetworks DEF setDefaultNetworkInterrupted, addressVars, userVars

(* addUsersToNetwork keeps Inv. *)
LEMMA AddUsersToNetworkPreservesInv ==
    ASSUME Inv, NEW netId \in AllNetIds, NEW r \in RangeArgs, NEW p \in SubPriorities,
           addUsersToNetwork(netId, r, p)
    PROVE  Inv'
<1>1. netId \in DOMAIN mNetworks
  BY DEF addUsersToNetwork, isWrongNetworkForUidRanges, isValidNetwork
<1>2. add(mNetworks[netId].mUidRangeMap[p], r) \in UidRangesType
  BY <1>1, UidRangesTyped, RangeArgsAssumption DEF Inv, TypeOK, Network
<1>3. \A n \in DOMAIN mNetworks :
         /\ mNetworks'[n] \in Network
         /\ mNetworks'[n].type = mNetworks[n].type
         /\ mNetworks'[n].mInterfaces = mNetworks[n].mInterfaces
         /\ mNetworks'[n].mIsDefault = mNetworks[n].mIsDefault
  BY <1>1, <1>2, UidRangeMapUpdate DEF addUsersToNetwork, addToUidRangeMap, Inv, TypeOK
<1>4. TypeOK'
  BY <1>3, Zenon DEF addUsersToNetwork, Inv, TypeOK, addressVars, userVars
<1> QED
  BY <1>3, <1>4, SameNetworks DEF addUsersToNetwork, addressVars, userVars

(* removeUsersFromNetwork keeps Inv. *)
LEMMA RemoveUsersFromNetworkPreservesInv ==
    ASSUME Inv, NEW netId \in AllNetIds, NEW r \in RangeArgs, NEW p \in SubPriorities,
           removeUsersFromNetwork(netId, r, p)
    PROVE  Inv'
<1>1. netId \in DOMAIN mNetworks
  BY DEF removeUsersFromNetwork, isWrongNetworkForUidRanges, isValidNetwork
<1>2. remove(mNetworks[netId].mUidRangeMap[p], r) \in UidRangesType
  BY <1>1, UidRangesTyped, RangeArgsAssumption DEF Inv, TypeOK, Network
<1>3. \A n \in DOMAIN mNetworks :
         /\ mNetworks'[n] \in Network
         /\ mNetworks'[n].type = mNetworks[n].type
         /\ mNetworks'[n].mInterfaces = mNetworks[n].mInterfaces
         /\ mNetworks'[n].mIsDefault = mNetworks[n].mIsDefault
  BY <1>1, <1>2, UidRangeMapUpdate DEF removeUsersFromNetwork, removeFromUidRangeMap, Inv, TypeOK
<1>4. TypeOK'
  BY <1>3, Zenon DEF removeUsersFromNetwork, Inv, TypeOK, addressVars, userVars
<1> QED
  BY <1>3, <1>4, SameNetworks DEF removeUsersFromNetwork, addressVars, userVars

(* setNetworkAllowlist keeps Inv. *)
LEMMA SetNetworkAllowlistPreservesInv ==
    ASSUME Inv, NEW ns \in SUBSET AllowlistIds, NEW configs \in [ns -> RangeArgs],
           setNetworkAllowlist(configs)
    PROVE  Inv'
<1>1. \A n \in ns : [has_value |-> TRUE, value |-> configs[n]]
                       \in [has_value : BOOLEAN, value : UidRangesType]
  BY RangeArgsAssumption
<1>2. NoAllowedUids \in [has_value : BOOLEAN, value : UidRangesType]
  BY DEF NoAllowedUids, NoRanges, UidRangesType
<1>3. \A n \in DOMAIN mNetworks :
         /\ mNetworks'[n] \in Network
         /\ mNetworks'[n].type = mNetworks[n].type
         /\ mNetworks'[n].mInterfaces = mNetworks[n].mInterfaces
         /\ mNetworks'[n].mIsDefault = mNetworks[n].mIsDefault
  BY <1>1, <1>2, AllowedUidsUpdate, Zenon DEF setNetworkAllowlist, setAllowedUids, Inv, TypeOK
<1>4. TypeOK'
  BY <1>3 DEF setNetworkAllowlist, Inv, TypeOK, addressVars, userVars
<1> QED
  BY <1>3, <1>4, SameNetworks, Zenon DEF setNetworkAllowlist, addressVars, userVars

(* The operations that change mUsers, mProtectableUsers or mAddressToIfindices only. *)
LEMMA OtherMapsPreserveInv ==
    ASSUME Inv, UNCHANGED <<networkVars, mIfindexToLastNetId, polling>>,
           DOMAIN mUsers' \subseteq Uids, mUsers' \in [DOMAIN mUsers' -> Permissions],
           mProtectableUsers' \subseteq Uids,
           DOMAIN mAddressToIfindices' \subseteq Addresses,
           mAddressToIfindices' \in [DOMAIN mAddressToIfindices' -> SUBSET IfIndices]
    PROVE  Inv'
<1>1. TypeOK'
  BY DEF Inv, TypeOK, networkVars
<1> QED
  BY <1>1, SameNetworks DEF networkVars

(* setPermissionForUsers, allowProtect and denyProtect keep Inv. *)
LEMMA UserOperationsPreserveInv ==
    ASSUME Inv, NEW us \in SUBSET Uids,
           \/ \E p \in PermissionArgs : setPermissionForUsers(p, us)
           \/ allowProtect(us)
           \/ denyProtect(us)
    PROVE  Inv'
<1>1. PermissionArgs \subseteq Permissions
  BY FlagArgsAssumption
<1>2. DOMAIN mUsers' \subseteq Uids /\ mUsers' \in [DOMAIN mUsers' -> Permissions]
  BY <1>1 DEF setPermissionForUsers, allowProtect, denyProtect, Inv, TypeOK
<1> QED
  BY <1>2, OtherMapsPreserveInv
  DEF setPermissionForUsers, allowProtect, denyProtect, Inv, TypeOK, networkVars, addressVars

(* addInterfaceAddress keeps Inv. *)
LEMMA AddInterfaceAddressPreservesInv ==
    ASSUME Inv, NEW i \in IfIndices, NEW a \in Addresses, addInterfaceAddress(i, a)
    PROVE  Inv'
<1>1. IfindicesOf(a) \subseteq IfIndices
  BY DEF IfindicesOf, Inv, TypeOK
<1>2. /\ DOMAIN mAddressToIfindices' \subseteq Addresses
      /\ mAddressToIfindices' \in [DOMAIN mAddressToIfindices' -> SUBSET IfIndices]
  BY <1>1 DEF addInterfaceAddress, Inv, TypeOK
<1> QED
  BY <1>2, OtherMapsPreserveInv DEF addInterfaceAddress, Inv, TypeOK, networkVars, userVars

-----------------------------------------------------------------------------
(* The operations that change the set of networks, their interfaces or the default. *)

(* A new network, which has no interface, under a netId that is not in use keeps what Inv says, *)
(* if polling is updated. *)
LEMMA NewNetworkPreservesInv ==
    ASSUME Inv, NEW netId \in AllNetIds, NEW w \in Network,
           ~isValidNetwork(netId), w.mInterfaces = {},
           mNetworks' = With(netId, w),
           polling' = physicalNetworkExists(mNetworks'),
           UNCHANGED <<mDefaultNetId, addressVars, userVars>>
    PROVE  Inv'
<1>1. /\ DOMAIN mNetworks' = DOMAIN mNetworks \cup {netId}
      /\ mNetworks'[netId] = w
      /\ \A n \in DOMAIN mNetworks : n # netId /\ mNetworks'[n] = mNetworks[n]
  BY DEF With, isValidNetwork
<1>2. TypeOK'
  <2>1. mNetworks' \in [DOMAIN mNetworks' -> Network]
    BY <1>1 DEF With, Inv, TypeOK
  <2>2. polling' \in BOOLEAN
    BY DEF physicalNetworkExists
  <2> QED
    BY <1>1, <2>1, <2>2 DEF Inv, TypeOK, addressVars, userVars
<1>3. DefaultNetworkIsPhysical'
  BY <1>1 DEF Inv, DefaultNetworkIsPhysical, isValidNetwork, isPhysical
<1>4. OneNetworkPerInterface'
  BY <1>1 DEF Inv, OneNetworkPerInterface
<1>5. PollingWhilePhysicalNetworkExists'
  BY DEF PollingWhilePhysicalNetworkExists
<1>6. LastNetIdsExist'
  BY <1>1 DEF Inv, LastNetIdsExist, addressVars
<1>7. FixedNetworksExist'
  BY <1>1 DEF Inv, FixedNetworksExist, isValidNetwork, isUnreachable
<1> QED
  BY <1>2, <1>3, <1>4, <1>5, <1>6, <1>7 DEF Inv

(* createPhysicalNetwork keeps Inv. *)
LEMMA CreatePhysicalNetworkPreservesInv ==
    ASSUME Inv, NEW netId \in AllNetIds, NEW p \in PermissionArgs, NEW local \in BOOLEAN,
           createPhysicalNetwork(netId, p, local)
    PROVE  Inv'
<1>1. /\ "PHYSICAL" \in NetworkTypes /\ "PHYSICAL" # "DUMMY"
      /\ p \in Permissions /\ FALSE \in BOOLEAN
  BY FlagArgsAssumption DEF NetworkTypes
<1>2. /\ NewPhysicalNetwork(p, local) \in Network
      /\ NewPhysicalNetwork(p, local).mInterfaces = {}
  BY <1>1, NewNetworkTyped, Zenon DEF NewPhysicalNetwork
<1> QED
  BY <1>2, NewNetworkPreservesInv DEF createPhysicalNetwork, updateTcpSocketMonitorPolling

(* createPhysicalOemNetwork, which takes the lowest free OEM netId, keeps Inv. *)
LEMMA CreatePhysicalOemNetworkPreservesInv ==
    ASSUME Inv, NEW p \in PermissionArgs, createPhysicalOemNetwork(p)
    PROVE  Inv'
<1>1. freeOemIds \subseteq Nat /\ freeOemIds # {}
  BY DEF createPhysicalOemNetwork, freeOemIds, OemIds, MIN_OEM_ID
<1>2. Lowest(freeOemIds) \in freeOemIds
  BY <1>1, LowestIsMember
<1>3. Lowest(freeOemIds) \in AllNetIds
  BY <1>2 DEF freeOemIds, AllNetIds
<1>4. FALSE \in BOOLEAN /\ createPhysicalNetwork(Lowest(freeOemIds), p, FALSE)
  BY Zenon DEF createPhysicalOemNetwork
<1> QED
  BY <1>3, <1>4, CreatePhysicalNetworkPreservesInv, Zenon

(* createVirtualNetwork keeps Inv; it need not update polling. *)
LEMMA CreateVirtualNetworkPreservesInv ==
    ASSUME Inv, NEW netId \in NetIds, NEW secure \in BOOLEAN, NEW excl \in BOOLEAN,
           createVirtualNetwork(netId, secure, excl)
    PROVE  Inv'
<1> DEFINE w == NewVirtualNetwork(secure, excl)
<1>1. /\ "VIRTUAL" \in NetworkTypes /\ "VIRTUAL" # "DUMMY" /\ PERMISSION_SYSTEM \in Permissions /\ FALSE \in BOOLEAN
      /\ netId \in AllNetIds
  BY DEF NetworkTypes, Permissions, AllNetIds
<1> HIDE DEF w
<1>2. /\ w \in Network
      /\ w.type = "VIRTUAL"
      /\ w.mInterfaces = {}
  BY <1>1, InitialFieldsTyped DEF w, NewVirtualNetwork, NewNetwork, Network
<1>3. w.mInterfaces = {} /\ ~isPhysical(w)
  BY <1>2 DEF isPhysical
<1>4. mNetworks' = With(netId, w) /\ ~isValidNetwork(netId)
  BY DEF createVirtualNetwork, w
<1>5. /\ DOMAIN mNetworks' = DOMAIN mNetworks \cup {netId}
      /\ mNetworks'[netId] = w
      /\ \A n \in DOMAIN mNetworks : mNetworks'[n] = mNetworks[n]
  BY <1>4 DEF With, isValidNetwork
<1>6. physicalNetworkExists(mNetworks') <=> physicalNetworkExists(mNetworks)
  BY <1>3, <1>5 DEF physicalNetworkExists
<1>7. polling' = physicalNetworkExists(mNetworks')
  BY <1>6 DEF Inv, PollingWhilePhysicalNetworkExists, createVirtualNetwork, physicalNetworkExists
<1> QED
  BY <1>1, <1>2, <1>3, <1>4, <1>7, NewNetworkPreservesInv DEF createVirtualNetwork

(* destroyNetwork keeps Inv: it unsets the default and erases the interfaces that were last in *)
(* the network. *)
LEMMA DestroyNetworkPreservesInv ==
    ASSUME Inv, NEW netId \in AllNetIds, destroyNetwork(netId)
    PROVE  Inv'
<1>1. /\ DOMAIN mNetworks' = DOMAIN mNetworks \ {netId}
      /\ \A n \in DOMAIN mNetworks' : mNetworks'[n] = mNetworks[n]
      /\ netId \notin {LOCAL_NET_ID, UNREACHABLE_NET_ID}
  BY DEF destroyNetwork, Without, mayDestroy
<1>2. /\ DOMAIN mIfindexToLastNetId' \subseteq DOMAIN mIfindexToLastNetId
      /\ mIfindexToLastNetId' \in [DOMAIN mIfindexToLastNetId' -> AllNetIds \cup {NETID_UNSET}]
      /\ \A i \in DOMAIN mIfindexToLastNetId' :
            mIfindexToLastNetId'[i] = mIfindexToLastNetId[i] /\ mIfindexToLastNetId[i] # netId
  BY DEF destroyNetwork, forgetLastNetId, Inv, TypeOK
<1>3. TypeOK'
  <2>1. mNetworks' \in [DOMAIN mNetworks' -> Network]
    BY <1>1 DEF destroyNetwork, Without, Inv, TypeOK
  <2>2. polling' \in BOOLEAN
    BY DEF destroyNetwork, updateTcpSocketMonitorPolling, physicalNetworkExists
  <2>3. mDefaultNetId' \in AllNetIds \cup {NETID_UNSET}
    BY DEF destroyNetwork, unsetDefault, Inv, TypeOK
  <2> QED
    BY <1>1, <1>2, <2>1, <2>2, <2>3 DEF destroyNetwork, Inv, TypeOK, userVars
<1>4. DefaultNetworkIsPhysical'
  BY <1>1 DEF destroyNetwork, unsetDefault, Inv, DefaultNetworkIsPhysical, isValidNetwork, isPhysical
<1>5. OneNetworkPerInterface'
  BY <1>1 DEF Inv, OneNetworkPerInterface
<1>6. PollingWhilePhysicalNetworkExists'
  BY DEF destroyNetwork, updateTcpSocketMonitorPolling, PollingWhilePhysicalNetworkExists
<1>7. LastNetIdsExist'
  BY <1>1, <1>2 DEF Inv, LastNetIdsExist
<1>8. FixedNetworksExist'
  BY <1>1 DEF Inv, FixedNetworksExist, isValidNetwork, isUnreachable
<1> QED
  BY <1>3, <1>4, <1>5, <1>6, <1>7, <1>8 DEF Inv

(* setDefaultNetwork keeps Inv: the new default is physical and knows that it is the default. *)
LEMMA SetDefaultNetworkPreservesInv ==
    ASSUME Inv, NEW netId \in AllNetIds \cup {NETID_UNSET}, setDefaultNetwork(netId)
    PROVE  Inv'
<1>1. DOMAIN mNetworks' = DOMAIN mNetworks
  BY DEF setDefaultNetwork
<1>2. \A n \in DOMAIN mNetworks :
         /\ mNetworks'[n] \in Network
         /\ mNetworks'[n].type = mNetworks[n].type
         /\ mNetworks'[n].mInterfaces = mNetworks[n].mInterfaces
  BY DefaultUpdate, Zenon DEF setDefaultNetwork, Inv, TypeOK
<1>3. netId # NETID_UNSET => /\ netId \in DOMAIN mNetworks
                             /\ mNetworks[netId].type = "PHYSICAL"
                             /\ mNetworks'[netId].mIsDefault
  BY DefaultUpdate
  DEF setDefaultNetwork, mayBecomeDefault, isValidNetwork, isPhysical, Inv, TypeOK
<1>4. TypeOK'
  BY <1>1, <1>2 DEF setDefaultNetwork, Inv, TypeOK, addressVars, userVars
<1>5. DefaultNetworkIsPhysical'
  BY <1>1, <1>2, <1>3 DEF setDefaultNetwork, DefaultNetworkIsPhysical, isValidNetwork, isPhysical
<1>6. OneNetworkPerInterface'
  BY <1>1, <1>2 DEF Inv, OneNetworkPerInterface
<1>7. PollingWhilePhysicalNetworkExists'
  BY <1>1, <1>2
  DEF setDefaultNetwork, Inv, PollingWhilePhysicalNetworkExists, physicalNetworkExists, isPhysical
<1>8. LastNetIdsExist'
  BY <1>1 DEF setDefaultNetwork, Inv, LastNetIdsExist, addressVars
<1>9. FixedNetworksExist'
  BY <1>1, <1>2 DEF Inv, FixedNetworksExist, isValidNetwork, isUnreachable
<1> QED
  BY <1>4, <1>5, <1>6, <1>7, <1>8, <1>9 DEF Inv

(* The EBUSY check: while no interface is in two networks, getNetworkForInterface finds the *)
(* network that the interface is in. *)
LEMMA InterfaceIsFound ==
    ASSUME Inv, NEW iface, NEW n \in DOMAIN mNetworks, iface \in mNetworks[n].mInterfaces
    PROVE  getNetworkForInterface(iface) = n
<1> DEFINE S == {m \in DOMAIN mNetworks : iface \in mNetworks[m].mInterfaces}
<1>1. S = {n}
  BY DEF Inv, OneNetworkPerInterface
<1>2. S \subseteq Nat /\ S # {}
  BY <1>1, NetIdsAreNumbers DEF Inv, TypeOK
<1>3. Lowest(S) \in S
  BY <1>2, LowestIsMember
<1> QED
  BY <1>1, <1>3 DEF getNetworkForInterface, LowestOrUnset

(* addInterfaceToNetwork keeps Inv. *)
LEMMA AddInterfaceToNetworkPreservesInv ==
    ASSUME Inv, NEW netId \in AllNetIds, NEW iface \in Ifaces, NEW ifIndex \in IfIndices \cup {0},
           addInterfaceToNetwork(netId, iface, ifIndex)
    PROVE  Inv'
<1>1. netId \in DOMAIN mNetworks /\ DOMAIN mNetworks' = DOMAIN mNetworks
  BY DEF addInterfaceToNetwork, mayAddInterface, isValidNetwork
<1>2. /\ \A n \in DOMAIN mNetworks \ {netId} : mNetworks'[n] = mNetworks[n]
      /\ mNetworks'[netId] \in Network
      /\ mNetworks'[netId].type = mNetworks[netId].type
      /\ mNetworks'[netId].mIsDefault = mNetworks[netId].mIsDefault
      /\ mNetworks'[netId].mInterfaces = mNetworks[netId].mInterfaces \cup {iface}
  <2>1. mNetworks[netId] \in Network /\ mNetworks[netId].mInterfaces \cup {iface} \in SUBSET Ifaces
    BY <1>1 DEF Inv, TypeOK, Network
  <2> QED
    BY <1>1, <2>1, InterfacesUpdate, Zenon DEF addInterfaceToNetwork, Inv, TypeOK
<1>3. \A n \in DOMAIN mNetworks \ {netId} : iface \notin mNetworks[n].mInterfaces
  <2> SUFFICES ASSUME NEW n \in DOMAIN mNetworks \ {netId}, iface \in mNetworks[n].mInterfaces
               PROVE  FALSE
    OBVIOUS
  <2>1. getNetworkForInterface(iface) = n
    BY InterfaceIsFound
  <2>2. n # NETID_UNSET
    BY NetIdsAreNumbers DEF Inv, TypeOK
  <2> QED
    BY <2>1, <2>2 DEF addInterfaceToNetwork, mayAddInterface
<1>4. /\ DOMAIN mIfindexToLastNetId' \subseteq IfIndices
      /\ mIfindexToLastNetId' \in [DOMAIN mIfindexToLastNetId' -> AllNetIds \cup {NETID_UNSET}]
      /\ \A i \in DOMAIN mIfindexToLastNetId' :
            \/ mIfindexToLastNetId'[i] = netId
            \/ i \in DOMAIN mIfindexToLastNetId /\ mIfindexToLastNetId'[i] = mIfindexToLastNetId[i]
  BY DEF addInterfaceToNetwork, lastNetIdsAfterAdding, SetLastNetId, Inv, TypeOK
<1>5. TypeOK'
  <2>1. mNetworks' \in [DOMAIN mNetworks' -> Network]
    BY <1>1, <1>2 DEF addInterfaceToNetwork, Inv, TypeOK
  <2> QED
    BY <1>1, <1>4, <2>1 DEF addInterfaceToNetwork, Inv, TypeOK, userVars
<1>6. DefaultNetworkIsPhysical'
  BY <1>1, <1>2
  DEF addInterfaceToNetwork, Inv, DefaultNetworkIsPhysical, isValidNetwork, isPhysical
<1>7. OneNetworkPerInterface'
  BY <1>1, <1>2, <1>3 DEF Inv, OneNetworkPerInterface
<1>8. PollingWhilePhysicalNetworkExists'
  BY <1>1, <1>2 DEF addInterfaceToNetwork, Inv, PollingWhilePhysicalNetworkExists,
                    physicalNetworkExists, isPhysical
<1>9. LastNetIdsExist'
  BY <1>1, <1>4 DEF Inv, LastNetIdsExist
<1>10. FixedNetworksExist'
  BY <1>1, <1>2 DEF Inv, FixedNetworksExist, isValidNetwork, isUnreachable
<1> QED
  BY <1>5, <1>6, <1>7, <1>8, <1>9, <1>10 DEF Inv

(* removeInterfaceFromNetwork keeps Inv; the interface stays in mIfindexToLastNetId. *)
LEMMA RemoveInterfaceFromNetworkPreservesInv ==
    ASSUME Inv, NEW netId \in AllNetIds, NEW iface \in Ifaces,
           removeInterfaceFromNetwork(netId, iface)
    PROVE  Inv'
<1>1. netId \in DOMAIN mNetworks /\ DOMAIN mNetworks' = DOMAIN mNetworks
  BY DEF removeInterfaceFromNetwork, isValidNetwork
<1>2. \A n \in DOMAIN mNetworks :
         /\ mNetworks'[n] \in Network
         /\ mNetworks'[n].type = mNetworks[n].type
         /\ mNetworks'[n].mIsDefault = mNetworks[n].mIsDefault
         /\ mNetworks'[n].mInterfaces \subseteq mNetworks[n].mInterfaces
  <2>1. mNetworks[netId] \in Network /\ mNetworks[netId].mInterfaces \ {iface} \in SUBSET Ifaces
    BY <1>1 DEF Inv, TypeOK, Network
  <2> QED
    BY <1>1, <2>1, InterfacesUpdate DEF removeInterfaceFromNetwork, Inv, TypeOK
<1>3. TypeOK'
  BY <1>1, <1>2, Zenon DEF removeInterfaceFromNetwork, Inv, TypeOK, addressVars, userVars
<1>4. DefaultNetworkIsPhysical'
  BY <1>1, <1>2
  DEF removeInterfaceFromNetwork, Inv, DefaultNetworkIsPhysical, isValidNetwork, isPhysical
<1>5. OneNetworkPerInterface'
  BY <1>1, <1>2 DEF Inv, OneNetworkPerInterface
<1>6. PollingWhilePhysicalNetworkExists'
  BY <1>1, <1>2 DEF removeInterfaceFromNetwork, Inv, PollingWhilePhysicalNetworkExists,
                    physicalNetworkExists, isPhysical
<1>7. LastNetIdsExist'
  BY <1>1 DEF removeInterfaceFromNetwork, Inv, LastNetIdsExist, addressVars
<1>8. FixedNetworksExist'
  BY <1>1, <1>2 DEF Inv, FixedNetworksExist, isValidNetwork, isUnreachable
<1> QED
  BY <1>3, <1>4, <1>5, <1>6, <1>7, <1>8 DEF Inv

(* removeInterfaceAddress keeps Inv: what it inserts into mIfindexToLastNetId is NETID_UNSET. *)
LEMMA RemoveInterfaceAddressPreservesInv ==
    ASSUME Inv, NEW ifIndex \in IfIndices, NEW address \in Addresses,
           removeInterfaceAddress(ifIndex, address)
    PROVE  Inv'
<1> DEFINE others == IfindicesOf(address) \ {ifIndex}
<1>1. others \subseteq IfIndices
  BY DEF IfindicesOf, Inv, TypeOK
<1>2. /\ DOMAIN mAddressToIfindices' \subseteq Addresses
      /\ mAddressToIfindices' \in [DOMAIN mAddressToIfindices' -> SUBSET IfIndices]
  BY <1>1 DEF removeInterfaceAddress, Inv, TypeOK
<1>3. PICK visited \in SUBSET others :
         mIfindexToLastNetId' =
            [i \in DOMAIN mIfindexToLastNetId \cup visited |->
               IF i \in DOMAIN mIfindexToLastNetId THEN mIfindexToLastNetId[i] ELSE NETID_UNSET]
  BY DEF removeInterfaceAddress
<1>4. /\ DOMAIN mIfindexToLastNetId' \subseteq IfIndices
      /\ mIfindexToLastNetId' \in [DOMAIN mIfindexToLastNetId' -> AllNetIds \cup {NETID_UNSET}]
  BY <1>1, <1>3 DEF Inv, TypeOK
<1>5. UNCHANGED <<mDefaultNetId, mNetworks, mUsers, mProtectableUsers, polling>>
  BY DEF removeInterfaceAddress, networkVars, userVars
<1>6. TypeOK'
  BY <1>2, <1>4, <1>5 DEF Inv, TypeOK
<1>7. LastNetIdsExist'
  BY <1>3, <1>5 DEF Inv, LastNetIdsExist
<1>8. /\ DefaultNetworkIsPhysical' /\ OneNetworkPerInterface'
      /\ PollingWhilePhysicalNetworkExists' /\ FixedNetworksExist'
  BY <1>5 DEF Inv, DefaultNetworkIsPhysical, OneNetworkPerInterface, isValidNetwork, isPhysical,
              PollingWhilePhysicalNetworkExists, physicalNetworkExists, FixedNetworksExist,
              isUnreachable
<1> QED
  BY <1>6, <1>7, <1>8 DEF Inv

-----------------------------------------------------------------------------
(* Every operation keeps Inv. *)
LEMMA NextPreservesInv == Inv /\ [Next]_vars => Inv'
<1> SUFFICES ASSUME Inv, [Next]_vars PROVE Inv'
  OBVIOUS
<1>1. CASE NetworkNext
  <2>1. \A n \in NetIds : n \in AllNetIds
    BY DEF AllNetIds
  <2>2. \A local \in LocalArgs : local \in BOOLEAN
    BY FlagArgsAssumption
  <2>3. \A v \in VpnArgs : v[1] \in BOOLEAN /\ v[2] \in BOOLEAN
    BY FlagArgsAssumption
  <2>4. CASE \E n \in NetIds, p \in PermissionArgs, local \in LocalArgs :
                createPhysicalNetwork(n, p, local)
    BY <2>1, <2>2, <2>4, CreatePhysicalNetworkPreservesInv, Zenon
  <2>5. CASE \E p \in PermissionArgs : createPhysicalOemNetwork(p)
    BY <2>5, CreatePhysicalOemNetworkPreservesInv, Zenon
  <2>6. CASE \E n \in NetIds, v \in VpnArgs : createVirtualNetwork(n, v[1], v[2])
    BY <2>3, <2>6, CreateVirtualNetworkPreservesInv, Zenon
  <2>7. CASE \E n \in AllNetIds : destroyNetwork(n)
    BY <2>7, DestroyNetworkPreservesInv, Zenon
  <2>8. CASE \E n \in AllNetIds \cup {NETID_UNSET} : setDefaultNetwork(n)
    BY <2>8, SetDefaultNetworkPreservesInv, Zenon
  <2>9. CASE \E n \in AllNetIds : setDefaultNetworkInterrupted(n)
    BY <2>9, SetDefaultNetworkInterruptedPreservesInv, Zenon
  <2>10. CASE \E n \in AllNetIds, f \in Ifaces, i \in IfIndices \cup {0} :
                 addInterfaceToNetwork(n, f, i)
    BY <2>10, AddInterfaceToNetworkPreservesInv, Zenon
  <2>11. CASE \E n \in AllNetIds, f \in Ifaces : removeInterfaceFromNetwork(n, f)
    BY <2>11, RemoveInterfaceFromNetworkPreservesInv, Zenon
  <2>12. CASE \E p \in PermissionArgs, ns \in SUBSET AllNetIds : setPermissionForNetworks(p, ns)
    BY <2>12, SetPermissionForNetworksPreservesInv, Zenon
  <2> QED
    BY <1>1, <2>4, <2>5, <2>6, <2>7, <2>8, <2>9, <2>10, <2>11, <2>12, Zenon DEF NetworkNext
<1>2. CASE UserNext
  <2>1. CASE \E n \in AllNetIds, r \in RangeArgs, p \in SubPriorities : addUsersToNetwork(n, r, p)
    BY <2>1, AddUsersToNetworkPreservesInv, Zenon
  <2>2. CASE \E n \in AllNetIds, r \in RangeArgs, p \in SubPriorities :
                removeUsersFromNetwork(n, r, p)
    BY <2>2, RemoveUsersFromNetworkPreservesInv, Zenon
  <2>3. CASE \E ns \in SUBSET AllowlistIds : \E configs \in [ns -> RangeArgs] :
                setNetworkAllowlist(configs)
    BY <2>3, SetNetworkAllowlistPreservesInv, Zenon
  <2>4. CASE \/ \E p \in PermissionArgs, us \in SUBSET Uids : setPermissionForUsers(p, us)
             \/ \E us \in SUBSET Uids : allowProtect(us)
             \/ \E us \in SUBSET Uids : denyProtect(us)
    BY <2>4, UserOperationsPreserveInv, Zenon
  <2> QED
    BY <1>2, <2>1, <2>2, <2>3, <2>4, Zenon DEF UserNext
<1>3. CASE AddressNext
  BY <1>3, AddInterfaceAddressPreservesInv, RemoveInterfaceAddressPreservesInv, Zenon
  DEF AddressNext
<1>4. CASE UNCHANGED vars
  <2>1. TypeOK'
    BY <1>4 DEF Inv, TypeOK, vars, networkVars, addressVars, userVars
  <2> QED
    BY <1>4, <2>1, SameNetworks DEF vars, networkVars, addressVars, userVars
<1> QED
  BY <1>1, <1>2, <1>3, <1>4, Zenon DEF Next

(* Inv holds in every reachable state. *)
THEOREM Invariance == Spec => []Inv
<1> QED
  BY InitEstablishesInv, NextPreservesInv, PTL DEF Spec

(* Every map of NetworkController keeps keys and values of its type. *)
THEOREM TypeCorrect == Spec => []TypeOK
<1>1. Inv => TypeOK
  BY DEF Inv
<1> QED
  BY <1>1, Invariance, PTL

(* The default network exists, is physical and has mIsDefault, whatever setDefaultNetwork, *)
(* destroyNetwork and interrupted switches do. *)
THEOREM DefaultNetworkCorrect == Spec => []DefaultNetworkIsPhysical
<1>1. Inv => DefaultNetworkIsPhysical
  BY DEF Inv
<1> QED
  BY <1>1, Invariance, PTL

(* addInterfaceToNetwork never puts an interface into a second network. *)
THEOREM InterfacesExclusive == Spec => []OneNetworkPerInterface
<1>1. Inv => OneNetworkPerInterface
  BY DEF Inv
<1> QED
  BY <1>1, Invariance, PTL

(* TcpSocketMonitor is told to poll exactly while there is a physical network to poll for. *)
THEOREM PollingCorrect == Spec => []PollingWhilePhysicalNetworkExists
<1>1. Inv => PollingWhilePhysicalNetworkExists
  BY DEF Inv
<1> QED
  BY <1>1, Invariance, PTL

(* destroyNetwork leaves no trace of the network in mIfindexToLastNetId. *)
THEOREM LastNetIdsCorrect == Spec => []LastNetIdsExist
<1>1. Inv => LastNetIdsExist
  BY DEF Inv
<1> QED
  BY <1>1, Invariance, PTL

(* destroyNetwork spares the local and the unreachable network, and no other operation turns *)
(* them into something else. *)
THEOREM FixedNetworksCorrect == Spec => []FixedNetworksExist
<1>1. Inv => FixedNetworksExist
  BY DEF Inv
<1> QED
  BY <1>1, Invariance, PTL

-----------------------------------------------------------------------------
(* What getPhysicalOrUnreachableNetworkForUser and getVirtualNetworkForUser find exists. *)
LEMMA LowestOrUnsetExists ==
    ASSUME Inv, NEW S \in SUBSET DOMAIN mNetworks
    PROVE  LowestOrUnset(S) \in DOMAIN mNetworks \cup {NETID_UNSET}
<1>1. S \subseteq Nat
  BY NetIdsAreNumbers DEF Inv, TypeOK
<1> QED
  BY <1>1, LowestIsMember DEF LowestOrUnset

(* The network that an application uses by default exists. *)
LEMMA AppDefaultNetworkExists ==
    ASSUME Inv, NEW uid
    PROVE  appDefaultNetwork(uid) \in DOMAIN mNetworks \cup {NETID_UNSET}
<1>1. getPhysicalOrUnreachableNetworkForUser(uid) \in DOMAIN mNetworks \cup {NETID_UNSET}
  <2> DEFINE candidates ==
               {n \in DOMAIN mNetworks :
                  /\ isPhysical(mNetworks[n]) \/ isUnreachable(mNetworks[n])
                  /\ appliesToUser(mNetworks[n], uid)
                  /\ HighestPriorityFor(mNetworks[n], uid) < SUB_PRIORITY_NO_DEFAULT}
             best == {n \in candidates : \A m \in candidates :
                        HighestPriorityFor(mNetworks[n], uid) <=
                            HighestPriorityFor(mNetworks[m], uid)}
  <2>1. best \in SUBSET DOMAIN mNetworks
    OBVIOUS
  <2>2. getPhysicalOrUnreachableNetworkForUser(uid) = LowestOrUnset(best)
    BY DEF getPhysicalOrUnreachableNetworkForUser
  <2> HIDE DEF best
  <2> QED
    BY <2>1, <2>2, LowestOrUnsetExists
<1> QED
  BY <1>1 DEF appDefaultNetwork, Inv, DefaultNetworkIsPhysical, isValidNetwork

(* Whatever netId a resolver client passes, getNetworkForDns answers with a network that exists *)
(* or with NETID_UNSET. *)
THEOREM DnsCorrect == Spec => []DnsUsesLiveNetwork
<1>1. Inv => DnsUsesLiveNetwork
  <2> SUFFICES ASSUME Inv, NEW uid \in Uids, NEW netId \in AllNetIds \cup {NETID_UNSET},
                      NEW nameservers \in SUBSET {n \in DOMAIN mNetworks : isVirtual(mNetworks[n])}
               PROVE  getNetworkForDns(netId, uid, nameservers)
                         \in DOMAIN mNetworks \cup {NETID_UNSET}
    BY DEF DnsUsesLiveNetwork
  <2>1. appDefaultNetwork(uid) \in DOMAIN mNetworks \cup {NETID_UNSET}
    BY AppDefaultNetworkExists
  <2>2. checkUserNetworkAccess(uid, netId) = "OK" => netId \in DOMAIN mNetworks
    BY DEF checkUserNetworkAccess, isValidNetwork
  <2> QED
    BY <2>1, <2>2 DEF getNetworkForDns
<1> QED
  BY <1>1, Invariance, PTL
==============================================================================
