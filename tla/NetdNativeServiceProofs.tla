------------------------ MODULE NetdNativeServiceProofs ------------------------
(***************************************************************************)
(* The locks of netd, for any number of threads and calls: the handlers    *)
(* take locks in the order of Rank, and what Guard names before they touch *)
(* a state.  From these two facts about each handler follow the absence of *)
(* circular waits and of unguarded accesses.                               *)
(***************************************************************************)
EXTENDS NetdNativeService, WellFoundedInduction, TLAPS

(* The order of the locks: those of the handlers, mRWLock under them, and those under mRWLock. *)
Rank(lock) ==
    IF lock = "mRWLock" THEN 2
    ELSE IF lock = "TcpSocketMonitor::mLock" THEN 3
    ELSE IF lock \in {"IptablesRestoreController::mLock", "sInterfaceToTableLock", "mEventMutex",
                      "mUnsolicitedMutex"} THEN 4
    ELSE 1
MaxRank == 4

(* The lock that guards a state. *)
Guard(state) ==
    CASE state = "iptables processes" -> "IptablesRestoreController::mLock"
      [] state = "sInterfaceToTable" -> "sInterfaceToTableLock"
      [] state = "mIsSuspended" -> "TcpSocketMonitor::mLock"
      [] state = "mNetdEventListener" -> "mEventMutex"
      [] state = "mUnsolListenerMap" -> "mUnsolicitedMutex"
      [] state = "mOemUnsolListenerMap" -> "mOemUnsolicitedMutex"
      [] state = "mDispatchMap" -> "NFLogListener::mMutex"
      [] state = "networks" -> "mRWLock"
      [] state = "bandwidth" -> "bandwidthCtrl.lock"
      [] state = "firewall" -> "firewallCtrl.lock"
      [] state = "tether" -> "tetherCtrl.lock"
      [] state = "interface settings" -> "InterfaceController::mutex"
      [] state = "reject rules" -> "gBigNetdLock"

LockNames ==
    {"mRWLock", "TcpSocketMonitor::mLock", "IptablesRestoreController::mLock", "sInterfaceToTableLock", "mEventMutex",
     "mUnsolicitedMutex", "mOemUnsolicitedMutex", "NFLogListener::mMutex", "bandwidthCtrl.lock", "firewallCtrl.lock",
     "idletimerCtrl.lock", "strictCtrl.lock", "tetherCtrl.lock", "InterfaceController::mutex", "gBigNetdLock"}
StateNames ==
    {"iptables processes", "sInterfaceToTable", "mIsSuspended", "mNetdEventListener", "mUnsolListenerMap",
     "mOemUnsolListenerMap", "mDispatchMap", "networks", "bandwidth", "firewall", "tether", "interface settings",
     "reject rules"}
Modes == {"exclusive", "shared"}
OpType == [op : {"lock", "unlock", "use"}, of : LockNames \cup StateNames, mode : Modes]
Held == SUBSET (LockNames \X Modes)

Below(locks, r) == \A l \in locks : Rank(l[1]) < r

(* A step of a call, by a thread that holds before, and then after. *)
StepOK(o, before, after) ==
    /\ o.op = "lock" => Below(before, Rank(o.of)) /\ after = before \cup {<<o.of, o.mode>>}
    /\ o.op = "unlock" => after = before \ {<<o.of, o.mode>>}
    /\ o.op = "use" => /\ after = before
                       /\ \E l \in before : l[1] = Guard(o.of) /\ (o.mode = "exclusive" => l[2] = "exclusive")

(* What is left of a call, for a thread that holds from, and to when it returns. *)
Safe(s, from, to) ==
    /\ s \in Seq(OpType)
    /\ \E h \in [1 .. Len(s) + 1 -> Held] :
          h[1] = from /\ h[Len(s) + 1] = to /\ \A i \in 1 .. Len(s) : StepOK(s[i], h[i], h[i + 1])

(* A part of a call that may come wherever the locks held are all below r. *)
Part(s, r) == \A locks \in Held : Below(locks, r) => Safe(s, locks, locks)

-----------------------------------------------------------------------------
(* Sequences of steps *)

(* Rank is a small number. *)
LEMMA RankTyped == \A lock : Rank(lock) \in 1 .. MaxRank
BY DEF Rank, MaxRank

(* A call with nothing left holds what it returns with. *)
LEMMA NothingLeft ==
    ASSUME NEW a \in Held
    PROVE  /\ Safe(<<>>, a, a)
           /\ \A b : Safe(<<>>, a, b) => a = b
<1>1. <<>> \in Seq(OpType) /\ Len(<<>>) = 0
  OBVIOUS
<1>2. Safe(<<>>, a, a)
  <2> DEFINE h == [i \in 1 .. 1 |-> a]
  <2>1. h \in [1 .. 1 -> Held] /\ h[1] = a
    OBVIOUS
  <2> HIDE DEF h
  <2>2. Len(<<>>) + 1 = 1 /\ \A i \in 1 .. Len(<<>>) : FALSE
    BY <1>1
  <2>3. h \in [1 .. Len(<<>>) + 1 -> Held] /\ h[Len(<<>>) + 1] = a
    BY <2>1, <2>2
  <2> QED
    BY <1>1, <2>1, <2>2, <2>3, Zenon DEF Safe
<1>3. \A b : Safe(<<>>, a, b) => a = b
  BY <1>1 DEF Safe
<1> QED
  BY <1>2, <1>3

(* One step. *)
LEMMA OneStep ==
    ASSUME NEW o \in OpType, NEW a \in Held, NEW b \in Held, StepOK(o, a, b)
    PROVE  Safe(<<o>>, a, b)
<1> DEFINE h == [i \in 1 .. 2 |-> IF i = 1 THEN a ELSE b]
<1>1. <<o>> \in Seq(OpType) /\ Len(<<o>>) = 1 /\ <<o>>[1] = o
  OBVIOUS
<1>2. h \in [1 .. 2 -> Held] /\ h[1] = a /\ h[2] = b
  OBVIOUS
<1> HIDE DEF h
<1>3. \A i \in 1 .. 1 : StepOK(<<o>>[i], h[i], h[i + 1])
  BY <1>1, <1>2
<1> QED
  BY <1>1, <1>2, <1>3 DEF Safe

(* One call after another. *)
LEMMA Composition ==
    ASSUME NEW s, NEW t, NEW a, NEW b, NEW c, Safe(s, a, b), Safe(t, b, c)
    PROVE  Safe(s \o t, a, c)
<1>1. s \in Seq(OpType) /\ t \in Seq(OpType)
  BY DEF Safe
<1>2. PICK g \in [1 .. Len(s) + 1 -> Held] :
         g[1] = a /\ g[Len(s) + 1] = b /\ \A i \in 1 .. Len(s) : StepOK(s[i], g[i], g[i + 1])
  BY DEF Safe
<1>3. PICK h \in [1 .. Len(t) + 1 -> Held] :
         h[1] = b /\ h[Len(t) + 1] = c /\ \A i \in 1 .. Len(t) : StepOK(t[i], h[i], h[i + 1])
  BY Zenon DEF Safe
<1> DEFINE f == [i \in 1 .. Len(s) + Len(t) + 1 |-> IF i <= Len(s) THEN g[i] ELSE h[i - Len(s)]]
<1>4. /\ s \o t \in Seq(OpType) /\ Len(s \o t) = Len(s) + Len(t)
      /\ Len(s) \in Nat /\ Len(t) \in Nat
      /\ \A i \in 1 .. Len(s) : (s \o t)[i] = s[i]
      /\ \A i \in Len(s) + 1 .. Len(s) + Len(t) : (s \o t)[i] = t[i - Len(s)]
  BY <1>1
<1>5. f \in [1 .. Len(s \o t) + 1 -> Held]
  BY <1>4
<1>6. f[1] = a /\ f[Len(s \o t) + 1] = c
  BY <1>2, <1>3, <1>4
<1>7. ASSUME NEW i \in 1 .. Len(s \o t) PROVE StepOK((s \o t)[i], f[i], f[i + 1])
  <2>1. CASE i < Len(s)
    <3>1. f[i] = g[i] /\ f[i + 1] = g[i + 1]
      BY <1>4, <2>1
    <3> QED
      BY <1>2, <1>4, <2>1, <3>1
  <2>2. CASE i = Len(s)
    <3>1. f[i] = g[i] /\ f[i + 1] = h[1]
      BY <1>4, <2>2
    <3> QED
      BY <1>2, <1>3, <1>4, <2>2, <3>1
  <2>3. CASE i > Len(s)
    <3>1. /\ i - Len(s) \in 1 .. Len(t) /\ (i + 1) - Len(s) = (i - Len(s)) + 1
          /\ i \in 1 .. Len(s) + Len(t) + 1 /\ ~(i <= Len(s))
          /\ i + 1 \in 1 .. Len(s) + Len(t) + 1 /\ ~(i + 1 <= Len(s))
      BY <1>4, <2>3
    <3>2. f[i] = h[i - Len(s)] /\ f[i + 1] = h[(i + 1) - Len(s)]
      BY <3>1
    <3> HIDE DEF f
    <3> QED
      BY <1>3, <1>4, <2>3, <3>1, <3>2
  <2> QED
    BY <1>4, <2>1, <2>2, <2>3
<1> HIDE DEF f
<1> QED
  BY <1>4, <1>5, <1>6, <1>7, Zenon DEF Safe

-----------------------------------------------------------------------------
(* Parts of calls *)

(* A part that may come under locks below q may come under locks below r <= q. *)
LEMMA PartWeaken ==
    ASSUME NEW s, NEW r \in Nat, NEW q \in Nat, r <= q, Part(s, q)
    PROVE  Part(s, r)
<1>1. ASSUME NEW locks, Below(locks, r) PROVE Below(locks, q)
  BY <1>1, RankTyped DEF Below, MaxRank
<1> QED
  BY <1>1 DEF Part

(* No step at all. *)
LEMMA PartEmpty == \A r : Part(<<>>, r)
BY NothingLeft DEF Part

(* One part after another. *)
LEMMA PartConcat ==
    ASSUME NEW s, NEW t, NEW r, Part(s, r), Part(t, r)
    PROVE  Part(s \o t, r)
BY Composition DEF Part

(* An access of a state under its lock. *)
LEMMA GuardedAccess ==
    ASSUME NEW state \in StateNames, NEW access \in Modes, NEW mode \in Modes,
           access = "exclusive" => mode = "exclusive",
           NEW a \in Held, <<Guard(state), mode>> \in a
    PROVE  Safe(<<Op("use", state, access)>>, a, a)
<1>1. Op("use", state, access) \in OpType
  BY DEF Op, OpType
<1>2. StepOK(Op("use", state, access), a, a)
  BY DEF Op, StepOK
<1> QED
  BY <1>1, <1>2, OneStep

(* A part under a lock that ranks above the locks already held. *)
LEMMA Bracket ==
    ASSUME NEW lock \in LockNames, NEW mode \in Modes, NEW a \in Held, Below(a, Rank(lock)), NEW body,
           Safe(body, a \cup {<<lock, mode>>}, a \cup {<<lock, mode>>})
    PROVE  Safe(<<Op("lock", lock, mode)>> \o body \o <<Op("unlock", lock, mode)>>, a, a)
<1> DEFINE b == a \cup {<<lock, mode>>}
<1>1. Op("lock", lock, mode) \in OpType /\ Op("unlock", lock, mode) \in OpType /\ b \in Held
  BY DEF Op, OpType, Held
<1>2. <<lock, mode>> \notin a
  <2>1. Rank(lock) \in Nat /\ <<lock, mode>>[1] = lock
    BY RankTyped DEF MaxRank
  <2>2. ASSUME <<lock, mode>> \in a PROVE Rank(lock) < Rank(lock)
    BY <2>1, <2>2 DEF Below
  <2> QED
    BY <2>1, <2>2
<1>3. StepOK(Op("lock", lock, mode), a, b)
  BY DEF Op, StepOK
<1>4. StepOK(Op("unlock", lock, mode), b, a)
  BY <1>2 DEF Op, StepOK
<1>5. Safe(<<Op("lock", lock, mode)>>, a, b) /\ Safe(<<Op("unlock", lock, mode)>>, b, a)
  BY <1>1, <1>3, <1>4, OneStep
<1>6. Safe(body, b, b)
  OBVIOUS
<1> HIDE DEF b
<1>7. Safe(<<Op("lock", lock, mode)>> \o body, a, b)
  BY <1>5, <1>6, Composition
<1> QED
  BY <1>5, <1>7, Composition

(* What is held inside a lock that ranks above the locks already held. *)
LEMMA InsideLock ==
    ASSUME NEW lock \in LockNames, NEW mode \in Modes, NEW a \in Held, Below(a, Rank(lock))
    PROVE  /\ a \cup {<<lock, mode>>} \in Held
           /\ Below(a \cup {<<lock, mode>>}, Rank(lock) + 1)
<1>1. Rank(lock) \in Nat /\ <<lock, mode>>[1] = lock /\ \A l \in a : Rank(l[1]) \in Nat
  BY RankTyped DEF MaxRank
<1>2. ASSUME NEW l \in a \cup {<<lock, mode>>} PROVE Rank(l[1]) < Rank(lock) + 1
  <2>1. CASE l \in a
    <3>1. Rank(l[1]) < Rank(lock)
      BY <2>1 DEF Below
    <3> QED
      BY <1>1, <2>1, <3>1
  <2>2. CASE l = <<lock, mode>>
    BY <1>1, <2>2
  <2> QED
    BY <2>1, <2>2
<1> QED
  BY <1>2 DEF Below, Held

(* The ranks of the locks that may be taken under one of rank r are at least q. *)
Follows(r, q) == (r = 1 /\ q = 2) \/ (r = 2 /\ q = 3) \/ (r = 3 /\ q = 4)

(* A part that locks lock around parts that lock only what ranks above it. *)
LEMMA PartHolding ==
    ASSUME NEW lock \in LockNames, NEW r, NEW q, r = Rank(lock), Follows(r, q), NEW body, Part(body, q)
    PROVE  Part(Holding(lock, body), r) /\ Part(HoldingShared(lock, body), r)
<1>1. ASSUME NEW a \in Held, Below(a, Rank(lock)), NEW mode \in Modes
      PROVE  Safe(body, a \cup {<<lock, mode>>}, a \cup {<<lock, mode>>})
  <2>1. Part(body, r + 1)
    BY DEF Follows
  <2> QED
    BY <1>1, <2>1, InsideLock DEF Part
<1> QED
  BY <1>1, Bracket, Zenon DEF Part, Holding, HoldingShared, Modes

(* An access of a state inside the lock that guards it, and what follows it. *)
LEMMA AccessInside ==
    ASSUME NEW state \in StateNames, Guard(state) \in LockNames, NEW body, Part(body, Rank(Guard(state)) + 1),
           NEW access \in Modes, NEW mode \in Modes, access = "exclusive" => mode = "exclusive",
           NEW a \in Held, Below(a, Rank(Guard(state)))
    PROVE  LET b == a \cup {<<Guard(state), mode>>}
           IN  Safe(<<Op("use", state, access)>>, b, b) /\ Safe(<<Op("use", state, access)>> \o body, b, b)
<1> DEFINE b == a \cup {<<Guard(state), mode>>}
<1>1. b \in Held /\ Below(b, Rank(Guard(state)) + 1) /\ <<Guard(state), mode>> \in b
  BY InsideLock
<1> HIDE DEF b
<1>2. Safe(<<Op("use", state, access)>>, b, b)
  BY <1>1, GuardedAccess
<1>3. Safe(body, b, b)
  BY <1>1 DEF Part
<1>4. Safe(<<Op("use", state, access)>> \o body, b, b)
  BY <1>2, <1>3, Composition
<1> QED
  BY <1>2, <1>4 DEF b

(* The same, when what is done first under the lock is an access of a state it guards. *)
LEMMA PartGuarded ==
    ASSUME NEW state \in StateNames, NEW lock \in LockNames, lock = Guard(state),
           NEW r, NEW q, r = Rank(lock), Follows(r, q), NEW body, Part(body, q)
    PROVE  /\ Part(Holding(lock, Use(state) \o body), r)
           /\ Part(Holding(lock, Read(state) \o body), r)
           /\ Part(HoldingShared(lock, Read(state) \o body), r)
<1>1. Part(body, r + 1)
  BY DEF Follows
<1> QED
  BY <1>1, AccessInside, Bracket, Zenon DEF Part, Holding, HoldingShared, Use, Read, Modes

(* The same, when nothing else is done under the lock. *)
LEMMA PartAccess ==
    ASSUME NEW state \in StateNames, NEW lock \in LockNames, lock = Guard(state), NEW r, r = Rank(lock)
    PROVE  /\ Part(Holding(lock, Use(state)), r)
           /\ Part(Holding(lock, Read(state)), r)
           /\ Part(HoldingShared(lock, Read(state)), r)
BY PartEmpty, AccessInside, Bracket, Zenon DEF Part, Holding, HoldingShared, Use, Read, Modes

-----------------------------------------------------------------------------
(* The handlers *)

(* The ranks, one after another. *)
LEMMA RanksFollow == Follows(1, 2) /\ Follows(2, 3) /\ Follows(3, 4)
BY DEF Follows

(* The locks of the states, and their ranks. *)
LEMMA InnerGuards ==
    /\ Guard("iptables processes") = "IptablesRestoreController::mLock" /\ Rank("IptablesRestoreController::mLock") = 4
    /\ Guard("sInterfaceToTable") = "sInterfaceToTableLock" /\ Rank("sInterfaceToTableLock") = 4
    /\ Guard("mNetdEventListener") = "mEventMutex" /\ Rank("mEventMutex") = 4
    /\ Guard("mUnsolListenerMap") = "mUnsolicitedMutex" /\ Rank("mUnsolicitedMutex") = 4
    /\ Guard("mIsSuspended") = "TcpSocketMonitor::mLock" /\ Rank("TcpSocketMonitor::mLock") = 3
    /\ Guard("networks") = "mRWLock" /\ Rank("mRWLock") = 2
    /\ {"IptablesRestoreController::mLock", "sInterfaceToTableLock", "mEventMutex", "mUnsolicitedMutex",
        "TcpSocketMonitor::mLock", "mRWLock"} \subseteq LockNames
    /\ {"iptables processes", "sInterfaceToTable", "mNetdEventListener", "mUnsolListenerMap", "mIsSuspended",
        "networks"} \subseteq StateNames
BY DEF Guard, Rank, LockNames, StateNames

(* Those of the handlers' controllers come first. *)
LEMMA HandlerGuards ==
    /\ Guard("bandwidth") = "bandwidthCtrl.lock" /\ Rank("bandwidthCtrl.lock") = 1
    /\ Guard("firewall") = "firewallCtrl.lock" /\ Rank("firewallCtrl.lock") = 1
    /\ Guard("tether") = "tetherCtrl.lock" /\ Rank("tetherCtrl.lock") = 1
    /\ Guard("interface settings") = "InterfaceController::mutex" /\ Rank("InterfaceController::mutex") = 1
    /\ Guard("reject rules") = "gBigNetdLock" /\ Rank("gBigNetdLock") = 1
    /\ Guard("mOemUnsolListenerMap") = "mOemUnsolicitedMutex" /\ Rank("mOemUnsolicitedMutex") = 1
    /\ Guard("mDispatchMap") = "NFLogListener::mMutex" /\ Rank("NFLogListener::mMutex") = 1
    /\ Rank("idletimerCtrl.lock") = 1 /\ Rank("strictCtrl.lock") = 1
    /\ {"bandwidthCtrl.lock", "firewallCtrl.lock", "tetherCtrl.lock", "InterfaceController::mutex", "gBigNetdLock",
        "mOemUnsolicitedMutex", "NFLogListener::mMutex", "idletimerCtrl.lock", "strictCtrl.lock"} \subseteq LockNames
    /\ {"bandwidth", "firewall", "tether", "interface settings", "reject rules", "mOemUnsolListenerMap",
        "mDispatchMap"} \subseteq StateNames
BY DEF Guard, Rank, LockNames, StateNames

(* What the handlers call takes one lock at a time, of those that come last. *)
LEMMA InnerParts ==
    /\ Part(iptablesRestore, 4) /\ Part(getRouteTableForInterface, 4) /\ Part(updateTableNamesFile, 4)
    /\ Part(getNetdEventListener, 4) /\ Part(unsolicitedListeners, 4) /\ Part(setPolling, 3)
<1>1. Part(iptablesRestore, 4)
  BY PartAccess, InnerGuards, Zenon DEF iptablesRestore
<1>2. Part(getRouteTableForInterface, 4) /\ Part(updateTableNamesFile, 4)
  BY PartAccess, InnerGuards, Zenon
  DEF getRouteTableForInterface, updateTableNamesFile
<1>3. Part(getNetdEventListener, 4)
  BY PartAccess, InnerGuards, Zenon DEF getNetdEventListener
<1>4. Part(unsolicitedListeners, 4)
  BY PartAccess, InnerGuards, Zenon DEF unsolicitedListeners
<1>5. Part(setPolling, 3)
  BY PartAccess, InnerGuards, Zenon DEF setPolling
<1> QED
  BY <1>1, <1>2, <1>3, <1>4, <1>5

(* So they may come under mRWLock, and under the locks of the handlers. *)
LEMMA InnerPartsAnywhere ==
    ASSUME NEW r \in 1 .. 3
    PROVE  /\ Part(iptablesRestore, r) /\ Part(getRouteTableForInterface, r) /\ Part(updateTableNamesFile, r)
           /\ Part(getNetdEventListener, r) /\ Part(unsolicitedListeners, r) /\ Part(setPolling, r)
BY InnerParts, PartWeaken

(* What NetworkController does to the rules, the routes and the names of the tables. *)
LEMMA RoutePartsAnywhere ==
    /\ Part(flushRoutes, 3) /\ Part(modifyNetwork, 3) /\ Part(addInterfaceToRoutes, 3)
    /\ Part(removeInterfaceFromRoutes, 3) /\ Part(modifyLocalNetwork, 3)
<1>1. Part(flushRoutes, 3) /\ Part(modifyNetwork, 3) /\ Part(modifyLocalNetwork, 3)
  BY InnerPartsAnywhere, PartConcat DEF flushRoutes, modifyNetwork, modifyLocalNetwork
<1>2. Part(addInterfaceToRoutes, 3) /\ Part(removeInterfaceFromRoutes, 3)
  BY <1>1, InnerPartsAnywhere, PartConcat DEF addInterfaceToRoutes, removeInterfaceFromRoutes
<1> QED
  BY <1>1, <1>2

(* A call of NetworkController. *)
LEMMA NetworksPart ==
    ASSUME NEW body, Part(body, 3)
    PROVE  Part(Networks(body), 1) /\ Part(ReadNetworks(body), 1)
<1>1. "networks" \in StateNames /\ "mRWLock" \in LockNames /\ "mRWLock" = Guard("networks") /\ 2 = Rank("mRWLock")
  BY InnerGuards, Zenon
<1>2. Follows(2, 3)
  BY RanksFollow
<1>3. /\ Part(Holding("mRWLock", Use("networks") \o body), 2)
      /\ Part(HoldingShared("mRWLock", Read("networks") \o body), 2)
  BY <1>1, <1>2, PartGuarded
<1>4. Part(Networks(body), 2) /\ Part(ReadNetworks(body), 2)
  BY <1>3 DEF Networks, ReadNetworks
<1> QED
  BY <1>4, PartWeaken

(* The calls of NetworkController. *)
LEMMA NetworkCallsOrdered ==
    \A call \in policyRpcs \cup networkRpcs \cup routeRpcs \cup oemNetworkRpcs \cup aidlOemNetworkRpcs : Part(call, 1)
<1>1. Part(ReadNetworks(<<>>), 1) /\ Part(Networks(<<>>), 1)
  BY PartEmpty, NetworksPart
<1>2. Part(modifyRules, 1) /\ Part(createNetwork, 1)
  BY InnerPartsAnywhere, NetworksPart DEF modifyRules, createNetwork
<1>3. Part(modifyRoute, 1)
  BY InnerPartsAnywhere, PartConcat, NetworksPart DEF modifyRoute
<1>4. Part(setPermissionForNetworks, 1)
  BY RoutePartsAnywhere, PartConcat, NetworksPart DEF setPermissionForNetworks
<1>5. Part(removeInterfaceFromNetwork, 1) /\ Part(addToLocalNetwork, 1)
  BY RoutePartsAnywhere, NetworksPart DEF removeInterfaceFromNetwork, addToLocalNetwork
<1>6. Part(destroyNetwork, 1)
  <2>1. Part(removeInterfaceFromRoutes \o getRouteTableForInterface, 3)
    BY RoutePartsAnywhere, InnerPartsAnywhere, PartConcat
  <2>2. Part(removeInterfaceFromRoutes \o getRouteTableForInterface \o setPolling, 3)
    BY <2>1, InnerPartsAnywhere, PartConcat
  <2> QED
    BY <2>2, NetworksPart DEF destroyNetwork
<1>7. Part(addInterfaceToNetwork, 1)
  BY RoutePartsAnywhere, InnerPartsAnywhere, PartConcat, NetworksPart DEF addInterfaceToNetwork
<1> QED
  BY <1>1, <1>2, <1>3, <1>4, <1>5, <1>6, <1>7
  DEF policyRpcs, networkRpcs, routeRpcs, oemNetworkRpcs, aidlOemNetworkRpcs

(* The handlers of the controllers with a lock of their own. *)
LEMMA HandlersOrdered ==
    /\ Part(bandwidthRpc, 1) /\ Part(firewallRpc, 1) /\ Part(idletimerRpc, 1) /\ Part(strictRpc, 1)
    /\ Part(tetherRpc, 1) /\ Part(ipfwdRpc, 1) /\ Part(tetherForwardRpc, 1) /\ Part(tetherGetStats, 1)
    /\ Part(interfaceRpc, 1) /\ Part(networkRejectNonSecureVpn, 1) /\ Part(registerOemUnsolicitedEventListener, 1)
    /\ \A call \in setForwarding : Part(call, 1)
<1>1. Part(iptablesRestore, 2) /\ Part(getRouteTableForInterface, 2)
  BY InnerPartsAnywhere
<1>2. Part(bandwidthRpc, 1)
  BY <1>1, HandlerGuards, RanksFollow, PartGuarded, Zenon DEF bandwidthRpc, NETD_LOCKING_RPC
<1>3. Part(firewallRpc, 1)
  BY <1>1, HandlerGuards, RanksFollow, PartGuarded, Zenon DEF firewallRpc, NETD_LOCKING_RPC
<1>4. Part(tetherForwardRpc, 1)
  BY <1>1, HandlerGuards, RanksFollow, PartGuarded, Zenon DEF tetherForwardRpc, NETD_LOCKING_RPC
<1>5. Part(idletimerRpc, 1) /\ Part(strictRpc, 1) /\ Part(tetherGetStats, 1)
  BY <1>1, HandlerGuards, RanksFollow, PartHolding, Zenon DEF idletimerRpc, strictRpc, tetherGetStats, NETD_LOCKING_RPC
<1>6. Part(tetherRpc, 1) /\ Part(ipfwdRpc, 1)
  BY HandlerGuards, PartAccess, Zenon DEF tetherRpc, ipfwdRpc, NETD_LOCKING_RPC
<1>7. Part(interfaceRpc, 1)
  BY HandlerGuards, PartAccess, Zenon DEF interfaceRpc, NETD_LOCKING_RPC
<1>8. Part(networkRejectNonSecureVpn, 1)
  BY HandlerGuards, PartAccess, Zenon DEF networkRejectNonSecureVpn, NETD_LOCKING_RPC
<1>9. Part(registerOemUnsolicitedEventListener, 1)
  BY HandlerGuards, PartAccess, Zenon DEF registerOemUnsolicitedEventListener
<1>10. \A call \in setForwarding : Part(call, 1)
  <2>1. Part(Holding("tetherCtrl.lock", Use("tether")), 1)
    BY HandlerGuards, PartAccess, Zenon
  <2>2. Part(Holding("tetherCtrl.lock", getRouteTableForInterface), 1)
    BY <1>1, HandlerGuards, RanksFollow, PartHolding, Zenon
  <2> QED
    BY <2>1, <2>2 DEF setForwarding
<1> QED
  BY <1>2, <1>3, <1>4, <1>5, <1>6, <1>7, <1>8, <1>9, <1>10

(* The handlers without a lock of their own, and the calls of netd's own threads. *)
LEMMA OtherCallsOrdered ==
    /\ Part(wakeupRpc, 1) /\ Part(ipfwdInterfaceForward, 1) /\ Part(registerUnsolicitedEventListener, 1)
    /\ Part(dump, 1) /\ Part(dumpTcpSocketMonitor, 1)
    /\ \A call \in InternalCalls : Part(call, 1)
<1>1. Part(ReadNetworks(<<>>), 1) /\ Part(Networks(<<>>), 1)
  BY PartEmpty, NetworksPart
<1>2. Part(wakeupRpc, 1) /\ Part(ipfwdInterfaceForward, 1) /\ Part(registerUnsolicitedEventListener, 1)
  BY InnerPartsAnywhere DEF wakeupRpc, ipfwdInterfaceForward, registerUnsolicitedEventListener
<1>3. Part(dump, 1)
  <2>1. Part(Holding("tetherCtrl.lock", Read("tether")), 1)
    BY HandlerGuards, PartAccess, Zenon
  <2> QED
    BY <1>1, <2>1, PartConcat DEF dump
<1>4. Part(dumpTcpSocketMonitor, 3)
  BY InnerGuards, PartAccess, Zenon DEF dumpTcpSocketMonitor
<1>5. Part(poll, 3)
  <2>1. /\ "mIsSuspended" \in StateNames /\ "TcpSocketMonitor::mLock" \in LockNames
        /\ "TcpSocketMonitor::mLock" = Guard("mIsSuspended") /\ 3 = Rank("TcpSocketMonitor::mLock")
    BY InnerGuards, Zenon
  <2>2. Follows(3, 4) /\ Part(getNetdEventListener, 4)
    BY RanksFollow, InnerParts
  <2>3. Part(Holding("TcpSocketMonitor::mLock", Use("mIsSuspended") \o getNetdEventListener), 3)
    BY <2>1, <2>2, PartGuarded
  <2> QED
    BY <2>3 DEF poll
<1>6. Part(onEvent, 1)
  BY <1>1, InnerPartsAnywhere, PartConcat DEF onEvent
<1>7. Part(processClient, 1)
  <2>1. Part(ReadNetworks(<<>>) \o ReadNetworks(<<>>), 1)
    BY <1>1, PartConcat
  <2> QED
    BY <2>1, InnerPartsAnywhere, PartConcat DEF processClient
<1>8. Part(nflogHandler, 1)
  <2>1. Part(getNetdEventListener, 2)
    BY InnerPartsAnywhere
  <2> QED
    BY <2>1, HandlerGuards, RanksFollow, PartGuarded, Zenon DEF nflogHandler
<1> QED
  BY <1>2, <1>3, <1>4, <1>5, <1>6, <1>7, <1>8, PartWeaken DEF InternalCalls

(* Every call of netd takes its locks in order, and touches states under their locks. *)
LEMMA CallsAreSafe ==
    \A call \in Calls : Safe(call, {}, {})
<1>1. \A call \in Calls : Part(call, 1)
  BY NetworkCallsOrdered, HandlersOrdered, OtherCallsOrdered DEF Calls, NativeRpcs
<1>2. {} \in Held /\ Below({}, 1)
  BY DEF Held, Below
<1> QED
  BY <1>1, <1>2 DEF Part

-----------------------------------------------------------------------------
(* The threads *)

(* Two threads hold the same lock only if both share it. *)
Exclusion ==
    \A th, other \in Threads :
        th # other => \A h \in held[th], g \in held[other] : h[1] = g[1] => ~Conflict(h[2], g[2])

(***************************************************************************)
(* The inductive invariant: what is left of each call is safe for what the *)
(* thread holds, and no lock is held twice.                                *)
(***************************************************************************)
LockInv ==
    /\ todo \in [Threads -> Seq(OpType)] /\ held \in [Threads -> Held]
    /\ \A th \in Threads : Safe(todo[th], held[th], {})
    /\ Exclusion

(* The next step of a call, and what is left after it. *)
LEMMA FirstStep ==
    ASSUME NEW s, NEW a, NEW b, Safe(s, a, b), s # <<>>
    PROVE  /\ Head(s) \in OpType
           /\ \E c \in Held : StepOK(Head(s), a, c) /\ Safe(Tail(s), c, b)
<1>1. s \in Seq(OpType)
  BY DEF Safe
<1>2. /\ Len(s) \in Nat /\ Len(s) >= 1 /\ Head(s) = s[1] /\ Head(s) \in OpType
      /\ Tail(s) \in Seq(OpType) /\ Len(Tail(s)) = Len(s) - 1
      /\ \A i \in 1 .. Len(s) - 1 : Tail(s)[i] = s[i + 1]
  BY <1>1
<1>3. PICK h \in [1 .. Len(s) + 1 -> Held] :
         h[1] = a /\ h[Len(s) + 1] = b /\ \A i \in 1 .. Len(s) : StepOK(s[i], h[i], h[i + 1])
  BY DEF Safe
<1> DEFINE f == [i \in 1 .. Len(s) |-> h[i + 1]]
<1>4. h[2] \in Held /\ StepOK(Head(s), a, h[2])
  <2>1. 2 \in 1 .. Len(s) + 1 /\ 1 \in 1 .. Len(s) /\ 1 + 1 = 2
    BY <1>2
  <2> QED
    BY <1>2, <1>3, <2>1
<1>5. f \in [1 .. Len(Tail(s)) + 1 -> Held] /\ f[1] = h[2] /\ f[Len(Tail(s)) + 1] = b
  BY <1>2, <1>3
<1>6. ASSUME NEW i \in 1 .. Len(Tail(s)) PROVE StepOK(Tail(s)[i], f[i], f[i + 1])
  <2>1. i + 1 \in 1 .. Len(s) /\ f[i] = h[i + 1] /\ f[i + 1] = h[(i + 1) + 1] /\ Tail(s)[i] = s[i + 1]
    BY <1>2
  <2> HIDE DEF f
  <2> QED
    BY <1>3, <2>1
<1> HIDE DEF f
<1>7. Safe(Tail(s), h[2], b)
  BY <1>2, <1>5, <1>6 DEF Safe
<1> QED
  BY <1>2, <1>4, <1>7

(* Initially no thread is in a call. *)
LEMMA LockInvInit == LocksInit => LockInv
<1> SUFFICES ASSUME LocksInit PROVE LockInv
  OBVIOUS
<1>1. {} \in Held /\ <<>> \in Seq(OpType)
  BY DEF Held
<1>2. Safe(<<>>, {}, {})
  BY <1>1, NothingLeft
<1> QED
  BY <1>1, <1>2 DEF LocksInit, LockInv, Exclusion

(* A step of a thread, from what it does to that thread. *)
LEMMA ThreadStep ==
    ASSUME LockInv, NEW th \in Threads, NEW s, NEW c \in Held, Safe(s, c, {}),
           todo' = [todo EXCEPT ![th] = s], held' = [held EXCEPT ![th] = c],
           \A other \in Threads \ {th} : \A h \in c, g \in held[other] : h[1] = g[1] => ~Conflict(h[2], g[2])
    PROVE  LockInv'
<1>1. s \in Seq(OpType)
  BY DEF Safe
<1>2. todo' \in [Threads -> Seq(OpType)] /\ held' \in [Threads -> Held]
  BY <1>1 DEF LockInv
<1>3. ASSUME NEW t \in Threads PROVE Safe(todo'[t], held'[t], {})
  <2>1. CASE t = th
    <3>1. todo'[t] = s /\ held'[t] = c
      BY <2>1 DEF LockInv
    <3> QED
      BY <3>1
  <2>2. CASE t # th
    <3>1. todo'[t] = todo[t] /\ held'[t] = held[t]
      BY <2>2 DEF LockInv
    <3> QED
      BY <3>1 DEF LockInv
  <2> QED
    BY <2>1, <2>2
<1>4. ASSUME NEW t \in Threads, NEW u \in Threads, t # u, NEW h \in held'[t], NEW g \in held'[u], h[1] = g[1]
      PROVE  ~Conflict(h[2], g[2])
  <2>1. held'[th] = c /\ \A v \in Threads \ {th} : held'[v] = held[v]
    BY DEF LockInv
  <2>2. CASE t = th
    BY <1>4, <2>1, <2>2
  <2>3. CASE u = th
    <3>1. ~Conflict(g[2], h[2])
      BY <1>4, <2>1, <2>3
    <3> QED
      BY <3>1 DEF Conflict
  <2>4. CASE t # th /\ u # th
    BY <1>4, <2>1, <2>4 DEF LockInv, Exclusion
  <2> QED
    BY <2>2, <2>3, <2>4
<1>5. Exclusion'
  BY <1>4 DEF Exclusion, Conflict
<1> QED
  BY <1>2, <1>3, <1>5 DEF LockInv

(* A thread that begins a call holds no lock. *)
LEMMA BeginCallKeeps == ASSUME LockInv, NEW th \in Threads, BeginCall(th) PROVE LockInv'
<1>1. PICK call \in CallsOf(th) : todo' = [todo EXCEPT ![th] = call]
  BY Zenon DEF BeginCall
<1>2. Safe(call, {}, {})
  BY <1>1, CallsAssumption, CallsAreSafe
<1>3. held[th] \in Held /\ held[th] = {} /\ {} \in Held
  <2>1. held[th] \in Held /\ Safe(<<>>, held[th], {})
    BY DEF LockInv, BeginCall
  <2> QED
    BY <2>1, NothingLeft
<1>4. held' = [held EXCEPT ![th] = {}]
  BY <1>3 DEF BeginCall, LockInv
<1> QED
  BY <1>1, <1>2, <1>3, <1>4, ThreadStep, Zenon

(* Lock: no other thread holds the lock in a mode that conflicts. *)
LEMMA LockKeeps == ASSUME LockInv, NEW th \in Threads, Lock(th) PROVE LockInv'
<1> DEFINE want == Head(todo[th])
           c == held[th] \cup {<<want.of, want.mode>>}
<1>1. todo[th] # <<>> /\ want.op = "lock"
  BY DEF Lock, At
<1>2. held[th] \in Held /\ Safe(todo[th], held[th], {})
  BY DEF LockInv
<1>3. PICK b \in Held : StepOK(want, held[th], b) /\ Safe(Tail(todo[th]), b, {})
  BY <1>1, <1>2, FirstStep
<1>4. b = c
  BY <1>1, <1>3 DEF StepOK
<1>5. c \in Held /\ Safe(Tail(todo[th]), c, {})
  BY <1>3, <1>4
<1>6. ASSUME NEW other \in Threads \ {th}, NEW h \in c, NEW g \in held[other], h[1] = g[1]
      PROVE  ~Conflict(h[2], g[2])
  <2>1. CASE h \in held[th]
    BY <1>6, <2>1 DEF LockInv, Exclusion
  <2>2. CASE h = <<want.of, want.mode>>
    <3>1. ~WaitsFor(th, other)
      BY DEF Lock
    <3>2. ~Conflict(g[2], want.mode)
      BY <1>6, <2>2, <3>1 DEF WaitsFor, Lock
    <3> QED
      BY <2>2, <3>2 DEF Conflict
  <2> QED
    BY <2>1, <2>2
<1>7. held' = [held EXCEPT ![th] = c] /\ todo' = [todo EXCEPT ![th] = Tail(todo[th])]
  BY DEF Lock, LockInv
<1> HIDE DEF c, want
<1> QED
  BY <1>5, <1>6, <1>7, ThreadStep, Zenon

(* Unlock and UseState: the thread holds no lock that it did not hold before. *)
LEMMA StepKeeps ==
    ASSUME LockInv, NEW th \in Threads, Unlock(th) \/ UseState(th)
    PROVE  LockInv'
<1> DEFINE op == Head(todo[th])
<1>1. todo[th] # <<>> /\ op.op \in {"unlock", "use"}
  BY DEF Unlock, UseState, At
<1>2. held[th] \in Held /\ Safe(todo[th], held[th], {})
  BY DEF LockInv
<1>3. PICK b \in Held : StepOK(op, held[th], b) /\ Safe(Tail(todo[th]), b, {})
  BY <1>1, <1>2, FirstStep
<1>4. held' = [held EXCEPT ![th] = b] /\ b \subseteq held[th]
  <2>1. CASE Unlock(th)
    BY <1>3, <2>1, Zenon DEF Unlock, At, StepOK, LockInv
  <2>2. CASE UseState(th)
    BY <1>3, <2>2 DEF UseState, At, StepOK, LockInv
  <2> QED
    BY <2>1, <2>2
<1>5. todo' = [todo EXCEPT ![th] = Tail(todo[th])]
  BY DEF Unlock, UseState, LockInv
<1>6. \A other \in Threads \ {th} : \A h \in b, g \in held[other] : h[1] = g[1] => ~Conflict(h[2], g[2])
  BY <1>4 DEF LockInv, Exclusion
<1> QED
  BY <1>3, <1>4, <1>5, <1>6, ThreadStep, Zenon

(* A call that returns early holds nothing, and has nothing left to do. *)
LEMMA ReturnEarlyKeeps == ASSUME LockInv, NEW th \in Threads, ReturnEarly(th) PROVE LockInv'
<1>1. {} \in Held
  BY DEF Held
<1>2. Safe(<<>>, {}, {})
  BY <1>1, NothingLeft
<1>3. todo' = [todo EXCEPT ![th] = <<>>] /\ held' = [held EXCEPT ![th] = {}]
  BY DEF ReturnEarly
<1> QED
  BY <1>1, <1>2, <1>3, ThreadStep, Zenon

(* Every step preserves the invariant. *)
LEMMA LockInvNext == LockInv /\ [LocksNext]_lockVars => LockInv'
<1> SUFFICES ASSUME LockInv, [LocksNext]_lockVars PROVE LockInv'
  OBVIOUS
<1>1. CASE LocksNext
  BY <1>1, BeginCallKeeps, LockKeeps, StepKeeps, ReturnEarlyKeeps DEF LocksNext
<1>2. CASE UNCHANGED lockVars
  BY <1>2 DEF lockVars, LockInv, Exclusion
<1> QED
  BY <1>1, <1>2

-----------------------------------------------------------------------------
(* Theorems *)

(* How late a thread's wanted lock comes; a writer of a lock comes after its readers. *)
Want(th) == 2 * Rank(Head(todo[th]).of) + IF Head(todo[th]).mode = "exclusive" THEN 1 ELSE 0

(* A nonempty set of numbers below a bound has a greatest one. *)
LEMMA GreatestExists ==
    ASSUME NEW N \in Nat, NEW S \in SUBSET (0 .. N), S # {}
    PROVE  \E n \in S : \A m \in S : m <= n
<1> DEFINE R == OpToRel(<, Nat)
           T == {k \in Nat : \E m \in S : k = N - m}
<1>1. T \in SUBSET Nat /\ T # {}
  <2>1. PICK m \in S : TRUE
    BY Zenon
  <2>2. N - m \in T
    OBVIOUS
  <2> QED
    BY <2>2, Zenon
<1>2. IsWellFoundedOn(R, Nat)
  BY NatLessThanWellFounded, Zenon
<1>3. \A m, n \in Nat : m < n => <<m, n>> \in R
  BY DEF OpToRel
<1> HIDE DEF R
<1>4. PICK k \in T : \A m \in T : ~(<<m, k>> \in R)
  BY <1>1, <1>2, WFMin, Zenon
<1>5. PICK n \in S : k = N - n
  OBVIOUS
<1>6. ASSUME NEW m \in S PROVE m <= n
  <2>1. m \in Nat /\ n \in Nat /\ N - m \in Nat /\ N - n \in Nat /\ N - m \in T
    OBVIOUS
  <2>2. ~(N - m < N - n)
    BY <1>3, <1>4, <1>5, <2>1, Zenon
  <2> QED
    BY <2>1, <2>2
<1> QED
  BY <1>6

(* A thread waits only for threads whose wanted lock comes later than its own. *)
LEMMA WaitsForLater ==
    ASSUME LockInv, NEW th \in Threads, NEW other \in Threads, At(other, "lock"), WaitsFor(th, other)
    PROVE  Want(th) < Want(other)
<1> DEFINE want == Head(todo[th])
           next == Head(todo[other])
<1>1. Rank(want.of) \in Nat /\ Rank(next.of) \in Nat
  BY RankTyped DEF MaxRank
<1>2. CASE \E h \in held[other] : h[1] = want.of
  <2>1. PICK c \in Held : StepOK(next, held[other], c)
    BY FirstStep DEF LockInv, At
  <2>2. Below(held[other], Rank(next.of))
    BY <2>1 DEF StepOK, At
  <2>3. Rank(want.of) < Rank(next.of)
    BY <1>2, <2>2 DEF Below
  <2> QED
    BY <1>1, <2>3 DEF Want
<1>3. CASE want.mode = "shared" /\ next.of = want.of /\ next.mode = "exclusive"
  BY <1>1, <1>3 DEF Want
<1> QED
  BY <1>2, <1>3 DEF WaitsFor

(* NoCircularWait follows: in any set of threads the one that wants the last lock waits for none of the others. *)
LEMMA OrderExcludesCircles == LockInv => NoCircularWait
<1> SUFFICES ASSUME LockInv, NEW waiting \in (SUBSET Threads) \ {{}}
             PROVE  \E th \in waiting : \A other \in waiting : ~WaitsFor(th, other)
  BY DEF NoCircularWait
<1>1. CASE \E th \in waiting : ~At(th, "lock")
  BY <1>1 DEF WaitsFor
<1>2. CASE \A th \in waiting : At(th, "lock")
  <2> DEFINE S == {k \in 0 .. 9 : \E th \in waiting : Want(th) = k}
  <2>1. ASSUME NEW th \in waiting PROVE Want(th) \in S
    <3>1. Rank(Head(todo[th]).of) \in 1 .. 4
      BY RankTyped DEF MaxRank
    <3>2. Want(th) \in 0 .. 9
      BY <3>1 DEF Want
    <3> QED
      BY <3>2
  <2>2. PICK n \in S : \A m \in S : m <= n
    <3>1. S \in SUBSET (0 .. 9)
      OBVIOUS
    <3>2. PICK th \in waiting : TRUE
      OBVIOUS
    <3>3. S # {}
      BY <2>1, <3>2, Zenon
    <3> HIDE DEF S
    <3> QED
      BY <3>1, <3>3, GreatestExists
  <2>3. PICK th \in waiting : Want(th) = n
    OBVIOUS
  <2>4. ASSUME NEW other \in waiting, WaitsFor(th, other) PROVE FALSE
    <3>1. Want(th) < Want(other)
      BY <1>2, <2>4, WaitsForLater
    <3>2. Want(other) <= Want(th) /\ Want(other) \in Int /\ Want(th) \in Int
      BY <2>1, <2>2, <2>3
    <3> QED
      BY <3>1, <3>2
  <2> QED
    BY <2>4
<1> QED
  BY <1>1, <1>2

(* StateIsGuarded follows: both threads would hold the lock of the state. *)
LEMMA GuardsExcludeRaces == LockInv => StateIsGuarded
<1> SUFFICES ASSUME LockInv, NEW th \in Threads, NEW other \in Threads, th # other, At(th, "use"), At(other, "use"),
                    Head(todo[th]).of = Head(todo[other]).of,
                    Conflict(Head(todo[th]).mode, Head(todo[other]).mode)
             PROVE  FALSE
  BY DEF StateIsGuarded
<1>1. ASSUME NEW t \in Threads, At(t, "use")
      PROVE  \E l \in held[t] : /\ l[1] = Guard(Head(todo[t]).of)
                                /\ Head(todo[t]).mode = "exclusive" => l[2] = "exclusive"
  <2>1. PICK c \in Held : StepOK(Head(todo[t]), held[t], c)
    BY <1>1, FirstStep DEF LockInv, At
  <2> QED
    BY <1>1, <2>1 DEF StepOK, At
<1>2. PICK h \in held[th] : /\ h[1] = Guard(Head(todo[th]).of)
                            /\ Head(todo[th]).mode = "exclusive" => h[2] = "exclusive"
  BY <1>1
<1>3. PICK g \in held[other] : /\ g[1] = Guard(Head(todo[other]).of)
                               /\ Head(todo[other]).mode = "exclusive" => g[2] = "exclusive"
  BY <1>1
<1>4. h[1] = g[1] /\ Conflict(h[2], g[2])
  BY <1>2, <1>3 DEF Conflict
<1> QED
  BY <1>4 DEF LockInv, Exclusion

(***************************************************************************)
(* Whatever the number of threads and of calls, the threads of netd never  *)
(* wait for each other's locks in a circle: every handler takes its locks  *)
(* in the order of Rank, mRWLock before TcpSocketMonitor's mLock           *)
(* (NetworkController.cpp:1018) and before those of RouteController and    *)
(* of IptablesRestoreController.                                           *)
(***************************************************************************)
THEOREM LocksNeverDeadlock == LocksSpec => []NoCircularWait
<1> QED
  BY LockInvInit, LockInvNext, OrderExcludesCircles, PTL DEF LocksSpec

(***************************************************************************)
(* Whatever the number of threads and of calls, no two threads are at the  *)
(* same state of a controller at once unless both only read it: every      *)
(* handler holds the lock of the state it touches                          *)
(* (NetdNativeService.cpp:78).                                             *)
(***************************************************************************)
THEOREM StatesStayGuarded == LocksSpec => []StateIsGuarded
<1> QED
  BY LockInvInit, LockInvNext, GuardsExcludeRaces, PTL DEF LocksSpec
================================================================================
