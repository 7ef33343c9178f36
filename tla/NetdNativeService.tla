--------------------------- MODULE NetdNativeService ---------------------------
(***************************************************************************)
(* The threads of netd and the locks they take: binder threads that serve  *)
(* NetdNativeService and the vendor services, and the threads of netd that *)
(* call the same controllers.                                              *)
(*                                                                         *)
(* A call is the sequence of what it does to locks and to the state that   *)
(* they guard, read off the handler and every function it calls.  What a   *)
(* controller computes is modelled in the controller's own module.  A call *)
(* may return early anywhere, which releases what it holds: every lock is  *)
(* held by a guard object.                                                 *)
(***************************************************************************)
EXTENDS Integers, Sequences, FiniteSets

CONSTANTS
    Threads,       \* threads that make calls
    CallsOf(_),    \* the calls that a thread makes
    MaxRpcs        \* calls that are made

VARIABLES
    todo,          \* thread -> what is left of its call
    held,          \* thread -> the locks it holds: <<lock, "exclusive" or "shared">>
    rpcs           \* calls so far

lockVars == <<todo, held, rpcs>>

Op(op, of, mode) == [op |-> op, of |-> of, mode |-> mode]
Use(state) == <<Op("use", state, "exclusive")>>
Read(state) == <<Op("use", state, "shared")>>
Holding(lock, body) == <<Op("lock", lock, "exclusive")>> \o body \o <<Op("unlock", lock, "exclusive")>>
HoldingShared(lock, body) == <<Op("lock", lock, "shared")>> \o body \o <<Op("unlock", lock, "shared")>>
-----------------------------------------------------------------------------
(* What the handlers call *)

iptablesRestore == Holding("IptablesRestoreController::mLock", Use("iptables processes"))

getRouteTableForInterface == Holding("sInterfaceToTableLock", Use("sInterfaceToTable"))
updateTableNamesFile == Holding("sInterfaceToTableLock", Read("sInterfaceToTable"))
flushRoutes == getRouteTableForInterface \o getRouteTableForInterface

(* modifyPhysicalNetwork, modifyVirtualNetwork: the table, and the mark of incoming packets. *)
modifyNetwork == getRouteTableForInterface \o iptablesRestore
addInterfaceToRoutes == modifyNetwork \o updateTableNamesFile
removeInterfaceFromRoutes == modifyNetwork \o flushRoutes \o updateTableNamesFile
modifyLocalNetwork == iptablesRestore \o getRouteTableForInterface

setPolling == Holding("TcpSocketMonitor::mLock", Use("mIsSuspended"))
getNetdEventListener == Holding("mEventMutex", Use("mNetdEventListener"))
unsolicitedListeners == Holding("mUnsolicitedMutex", Use("mUnsolListenerMap"))

(* NetworkController, by what its calls take under mRWLock. *)
Networks(body) == Holding("mRWLock", Use("networks") \o body)
ReadNetworks(body) == HoldingShared("mRWLock", Read("networks") \o body)
createNetwork == Networks(setPolling)
destroyNetwork == Networks(removeInterfaceFromRoutes \o getRouteTableForInterface \o setPolling)
addInterfaceToNetwork == Networks(addInterfaceToRoutes \o getRouteTableForInterface)
removeInterfaceFromNetwork == Networks(removeInterfaceFromRoutes)
addToLocalNetwork == Networks(modifyLocalNetwork)
setPermissionForNetworks == Networks(modifyNetwork \o modifyNetwork)
modifyRules == Networks(getRouteTableForInterface)
modifyRoute == ReadNetworks(getRouteTableForInterface \o getRouteTableForInterface)
-----------------------------------------------------------------------------
(* Handlers; NETD_LOCKING_RPC takes its lock once the caller's permission is checked. *)

NETD_LOCKING_RPC(lock, body) == Holding(lock, body)

bandwidthRpc == NETD_LOCKING_RPC("bandwidthCtrl.lock", Use("bandwidth") \o iptablesRestore)
firewallRpc == NETD_LOCKING_RPC("firewallCtrl.lock", Use("firewall") \o iptablesRestore)
idletimerRpc == NETD_LOCKING_RPC("idletimerCtrl.lock", iptablesRestore)
strictRpc == NETD_LOCKING_RPC("strictCtrl.lock", iptablesRestore)
tetherRpc == NETD_LOCKING_RPC("tetherCtrl.lock", Use("tether"))
ipfwdRpc == NETD_LOCKING_RPC("tetherCtrl.lock", Use("tether"))
tetherForwardRpc == NETD_LOCKING_RPC("tetherCtrl.lock", Use("tether") \o iptablesRestore)
tetherGetStats == NETD_LOCKING_RPC("tetherCtrl.lock", iptablesRestore)
interfaceRpc == NETD_LOCKING_RPC("InterfaceController::mutex", Use("interface settings"))
wakeupRpc == iptablesRestore
networkRejectNonSecureVpn == NETD_LOCKING_RPC("gBigNetdLock", Use("reject rules"))
ipfwdInterfaceForward == getRouteTableForInterface
registerUnsolicitedEventListener == unsolicitedListeners
registerOemUnsolicitedEventListener == Holding("mOemUnsolicitedMutex", Use("mOemUnsolListenerMap"))
dump == ReadNetworks(<<>>) \o Holding("tetherCtrl.lock", Read("tether"))
dumpTcpSocketMonitor == Holding("TcpSocketMonitor::mLock", Read("mIsSuspended"))

(* Those that only read or change NetworkController's own state are Networks and ReadNetworks alone. *)
policyRpcs == {ReadNetworks(<<>>), Networks(<<>>), modifyRules, setPermissionForNetworks}
networkRpcs ==
    {createNetwork, destroyNetwork, addInterfaceToNetwork, removeInterfaceFromNetwork, addToLocalNetwork, modifyRules}
routeRpcs == {modifyRoute}

(* The vendor services, for their own networks. *)
oemNetworkRpcs == {createNetwork, destroyNetwork, addInterfaceToNetwork, removeInterfaceFromNetwork, modifyRoute}
aidlOemNetworkRpcs == oemNetworkRpcs

NativeRpcs ==
    {bandwidthRpc, firewallRpc, idletimerRpc, strictRpc, tetherRpc, ipfwdRpc, tetherForwardRpc, tetherGetStats,
     interfaceRpc, wakeupRpc, networkRejectNonSecureVpn, ipfwdInterfaceForward, registerUnsolicitedEventListener,
     registerOemUnsolicitedEventListener, dump, dumpTcpSocketMonitor}
    \cup policyRpcs \cup networkRpcs \cup routeRpcs \cup oemNetworkRpcs \cup aidlOemNetworkRpcs

(* setIpForwardEnable that relies on the controller. *)
unlockedForward == {Use("tether"), getRouteTableForInterface}

(* setIpForwardEnable and setForwardingBetweenInterfaces of the vendor services *)
setForwarding == {Holding("tetherCtrl.lock", Use("tether")), Holding("tetherCtrl.lock", getRouteTableForInterface)}

(* TcpSocketMonitor::poll that looks the network of each socket up. *)
pollNetworks == Holding("TcpSocketMonitor::mLock", Use("mIsSuspended") \o ReadNetworks(<<>>) \o getNetdEventListener)

(* The threads of TcpSocketMonitor, NetlinkHandler, FwmarkServer and NFLogListener. *)
poll == Holding("TcpSocketMonitor::mLock", Use("mIsSuspended") \o getNetdEventListener)
onEvent == Networks(<<>>) \o unsolicitedListeners
processClient == ReadNetworks(<<>>) \o ReadNetworks(<<>>) \o getNetdEventListener
nflogHandler == Holding("NFLogListener::mMutex", Read("mDispatchMap") \o getNetdEventListener)

InternalCalls == {poll, onEvent, processClient, nflogHandler}

Calls == NativeRpcs \cup setForwarding \cup InternalCalls

ASSUME CallsAssumption == \A th \in Threads : CallsOf(th) \subseteq Calls
-----------------------------------------------------------------------------
(* Threads *)

At(th, op) == todo[th] # <<>> /\ Head(todo[th]).op = op

Conflict(mode1, mode2) == mode1 = "exclusive" \/ mode2 = "exclusive"

(* A thread that wants a lock waits for another one that holds it; std::shared_mutex *)
(* also lets no reader in while a writer waits.                                      *)
WaitsFor(th, other) ==
    /\ At(th, "lock")
    /\ LET want == Head(todo[th])
       IN  \/ \E h \in held[other] : h[1] = want.of /\ Conflict(h[2], want.mode)
           \/ /\ th # other /\ want.mode = "shared" /\ At(other, "lock")
              /\ Head(todo[other]).of = want.of /\ Head(todo[other]).mode = "exclusive"

BeginCall(th) ==
    /\ todo[th] = <<>> /\ rpcs < MaxRpcs
    /\ \E call \in CallsOf(th) : todo' = [todo EXCEPT ![th] = call]
    /\ rpcs' = rpcs + 1
    /\ UNCHANGED held

Lock(th) ==
    /\ At(th, "lock") /\ \A other \in Threads : ~WaitsFor(th, other)
    /\ held' = [held EXCEPT ![th] = @ \cup {<<Head(todo[th]).of, Head(todo[th]).mode>>}]
    /\ todo' = [todo EXCEPT ![th] = Tail(@)]
    /\ UNCHANGED rpcs

Unlock(th) ==
    /\ At(th, "unlock")
    /\ held' = [held EXCEPT ![th] = @ \ {<<Head(todo[th]).of, Head(todo[th]).mode>>}]
    /\ todo' = [todo EXCEPT ![th] = Tail(@)]
    /\ UNCHANGED rpcs

UseState(th) ==
    /\ At(th, "use")
    /\ todo' = [todo EXCEPT ![th] = Tail(@)]
    /\ UNCHANGED <<held, rpcs>>

(* A step of the call failed, and it returns. *)
ReturnEarly(th) ==
    /\ At(th, "use")
    /\ todo' = [todo EXCEPT ![th] = <<>>]
    /\ held' = [held EXCEPT ![th] = {}]
    /\ UNCHANGED rpcs

LocksInit ==
    /\ todo = [th \in Threads |-> <<>>]
    /\ held = [th \in Threads |-> {}]
    /\ rpcs = 0

LocksNext == \E th \in Threads : BeginCall(th) \/ Lock(th) \/ Unlock(th) \/ UseState(th) \/ ReturnEarly(th)

LocksSpec == LocksInit /\ [][LocksNext]_lockVars
-----------------------------------------------------------------------------
(* Properties *)

(***************************************************************************)
(* No set of threads waits for locks in a circle, whatever calls they make *)
(* at the same time: in particular the thread of TcpSocketMonitor, which   *)
(* holds mLock when it reports, and a call that changes networks, which    *)
(* takes mLock while it holds mRWLock (NetworkController.cpp:1018).        *)
(***************************************************************************)
NoCircularWait ==
    \A waiting \in (SUBSET Threads) \ {{}} :
        \E th \in waiting : \A other \in waiting : ~WaitsFor(th, other)

(***************************************************************************)
(* Two threads are never at the same state of a controller at once unless  *)
(* both only read it: each handler of each service takes the lock that     *)
(* guards the controller it calls (NetdNativeService.cpp:78).              *)
(***************************************************************************)
StateIsGuarded ==
    \A th, other \in Threads :
        th # other /\ At(th, "use") /\ At(other, "use") /\ Head(todo[th]).of = Head(todo[other]).of
            => ~Conflict(Head(todo[th]).mode, Head(todo[other]).mode)
===============================================================================
