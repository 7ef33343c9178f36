------------------------------ MODULE MCDaemon ------------------------------
(***************************************************************************)
(* Small instances, for TLC, of the parts of netd that have threads or     *)
(* processes of their own to talk to: TcpSocketMonitor, EventReporter,     *)
(* MDnsSdListener, IptablesRestoreController, and NetdClient with          *)
(* FwmarkServer.  They share no variables.  A behaviour is a behaviour of  *)
(* one of them, chosen at the start; the others stay as they were made.    *)
(***************************************************************************)
EXTENDS TcpSocketMonitor, EventReporter, MDnsSdListener, IptablesRestoreController, NetdClient

CONSTANT Components      \* those that are looked at

VARIABLE component       \* the one of this behaviour

(* TcpSocketMonitor: two sockets of one network. *)
MCNetIdOf == [c1 |-> 100, c2 |-> 100]

(* MDnsSdListener: an id for discovery and resolution, one for the other requests. *)
MCKindsOf == <<{"discover", "resolve"}, {"register", "address"}>>

(* IptablesRestoreController: each command to any target. *)
MCTargets == [V4 |-> {"V4"}, V6 |-> {"V6"}, V4V6 |-> {"V4", "V6"}]

(***************************************************************************)
(* NetdClient: an app of two threads and a system process that marks for   *)
(* others.  There are two physical networks, 101 with a permission, a VPN  *)
(* of the app, 102, and a secure one of nobody, 103.  A workload is the    *)
(* calls that each thread makes.                                           *)
(***************************************************************************)
AppUid == 10001
AppRange == [start |-> AppUid, stop |-> AppUid]
MCRanges == {AppRange}
MCRangeArgs == [MCRanges -> {1}]
MCIfaces == {DUMMY_INTERFACE}
NoArgs == {}
MCUidOf == [app |-> AppUid, app2 |-> AppUid, proxy |-> 1000]
MCProcessOf == [app |-> "app", app2 |-> "app", proxy |-> "proxy"]
MCFdsOf == [app |-> {"s1"}, proxy |-> {"p1"}]
MCWorkloads ==
    {[app |-> {"socket", "accept", "connect", "select", "protect", "close"},
      app2 |-> {}, proxy |-> {}],
     [app |-> {"process", "resolv", "allow"}, app2 |-> {"socket", "send"}, proxy |-> {}],
     [app |-> {"connect", "protect"}, app2 |-> {"socket", "select"}, proxy |-> {}],
     [app |-> {}, app2 |-> {}, proxy |-> {"socket", "connect", "user", "tag"}]}
MCControllerArgs == [destroyed |-> {102}, default |-> {0, 100}, users |-> {101, 103}]

Vpn(secure, users) == [NewVirtualNetwork(secure, FALSE) EXCEPT !.mUidRangeMap[0] = users]

SomeNetworks ==
    /\ mDefaultNetId = 100
    /\ mNetworks = [n \in AllNetIds \ OemIds |->
         CASE n = LOCAL_NET_ID -> NewFixedNetwork("LOCAL")
           [] n = DUMMY_NET_ID -> NewFixedNetwork("DUMMY")
           [] n = UNREACHABLE_NET_ID -> NewFixedNetwork("UNREACHABLE")
           [] n = 100 -> [NewPhysicalNetwork(PERMISSION_NONE, FALSE) EXCEPT !.mIsDefault = TRUE]
           [] n = 101 -> NewPhysicalNetwork(PERMISSION_NETWORK, FALSE)
           [] n = 102 -> Vpn(FALSE, [r \in MCRanges |-> 1])
           [] n = 103 -> Vpn(TRUE, NoRanges)]
    /\ mUsers = [u \in {} |-> PERMISSION_NONE]
    /\ mProtectableUsers = {}
    /\ mIfindexToLastNetId = [i \in {} |-> NETID_UNSET]
    /\ mAddressToIfindices = [a \in {} |-> {}]
    /\ polling = TRUE

OneClientWorkload == CHOOSE w \in Workloads : TRUE
OneTarget == CHOOSE t \in DOMAIN Targets : TRUE
-----------------------------------------------------------------------------
daemonVars == <<component, monitorVars, eventVars, mdnsVars, restoreVars, socketVars>>

(* The choices that the initial states of a component leave open are made for it only. *)
DaemonInit ==
    /\ component \in Components
    /\ MonitorInit /\ EventInit /\ MDnsInit /\ RestoreInit /\ SomeNetworks /\ ClientInit
    /\ component # "NetdClient" => workload = OneClientWorkload
    /\ component # "IptablesRestoreController" =>
          target = OneTarget /\ running = [f \in Families |-> TRUE]

Only(name) == component = name /\ UNCHANGED component

DaemonNext ==
    \/ /\ Only("TcpSocketMonitor") /\ MonitorNext
       /\ UNCHANGED <<eventVars, mdnsVars, restoreVars, socketVars>>
    \/ /\ Only("EventReporter") /\ EventNext
       /\ UNCHANGED <<monitorVars, mdnsVars, restoreVars, socketVars>>
    \/ /\ Only("MDnsSdListener") /\ MDnsNext
       /\ UNCHANGED <<monitorVars, eventVars, restoreVars, socketVars>>
    \/ /\ Only("IptablesRestoreController") /\ RestoreNext
       /\ UNCHANGED <<monitorVars, eventVars, mdnsVars, socketVars>>
    \/ /\ Only("NetdClient") /\ ClientNext
       /\ UNCHANGED <<monitorVars, eventVars, mdnsVars, restoreVars>>

(* The fairness that each module states, asked of the component that runs. *)
DaemonFairness ==
    /\ WF_monitorVars(component = "TcpSocketMonitor" /\ PollStep)
    /\ WF_monitorVars(component = "TcpSocketMonitor" /\ OwnerReturns)
    /\ \A h \in Handlers : WF_eventVars(component = "EventReporter" /\ HandlerGoesOn(h))
    /\ \A l \in Listeners : WF_eventVars(component = "EventReporter" /\ SendObituary(l))
    /\ \A r \in Registrations : WF_eventVars(component = "EventReporter" /\ binderDied(r))
    /\ WF_mdnsVars(component = "MDnsSdListener" /\ run)
    /\ WF_restoreVars(component = "IptablesRestoreController" /\ ControllerStep)

DaemonSpec == DaemonInit /\ [][DaemonNext]_daemonVars /\ DaemonFairness
=============================================================================
