----------------------------- MODULE MCRequests -----------------------------
(***************************************************************************)
(* Small instances, for TLC, of the parts of netd that serve requests:     *)
(* the vector of UidRanges, NFLogListener with WakeupController,           *)
(* XfrmController and its messages, NetlinkHandler with SockDiag,          *)
(* InterfaceController, and the locks of NetdNativeService.  They share no *)
(* variables.  A behaviour is a behaviour of one of them, chosen at the    *)
(* start; the others stay as they were made.                               *)
(***************************************************************************)
EXTENDS UidRangesVector, NFLogListener, XfrmController, XfrmMessages, NetlinkHandler,
        InterfaceController, NetdNativeService, TLC

CONSTANT Components      \* those that are looked at

VARIABLES component,     \* the one of this behaviour
          settings       \* of InterfaceController: the calls that are made

(* UidRangesVector: all ranges over three UIDs. *)
MCUids == 1 .. 4
MCRanges == {r \in [start : 1 .. 3, stop : 1 .. 3] : r.start <= r.stop}

(***************************************************************************)
(* NFLogListener: messages with a UID and a packet that is complete or cut *)
(* off, with or without a packet header, in any order of their attributes; *)
(* one that is empty and one with nothing but a prefix.                    *)
(***************************************************************************)
Attr(type, value) == [type |-> type, value |-> value]
MCPayloads == {q \in Payload : q.proto = IPPROTO_TCP /\ (q.hasPorts => q.hasHeader)}
                \cup {q \in Payload : q.proto = 1 /\ q.hasPorts /\ q.hasHeader}
MCMessages ==
    {<<>>, <<Attr("NFULA_PREFIX", 0)>>}
      \cup UNION {SetToSeqs({Attr("NFULA_UID", 1000), Attr("NFULA_PAYLOAD", p)} \cup hdr) :
                    p \in MCPayloads, hdr \in {{}, {Attr("NFULA_PACKET_HDR", ETH_P_IP)}}}

(***************************************************************************)
(* XfrmController: two tunnels between the same addresses, one of which    *)
(* migrates to the other family, and a transport mode transform.           *)
(***************************************************************************)
Tunnel(src, dst, newDst, netId, id) ==
    [mode |-> "TUNNEL", src |-> src, dst |-> dst, newDst |-> newDst, selFamily |-> "AF_INET",
     direction |-> "OUT", netId |-> netId, mark |-> id, ifId |-> id, inSpi |-> INVALID_SPI,
     socketFamily |-> "AF_INET"]
MCTransforms ==
    [t1 |-> Tunnel("4a", "4b", "6b", 100, 1),
     t2 |-> Tunnel("4a", "4b", "4c", 100, 2),
     t3 |-> [mode |-> "TRANSPORT", src |-> "", dst |-> "4b", newDst |-> "",
             selFamily |-> "AF_INET", direction |-> "OUT", netId |-> 0, mark |-> 0, ifId |-> 0,
             inSpi |-> 2, socketFamily |-> "AF_INET"]]
MCFamilyOf == [a \in {"4a", "4b", "4c", "6b"} |-> IF a = "6b" THEN "AF_INET6" ELSE "AF_INET"]

(* NetlinkHandler: a v4 and a v4-mapped socket, and one of a link-local address. *)
Conn(fam, addr, ifindex, uid, netId, explicit, permission, state) ==
    [family |-> fam, addr |-> addr, ifindex |-> ifindex, uid |-> uid, loopback |-> FALSE,
     adb |-> FALSE, state |-> state,
     mark |-> [netId |-> netId, explicit |-> explicit, permission |-> permission]]
MCConns ==
    [c1 |-> Conn(AF_INET, "v4", 0, 1, 100, FALSE, {}, "ESTABLISHED"),
     c2 |-> Conn(AF_INET6, "v4", 0, 2, 100, TRUE, {"SYSTEM", "NETWORK"}, "ESTABLISHED"),
     c3 |-> Conn(AF_INET6, "fe80", 2, 1, 101, TRUE, {}, "SYN_SENT")]
MCAddresses == [v4 |-> [colon |-> FALSE, linkLocal |-> FALSE],
                fe80 |-> [colon |-> TRUE, linkLocal |-> TRUE]]
MCVpnOf == (0 :> 0) @@ (2 :> 103) @@ (3 :> 103)
MCCallArgs == {[op |-> "permission", netId |-> 100, permission |-> {"NETWORK"}],
               [op |-> "uids", uids |-> {1, 2}, skipUids |-> {2}]}

(* NetdNativeService: a thread of netd's own, and two that serve binder calls. *)
MCCallsOf(th) ==
    CASE th = "netd" -> InternalCalls
      [] th = "binder" -> NativeRpcs \cup setForwarding
      [] th = "connectivity" -> policyRpcs \cup networkRpcs \cup routeRpcs \cup {dump}
-----------------------------------------------------------------------------
requestVars == <<component, settings, mRanges, nflogVars, xfrmVars, request, handlerVars,
                 interfaceVars, lockVars>>

(* The choices that the initial states of a component leave open are made for it only. *)
RequestsInit ==
    /\ component \in Components
    /\ Init /\ NFLogInit /\ XfrmInit /\ HandlerInit /\ InterfaceInit /\ LocksInit
    /\ IF component = "XfrmMessages" THEN request \in Requests
       ELSE request = CHOOSE r \in Requests : TRUE
    /\ settings \in IF component = "InterfaceController" THEN {"parameters", "config", "privacy"}
                    ELSE {"none"}
    /\ settings # "parameters" => setup.at = 1
    /\ component # "InterfaceController" => DOMAIN sysctl = {"default"}
    /\ component # "NetlinkHandler" => kernelChanges = 0
    /\ component # "XfrmController" => mIsXfrmIntfSupported

(* InterfaceNext, with the calls of one kind in a behaviour. *)
OneKindOfCalls ==
    \/ initializeAll \/ RestartNetd
    \/ settings = "parameters" /\ ParameterNext
    \/ \E i \in InterfaceNames :
         \/ CreateInterface(i) \/ DestroyInterface(i)
         \/ settings = "config" /\ ConfigNext(i)
         \/ settings = "privacy" /\ PrivacyNext(i)

Only(name) == component = name /\ UNCHANGED <<component, settings, request>>

RequestsNext ==
    \/ /\ Only("UidRanges") /\ Next
       /\ UNCHANGED <<nflogVars, xfrmVars, handlerVars, interfaceVars, lockVars>>
    \/ /\ Only("NFLogListener") /\ NFLogNext
       /\ UNCHANGED <<mRanges, xfrmVars, handlerVars, interfaceVars, lockVars>>
    \/ /\ Only("XfrmController") /\ XfrmNext
       /\ UNCHANGED <<mRanges, nflogVars, handlerVars, interfaceVars, lockVars>>
    \/ /\ Only("NetlinkHandler") /\ HandlerNext
       /\ UNCHANGED <<mRanges, nflogVars, xfrmVars, interfaceVars, lockVars>>
    \/ /\ Only("InterfaceController") /\ OneKindOfCalls
       /\ UNCHANGED <<mRanges, nflogVars, xfrmVars, handlerVars, lockVars>>
    \/ /\ Only("NetdNativeService") /\ LocksNext
       /\ UNCHANGED <<mRanges, nflogVars, xfrmVars, handlerVars, interfaceVars>>

RequestsSpec == RequestsInit /\ [][RequestsNext]_requestVars
=============================================================================
