---------------------------- MODULE NetlinkHandler ----------------------------
(***************************************************************************)
(* NetlinkHandler::onEvent (server/NetlinkHandler.cpp): the thread of the  *)
(* route socket, which reports the kernel's events and closes the sockets  *)
(* of addresses that are removed.                                          *)
(*                                                                         *)
(* Events wait in the socket's queue while the kernel, and the interfaces, *)
(* change further; the name of an interface is looked up when its event is *)
(* read.  The queue is long enough: an overflow loses events.              *)
(***************************************************************************)
EXTENDS SockDiag

CONSTANTS
    IfIndexes,      \* interfaces
    VpnOf,          \* interface -> its virtual network, or 0
    HandlerAddresses,  \* address -> whether it has a colon, and whether it starts with fe80:
    CallArgs,       \* the calls of binder threads
    MaxKernelChanges

VARIABLES
    assigned,             \* <<interface, address>> pairs of the kernel
    events,               \* the queue of the route socket
    mAddressToIfindices,
    handling,             \* the event that is handled and not yet reported, or NoEvent
    reported,             \* <<interface, address>> pairs the listeners were told of
    gone,                 \* interfaces that were deleted
    kernelChanges

handlerVars == <<conns, diag, assigned, events, mAddressToIfindices, handling, reported, gone, kernelChanges>>

netlink == "netlink"
NoEvent == [action |-> "none"]
Ready == ~Busy(netlink) /\ handling = NoEvent

(* The kernel, and its interfaces *)
KernelChange(pairs, event) ==
    /\ kernelChanges < MaxKernelChanges
    /\ kernelChanges' = kernelChanges + 1
    /\ assigned' = pairs
    /\ events' = events \o event
    /\ UNCHANGED <<conns, diag, mAddressToIfindices, handling, reported>>

AssignAddress(i, a) ==
    /\ i \notin gone /\ <<i, a>> \notin assigned
    /\ KernelChange(assigned \cup {<<i, a>>}, <<[action |-> "kAddressUpdated", ifindex |-> i, address |-> a]>>)
    /\ UNCHANGED gone
RemoveAddress(i, a) ==
    /\ <<i, a>> \in assigned
    /\ KernelChange(assigned \ {<<i, a>>}, <<[action |-> "kAddressRemoved", ifindex |-> i, address |-> a]>>)
    /\ UNCHANGED gone

(* An interface loses its addresses before it is deleted; the names of the others stay. *)
DeleteInterface(i) ==
    /\ i \notin gone
    /\ LET lost == SetToSeq({p \in assigned : p[1] = i})
       IN  KernelChange({p \in assigned : p[1] # i},
                        [k \in DOMAIN lost |-> [action |-> "kAddressRemoved", ifindex |-> i, address |-> lost[k][2]]])
    /\ gone' = gone \cup {i}

(* A socket is bound to an address that some interface has. *)
BindSocket(c) ==
    /\ \E p \in assigned : p[2] = Conns[c].addr /\ Conns[c].ifindex \in {0, p[1]}
    /\ openSocket(c)
    /\ UNCHANGED <<diag, assigned, events, mAddressToIfindices, handling, reported, gone, kernelChanges>>
CloseSocket(c) ==
    /\ closeConn(c)
    /\ UNCHANGED <<diag, assigned, events, mAddressToIfindices, handling, reported, gone, kernelChanges>>
-----------------------------------------------------------------------------
(* The handler *)

(* NetworkController::removeInterfaceAddress, after which the address may still be *)
(* on another interface of the same VPN.                                           *)
RemovedFromVpnHandover(i, a) ==
    /\ i \in mAddressToIfindices[a]
    /\ \E other \in mAddressToIfindices[a] \ {i} : VpnOf[other] # 0 /\ VpnOf[other] = VpnOf[i]

(* destroyIfaceIndex, the interface for every address. *)
everyIfaceIndex(i, a) == i

(* Only the sockets of a link-local address are told apart by their interface. *)
destroyIfaceIndex(i, a) == IF HandlerAddresses[a].linkLocal THEN i ELSE 0

(* notifyAddressUpdated and notifyAddressRemoved; a deleted interface has no name. *)
Reported(event) ==
    IF event.ifindex \in gone THEN reported
    ELSE IF event.action = "kAddressUpdated" THEN reported \cup {<<event.ifindex, event.address>>}
    ELSE reported \ {<<event.ifindex, event.address>>}

addressUpdated ==
    /\ Ready /\ events # <<>> /\ Head(events).action = "kAddressUpdated"
    /\ handling' = Head(events)
    /\ events' = Tail(events)
    /\ mAddressToIfindices' = [mAddressToIfindices EXCEPT ![Head(events).address] = @ \cup {Head(events).ifindex}]
    /\ UNCHANGED <<conns, diag, assigned, reported, gone, kernelChanges>>

addressRemoved ==
    LET i == Head(events).ifindex
        a == Head(events).address
    IN  /\ Ready /\ events # <<>> /\ Head(events).action = "kAddressRemoved"
        /\ handling' = Head(events)
        /\ events' = Tail(events)
        /\ mAddressToIfindices' = [mAddressToIfindices EXCEPT ![a] = @ \ {i}]
        /\ IF RemovedFromVpnHandover(i, a)
           THEN UNCHANGED diag
           ELSE destroySocketsOfAddress(netlink, a, HandlerAddresses[a].colon, destroyIfaceIndex(i, a))
        /\ UNCHANGED <<conns, assigned, reported, gone, kernelChanges>>

(* The end of onEvent, when the sockets are closed. *)
notifyAddress ==
    /\ handling # NoEvent /\ ~Busy(netlink)
    /\ reported' = Reported(handling)
    /\ handling' = NoEvent
    /\ UNCHANGED <<conns, diag, assigned, events, mAddressToIfindices, gone, kernelChanges>>

DestroyStep(th) ==
    /\ DiagStep(th)
    /\ UNCHANGED <<assigned, events, mAddressToIfindices, handling, reported, gone, kernelChanges>>

(* PhysicalNetwork::destroySocketsLackingPermission and NetdNativeService::socketDestroy *)
BinderCall(th) ==
    /\ th # netlink /\ diag[th] = NoCall
    /\ \E call \in CallArgs :
          IF call.op = "uids" THEN destroySocketsOfUids(th, call.uids, call.skipUids)
          ELSE destroySocketsLackingPermission(th, call.netId, call.permission)
    /\ UNCHANGED <<conns, assigned, events, mAddressToIfindices, handling, reported, gone, kernelChanges>>

(* The workloads: a binder thread makes a call, or the kernel makes one change more. *)
HandlerInit ==
    /\ conns = [c \in DOMAIN Conns |-> "new"]
    /\ \E callers \in SUBSET (DiagThreads \ {netlink}) :
          /\ diag = [th \in DiagThreads |-> IF th \in callers \cup {netlink} THEN NoCall ELSE [NoCall EXCEPT !.ok = FALSE]]
          /\ kernelChanges = IF callers = {} THEN 0 ELSE 1
    /\ assigned = {} /\ events = <<>> /\ reported = {} /\ gone = {}
    /\ handling = NoEvent
    /\ mAddressToIfindices = [a \in DOMAIN HandlerAddresses |-> {}]

HandlerNext ==
    \/ \E i \in IfIndexes : DeleteInterface(i)
    \/ \E i \in IfIndexes, a \in DOMAIN HandlerAddresses : AssignAddress(i, a) \/ RemoveAddress(i, a)
    \/ \E c \in DOMAIN Conns : BindSocket(c) \/ CloseSocket(c)
    \/ addressUpdated \/ addressRemoved \/ notifyAddress
    \/ \E th \in DiagThreads : DestroyStep(th) \/ BinderCall(th)
-----------------------------------------------------------------------------
(* Properties *)

(***************************************************************************)
(* Once the handler has caught up with the kernel, whose requests did not  *)
(* fail, a socket is bound to an address that an interface still has: its  *)
(* own interface if the address is link-local, unless another one of the   *)
(* same VPN has it (NetworkController.cpp:695); and the listeners were     *)
(* told the addresses of every interface that exists.                      *)
(***************************************************************************)
HandlerFollowsKernel ==
    events = <<>> /\ Ready =>
        /\ \A c \in Open : \E p \in assigned :
               /\ p[2] = Conns[c].addr
               /\ \/ Conns[c].ifindex \in {0, p[1]}
                  \/ VpnOf[p[1]] # 0 /\ VpnOf[p[1]] = VpnOf[Conns[c].ifindex]
        /\ \A i \in IfIndexes \ gone :
               {p \in reported : p[1] = i} = {p \in assigned : p[1] = i}
===============================================================================
