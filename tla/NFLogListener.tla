---------------------------- MODULE NFLogListener ----------------------------
(***************************************************************************)
(* NFLogListener: one netlink socket for all NFLOG groups, a service       *)
(* thread that dispatches messages by group, and callers that subscribe    *)
(* and unsubscribe.  Each group has one owner, whose calls follow one      *)
(* another (WakeupController for NFLOG_WAKEUP_GROUP); owners of different  *)
(* groups interleave.  A step is a critical section of mMutex or a message *)
(* sent to the kernel, which may fail.                                     *)
(***************************************************************************)
EXTENDS Naturals, Sequences, WakeupController

CONSTANTS Groups,            \* NFLOG groups
          Messages,          \* attribute lists the kernel sends
          MaxQueue           \* bound on the messages in the socket

VARIABLES
    mDispatchMap,            \* groups with a dispatch function
    bound,                   \* kernel: groups delivered to the socket
    hasMode,                 \* kernel: groups whose copy mode was set
    socketQueue,             \* kernel: groups of the messages not yet read
    callPc,                  \* group -> where its owner is
    dispatched               \* the messages handed to a dispatch function: the last one

nflogVars == <<mDispatchMap, bound, hasMode, socketQueue, callPc, dispatched>>

CallGoto(g, from, to) == callPc[g] = from /\ callPc' = [callPc EXCEPT ![g] = to]

(* makeNFLogListener: nothing is bound until somebody subscribes. *)
NFLogInit ==
    /\ mDispatchMap = {} /\ bound = {} /\ hasMode = {} /\ socketQueue = <<>>
    /\ callPc = [g \in Groups |-> "idle"]
    /\ dispatched = {}
-----------------------------------------------------------------------------
(* subscribe: the dispatch function is installed first. *)
subscribe(g) ==
    /\ CallGoto(g, "idle", "bind")
    /\ mDispatchMap' = mDispatchMap \cup {g}
    /\ UNCHANGED <<bound, hasMode, socketQueue, dispatched>>

(* A failure returns at once; the dispatch function stays. *)
cfgCmdBind(g) ==
    /\ \/ CallGoto(g, "bind", "mode") /\ bound' = bound \cup {g}
       \/ CallGoto(g, "bind", "idle") /\ UNCHANGED bound
    /\ UNCHANGED <<mDispatchMap, hasMode, socketQueue, dispatched>>

cfgMode(g) ==
    /\ CallGoto(g, "mode", "idle")
    /\ hasMode' \in {hasMode, hasMode \cup {g}}
    /\ UNCHANGED <<mDispatchMap, bound, socketQueue, dispatched>>

(* unsubscribe that forgets the dispatch function first. *)
eraseFirst(g) ==
    /\ CallGoto(g, "idle", "erase")
    /\ mDispatchMap' = mDispatchMap \ {g}
    /\ UNCHANGED <<bound, hasMode, socketQueue, dispatched>>

(* unsubscribe: delivery is stopped first; if that fails, nothing changes. *)
cfgCmdUnbind(g) ==
    /\ \/ CallGoto(g, "idle", "erase") /\ bound' = bound \ {g} /\ hasMode' = hasMode \ {g}
       \/ CallGoto(g, "idle", "idle") /\ UNCHANGED <<bound, hasMode>>
    /\ UNCHANGED <<mDispatchMap, socketQueue, dispatched>>

unsubscribe(g) ==
    /\ CallGoto(g, "erase", "idle")
    /\ mDispatchMap' = mDispatchMap \ {g}
    /\ UNCHANGED <<bound, hasMode, socketQueue, dispatched>>

(* The kernel logs a packet for a bound group. *)
LogPacket(g) ==
    /\ g \in bound /\ Len(socketQueue) < MaxQueue
    /\ socketQueue' = Append(socketQueue, g)
    /\ UNCHANGED <<mDispatchMap, bound, hasMode, callPc, dispatched>>

(***************************************************************************)
(* The service thread: the group's function, or kDefaultDispatchFn, which  *)
(* only logs.  What a message contains is settled when it is read.         *)
(***************************************************************************)
rxHandler(attrs) ==
    /\ socketQueue # <<>>
    /\ dispatched' = IF Head(socketQueue) \in mDispatchMap
                     THEN {attrs} ELSE dispatched
    /\ socketQueue' = Tail(socketQueue)
    /\ UNCHANGED <<mDispatchMap, bound, hasMode, callPc>>

NFLogNext ==
    \/ \E g \in Groups : \/ subscribe(g) \/ cfgCmdBind(g) \/ cfgMode(g)
                         \/ cfgCmdUnbind(g) \/ unsubscribe(g) \/ LogPacket(g)
    \/ \E attrs \in Messages : rxHandler(attrs)

NFLogSpec == NFLogInit /\ [][NFLogNext]_nflogVars
-----------------------------------------------------------------------------
(***************************************************************************)
(* While the kernel delivers a group there is a function to dispatch it,   *)
(* also when sends fail and calls are retried: the point of the order of   *)
(* steps that subscribe and unsubscribe insist on (NFLogListener.cpp:184   *)
(* and 199).  And the report about a packet does not depend on the order   *)
(* in which the kernel put the attributes of the message, and says what    *)
(* they say, no more and no less (WakeupController.cpp:182-187).           *)
(***************************************************************************)
PacketsAreReported ==
    /\ bound \subseteq mDispatchMap
    /\ \A attrs \in dispatched : msgHandler(attrs) = DescribedBy(attrs)
==============================================================================
