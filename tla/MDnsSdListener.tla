---------------------------- MODULE MDnsSdListener ----------------------------
(***************************************************************************)
(* MDnsSdListener and its Monitor: the list of requests in progress, the   *)
(* thread that polls their connections to mdnsd, and the binder calls of   *)
(* MDnsService that start and stop requests.  A step is a critical section *)
(* of Monitor::mMutex or a call of the DNSService library.                 *)
(*                                                                         *)
(* Clients keep to the contract of the interface: the calls about one      *)
(* request id follow one another, and stop is for a request that was       *)
(* started.  So the list has at most one Element per id, and an Element is *)
(* identified by its id; calls about different ids interleave.             *)
(***************************************************************************)
EXTENDS Integers, Sequences, FiniteSets

CONSTANTS Ids,                 \* request ids
          KindsOf,             \* id -> the kinds of request it is used for
          InitialPollSize,     \* 10 in the code
          PollGrowth,          \* 5 in the code
          MaxBytes,            \* bound on the bytes in mCtrlSocketPair
          MaxResults,          \* bound on the answers of mdnsd to one request
          MaxMiscounts         \* bound on requests that fail

ASSUME MDnsAssumption ==
    /\ IsFiniteSet(Ids)
    /\ InitialPollSize \in Nat \ {0} /\ PollGrowth \in Nat \ {0}

VARIABLES
    elements,                  \* list from mHead: id -> [mRef is set, mReady]
    mLiveCount, mPollSize,
    pollRefs,                  \* ids in mPollRefs[1 ..]
    revents, ctrlEvent,        \* what poll returned and the loop has not handled
    ctrlBytes,                 \* RESCAN bytes in the control socket
    callPc,                    \* id -> where the call about it is
    kind,                      \* id -> the kind of its last request
    open, data,                \* mdnsd: connections, and those with an answer
    daemonRunning,
    mEventListeners,           \* MDnsEventReporter: is there a listener
    delivered,                 \* history: the events sent to listeners for a request
    miscounts                  \* history: Elements freed that were never counted

mdnsVars == <<elements, mLiveCount, mPollSize, pollRefs, revents, ctrlEvent, ctrlBytes, callPc,
              kind, open, data, daemonRunning, mEventListeners, delivered, miscounts>>
list == <<elements, mLiveCount, ctrlBytes, miscounts>>
thread == <<mPollSize, pollRefs, revents, ctrlEvent>>
mdnsd == <<open, data, daemonRunning>>
reporter == <<mEventListeners, delivered>>

CallGoto(id, from, to) == callPc[id] = from /\ callPc' = [callPc EXCEPT ![id] = to]
ElementsWithout(f, S) == [id \in DOMAIN f \ S |-> f[id]]

MDnsInit ==
    /\ elements = <<>> /\ mLiveCount = 0 /\ ctrlBytes = 0 /\ miscounts = 0
    /\ mPollSize = InitialPollSize /\ pollRefs = {} /\ revents = {} /\ ctrlEvent = FALSE
    /\ callPc = [id \in Ids |-> "idle"]
    /\ open = {} /\ data = {} /\ daemonRunning = FALSE
    /\ mEventListeners = FALSE /\ delivered = [id \in Ids |-> <<>>]
    /\ kind \in [Ids -> {"discover"}]
-----------------------------------------------------------------------------
(* allocateServiceRef, the lookup: -EBUSY if the id is in the list. *)
lookupServiceRef(id, k) ==
    /\ k \in KindsOf[id]
    /\ CallGoto(id, "idle", IF id \in DOMAIN elements THEN "idle" ELSE "insert")
    /\ kind' = IF id \in DOMAIN elements THEN kind ELSE [kind EXCEPT ![id] = k]
    /\ UNCHANGED <<list, thread, mdnsd, reporter>>

(* The requests: they differ in the library call and its callback. *)
discover(id) == lookupServiceRef(id, "discover")
serviceRegister(id) == lookupServiceRef(id, "register")
resolveService(id) == lookupServiceRef(id, "resolve")
getAddrInfo(id) == lookupServiceRef(id, "address")

(* allocateServiceRef, the insertion. *)
allocateServiceRef(id) ==
    /\ CallGoto(id, "insert", "request")
    /\ elements' = [i \in DOMAIN elements \cup {id} |->
                       IF i = id THEN [mRef |-> FALSE, mReady |-> 0] ELSE elements[i]]
    /\ delivered' = [delivered EXCEPT ![id] = <<>>]
    /\ UNCHANGED <<kind, mLiveCount, ctrlBytes, miscounts, thread, mdnsd, mEventListeners>>

(* DNSServiceBrowse, Register, Resolve or GetAddrInfo, which may fail. *)
DNSServiceRequest(id) ==
    /\ \/ /\ daemonRunning
          /\ CallGoto(id, "request", "monitor")
          /\ elements' = [elements EXCEPT ![id].mRef = TRUE]
          /\ open' = open \cup {id}
       \/ /\ CallGoto(id, "request", "failed")
          /\ UNCHANGED <<elements, open>>
    /\ UNCHANGED <<kind, mLiveCount, ctrlBytes, miscounts, thread, data, daemonRunning, reporter>>

startMonitoring(id) ==
    /\ ctrlBytes < MaxBytes
    /\ CallGoto(id, "monitor", "active")
    /\ mLiveCount' = mLiveCount + 1
    /\ elements' = [elements EXCEPT ![id].mReady = 1]
    /\ ctrlBytes' = ctrlBytes + 1
    /\ UNCHANGED <<kind, miscounts, thread, mdnsd, reporter>>

RequestGoesOn(id) == allocateServiceRef(id) \/ DNSServiceRequest(id) \/ startMonitoring(id)

(* deallocateServiceRef that leaves the pointer in the Element. *)
deallocateOnly(id) ==
    /\ CallGoto(id, "active", "stopped")
    /\ open' = open \ {id} /\ data' = data \ {id}
    /\ UNCHANGED <<kind, list, thread, daemonRunning, reporter>>

(* stop: lookup and deallocateServiceRef. *)
deallocateServiceRef(id) ==
    /\ CallGoto(id, "active", "stopped")
    /\ open' = open \ {id} /\ data' = data \ {id}
    /\ elements' = [elements EXCEPT ![id].mRef = FALSE]
    /\ UNCHANGED <<kind, mLiveCount, ctrlBytes, miscounts, thread, daemonRunning, reporter>>

(* freeServiceRef that deletes a monitored Element itself. *)
freeAtOnce(id) ==
    /\ ctrlBytes < MaxBytes /\ miscounts < MaxMiscounts
    /\ CallGoto(id, callPc[id], "idle") /\ callPc[id] \in {"failed", "stopped"}
    /\ mLiveCount' = mLiveCount - 1
    /\ elements' = ElementsWithout(elements, {id})
    /\ miscounts' = miscounts + (IF elements[id].mReady = 1 THEN 0 ELSE 1)
    /\ UNCHANGED <<kind, ctrlBytes, thread, mdnsd, reporter>>

(* freeServiceRef that does not wake the thread. *)
freeQuietly(id) ==
    /\ ctrlBytes < MaxBytes
    /\ CallGoto(id, callPc[id], "idle") /\ callPc[id] \in {"stopped"}
    /\ mLiveCount' = mLiveCount - 1
    /\ elements' = [elements EXCEPT ![id] = [mRef |-> FALSE, mReady |-> -1]]
    /\ UNCHANGED <<kind, ctrlBytes, miscounts, thread, mdnsd, reporter>>

(***************************************************************************)
(* freeServiceRef, after an error or at the end of stop.  mLiveCount goes  *)
(* down also if startMonitoring never counted the Element.                 *)
(***************************************************************************)
freeServiceRef(id) ==
    /\ CallGoto(id, callPc[id], "idle") /\ callPc[id] \in {"failed", "stopped"}
    /\ mLiveCount' = mLiveCount - 1
    /\ IF elements[id].mReady = 1
       THEN /\ ctrlBytes < MaxBytes
            /\ elements' = [elements EXCEPT ![id] = [mRef |-> FALSE, mReady |-> -1]]
            /\ ctrlBytes' = ctrlBytes + 1
            /\ UNCHANGED miscounts
       ELSE /\ miscounts < MaxMiscounts
            /\ elements' = ElementsWithout(elements, {id})
            /\ miscounts' = miscounts + 1
            /\ UNCHANGED ctrlBytes
    /\ UNCHANGED <<kind, thread, mdnsd, reporter>>

stop(id) == deallocateServiceRef(id) \/ freeServiceRef(id)

(* Monitor::startService and stopService, which wait for the daemon. *)
startService ==
    /\ daemonRunning' = TRUE
    /\ UNCHANGED <<list, thread, callPc, kind, open, data, reporter>>

stopService ==
    /\ elements = <<>>
    /\ daemonRunning' = FALSE
    /\ UNCHANGED <<list, thread, callPc, kind, open, data, reporter>>
-----------------------------------------------------------------------------
(* poll returns: answers, closed connections (POLLNVAL), the control socket. *)
pollReturns ==
    /\ revents = {} /\ ~ctrlEvent
    /\ revents' = {id \in pollRefs : id \in data \/ id \notin open}
    /\ ctrlEvent' = (ctrlBytes > 0)
    /\ revents' # {} \/ ctrlEvent'
    /\ UNCHANGED <<list, mPollSize, pollRefs, callPc, kind, mdnsd, reporter>>

(* What the callbacks report; a failure is one of the answers mdnsd gives. *)
DiscoverCallback == {"SERVICE_FOUND", "SERVICE_LOST", "SERVICE_DISCOVERY_FAILED"}
RegisterCallback == {"SERVICE_REGISTERED", "SERVICE_REGISTRATION_FAILED"}
ResolveCallback == {"SERVICE_RESOLVED", "SERVICE_RESOLUTION_FAILED"}
GetAddrInfoCallback == {"SERVICE_GET_ADDR_SUCCESS", "SERVICE_GET_ADDR_FAILED"}

Results == [discover |-> DiscoverCallback, register |-> RegisterCallback,
            resolve |-> ResolveCallback, address |-> GetAddrInfoCallback]

(* A callback: all listeners are told under the reporter's mutex. *)
Callback(id) ==
    /\ data' = data \ {id}
    /\ \E result \in Results[kind[id]] :
          delivered' = IF mEventListeners THEN [delivered EXCEPT ![id] = Append(@, result)] ELSE delivered

(* DNSServiceProcessResult of *mPollRefs[i], an error for a null reference. *)
processResult(id) ==
    /\ id \in revents
    /\ revents' = revents \ {id}
    /\ IF id \in DOMAIN elements /\ elements[id].mRef /\ (id \in data \/ id \notin open)
       THEN Callback(id) ELSE UNCHANGED <<data, delivered>>
    /\ UNCHANGED <<list, mPollSize, pollRefs, ctrlEvent, callPc, kind, open, daemonRunning,
                   mEventListeners>>

(* The size of the arrays after rescan. *)
growPollArrays == IF mPollSize <= mLiveCount THEN mLiveCount + PollGrowth ELSE mPollSize

(* One byte is read; rescan rebuilds the arrays and deletes what was stopped. *)
rescan ==
    /\ revents = {} /\ ctrlEvent
    /\ ctrlEvent' = FALSE
    /\ ctrlBytes' = ctrlBytes - 1
    /\ mPollSize' = growPollArrays
    /\ pollRefs' = {id \in DOMAIN elements : elements[id].mReady = 1 /\ elements[id].mRef}
    /\ elements' = ElementsWithout(elements, {id \in DOMAIN elements : elements[id].mReady = -1})
    /\ UNCHANGED <<mLiveCount, revents, callPc, kind, mdnsd, reporter, miscounts>>

(* mdnsd answers a request. *)
Answer(id) ==
    /\ id \in open /\ id \notin data /\ Len(delivered[id]) < MaxResults
    /\ data' = data \cup {id}
    /\ UNCHANGED <<list, thread, callPc, kind, open, daemonRunning, reporter>>

addEventListenerImpl ==
    /\ mEventListeners' = TRUE
    /\ UNCHANGED <<list, thread, callPc, kind, mdnsd, delivered>>

(* removeEventListener, or the death of the listener. *)
removeEventListenerImpl ==
    /\ mEventListeners' = FALSE
    /\ UNCHANGED <<list, thread, callPc, kind, mdnsd, delivered>>

run == pollReturns \/ rescan \/ \E id \in Ids : processResult(id)

MDnsNext ==
    \/ \E id \in Ids :
         \/ discover(id) \/ serviceRegister(id) \/ resolveService(id) \/ getAddrInfo(id)
         \/ RequestGoesOn(id) \/ stop(id) \/ Answer(id)
    \/ startService \/ stopService
    \/ addEventListenerImpl \/ removeEventListenerImpl
    \/ run

(* The monitor thread runs. *)
MDnsFairness == WF_mdnsVars(run)

MDnsSpec == MDnsInit /\ [][MDnsNext]_mdnsVars /\ MDnsFairness
-----------------------------------------------------------------------------
(***************************************************************************)
(* mPollRefs points into the list: whatever it refers to is still there    *)
(* when the thread comes to it, because an Element that was monitored is   *)
(* deleted by rescan only (mReady -1, "tell poll thread to delete").  And  *)
(* the poll arrays have room for the control socket and every monitored    *)
(* request, but for those whose slot was given away when a request that    *)
(* had failed was discounted (MDnsSdListener.cpp:587): mLiveCount is short *)
(* by exactly one for each.                                                *)
(***************************************************************************)
PollArraysAreSound ==
    /\ pollRefs \subseteq DOMAIN elements
    /\ Cardinality(pollRefs) + 1 <= mPollSize + miscounts

(***************************************************************************)
(* Once stop has deallocated a request no event of it is sent: poll may    *)
(* have returned before, but the reference is cleared under the lock under *)
(* which results are processed ("do not process further results").  So     *)
(* what a client is told about an id is about the request that has the id  *)
(* now, also if it was used for a request of another kind before.          *)
(***************************************************************************)
NoEventAfterStop ==
    [][\A id \in Ids :
          Len(delivered'[id]) > Len(delivered[id]) =>
             callPc[id] = "active" /\ delivered'[id][Len(delivered'[id])] \in Results[kind[id]]]_mdnsVars

(***************************************************************************)
(* An Element that was stopped is deleted in the end, so that its id can   *)
(* be used again; until then every request with the id gets -EBUSY.        *)
(***************************************************************************)
StoppedRequestsAreDeleted ==
    \A id \in Ids :
        (id \in DOMAIN elements /\ callPc[id] = "idle") ~> ~(id \in DOMAIN elements /\ callPc[id] = "idle")
===============================================================================
