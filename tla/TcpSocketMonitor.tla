-------------------------- MODULE TcpSocketMonitor --------------------------
(***************************************************************************)
(* TcpSocketMonitor: a thread that dumps the TCP sockets of the device and *)
(* reports per-network differences, and its owner, NetworkController,      *)
(* which resumes and suspends it (one call at a time, under mRWLock) and   *)
(* destroys it.  A step is a critical section of mLock or a blocking call. *)
(* Sleeps have any length, so mNextSleepDurationMs and setPollingInterval  *)
(* are left out; of the statistics only the number of segments sent is     *)
(* kept, the others are treated alike.                                     *)
(***************************************************************************)
EXTENDS Naturals, FiniteSets, FiniteSetsExt

CONSTANTS Cookies,       \* sockets
          NetIdOf,       \* the netId in the mark of each socket, 0 if unmarked
          MaxSegments,   \* bound on the segments a socket sends
          CounterRange   \* counters are unsigned of this range (2^32 in the code)

VARIABLES
    mIsRunning, mIsSuspended,
    mSocketEntries,      \* cookie -> value of its counter at the last dump
    pollPc,              \* where the polling thread is
    isSuspended,         \* local variable of waitForNextPoll
    ownerPc,             \* where the owner's call is
    segmentsOut,         \* kernel: segments sent by each socket
    live,                \* kernel: sockets a dump returns
    told                 \* history: segments reported per netId since the last suspension

monitor == <<mIsRunning, mIsSuspended, mSocketEntries, pollPc, isSuspended, ownerPc>>
kernel == <<segmentsOut, live>>
monitorVars == <<monitor, kernel, told>>

MonitoredNetIds == {NetIdOf[c] : c \in Cookies} \ {0}
Counter(c) == segmentsOut[c] % CounterRange
Reported == {c \in live : NetIdOf[c] # 0}    \* tcpInfoReader skips unmarked sockets

MonitorInit ==
    /\ mIsRunning = TRUE /\ mIsSuspended = TRUE
    /\ mSocketEntries = <<>>
    /\ pollPc = "isRunning" /\ isSuspended = FALSE
    /\ ownerPc = "idle"
    /\ segmentsOut = [c \in Cookies |-> 0] /\ live = Cookies
    /\ told = [n \in MonitoredNetIds |-> 0]
-----------------------------------------------------------------------------
PollGoto(from, to) == pollPc = from /\ pollPc' = to
OwnerGoto(from, to) == ownerPc = from /\ ownerPc' = to

(* The loop condition of the thread. *)
isRunning ==
    /\ PollGoto("isRunning", IF mIsRunning THEN "poll" ELSE "exited")
    /\ UNCHANGED <<mIsRunning, mIsSuspended, mSocketEntries, isSuspended, ownerPc, kernel, told>>

(* updateSocketStats that forgets to store the counters it read. *)
keepOldCounters(dumped) ==
    [c \in DOMAIN mSocketEntries \cup dumped |->
        IF c \in DOMAIN mSocketEntries THEN mSocketEntries[c] ELSE 0]

(* The entries after the sockets in dumped went through updateSocketStats. *)
updateSocketStats(dumped) ==
    [c \in DOMAIN mSocketEntries \cup dumped |->
        IF c \in dumped THEN Counter(c) ELSE mSocketEntries[c]]

(* diff.sent of a socket, 32-bit arithmetic; a new entry starts from zero. *)
Diff(c) ==
    LET previous == IF c \in DOMAIN mSocketEntries THEN mSocketEntries[c] ELSE 0
    IN  (Counter(c) + CounterRange - previous) % CounterRange

(* mNetworkStats of one poll. *)
NetworkStats(dumped) ==
    [n \in MonitoredNetIds |-> MapThenSumSet(Diff, {c \in dumped : NetIdOf[c] = n})]

(***************************************************************************)
(* poll: nothing while suspended or if sock_diag cannot be opened; a dump  *)
(* that fails has updated some of the entries; a complete one drops the    *)
(* entries it did not update and reports, if there is a listener.          *)
(***************************************************************************)
poll ==
    /\ PollGoto("poll", "read")
    /\ \/ UNCHANGED <<mSocketEntries, told>>
       \/ /\ ~mIsSuspended
          /\ \E dumped \in SUBSET Reported : mSocketEntries' = updateSocketStats(dumped)
          /\ UNCHANGED told
       \/ /\ ~mIsSuspended
          /\ LET entries == updateSocketStats(Reported)
             IN  mSocketEntries' = [c \in Reported |-> entries[c]]
          /\ \/ UNCHANGED told
             \/ told' = [n \in MonitoredNetIds |-> told[n] + NetworkStats(Reported)[n]]
    /\ UNCHANGED <<mIsRunning, mIsSuspended, isSuspended, ownerPc, kernel>>

(* waitForNextPoll, first critical section. *)
readSuspended ==
    /\ PollGoto("read", "wait")
    /\ isSuspended' = mIsSuspended
    /\ UNCHANGED <<mIsRunning, mIsSuspended, mSocketEntries, ownerPc, kernel, told>>

(* waitForNextPoll, second one: the condition is not looked at again. *)
waitForNextPoll ==
    /\ PollGoto("wait", IF isSuspended THEN "waiting" ELSE "sleeping")
    /\ UNCHANGED <<mIsRunning, mIsSuspended, mSocketEntries, isSuspended, ownerPc, kernel, told>>

(* wait_for returns. *)
sleepEnds ==
    /\ PollGoto("sleeping", "isRunning")
    /\ UNCHANGED <<mIsRunning, mIsSuspended, mSocketEntries, isSuspended, ownerPc, kernel, told>>

(* wait returns although nobody notified, as the standard allows. *)
spuriousWakeup ==
    /\ PollGoto("waiting", "isRunning")
    /\ UNCHANGED <<mIsRunning, mIsSuspended, mSocketEntries, isSuspended, ownerPc, kernel, told>>
-----------------------------------------------------------------------------
(* notify_all wakes the thread if it waits now; it leaves no trace if not. *)
notify_all == pollPc' = IF pollPc \in {"waiting", "sleeping"} THEN "isRunning" ELSE pollPc

resumePolling ==
    /\ OwnerGoto("idle", IF mIsSuspended THEN "notify" ELSE "idle")
    /\ mIsSuspended' = FALSE
    /\ UNCHANGED <<mIsRunning, mSocketEntries, pollPc, isSuspended, kernel, told>>

resumeNotifies ==
    /\ OwnerGoto("notify", "idle")
    /\ notify_all
    /\ UNCHANGED <<mIsRunning, mIsSuspended, mSocketEntries, isSuspended, kernel, told>>

(* The entries go, so the next poll reports every socket from zero again. *)
suspendPolling ==
    /\ OwnerGoto("idle", "idle")
    /\ mIsSuspended' = TRUE
    /\ mSocketEntries' = IF mIsSuspended THEN mSocketEntries ELSE <<>>
    /\ told' = IF mIsSuspended THEN told ELSE [n \in MonitoredNetIds |-> 0]
    /\ UNCHANGED <<mIsRunning, pollPc, isSuspended, kernel>>

destroy ==
    /\ OwnerGoto("idle", "destroyNotify")
    /\ mIsRunning' = FALSE /\ mIsSuspended' = TRUE
    /\ UNCHANGED <<mSocketEntries, pollPc, isSuspended, kernel, told>>

destroyNotifies ==
    /\ OwnerGoto("destroyNotify", "join")
    /\ notify_all
    /\ UNCHANGED <<mIsRunning, mIsSuspended, mSocketEntries, isSuspended, kernel, told>>

join ==
    /\ pollPc = "exited"
    /\ OwnerGoto("join", "destroyed")
    /\ UNCHANGED <<mIsRunning, mIsSuspended, mSocketEntries, pollPc, isSuspended, kernel, told>>
-----------------------------------------------------------------------------
SendSegment(c) ==
    /\ c \in live /\ segmentsOut[c] < MaxSegments
    /\ segmentsOut' = [segmentsOut EXCEPT ![c] = @ + 1]
    /\ UNCHANGED <<monitor, live, told>>

CloseSocket(c) ==
    /\ live' = live \ {c}
    /\ UNCHANGED <<monitor, segmentsOut, told>>

PollStep == isRunning \/ poll \/ readSuspended \/ waitForNextPoll \/ sleepEnds
OwnerReturns == resumeNotifies \/ destroyNotifies \/ join

MonitorNext ==
    \/ PollStep \/ spuriousWakeup
    \/ resumePolling \/ suspendPolling \/ destroy
    \/ OwnerReturns
    \/ \E c \in Cookies : SendSegment(c) \/ CloseSocket(c)

(* The thread runs, its sleeps end, and a call that was begun goes on. *)
MonitorFairness == WF_monitorVars(PollStep) /\ WF_monitorVars(OwnerReturns)

MonitorSpec == MonitorInit /\ [][MonitorNext]_monitorVars /\ MonitorFairness
-----------------------------------------------------------------------------
(***************************************************************************)
(* Between two suspensions the listener is never told of a segment twice,  *)
(* whatever dumps fail, sockets close and counters wrap around: what poll  *)
(* reported for a network is at most what its sockets sent.                *)
(***************************************************************************)
NoSegmentReportedTwice ==
    \A n \in MonitoredNetIds :
        told[n] <= MapThenSumSet(LAMBDA c : segmentsOut[c], {c \in Cookies : NetIdOf[c] = n})

(***************************************************************************)
(* The description of the flags (TcpSocketMonitor.h): mIsRunning is "True  *)
(* while the polling thread should poll", mIsSuspended "True if the        *)
(* polling thread should sleep until notified".  So a monitor that is      *)
(* running and not suspended gets to poll.                                 *)
(***************************************************************************)
ResumedMonitorPolls == (mIsRunning /\ ~mIsSuspended) ~> (pollPc = "poll" \/ mIsSuspended)
=============================================================================
