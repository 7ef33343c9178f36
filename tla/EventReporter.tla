---------------------------- MODULE EventReporter ----------------------------
(***************************************************************************)
(* EventReporter and the NetlinkHandler threads that send events through   *)
(* it.  A listener process registers by a binder call, each of which       *)
(* arrives as an object of its own, so registrations are numbered by call. *)
(* A handler thread reads an event from its netlink socket, copies the map *)
(* of listeners and calls them one after the other.                        *)
(***************************************************************************)
EXTENDS Naturals, Sequences, FiniteSets

CONSTANTS Listeners,        \* processes that register
          MaxCalls,         \* bound on register calls
          Handlers,         \* NetlinkHandler threads
          MaxEvents,        \* bound on the events of a handler
          RETRY_ATTEMPTS    \* retries of a failed transaction

ASSUME EventBoundsAssumption == MaxCalls \in Nat /\ MaxEvents \in Nat /\ RETRY_ATTEMPTS \in Nat

VARIABLES
    mUnsolListenerMap,      \* registrations
    callers,                \* sequence: the process that made each register call
    pending,                \* calls that have not reached netd
    linked,                 \* registrations whose linkToDeath succeeded
    alive, obituarySent,    \* processes
    dying,                  \* registrations whose binderDied is due
    handler,                \* thread -> its local state
    since,                  \* registration -> events each handler had read before it
    received, missed        \* history: events got and given up, by registration and handler

eventVars == <<mUnsolListenerMap, callers, pending, linked, alive, obituarySent, dying,
               handler, since, received, missed>>

Registrations == 1 .. MaxCalls
Owner(r) == callers[r]
Waiting(n) == [count |-> n, todo |-> {}, current |-> 0, attempt |-> 0]

EventInit ==
    /\ mUnsolListenerMap = {} /\ callers = <<>> /\ pending = {} /\ linked = {}
    /\ alive = Listeners /\ obituarySent = {} /\ dying = {}
    /\ handler = [h \in Handlers |-> Waiting(0)]
    /\ since = [r \in Registrations |-> [h \in Handlers |-> 0]]
    /\ received = [r \in Registrations |-> [h \in Handlers |-> <<>>]]
    /\ missed = [r \in Registrations |-> [h \in Handlers |-> {}]]
-----------------------------------------------------------------------------
(* A process sends a register transaction; it may die before netd serves it. *)
CallRegister(l) ==
    /\ l \in alive /\ Len(callers) < MaxCalls
    /\ callers' = Append(callers, l)
    /\ pending' = pending \cup {Len(callers) + 1}
    /\ UNCHANGED <<mUnsolListenerMap, linked, alive, obituarySent, dying, handler, since,
                   received, missed>>

(* Under mUnsolicitedMutex; the result of linkToDeath is not looked at. *)
registerUnsolEventListener(r) ==
    /\ r \in pending
    /\ pending' = pending \ {r}
    /\ linked' = IF Owner(r) \in obituarySent THEN linked ELSE linked \cup {r}
    /\ mUnsolListenerMap' = mUnsolListenerMap \cup {r}
    /\ since' = [since EXCEPT ![r] = [h \in Handlers |-> handler[h].count]]
    /\ UNCHANGED <<callers, alive, obituarySent, dying, handler, received, missed>>

Die(l) ==
    /\ alive' = alive \ {l}
    /\ UNCHANGED <<mUnsolListenerMap, callers, pending, linked, obituarySent, dying, handler,
                   since, received, missed>>

(* The kernel reports the death; every linked recipient is called once. *)
SendObituary(l) ==
    /\ l \notin alive /\ l \notin obituarySent
    /\ \E r \in linked : Owner(r) = l
    /\ obituarySent' = obituarySent \cup {l}
    /\ dying' = dying \cup {r \in linked : Owner(r) = l}
    /\ UNCHANGED <<mUnsolListenerMap, callers, pending, linked, alive, handler, since,
                   received, missed>>

(* binderDied that only logs. *)
ignoreDeath(r) ==
    /\ r \in dying
    /\ dying' = dying \ {r}
    /\ UNCHANGED <<mUnsolListenerMap, callers, pending, linked, alive, obituarySent, handler,
                   since, received, missed>>

(* binderDied of a recipient: unregisterUnsolEventListener. *)
binderDied(r) ==
    /\ r \in dying
    /\ dying' = dying \ {r}
    /\ mUnsolListenerMap' = mUnsolListenerMap \ {r}
    /\ UNCHANGED <<callers, pending, linked, alive, obituarySent, handler, since, received,
                   missed>>
-----------------------------------------------------------------------------
Busy(h) == handler[h].current # 0 \/ handler[h].todo # {}

(* onEvent up to the copy of the listener map. *)
readEvent(h) ==
    /\ ~Busy(h) /\ handler[h].count < MaxEvents
    /\ handler' = [handler EXCEPT ![h].count = @ + 1, ![h].todo = mUnsolListenerMap]
    /\ UNCHANGED <<mUnsolListenerMap, callers, pending, linked, alive, obituarySent, dying,
                   since, received, missed>>

(* The loop of LOG_EVENT_FUNC goes on to a listener of the copy. *)
nextListener(h, r) ==
    /\ handler[h].current = 0 /\ r \in handler[h].todo
    /\ handler' = [handler EXCEPT ![h].todo = @ \ {r}, ![h].current = r, ![h].attempt = 0]
    /\ UNCHANGED <<mUnsolListenerMap, callers, pending, linked, alive, obituarySent, dying,
                   since, received, missed>>

(* BINDER_RETRY that tries once more whatever the first attempt gave. *)
transactionRepeated(h) ==
    LET r == handler[h].current
    IN  /\ r # 0 /\ Owner(r) \in alive
        /\ received' = [received EXCEPT ![r][h] = Append(@, handler[h].count)]
        /\ handler' = [handler EXCEPT ![h].current = IF handler[h].attempt = 0 THEN r ELSE 0,
                                      ![h].attempt = 1]
        /\ UNCHANGED <<mUnsolListenerMap, callers, pending, linked, alive, obituarySent, dying,
                       since, missed>>

(* The one-way transaction is queued for a live process. *)
transactionSucceeds(h) ==
    LET r == handler[h].current
    IN  /\ r # 0 /\ Owner(r) \in alive
        /\ received' = [received EXCEPT ![r][h] = Append(@, handler[h].count)]
        /\ handler' = [handler EXCEPT ![h].current = 0]
        /\ UNCHANGED <<mUnsolListenerMap, callers, pending, linked, alive, obituarySent, dying,
                       since, missed>>

(* BINDER_RETRY: EX_TRANSACTION_FAILED, also for a process that has died. *)
transactionFails(h) ==
    LET r == handler[h].current
        giveUp == handler[h].attempt >= RETRY_ATTEMPTS
    IN  /\ r # 0
        /\ handler' = [handler EXCEPT ![h].current = IF giveUp THEN 0 ELSE r,
                                      ![h].attempt = IF giveUp THEN @ ELSE @ + 1]
        /\ missed' = IF giveUp THEN [missed EXCEPT ![r][h] = @ \cup {handler[h].count}]
                     ELSE missed
        /\ UNCHANGED <<mUnsolListenerMap, callers, pending, linked, alive, obituarySent, dying,
                       since, received>>

HandlerGoesOn(h) ==
    \/ \E r \in Registrations : nextListener(h, r)
    \/ transactionSucceeds(h)
    \/ transactionFails(h)

EventNext ==
    \/ \E l \in Listeners : CallRegister(l) \/ Die(l) \/ SendObituary(l)
    \/ \E r \in Registrations : registerUnsolEventListener(r) \/ binderDied(r)
    \/ \E h \in Handlers : readEvent(h) \/ HandlerGoesOn(h)

(* Threads run; the kernel delivers obituaries. *)
EventFairness ==
    /\ \A h \in Handlers : WF_eventVars(HandlerGoesOn(h))
    /\ \A l \in Listeners : WF_eventVars(SendObituary(l))
    /\ \A r \in Registrations : WF_eventVars(binderDied(r))

EventSpec == EventInit /\ [][EventNext]_eventVars /\ EventFairness
-----------------------------------------------------------------------------
IsIncreasing(s) == \A i \in 1 .. Len(s) - 1 : s[i] < s[i + 1]

(***************************************************************************)
(* A registration gets, in order and without duplicates, every event that  *)
(* a handler read since it was registered, except those on which all the   *)
(* attempts of BINDER_RETRY failed: copying the map outside the lock,      *)
(* other listeners that die and retries lose, repeat and reorder nothing.  *)
(***************************************************************************)
EventsDeliveredInOrder ==
    \A r \in mUnsolListenerMap, h \in Handlers :
        LET got == received[r][h]
            inProgress == IF r \in handler[h].todo \cup {handler[h].current}
                          THEN {handler[h].count} ELSE {}
        IN  /\ IsIncreasing(got)
            /\ {got[i] : i \in DOMAIN got} \cup missed[r][h] \cup inProgress
                 = since[r][h] + 1 .. handler[h].count

(***************************************************************************)
(* A registration whose death recipient was linked leaves the map after    *)
(* its process died (EventReporter.cpp:57).                                *)
(***************************************************************************)
DeadListenersForgotten ==
    \A r \in Registrations :
        (r \in linked /\ Owner(r) \notin alive) ~> (r \notin mUnsolListenerMap)

==============================================================================
