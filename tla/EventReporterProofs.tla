------------------------- MODULE EventReporterProofs -------------------------
(***************************************************************************)
(* EventReporter delivers events in order, for any number of processes,    *)
(* registrations, handler threads, events and retries.                     *)
(***************************************************************************)
EXTENDS EventReporter, TLAPS

HandlerState ==
    [count : Nat, todo : SUBSET Registrations, current : Registrations \cup {0}, attempt : Nat]

(* Types; registrations are numbered by call, and are pending, in the map or over. *)
EventTypeOK ==
    /\ callers \in Seq(Listeners) /\ Len(callers) <= MaxCalls
    /\ pending \subseteq 1 .. Len(callers)
    /\ mUnsolListenerMap \subseteq 1 .. Len(callers) \ pending
    /\ handler \in [Handlers -> HandlerState]
    /\ since \in [Registrations -> [Handlers -> Nat]]
    /\ received \in [Registrations -> [Handlers -> Seq(Nat)]]
    /\ missed \in [Registrations -> [Handlers -> SUBSET Nat]]

InProgress(r, h) == r \in handler[h].todo \cup {handler[h].current}

Got(r, h) == {received[r][h][i] : i \in DOMAIN received[r][h]}

(* A registration that netd has not served is in no copy of the map and has got nothing. *)
Untouched(r, h) ==
    ~InProgress(r, h) /\ received[r][h] = <<>> /\ missed[r][h] = {}

(* What a registration in the map has got, as far as the handler has come. *)
InStep(r, h) ==
    /\ IsIncreasing(received[r][h])
    /\ since[r][h] <= handler[h].count
    /\ Got(r, h) \cup missed[r][h] \cup (IF InProgress(r, h) THEN {handler[h].count} ELSE {})
          = since[r][h] + 1 .. handler[h].count
    /\ InProgress(r, h) => handler[h].count \notin Got(r, h)

(***************************************************************************)
(* The inductive invariant.  EventsDeliveredInOrder alone is not           *)
(* inductive: a handler must not yet have delivered the event it is        *)
(* delivering, the listener it is at must have left its copy of the map,   *)
(* and a listener that registers must be in no copy made before.           *)
(***************************************************************************)
EventInv ==
    /\ EventTypeOK
    /\ \A h \in Handlers : handler[h].current \notin handler[h].todo
    /\ \A r \in pending \cup (Len(callers) + 1 .. MaxCalls), h \in Handlers : Untouched(r, h)
    /\ \A r \in mUnsolListenerMap, h \in Handlers : InStep(r, h)

-----------------------------------------------------------------------------
(* A sequence of events that a larger one is appended to stays in order. *)
LEMMA AppendLargest ==
    ASSUME NEW s \in Seq(Nat), NEW n \in Nat, IsIncreasing(s), \A i \in DOMAIN s : s[i] < n
    PROVE  /\ Append(s, n) \in Seq(Nat)
           /\ IsIncreasing(Append(s, n))
           /\ {Append(s, n)[i] : i \in DOMAIN Append(s, n)} = {s[i] : i \in DOMAIN s} \cup {n}
<1>1. /\ Append(s, n) \in Seq(Nat) /\ Len(s) \in Nat
      /\ DOMAIN s = 1 .. Len(s) /\ DOMAIN Append(s, n) = 1 .. Len(s) + 1
      /\ \A i \in 1 .. Len(s) : Append(s, n)[i] = s[i] /\ s[i] \in Nat
      /\ Append(s, n)[Len(s) + 1] = n
  OBVIOUS
<1>2. ASSUME NEW i \in 1 .. Len(Append(s, n)) - 1 PROVE Append(s, n)[i] < Append(s, n)[i + 1]
  <2>1. Len(s) \in Nat /\ Len(Append(s, n)) = Len(s) + 1 /\ i \in 1 .. Len(s)
    BY <1>1, <1>2
  <2>2. CASE i = Len(s)
    BY <1>1, <2>1, <2>2
  <2>3. CASE i < Len(s)
    <3>1. i \in 1 .. Len(s) - 1 /\ i + 1 \in 1 .. Len(s)
      BY <1>1, <2>1, <2>3
    <3>2. s[i] < s[i + 1]
      BY <3>1 DEF IsIncreasing
    <3>3. Append(s, n)[i] = s[i] /\ Append(s, n)[i + 1] = s[i + 1]
      BY <1>1, <2>1, <3>1
    <3> QED
      BY <3>2, <3>3
  <2>4. i = Len(s) \/ i < Len(s)
    BY <2>1
  <2> QED
    BY <2>2, <2>3, <2>4
<1>3. {Append(s, n)[i] : i \in DOMAIN Append(s, n)} = {s[i] : i \in DOMAIN s} \cup {n}
  <2>1. ASSUME NEW i \in DOMAIN Append(s, n)
        PROVE  Append(s, n)[i] \in {s[j] : j \in DOMAIN s} \cup {n}
    BY <1>1
  <2>2. ASSUME NEW i \in DOMAIN s PROVE s[i] \in {Append(s, n)[j] : j \in DOMAIN Append(s, n)}
    BY <1>1
  <2>3. n \in {Append(s, n)[j] : j \in DOMAIN Append(s, n)}
    BY <1>1
  <2> QED
    BY <2>1, <2>2, <2>3, Zenon
<1> QED
  BY <1>1, <1>2, <1>3, Zenon DEF IsIncreasing

(* An assignment to an entry of a history keeps its type. *)
LEMMA EntryUpdate ==
    ASSUME NEW R, NEW H, NEW V, NEW f \in [R -> [H -> V]], NEW r \in R, NEW h \in H, NEW v \in V
    PROVE  [f EXCEPT ![r][h] = v] \in [R -> [H -> V]]
OBVIOUS

(* The constructor's state. *)
LEMMA EventInitEstablishesInv == EventInit => EventInv
<1> SUFFICES ASSUME EventInit PROVE EventInv
  OBVIOUS
<1>1. EventTypeOK
  <2>1. Waiting(0) \in HandlerState
    BY DEF Waiting, HandlerState
  <2>2. <<>> \in Seq(Nat) /\ <<>> \in Seq(Listeners) /\ Len(<<>>) = 0
    OBVIOUS
  <2> QED
    BY <2>1, <2>2, EventBoundsAssumption DEF EventInit, EventTypeOK
<1>2. \A h \in Handlers : handler[h].current = 0 /\ handler[h].todo = {}
  BY DEF EventInit, Waiting
<1>3. \A r \in Registrations, h \in Handlers : Untouched(r, h)
  BY <1>2 DEF EventInit, Untouched, InProgress, Registrations
<1>4. pending \cup (Len(callers) + 1 .. MaxCalls) \subseteq Registrations
  BY DEF EventInit, Registrations
<1> QED
  BY <1>1, <1>2, <1>3, <1>4 DEF EventInv, EventInit

-----------------------------------------------------------------------------
(* What the handlers have done for a registration is not changed by a step that leaves the *)
(* handlers and the histories alone. *)
LEMMA SameProgress ==
    ASSUME UNCHANGED <<handler, received, missed>>
    PROVE  /\ \A r, h : Untouched(r, h)' = Untouched(r, h)
           /\ UNCHANGED since => \A r, h : InStep(r, h)' = InStep(r, h)
<1>1. \A r, h : InProgress(r, h)' = InProgress(r, h) /\ Got(r, h)' = Got(r, h)
  BY DEF InProgress, Got
<1> QED
  BY <1>1 DEF Untouched, InStep

(* A registration arrives; a process dies; an obituary is sent; a recipient is told. *)
LEMMA ListenersPreserveInv ==
    ASSUME EventInv,
           \/ \E l \in Listeners : CallRegister(l) \/ Die(l) \/ SendObituary(l)
           \/ \E r \in Registrations : binderDied(r)
           \/ UNCHANGED eventVars
    PROVE  EventInv'
<1>1. UNCHANGED <<handler, received, missed, since>>
  BY DEF CallRegister, Die, SendObituary, binderDied, eventVars
<1>2. CASE \E l \in Listeners : CallRegister(l)
  <2>1. PICK l \in Listeners : CallRegister(l)
    BY <1>2
  <2>2. /\ callers' = Append(callers, l) /\ pending' = pending \cup {Len(callers) + 1}
        /\ Len(callers) < MaxCalls /\ mUnsolListenerMap' = mUnsolListenerMap
    BY <2>1 DEF CallRegister
  <2>3. /\ callers' \in Seq(Listeners) /\ Len(callers') = Len(callers) + 1
        /\ Len(callers) \in Nat
    BY <2>2 DEF EventInv, EventTypeOK
  <2>4. EventTypeOK'
    <3>1. /\ pending' \subseteq 1 .. Len(callers')
          /\ mUnsolListenerMap' \subseteq 1 .. Len(callers') \ pending'
      <4>1. /\ pending \subseteq 1 .. Len(callers)
            /\ mUnsolListenerMap \subseteq 1 .. Len(callers) \ pending
        BY DEF EventInv, EventTypeOK
      <4>2. 1 .. Len(callers) \subseteq 1 .. Len(callers') /\ Len(callers) + 1 \in 1 .. Len(callers')
            /\ Len(callers) + 1 \notin 1 .. Len(callers)
        BY <2>3
      <4> QED
        BY <2>2, <4>1, <4>2, Zenon
    <3>2. Len(callers') <= MaxCalls
      BY <2>2, <2>3, EventBoundsAssumption
    <3> QED
      BY <1>1, <2>3, <3>1, <3>2 DEF EventInv, EventTypeOK
  <2>5. pending' \cup (Len(callers') + 1 .. MaxCalls)
           \subseteq pending \cup (Len(callers) + 1 .. MaxCalls)
    BY <2>2, <2>3, EventBoundsAssumption
  <2> QED
    BY <1>1, <2>2, <2>4, <2>5, SameProgress DEF EventInv
<1>3. CASE ~\E l \in Listeners : CallRegister(l)
  <2>1. UNCHANGED <<callers, pending>> /\ mUnsolListenerMap' \subseteq mUnsolListenerMap
    BY <1>3 DEF Die, SendObituary, binderDied, eventVars
  <2>2. EventTypeOK'
    BY <1>1, <2>1 DEF EventInv, EventTypeOK
  <2> QED
    BY <1>1, <2>1, <2>2, SameProgress DEF EventInv
<1> QED
  BY <1>2, <1>3

(* A registration is put into the map: no handler has it in its copy, and all that it will get *)
(* is still to come. *)
LEMMA RegisterPreservesInv ==
    ASSUME EventInv, NEW r \in Registrations, registerUnsolEventListener(r)
    PROVE  EventInv'
<1>1. /\ r \in pending /\ pending' = pending \ {r}
      /\ mUnsolListenerMap' = mUnsolListenerMap \cup {r}
      /\ since' = [since EXCEPT ![r] = [h \in Handlers |-> handler[h].count]]
      /\ UNCHANGED <<callers, handler, received, missed>>
  BY DEF registerUnsolEventListener
<1>2. \A h \in Handlers : handler[h].count \in Nat
  BY DEF EventInv, EventTypeOK, HandlerState
<1>3. since' \in [Registrations -> [Handlers -> Nat]]
  BY <1>1, <1>2 DEF EventInv, EventTypeOK
<1>4. EventTypeOK'
  BY <1>1, <1>3 DEF EventInv, EventTypeOK
<1>5. ASSUME NEW q \in mUnsolListenerMap', NEW h \in Handlers PROVE InStep(q, h)'
  <2>1. CASE q = r
    <3>1. since'[q][h] = handler[h].count
      BY <1>1, <2>1 DEF EventInv, EventTypeOK
    <3>2. Untouched(r, h)
      BY <1>1 DEF EventInv
    <3>3. Got(q, h)' = {} /\ IsIncreasing(received'[q][h])
      BY <1>1, <2>1, <3>2 DEF Untouched, Got, IsIncreasing
    <3>4. ~InProgress(q, h)' /\ missed'[q][h] = {}
      BY <1>1, <2>1, <3>2 DEF Untouched, InProgress
    <3>5. handler[h].count + 1 .. handler[h].count = {}
      BY <1>2
    <3> QED
      BY <1>1, <1>2, <3>1, <3>3, <3>4, <3>5 DEF InStep
  <2>2. CASE q # r
    <3>1. q \in mUnsolListenerMap /\ q \in Registrations
      BY <1>1, <2>2, EventBoundsAssumption DEF EventInv, EventTypeOK, Registrations
    <3>2. since'[q] = since[q]
      BY <1>1, <2>2, <3>1 DEF EventInv, EventTypeOK
    <3>3. InProgress(q, h)' = InProgress(q, h) /\ Got(q, h)' = Got(q, h)
      BY <1>1 DEF InProgress, Got
    <3>4. InStep(q, h)
      BY <3>1 DEF EventInv
    <3> QED
      BY <1>1, <3>2, <3>3, <3>4 DEF InStep
  <2> QED
    BY <2>1, <2>2
<1> QED
  BY <1>1, <1>4, <1>5, SameProgress DEF EventInv

-----------------------------------------------------------------------------
(* The handler threads *)

(* Registrations that are not in the map are not in what is copied from it. *)
LEMMA UnservedNotInMap ==
    ASSUME EventInv, NEW q \in pending \cup (Len(callers) + 1 .. MaxCalls)
    PROVE  q \notin mUnsolListenerMap /\ q # 0 /\ q \in Registrations
BY EventBoundsAssumption DEF EventInv, EventTypeOK, Registrations

(* The map holds registrations. *)
LEMMA MapOfRegistrations ==
    ASSUME EventInv
    PROVE  mUnsolListenerMap \subseteq Registrations /\ 0 \notin mUnsolListenerMap
BY EventBoundsAssumption DEF EventInv, EventTypeOK, Registrations

(* A step of one handler has to be looked at for that handler only. *)
LEMMA OneHandler ==
    ASSUME EventInv, NEW h \in Handlers,
           UNCHANGED <<mUnsolListenerMap, callers, pending, since>>,
           handler' \in [Handlers -> HandlerState],
           received' \in [Registrations -> [Handlers -> Seq(Nat)]],
           missed' \in [Registrations -> [Handlers -> SUBSET Nat]],
           \A k \in Handlers \ {h} : handler'[k] = handler[k],
           \A q \in Registrations, k \in Handlers \ {h} :
               received'[q][k] = received[q][k] /\ missed'[q][k] = missed[q][k],
           handler'[h].current \notin handler'[h].todo,
           \A q \in pending \cup (Len(callers) + 1 .. MaxCalls) : Untouched(q, h)',
           \A q \in mUnsolListenerMap : InStep(q, h)'
    PROVE  EventInv'
<1>1. EventTypeOK'
  BY DEF EventInv, EventTypeOK
<1>2. pending \cup (Len(callers) + 1 .. MaxCalls) \cup mUnsolListenerMap \subseteq Registrations
  BY UnservedNotInMap, MapOfRegistrations
<1>3. ASSUME NEW q \in Registrations, NEW k \in Handlers \ {h}
      PROVE  Untouched(q, k)' = Untouched(q, k) /\ InStep(q, k)' = InStep(q, k)
  <2>1. InProgress(q, k)' = InProgress(q, k) /\ Got(q, k)' = Got(q, k)
    BY <1>3 DEF InProgress, Got
  <2> QED
    BY <1>3, <2>1 DEF Untouched, InStep
<1>4. \A k \in Handlers : handler'[k].current \notin handler'[k].todo
  BY Zenon DEF EventInv
<1>5. \A q \in pending \cup (Len(callers) + 1 .. MaxCalls), k \in Handlers : Untouched(q, k)'
  BY <1>2, <1>3, Zenon DEF EventInv
<1>6. \A q \in mUnsolListenerMap, k \in Handlers : InStep(q, k)'
  BY <1>2, <1>3, Zenon DEF EventInv
<1> QED
  BY <1>1, <1>4, <1>5, <1>6 DEF EventInv

(* A handler that has read an event owes it to the listeners of the map. *)
LEMMA ReadEventPreservesInv ==
    ASSUME EventInv, NEW h \in Handlers, readEvent(h)
    PROVE  EventInv'
<1>1. handler[h] \in HandlerState /\ handler[h].current = 0 /\ handler[h].todo = {}
  BY DEF EventInv, EventTypeOK, HandlerState, readEvent, Busy
<1>2. /\ handler'[h].count = handler[h].count + 1
      /\ handler'[h].todo = mUnsolListenerMap
      /\ handler'[h].current = 0
      /\ handler' \in [Handlers -> HandlerState]
      /\ \A k \in Handlers \ {h} : handler'[k] = handler[k]
  <2>1. mUnsolListenerMap \in SUBSET Registrations /\ handler[h].count + 1 \in Nat
    BY <1>1, MapOfRegistrations DEF HandlerState
  <2>2. handler' = [handler EXCEPT ![h] = [handler[h] EXCEPT !.count = handler[h].count + 1,
                                                            !.todo = mUnsolListenerMap]]
    BY <1>1, Zenon DEF readEvent, EventInv, EventTypeOK, HandlerState
  <2> QED
    BY <1>1, <2>1, <2>2, Zenon DEF EventInv, EventTypeOK, HandlerState
<1>3. /\ UNCHANGED <<mUnsolListenerMap, callers, pending, since, received, missed>>
      /\ received' \in [Registrations -> [Handlers -> Seq(Nat)]]
      /\ missed' \in [Registrations -> [Handlers -> SUBSET Nat]]
  BY DEF readEvent, EventInv, EventTypeOK
<1>4. mUnsolListenerMap \subseteq Registrations /\ 0 \notin mUnsolListenerMap
  BY MapOfRegistrations
<1>5. ASSUME NEW q \in pending \cup (Len(callers) + 1 .. MaxCalls) PROVE Untouched(q, h)'
  <2>1. Untouched(q, h)
    BY DEF EventInv
  <2> QED
    BY <1>2, <1>3, <2>1, UnservedNotInMap DEF Untouched, InProgress
<1>6. ASSUME NEW q \in mUnsolListenerMap PROVE InStep(q, h)'
  <2>1. InStep(q, h) /\ ~InProgress(q, h)
    BY <1>1, <1>4 DEF EventInv, InProgress
  <2>2. InProgress(q, h)' /\ Got(q, h)' = Got(q, h)
    BY <1>2, <1>3 DEF InProgress, Got
  <2>3. q \in Registrations
    BY <1>4
  <2>4. since[q][h] \in Nat /\ handler[h].count \in Nat /\ since[q][h] <= handler[h].count
    BY <1>1, <2>1, <2>3 DEF EventInv, EventTypeOK, HandlerState, InStep
  <2>5. since[q][h] + 1 .. handler[h].count + 1
           = (since[q][h] + 1 .. handler[h].count) \cup {handler[h].count + 1}
    BY <2>4
  <2>6. Got(q, h) \subseteq since[q][h] + 1 .. handler[h].count
    BY <2>1 DEF InStep
  <2>7. handler[h].count + 1 \notin Got(q, h)
    BY <2>4, <2>6
  <2> QED
    BY <1>2, <1>3, <2>1, <2>2, <2>4, <2>5, <2>7 DEF InStep
<1> QED
  BY <1>2, <1>3, <1>4, <1>5, <1>6, OneHandler, Zenon

(* The loop goes on to a listener that is in the copy. *)
LEMMA NextListenerPreservesInv ==
    ASSUME EventInv, NEW h \in Handlers, NEW r \in Registrations, nextListener(h, r)
    PROVE  EventInv'
<1>1. handler[h] \in HandlerState /\ handler[h].current = 0 /\ r \in handler[h].todo
  BY DEF EventInv, EventTypeOK, nextListener
<1>2. /\ handler'[h].count = handler[h].count
      /\ handler'[h].todo = handler[h].todo \ {r}
      /\ handler'[h].current = r
      /\ handler' \in [Handlers -> HandlerState]
      /\ \A k \in Handlers \ {h} : handler'[k] = handler[k]
  BY <1>1, Zenon DEF nextListener, EventInv, EventTypeOK, HandlerState
<1>3. /\ UNCHANGED <<mUnsolListenerMap, callers, pending, since, received, missed>>
      /\ received' \in [Registrations -> [Handlers -> Seq(Nat)]]
      /\ missed' \in [Registrations -> [Handlers -> SUBSET Nat]]
  BY DEF nextListener, EventInv, EventTypeOK
<1>4. \A q \in Registrations : InProgress(q, h)' = InProgress(q, h) /\ Got(q, h)' = Got(q, h)
  BY <1>1, <1>2, <1>3 DEF InProgress, Got, Registrations
<1>5. ASSUME NEW q \in pending \cup (Len(callers) + 1 .. MaxCalls) PROVE Untouched(q, h)'
  BY <1>3, <1>4, UnservedNotInMap DEF EventInv, Untouched
<1>6. ASSUME NEW q \in mUnsolListenerMap PROVE InStep(q, h)'
  <2>1. q \in Registrations
    BY MapOfRegistrations
  <2> QED
    BY <1>2, <1>3, <1>4, <2>1 DEF EventInv, InStep
<1> QED
  BY <1>2, <1>3, <1>5, <1>6, OneHandler, Zenon

(***************************************************************************)
(* When the handler is done with a listener, by delivery or by giving up,  *)
(* its event has moved from what is in progress to what was got or missed. *)
(***************************************************************************)
LEMMA ListenerDone ==
    ASSUME EventInv, NEW h \in Handlers, NEW r \in Registrations, r = handler[h].current,
           UNCHANGED <<mUnsolListenerMap, callers, pending, since>>,
           handler' = [handler EXCEPT ![h].current = 0],
           \/ /\ received' = [received EXCEPT ![r][h] = Append(@, handler[h].count)]
              /\ missed' = missed
           \/ /\ received' = received
              /\ missed' = [missed EXCEPT ![r][h] = @ \cup {handler[h].count}]
    PROVE  EventInv'
<1> DEFINE n == handler[h].count
<1>1. handler[h] \in HandlerState /\ n \in Nat /\ r \notin handler[h].todo /\ r # 0
  BY DEF EventInv, EventTypeOK, HandlerState, Registrations
<1>2. /\ handler'[h].count = n
      /\ handler'[h].todo = handler[h].todo
      /\ handler'[h].current = 0
      /\ handler' \in [Handlers -> HandlerState]
      /\ \A k \in Handlers \ {h} : handler'[k] = handler[k]
  BY <1>1, Zenon DEF EventInv, EventTypeOK, HandlerState
<1>3. /\ received \in [Registrations -> [Handlers -> Seq(Nat)]]
      /\ missed \in [Registrations -> [Handlers -> SUBSET Nat]]
  BY Zenon DEF EventInv, EventTypeOK
<1>4. /\ received' \in [Registrations -> [Handlers -> Seq(Nat)]]
      /\ missed' \in [Registrations -> [Handlers -> SUBSET Nat]]
  <2>1. Append(received[r][h], n) \in Seq(Nat) /\ missed[r][h] \cup {n} \in SUBSET Nat
    BY <1>1, <1>3
  <2>4. CASE /\ received' = [received EXCEPT ![r][h] = Append(@, n)]
             /\ missed' = missed
    <3>1. received' = [received EXCEPT ![r][h] = Append(received[r][h], n)]
      BY <2>4
    <3> QED
      BY <1>3, <2>1, <2>4, <3>1, EntryUpdate
  <2>5. CASE /\ received' = received
             /\ missed' = [missed EXCEPT ![r][h] = @ \cup {n}]
    <3>1. missed' = [missed EXCEPT ![r][h] = missed[r][h] \cup {n}]
      BY <2>5
    <3> QED
      BY <1>3, <2>1, <2>5, <3>1, EntryUpdate
  <2> QED
    BY <2>4, <2>5
<1>5. \A q \in Registrations, k \in Handlers :
         q # r \/ k # h => received'[q][k] = received[q][k] /\ missed'[q][k] = missed[q][k]
  BY <1>3
<1>6. \A q \in Registrations : q # r => /\ InProgress(q, h)' = InProgress(q, h)
                                        /\ Got(q, h)' = Got(q, h)
  BY <1>1, <1>2, <1>5 DEF InProgress, Got, Registrations
<1>7. ASSUME NEW q \in pending \cup (Len(callers) + 1 .. MaxCalls) PROVE Untouched(q, h)'
  <2>1. Untouched(q, h) /\ q \in Registrations /\ q # r
    BY UnservedNotInMap DEF EventInv, Untouched, InProgress
  <2> QED
    BY <1>5, <1>6, <2>1 DEF Untouched
<1>8. ASSUME NEW q \in mUnsolListenerMap PROVE InStep(q, h)'
  <2>1. InStep(q, h) /\ q \in Registrations
    BY MapOfRegistrations DEF EventInv
  <2>2. CASE q # r
    BY <1>2, <1>5, <1>6, <2>1, <2>2 DEF InStep
  <2>3. CASE q = r
    <3>1. InProgress(r, h) /\ ~InProgress(r, h)'
      BY <1>1, <1>2 DEF InProgress
    <3>2. since[r][h] \in Nat /\ received[r][h] \in Seq(Nat)
      BY <1>3 DEF EventInv, EventTypeOK
    <3>3. /\ IsIncreasing(received[r][h])
          /\ since[r][h] <= n
          /\ Got(r, h) \cup missed[r][h] \cup {n} = since[r][h] + 1 .. n
          /\ n \notin Got(r, h)
      BY <2>1, <2>3, <3>1 DEF InStep
    <3>4. CASE /\ received' = [received EXCEPT ![r][h] = Append(@, n)]
               /\ missed' = missed
      <4>1. received'[r][h] = Append(received[r][h], n)
        BY <1>3, <3>4
      <4>2. \A i \in DOMAIN received[r][h] : received[r][h][i] < n
        <5> SUFFICES ASSUME NEW i \in DOMAIN received[r][h] PROVE received[r][h][i] < n
          OBVIOUS
        <5>1. received[r][h][i] \in Got(r, h)
          BY DEF Got
        <5>2. received[r][h][i] \in since[r][h] + 1 .. n /\ received[r][h][i] # n
          BY <3>3, <5>1
        <5> QED
          BY <1>1, <3>2, <5>2
      <4>3. IsIncreasing(received'[r][h]) /\ Got(r, h)' = Got(r, h) \cup {n}
        <5> DEFINE s == received[r][h]
        <5>1. s \in Seq(Nat) /\ IsIncreasing(s) /\ \A i \in DOMAIN s : s[i] < n
          BY <3>2, <3>3, <4>2
        <5>2. Got(r, h) = {s[i] : i \in DOMAIN s}
          BY DEF Got
        <5>3. Got(r, h)' = {Append(s, n)[i] : i \in DOMAIN Append(s, n)}
          BY <4>1, Zenon DEF Got
        <5>4. n \in Nat
          BY <1>1
        <5> HIDE DEF s, n
        <5>5. /\ IsIncreasing(Append(s, n))
              /\ {Append(s, n)[i] : i \in DOMAIN Append(s, n)} = {s[i] : i \in DOMAIN s} \cup {n}
          BY <5>1, <5>4, AppendLargest, Zenon
        <5> QED
          BY <4>1, <5>2, <5>3, <5>5, Zenon DEF s
      <4> QED
        BY <1>2, <2>3, <3>1, <3>3, <3>4, <4>3 DEF InStep
    <3>5. CASE /\ received' = received
               /\ missed' = [missed EXCEPT ![r][h] = @ \cup {n}]
      <4>1. missed'[r][h] = missed[r][h] \cup {n}
        BY <1>3, <3>5
      <4>2. Got(r, h)' = Got(r, h)
        BY <3>5 DEF Got
      <4> QED
        BY <1>2, <2>3, <3>1, <3>3, <3>5, <4>1, <4>2 DEF InStep
    <3> QED
      BY <3>4, <3>5
  <2> QED
    BY <2>2, <2>3
<1>9. handler'[h].current \notin handler'[h].todo
  BY <1>1, <1>2 DEF HandlerState, Registrations
<1>10. \A q \in Registrations, k \in Handlers \ {h} :
          received'[q][k] = received[q][k] /\ missed'[q][k] = missed[q][k]
  BY <1>5
<1> QED
  BY <1>2, <1>4, <1>7, <1>8, <1>9, <1>10, OneHandler, Zenon

(* An attempt that fails and is not the last one changes the number of attempts only. *)
LEMMA RetryPreservesInv ==
    ASSUME EventInv, NEW h \in Handlers, transactionFails(h),
           handler[h].attempt < RETRY_ATTEMPTS
    PROVE  EventInv'
<1>1. handler[h] \in HandlerState
  BY DEF EventInv, EventTypeOK
<1>2. ~(handler[h].attempt >= RETRY_ATTEMPTS)
  BY <1>1, EventBoundsAssumption DEF HandlerState
<1>3. /\ handler' = [handler EXCEPT ![h].current = handler[h].current, ![h].attempt = @ + 1]
      /\ UNCHANGED <<mUnsolListenerMap, callers, pending, since, received, missed>>
  BY <1>2, Zenon DEF transactionFails
<1>4. /\ handler'[h].count = handler[h].count
      /\ handler'[h].todo = handler[h].todo
      /\ handler'[h].current = handler[h].current
      /\ handler' \in [Handlers -> HandlerState]
      /\ \A k \in Handlers \ {h} : handler'[k] = handler[k]
  <2>1. handler[h].attempt + 1 \in Nat
    BY <1>1 DEF HandlerState
  <2> QED
    BY <1>1, <1>3, <2>1, Zenon DEF EventInv, EventTypeOK, HandlerState
<1>5. \A q : InProgress(q, h)' = InProgress(q, h) /\ Got(q, h)' = Got(q, h)
  BY <1>3, <1>4 DEF InProgress, Got
<1>6. \A q : Untouched(q, h)' = Untouched(q, h) /\ InStep(q, h)' = InStep(q, h)
  BY <1>3, <1>4, <1>5 DEF Untouched, InStep
<1>7. \A q \in pending \cup (Len(callers) + 1 .. MaxCalls) : Untouched(q, h)'
  BY <1>6 DEF EventInv
<1>8. \A q \in mUnsolListenerMap : InStep(q, h)'
  BY <1>6 DEF EventInv
<1>9. handler'[h].current \notin handler'[h].todo
  BY <1>4 DEF EventInv
<1>10. /\ received' \in [Registrations -> [Handlers -> Seq(Nat)]]
       /\ missed' \in [Registrations -> [Handlers -> SUBSET Nat]]
  BY <1>3 DEF EventInv, EventTypeOK
<1> QED
  BY <1>3, <1>4, <1>7, <1>8, <1>9, <1>10, OneHandler, Zenon

(* A transaction succeeds, or fails for the last time or not. *)
LEMMA TransactionPreservesInv ==
    ASSUME EventInv, NEW h \in Handlers, transactionSucceeds(h) \/ transactionFails(h)
    PROVE  EventInv'
<1>1. /\ handler[h] \in HandlerState /\ handler \in [Handlers -> HandlerState]
      /\ handler[h].current \in Registrations
  BY DEF EventInv, EventTypeOK, HandlerState, transactionSucceeds, transactionFails
<1>2. CASE transactionSucceeds(h)
  BY <1>1, <1>2, ListenerDone, Zenon DEF transactionSucceeds
<1>3. CASE transactionFails(h) /\ handler[h].attempt >= RETRY_ATTEMPTS
  <2>1. /\ handler' = [handler EXCEPT ![h].current = 0, ![h].attempt = @]
        /\ missed' = [missed EXCEPT ![handler[h].current][h] = @ \cup {handler[h].count}]
        /\ UNCHANGED <<mUnsolListenerMap, callers, pending, since, received>>
    BY <1>3, Zenon DEF transactionFails
  <2>2. handler' = [handler EXCEPT ![h].current = 0]
    BY <1>1, <2>1, Zenon DEF HandlerState
  <2> QED
    BY <1>1, <2>1, <2>2, ListenerDone, Zenon
<1>4. CASE transactionFails(h) /\ handler[h].attempt < RETRY_ATTEMPTS
  BY <1>4, RetryPreservesInv
<1> QED
  BY <1>1, <1>2, <1>3, <1>4, EventBoundsAssumption DEF HandlerState

(* Every step keeps the invariant. *)
LEMMA EventNextPreservesInv == EventInv /\ [EventNext]_eventVars => EventInv'
BY ListenersPreserveInv, RegisterPreservesInv, ReadEventPreservesInv, NextListenerPreservesInv,
   TransactionPreservesInv
DEF EventNext, HandlerGoesOn

(* The invariant implies the property that TLC checks. *)
LEMMA EventInvSuffices == EventInv => EventsDeliveredInOrder
<1> SUFFICES ASSUME EventInv, NEW r \in mUnsolListenerMap, NEW h \in Handlers
             PROVE  /\ IsIncreasing(received[r][h])
                    /\ {received[r][h][i] : i \in DOMAIN received[r][h]} \cup missed[r][h]
                       \cup (IF r \in handler[h].todo \cup {handler[h].current}
                             THEN {handler[h].count} ELSE {})
                         = since[r][h] + 1 .. handler[h].count
  BY DEF EventsDeliveredInOrder
<1> QED
  BY DEF EventInv, InStep, InProgress, Got

(* Every registration gets, in order and once, the events read since it was registered, up to *)
(* those on which all attempts failed, for any number of handlers that copy the map at any time. *)
THEOREM EventsInOrder == EventSpec => []EventsDeliveredInOrder
BY EventInitEstablishesInv, EventNextPreservesInv, EventInvSuffices, PTL DEF EventSpec
==============================================================================
