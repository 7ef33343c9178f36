------------------------- MODULE MDnsSdListenerProofs -------------------------
(***************************************************************************)
(* The safety of MDnsSdListener's Monitor for any number of requests, any  *)
(* sizes of the poll arrays and any number of requests that fail.          *)
(***************************************************************************)
EXTENDS MDnsSdListener, FiniteSetTheorems, TLAPS

CallPoints == {"idle", "insert", "request", "monitor", "failed", "active", "stopped"}
Kinds == {"discover", "register", "resolve", "address"}
Reports == Seq(UNION {Results[k] : k \in Kinds})

MDnsTypeOK ==
    /\ DOMAIN elements \subseteq Ids
    /\ callPc \in [Ids -> CallPoints]
    /\ kind \in [Ids -> Kinds]
    /\ mLiveCount \in Int /\ mPollSize \in Int /\ miscounts \in Nat
    /\ delivered \in [Ids -> Reports]

(* The Element of a request at each point of the calls about it. *)
ElementInStep(id) ==
    /\ callPc[id] = "idle" /\ id \in DOMAIN elements =>
          elements[id] = [mRef |-> FALSE, mReady |-> -1]
    /\ callPc[id] = "insert" => id \notin DOMAIN elements
    /\ callPc[id] \in {"request", "failed"} =>
          id \in DOMAIN elements /\ elements[id] = [mRef |-> FALSE, mReady |-> 0]
    /\ callPc[id] = "monitor" =>
          id \in DOMAIN elements /\ elements[id] = [mRef |-> TRUE, mReady |-> 0]
    /\ callPc[id] = "active" =>
          id \in DOMAIN elements /\ elements[id] = [mRef |-> TRUE, mReady |-> 1]
    /\ callPc[id] = "stopped" =>
          id \in DOMAIN elements /\ elements[id] = [mRef |-> FALSE, mReady |-> 1]

(* The requests that startMonitoring has counted and freeServiceRef has not discounted. *)
Monitored == {id \in Ids : callPc[id] \in {"active", "stopped"}}

(***************************************************************************)
(* The inductive invariant.  The thread's copy of the list, pollRefs,      *)
(* holds Elements that were monitored when it was made; an Element leaves  *)
(* the list without the thread only if it never was.  And mLiveCount is    *)
(* the number of monitored requests, less the requests that failed.        *)
(***************************************************************************)
MDnsInv ==
    /\ MDnsTypeOK
    /\ \A id \in Ids : ElementInStep(id)
    /\ pollRefs \subseteq {id \in DOMAIN elements : elements[id].mReady # 0}
    /\ revents \subseteq pollRefs
    /\ mLiveCount + miscounts = Cardinality(Monitored)
    /\ Cardinality(pollRefs) + 1 <= mPollSize + miscounts

-----------------------------------------------------------------------------
(* Subsets of the requests are finite. *)
LEMMA RequestsFinite ==
    ASSUME NEW S \in SUBSET Ids
    PROVE  IsFiniteSet(S) /\ Cardinality(S) \in Nat
BY MDnsAssumption, FS_Subset, FS_CardinalityType

(* What the invariant says of a request depends on its call and its Element only. *)
LEMMA SameElement ==
    ASSUME NEW id \in Ids, callPc'[id] = callPc[id], ElementInStep(id),
           (id \in DOMAIN elements') = (id \in DOMAIN elements),
           id \in DOMAIN elements => elements'[id] = elements[id]
    PROVE  ElementInStep(id)'
BY DEF ElementInStep

(* An assignment to one field of an Element. *)
LEMMA ElementUpdate ==
    ASSUME NEW e \in [mRef : BOOLEAN, mReady : Int]
    PROVE  /\ \A x \in BOOLEAN : [e EXCEPT !.mRef = x] = [mRef |-> x, mReady |-> e.mReady]
           /\ \A x \in Int : [e EXCEPT !.mReady = x] = [mRef |-> e.mRef, mReady |-> x]
OBVIOUS

(* The state that the constructor builds. *)
LEMMA MDnsInitEstablishesInv == MDnsInit => MDnsInv
<1> SUFFICES ASSUME MDnsInit PROVE MDnsInv
  OBVIOUS
<1>1. DOMAIN elements = {}
  BY DEF MDnsInit
<1>2. MDnsTypeOK
  <2>1. <<>> \in Reports
    BY DEF Reports
  <2>2. /\ callPc = [id \in Ids |-> "idle"] /\ kind \in [Ids -> {"discover"}]
        /\ delivered = [id \in Ids |-> <<>>]
        /\ mLiveCount = 0 /\ miscounts = 0 /\ mPollSize = InitialPollSize
    BY DEF MDnsInit
  <2>3. callPc \in [Ids -> CallPoints] /\ kind \in [Ids -> Kinds]
    BY <2>2 DEF CallPoints, Kinds
  <2>4. delivered \in [Ids -> Reports]
    BY <2>1, <2>2
  <2> QED
    BY <1>1, <2>2, <2>3, <2>4, MDnsAssumption DEF MDnsTypeOK
<1>3. \A id \in Ids : ElementInStep(id)
  BY <1>1 DEF MDnsInit, ElementInStep
<1>4. Monitored = {}
  BY DEF MDnsInit, Monitored
<1>5. Cardinality(Monitored) = 0 /\ Cardinality(pollRefs) = 0
  BY <1>4, FS_EmptySet DEF MDnsInit
<1> QED
  BY <1>2, <1>3, <1>5, MDnsAssumption DEF MDnsInv, MDnsInit

-----------------------------------------------------------------------------
(* A step of the calls about one request has to be looked at for that request only. *)
LEMMA OneRequest ==
    ASSUME MDnsInv, NEW id \in Ids, MDnsTypeOK', UNCHANGED thread,
           \A i \in Ids \ {id} : /\ callPc'[i] = callPc[i]
                                 /\ (i \in DOMAIN elements') = (i \in DOMAIN elements)
                                 /\ i \in DOMAIN elements => elements'[i] = elements[i],
           ElementInStep(id)',
           id \in pollRefs => id \in DOMAIN elements' /\ elements'[id].mReady # 0,
           mLiveCount' + miscounts' = Cardinality(Monitored'),
           miscounts <= miscounts'
    PROVE  MDnsInv'
<1>1. \A i \in Ids : ElementInStep(i)'
  BY SameElement DEF MDnsInv
<1>2. UNCHANGED <<mPollSize, pollRefs, revents>>
  BY DEF thread
<1>3. pollRefs' \subseteq {i \in DOMAIN elements' : elements'[i].mReady # 0}
  <2> SUFFICES ASSUME NEW i \in pollRefs PROVE i \in DOMAIN elements' /\ elements'[i].mReady # 0
    BY <1>2
  <2>1. i \in DOMAIN elements /\ elements[i].mReady # 0 /\ i \in Ids
    BY DEF MDnsInv, MDnsTypeOK
  <2> QED
    BY <2>1
<1>4. Cardinality(pollRefs') + 1 <= mPollSize' + miscounts'
  <2>1. Cardinality(pollRefs) \in Nat
    BY RequestsFinite DEF MDnsInv, MDnsTypeOK
  <2> QED
    BY <1>2, <2>1 DEF MDnsInv, MDnsTypeOK, thread
<1> QED
  BY <1>1, <1>2, <1>3, <1>4 DEF MDnsInv

(* allocateServiceRef's lookup. *)
LEMMA LookupPreservesInv ==
    ASSUME MDnsInv, NEW id \in Ids, NEW k \in Kinds, lookupServiceRef(id, k)
    PROVE  MDnsInv'
<1> DEFINE to == IF id \in DOMAIN elements THEN "idle" ELSE "insert"
<1>1. /\ callPc[id] = "idle" /\ callPc' = [callPc EXCEPT ![id] = to]
      /\ kind' = IF id \in DOMAIN elements THEN kind ELSE [kind EXCEPT ![id] = k]
      /\ UNCHANGED <<elements, mLiveCount, miscounts, thread, delivered>>
  BY DEF lookupServiceRef, CallGoto, list, reporter
<1>2. MDnsTypeOK'
  <2>1. callPc' \in [Ids -> CallPoints]
    BY <1>1 DEF MDnsInv, MDnsTypeOK, CallPoints
  <2>2. kind' \in [Ids -> Kinds]
    BY <1>1 DEF MDnsInv, MDnsTypeOK
  <2> QED
    BY <1>1, <2>1, <2>2 DEF MDnsInv, MDnsTypeOK, thread
<1>3. callPc'[id] = to /\ \A i \in Ids \ {id} : callPc'[i] = callPc[i]
  BY <1>1 DEF MDnsInv, MDnsTypeOK
<1>4. ElementInStep(id)'
  BY <1>1, <1>3 DEF MDnsInv, ElementInStep
<1>5. Monitored' = Monitored
  BY <1>1, <1>3 DEF Monitored
<1> QED
  BY <1>1, <1>2, <1>3, <1>4, <1>5, OneRequest DEF MDnsInv, MDnsTypeOK

(* allocateServiceRef's insertion. *)
LEMMA AllocatePreservesInv ==
    ASSUME MDnsInv, NEW id \in Ids, allocateServiceRef(id)
    PROVE  MDnsInv'
<1>1. /\ callPc[id] = "insert" /\ callPc' = [callPc EXCEPT ![id] = "request"]
      /\ elements' = [i \in DOMAIN elements \cup {id} |->
                         IF i = id THEN [mRef |-> FALSE, mReady |-> 0] ELSE elements[i]]
      /\ delivered' = [delivered EXCEPT ![id] = <<>>]
      /\ UNCHANGED <<kind, mLiveCount, miscounts, thread>>
  BY DEF allocateServiceRef, CallGoto
<1>2. MDnsTypeOK'
  <2>1. callPc' \in [Ids -> CallPoints]
    BY <1>1 DEF MDnsInv, MDnsTypeOK, CallPoints
  <2>2. delivered' \in [Ids -> Reports]
    <3>1. <<>> \in Reports
      BY DEF Reports
    <3> QED
      BY <1>1, <3>1 DEF MDnsInv, MDnsTypeOK
  <2> QED
    BY <1>1, <2>1, <2>2 DEF MDnsInv, MDnsTypeOK, thread
<1>3. /\ callPc'[id] = "request" /\ id \notin DOMAIN elements
      /\ \A i \in Ids \ {id} : callPc'[i] = callPc[i]
  BY <1>1 DEF MDnsInv, MDnsTypeOK, ElementInStep
<1>4. ElementInStep(id)'
  BY <1>1, <1>3 DEF ElementInStep
<1>5. Monitored' = Monitored
  BY <1>1, <1>3 DEF Monitored
<1>6. id \notin pollRefs
  BY <1>3 DEF MDnsInv
<1>7. \A i \in Ids \ {id} : /\ callPc'[i] = callPc[i]
                            /\ (i \in DOMAIN elements') = (i \in DOMAIN elements)
                            /\ i \in DOMAIN elements => elements'[i] = elements[i]
  BY <1>1, <1>3
<1>8. UNCHANGED <<mLiveCount, miscounts, thread>>
  BY <1>1
<1> QED
  BY <1>2, <1>8, <1>4, <1>5, <1>6, <1>7, OneRequest DEF MDnsInv, MDnsTypeOK

(* The library call, which succeeds or fails. *)
LEMMA ServiceRequestPreservesInv ==
    ASSUME MDnsInv, NEW id \in Ids, DNSServiceRequest(id)
    PROVE  MDnsInv'
<1>1. PICK to \in {"monitor", "failed"} :
         /\ callPc[id] = "request" /\ callPc' = [callPc EXCEPT ![id] = to]
         /\ elements' = IF to = "monitor" THEN [elements EXCEPT ![id].mRef = TRUE] ELSE elements
  BY DEF DNSServiceRequest, CallGoto
<1>2. UNCHANGED <<kind, mLiveCount, miscounts, thread, delivered>>
  BY DEF DNSServiceRequest, reporter
<1>3. /\ callPc'[id] = to /\ id \in DOMAIN elements
      /\ elements[id] = [mRef |-> FALSE, mReady |-> 0]
      /\ \A i \in Ids \ {id} : callPc'[i] = callPc[i]
  BY <1>1 DEF MDnsInv, MDnsTypeOK, ElementInStep
<1>4. /\ DOMAIN elements' = DOMAIN elements
      /\ to = "monitor" => elements'[id] = [mRef |-> TRUE, mReady |-> 0]
      /\ to = "failed" => elements'[id] = [mRef |-> FALSE, mReady |-> 0]
      /\ \A i \in DOMAIN elements \ {id} : elements'[i] = elements[i]
  <2>1. CASE to = "monitor"
    <3>1. elements' = [elements EXCEPT ![id] = [elements[id] EXCEPT !.mRef = TRUE]]
      BY <1>1, <2>1
    <3>2. [elements[id] EXCEPT !.mRef = TRUE] = [mRef |-> TRUE, mReady |-> 0]
      <4>1. /\ elements[id] \in [mRef : BOOLEAN, mReady : Int]
             /\ elements[id].mReady = 0
        BY <1>3
      <4> QED
        BY <4>1, ElementUpdate, Zenon
    <3> QED
      BY <1>3, <2>1, <3>1, <3>2
  <2>2. CASE to = "failed"
    BY <1>1, <1>3, <2>2
  <2> QED
    BY <2>1, <2>2
<1>5. MDnsTypeOK'
  <2>1. callPc' \in [Ids -> CallPoints]
    BY <1>1 DEF MDnsInv, MDnsTypeOK, CallPoints
  <2> QED
    BY <1>2, <1>4, <2>1 DEF MDnsInv, MDnsTypeOK, thread
<1>6. ElementInStep(id)'
  BY <1>3, <1>4 DEF ElementInStep
<1>7. Monitored' = Monitored
  BY <1>1, <1>3 DEF Monitored
<1>8. id \notin pollRefs
  BY <1>3 DEF MDnsInv
<1> QED
  BY <1>2, <1>3, <1>4, <1>5, <1>6, <1>7, <1>8, OneRequest DEF MDnsInv, MDnsTypeOK

(* startMonitoring counts the request and marks it for the thread. *)
LEMMA StartMonitoringPreservesInv ==
    ASSUME MDnsInv, NEW id \in Ids, startMonitoring(id)
    PROVE  MDnsInv'
<1>1. /\ callPc[id] = "monitor" /\ callPc' = [callPc EXCEPT ![id] = "active"]
      /\ mLiveCount' = mLiveCount + 1
      /\ elements' = [elements EXCEPT ![id] = [elements[id] EXCEPT !.mReady = 1]]
      /\ UNCHANGED <<kind, miscounts, thread, delivered>>
  BY DEF startMonitoring, CallGoto, reporter
<1>2. /\ callPc'[id] = "active" /\ id \in DOMAIN elements
      /\ elements[id] = [mRef |-> TRUE, mReady |-> 0]
      /\ \A i \in Ids \ {id} : callPc'[i] = callPc[i]
  BY <1>1 DEF MDnsInv, MDnsTypeOK, ElementInStep
<1>3. [elements[id] EXCEPT !.mReady = 1] = [mRef |-> TRUE, mReady |-> 1]
  <2>1. /\ elements[id] \in [mRef : BOOLEAN, mReady : Int]
         /\ elements[id].mRef = TRUE
    BY <1>2
  <2>2. 1 \in Int
    OBVIOUS
  <2> QED
    BY <2>1, <2>2, ElementUpdate, Zenon
<1>4. /\ DOMAIN elements' = DOMAIN elements
      /\ elements'[id] = [mRef |-> TRUE, mReady |-> 1]
      /\ \A i \in DOMAIN elements \ {id} : elements'[i] = elements[i]
  BY <1>1, <1>2, <1>3
<1>5. MDnsTypeOK'
  <2>1. callPc' \in [Ids -> CallPoints]
    BY <1>1 DEF MDnsInv, MDnsTypeOK, CallPoints
  <2> QED
    BY <1>1, <1>4, <2>1 DEF MDnsInv, MDnsTypeOK, thread
<1>6. ElementInStep(id)'
  BY <1>2, <1>4 DEF ElementInStep
<1>7. mLiveCount' + miscounts' = Cardinality(Monitored')
  <2>1. Monitored' = Monitored \cup {id} /\ id \notin Monitored
    BY <1>1, <1>2 DEF Monitored
  <2>2. IsFiniteSet(Monitored) /\ Cardinality(Monitored) \in Nat
    BY RequestsFinite DEF Monitored
  <2>3. Cardinality(Monitored \cup {id}) = Cardinality(Monitored) + 1
    BY <2>1, <2>2, FS_AddElement
  <2> QED
    BY <1>1, <2>1, <2>2, <2>3 DEF MDnsInv, MDnsTypeOK
<1>8. id \notin pollRefs
  BY <1>2 DEF MDnsInv
<1>9. UNCHANGED <<miscounts, thread>>
  BY <1>1
<1>10. miscounts <= miscounts'
  BY <1>1 DEF MDnsInv, MDnsTypeOK
<1> QED
  BY <1>2, <1>4, <1>5, <1>6, <1>7, <1>8, <1>9, <1>10, OneRequest

(* deallocateServiceRef clears the reference; the Element stays counted and in the list. *)
LEMMA DeallocatePreservesInv ==
    ASSUME MDnsInv, NEW id \in Ids, deallocateServiceRef(id)
    PROVE  MDnsInv'
<1>1. /\ callPc[id] = "active" /\ callPc' = [callPc EXCEPT ![id] = "stopped"]
      /\ elements' = [elements EXCEPT ![id] = [elements[id] EXCEPT !.mRef = FALSE]]
      /\ UNCHANGED <<kind, mLiveCount, miscounts, thread, delivered>>
  BY DEF deallocateServiceRef, CallGoto, reporter
<1>2. /\ callPc'[id] = "stopped" /\ id \in DOMAIN elements
      /\ elements[id] = [mRef |-> TRUE, mReady |-> 1]
      /\ \A i \in Ids \ {id} : callPc'[i] = callPc[i]
  BY <1>1 DEF MDnsInv, MDnsTypeOK, ElementInStep
<1>3. [elements[id] EXCEPT !.mRef = FALSE] = [mRef |-> FALSE, mReady |-> 1]
  <2>1. /\ elements[id] \in [mRef : BOOLEAN, mReady : Int]
         /\ elements[id].mReady = 1
    BY <1>2
  <2> QED
    BY <2>1, ElementUpdate, Zenon
<1>4. /\ DOMAIN elements' = DOMAIN elements
      /\ elements'[id] = [mRef |-> FALSE, mReady |-> 1]
      /\ \A i \in DOMAIN elements \ {id} : elements'[i] = elements[i]
  BY <1>1, <1>2, <1>3
<1>5. MDnsTypeOK'
  <2>1. callPc' \in [Ids -> CallPoints]
    BY <1>1 DEF MDnsInv, MDnsTypeOK, CallPoints
  <2> QED
    BY <1>1, <1>4, <2>1 DEF MDnsInv, MDnsTypeOK, thread
<1>6. ElementInStep(id)'
  BY <1>2, <1>4 DEF ElementInStep
<1>7. Monitored' = Monitored
  BY <1>1, <1>2 DEF Monitored
<1>8. elements'[id].mReady # 0
  BY <1>4
<1>9. /\ UNCHANGED <<mLiveCount, miscounts, thread>> /\ miscounts <= miscounts'
      /\ mLiveCount' + miscounts' = Cardinality(Monitored')
  BY <1>1, <1>7 DEF MDnsInv, MDnsTypeOK
<1> QED
  BY <1>2, <1>4, <1>5, <1>6, <1>8, <1>9, OneRequest

(***************************************************************************)
(* freeServiceRef.  A monitored Element stays, with mReady -1, and is      *)
(* discounted; one that never was monitored goes, and is discounted too.   *)
(***************************************************************************)
LEMMA FreePreservesInv ==
    ASSUME MDnsInv, NEW id \in Ids, freeServiceRef(id)
    PROVE  MDnsInv'
<1>1. /\ callPc[id] \in {"failed", "stopped"} /\ callPc' = [callPc EXCEPT ![id] = "idle"]
      /\ mLiveCount' = mLiveCount - 1
      /\ UNCHANGED <<kind, thread, delivered>>
  BY DEF freeServiceRef, CallGoto, reporter
<1>2. /\ callPc'[id] = "idle" /\ id \in DOMAIN elements
      /\ \A i \in Ids \ {id} : callPc'[i] = callPc[i]
      /\ callPc' \in [Ids -> CallPoints]
  BY <1>1 DEF MDnsInv, MDnsTypeOK, ElementInStep, CallPoints
<1>3. IsFiniteSet(Monitored) /\ Cardinality(Monitored) \in Nat
  BY RequestsFinite DEF Monitored
<1>4. CASE callPc[id] = "stopped"
  <2>1. elements[id] = [mRef |-> FALSE, mReady |-> 1]
    BY <1>4 DEF MDnsInv, ElementInStep
  <2>2. /\ elements' = [elements EXCEPT ![id] = [mRef |-> FALSE, mReady |-> -1]]
        /\ UNCHANGED miscounts
    BY <2>1 DEF freeServiceRef
  <2>3. /\ DOMAIN elements' = DOMAIN elements
        /\ elements'[id] = [mRef |-> FALSE, mReady |-> -1]
        /\ \A i \in DOMAIN elements \ {id} : elements'[i] = elements[i]
    BY <1>2, <2>2
  <2>4. MDnsTypeOK'
    BY <1>1, <1>2, <2>2, <2>3 DEF MDnsInv, MDnsTypeOK, thread
  <2>5. ElementInStep(id)'
    BY <1>2, <2>3 DEF ElementInStep
  <2>6. elements'[id].mReady # 0
    BY <2>3
  <2>7. Monitored' = Monitored \ {id} /\ id \in Monitored
    BY <1>2, <1>4 DEF Monitored
  <2>8. Cardinality(Monitored \ {id}) = Cardinality(Monitored) - 1
    BY <1>3, <2>7, FS_RemoveElement
  <2>9. mLiveCount' + miscounts' = Cardinality(Monitored') /\ miscounts <= miscounts'
    BY <1>1, <1>3, <2>2, <2>7, <2>8 DEF MDnsInv, MDnsTypeOK
  <2>10. UNCHANGED thread
    BY <1>1
  <2> QED
    BY <1>2, <2>3, <2>4, <2>5, <2>6, <2>9, <2>10, OneRequest
<1>5. CASE callPc[id] = "failed"
  <2>1. elements[id] = [mRef |-> FALSE, mReady |-> 0]
    BY <1>5 DEF MDnsInv, ElementInStep
  <2>2. elements' = ElementsWithout(elements, {id}) /\ miscounts' = miscounts + 1
    BY <2>1 DEF freeServiceRef
  <2>3. /\ DOMAIN elements' = DOMAIN elements \ {id}
        /\ \A i \in DOMAIN elements \ {id} : elements'[i] = elements[i]
    BY <2>2 DEF ElementsWithout
  <2>4. MDnsTypeOK'
    BY <1>1, <1>2, <2>2, <2>3 DEF MDnsInv, MDnsTypeOK, thread
  <2>5. ElementInStep(id)'
    BY <1>2, <2>3 DEF ElementInStep
  <2>6. id \notin pollRefs
    BY <2>1 DEF MDnsInv
  <2>7. Monitored' = Monitored
    BY <1>2, <1>5 DEF Monitored
  <2>8. mLiveCount' + miscounts' = Cardinality(Monitored') /\ miscounts <= miscounts'
    BY <1>1, <1>3, <2>2, <2>7 DEF MDnsInv, MDnsTypeOK
  <2>9. UNCHANGED thread
    BY <1>1
  <2>10. \A i \in Ids \ {id} : /\ callPc'[i] = callPc[i]
                               /\ (i \in DOMAIN elements') = (i \in DOMAIN elements)
                               /\ i \in DOMAIN elements => elements'[i] = elements[i]
    BY <1>2, <2>3
  <2> QED
    BY <2>4, <2>5, <2>6, <2>8, <2>9, <2>10, OneRequest
<1> QED
  BY <1>1, <1>4, <1>5

(***************************************************************************)
(* rescan takes the Elements that are monitored now and deletes the ones   *)
(* that were stopped; the arrays grow when mLiveCount reaches their size.  *)
(***************************************************************************)
LEMMA RescanPreservesInv ==
    ASSUME MDnsInv, rescan
    PROVE  MDnsInv'
<1> DEFINE Deleted == {id \in DOMAIN elements : elements[id].mReady = -1}
<1>1. /\ mPollSize' = growPollArrays
      /\ pollRefs' = {id \in DOMAIN elements : elements[id].mReady = 1 /\ elements[id].mRef}
      /\ elements' = ElementsWithout(elements, Deleted)
      /\ revents = {}
      /\ UNCHANGED <<mLiveCount, revents, callPc, kind, delivered, miscounts>>
  BY DEF rescan, reporter
<1>2. /\ DOMAIN elements' = DOMAIN elements \ Deleted
      /\ \A i \in DOMAIN elements \ Deleted : elements'[i] = elements[i]
  BY <1>1 DEF ElementsWithout
<1>3. mPollSize' \in Int /\ mPollSize' >= mLiveCount + 1
  BY <1>1, MDnsAssumption DEF growPollArrays, MDnsInv, MDnsTypeOK
<1>4. MDnsTypeOK'
  BY <1>1, <1>2, <1>3, Zenon DEF MDnsInv, MDnsTypeOK
<1>5. \A id \in Ids : ElementInStep(id)'
  <2> SUFFICES ASSUME NEW id \in Ids PROVE ElementInStep(id)'
    OBVIOUS
  <2>1. ElementInStep(id) /\ callPc'[id] = callPc[id] /\ callPc[id] \in CallPoints
    BY <1>1 DEF MDnsInv, MDnsTypeOK
  <2>2. CASE id \in Deleted
    <3>1. callPc[id] = "idle"
      BY <2>1, <2>2 DEF ElementInStep, CallPoints
    <3> QED
      BY <1>2, <2>1, <2>2, <3>1 DEF ElementInStep
  <2>3. CASE id \notin Deleted
    BY <1>2, <2>1, <2>3, SameElement
  <2> QED
    BY <2>2, <2>3
<1>6. pollRefs' \subseteq {id \in DOMAIN elements' : elements'[id].mReady # 0}
  <2>1. \A id \in pollRefs' : id \in DOMAIN elements /\ elements[id].mReady = 1 /\ id \notin Deleted
    BY <1>1
  <2> QED
    BY <1>2, <2>1
<1>7. pollRefs' \subseteq Monitored
  <2> SUFFICES ASSUME NEW id \in pollRefs' PROVE id \in Monitored
    OBVIOUS
  <2>1. id \in Ids /\ id \in DOMAIN elements /\ elements[id].mReady = 1
    BY <1>1 DEF MDnsInv, MDnsTypeOK
  <2>2. ElementInStep(id) /\ callPc[id] \in CallPoints
    BY <2>1 DEF MDnsInv, MDnsTypeOK
  <2> QED
    BY <2>1, <2>2 DEF ElementInStep, CallPoints, Monitored
<1>8. Monitored' = Monitored
  BY <1>1 DEF Monitored
<1>9. Cardinality(pollRefs') + 1 <= mPollSize' + miscounts'
  <2>1. IsFiniteSet(Monitored) /\ Cardinality(Monitored) \in Nat
    BY RequestsFinite DEF Monitored
  <2>2. Cardinality(pollRefs') \in Nat /\ Cardinality(pollRefs') <= Cardinality(Monitored)
    BY <1>7, <2>1, FS_Subset, FS_CardinalityType
  <2> QED
    BY <1>1, <1>3, <2>1, <2>2 DEF MDnsInv, MDnsTypeOK
<1>10. revents' \subseteq pollRefs' /\ mLiveCount' + miscounts' = Cardinality(Monitored')
  BY <1>1, <1>8 DEF MDnsInv
<1> QED
  BY <1>4, <1>5, <1>6, <1>9, <1>10 DEF MDnsInv

(* Steps that leave the list, the count and the poll arrays alone. *)
LEMMA FramePreservesInv ==
    ASSUME MDnsInv, UNCHANGED <<elements, mLiveCount, miscounts, mPollSize, pollRefs, callPc, kind>>,
           revents' \subseteq pollRefs, delivered' \in [Ids -> Reports]
    PROVE  MDnsInv'
<1>1. MDnsTypeOK'
  BY DEF MDnsInv, MDnsTypeOK
<1>2. \A id \in Ids : ElementInStep(id)'
  BY SameElement DEF MDnsInv
<1>3. Monitored' = Monitored
  BY DEF Monitored
<1> QED
  BY <1>1, <1>2, <1>3 DEF MDnsInv

(* A callback that sends an event: which request, and what it says. *)
LEMMA CallbackReports ==
    ASSUME MDnsInv, NEW id \in Ids, processResult(id)
    PROVE  \/ delivered' = delivered
           \/ /\ callPc[id] = "active"
              /\ \E result \in Results[kind[id]] :
                    delivered' = [delivered EXCEPT ![id] = Append(delivered[id], result)]
<1>1. CASE ~(id \in DOMAIN elements /\ elements[id].mRef /\ (id \in data \/ id \notin open))
  BY <1>1 DEF processResult
<1>2. CASE id \in DOMAIN elements /\ elements[id].mRef /\ (id \in data \/ id \notin open)
  <2>1. id \in pollRefs /\ elements[id].mReady # 0
    BY DEF processResult, MDnsInv
  <2>2. ElementInStep(id) /\ callPc[id] \in CallPoints
    BY DEF MDnsInv, MDnsTypeOK
  <2>3. callPc[id] = "active"
    BY <1>2, <2>1, <2>2 DEF ElementInStep, CallPoints
  <2>4. Callback(id)
    BY <1>2 DEF processResult
  <2> QED
    BY <2>3, <2>4, Zenon DEF Callback
<1> QED
  BY <1>1, <1>2

(* One answer more is a sequence of answers still. *)
LEMMA ReportAppended ==
    ASSUME delivered \in [Ids -> Reports], NEW id \in Ids, NEW k \in Kinds, NEW result \in Results[k]
    PROVE  [delivered EXCEPT ![id] = Append(delivered[id], result)] \in [Ids -> Reports]
<1> DEFINE R == UNION {Results[j] : j \in Kinds}
<1>1. result \in R
  OBVIOUS
<1>2. delivered[id] \in Seq(R)
  BY DEF Reports
<1> HIDE DEF R
<1>3. Append(delivered[id], result) \in Seq(R)
  BY <1>1, <1>2
<1>4. Append(delivered[id], result) \in Reports
  BY <1>3 DEF R, Reports
<1> QED
  BY <1>4

LEMMA ProcessResultPreservesInv ==
    ASSUME MDnsInv, NEW id \in Ids, processResult(id)
    PROVE  MDnsInv'
<1>1. delivered \in [Ids -> Reports] /\ kind[id] \in Kinds
  BY DEF MDnsInv, MDnsTypeOK
<1>2. delivered' \in [Ids -> Reports]
  <2>1. CASE delivered' = delivered
    BY <1>1, <2>1
  <2>2. ASSUME NEW result \in Results[kind[id]],
               delivered' = [delivered EXCEPT ![id] = Append(delivered[id], result)]
        PROVE  delivered' \in [Ids -> Reports]
    <3>1. [delivered EXCEPT ![id] = Append(delivered[id], result)] \in [Ids -> Reports]
      BY <1>1, ReportAppended
    <3> QED
      BY <2>2, <3>1, Zenon
  <2> QED
    BY <2>1, <2>2, CallbackReports
<1>3. /\ UNCHANGED <<elements, mLiveCount, miscounts, mPollSize, pollRefs, callPc, kind>>
      /\ revents' \subseteq pollRefs
  BY DEF processResult, list, MDnsInv
<1> QED
  BY <1>2, <1>3, FramePreservesInv

(* Every step of the listener, its thread and mdnsd preserves the invariant. *)
LEMMA MDnsNextPreservesInv == MDnsInv /\ [MDnsNext]_mdnsVars => MDnsInv'
<1> SUFFICES ASSUME MDnsInv, [MDnsNext]_mdnsVars PROVE MDnsInv'
  OBVIOUS
<1>t. delivered \in [Ids -> Reports] /\ revents \subseteq pollRefs
  BY DEF MDnsInv, MDnsTypeOK
<1>1. ASSUME NEW id \in Ids, discover(id) \/ serviceRegister(id) \/ resolveService(id) \/ getAddrInfo(id)
      PROVE  MDnsInv'
  <2>1. PICK k \in Kinds : lookupServiceRef(id, k)
    BY <1>1 DEF discover, serviceRegister, resolveService, getAddrInfo, Kinds
  <2> QED
    BY <2>1, LookupPreservesInv
<1>2. ASSUME NEW id \in Ids, RequestGoesOn(id) PROVE MDnsInv'
  BY <1>2, AllocatePreservesInv, ServiceRequestPreservesInv, StartMonitoringPreservesInv
     DEF RequestGoesOn
<1>3. ASSUME NEW id \in Ids, stop(id) PROVE MDnsInv'
  BY <1>3, DeallocatePreservesInv, FreePreservesInv DEF stop
<1>4. ASSUME NEW id \in Ids, Answer(id) PROVE MDnsInv'
  BY <1>4, <1>t, FramePreservesInv DEF Answer, list, thread, reporter
<1>5. CASE startService \/ stopService
  BY <1>5, <1>t, FramePreservesInv DEF startService, stopService, list, thread, reporter
<1>6. CASE addEventListenerImpl \/ removeEventListenerImpl
  BY <1>6, <1>t, FramePreservesInv DEF addEventListenerImpl, removeEventListenerImpl, list, thread
<1>7. CASE pollReturns
  BY <1>7, <1>t, FramePreservesInv DEF pollReturns, list, reporter
<1>8. CASE UNCHANGED mdnsVars
  BY <1>8, <1>t, FramePreservesInv DEF mdnsVars
<1> QED
  BY <1>1, <1>2, <1>3, <1>4, <1>5, <1>6, <1>7, <1>8, RescanPreservesInv, ProcessResultPreservesInv
     DEF MDnsNext, run

-----------------------------------------------------------------------------
(***************************************************************************)
(* The poll arrays of the Monitor: no reference in mPollRefs dangles, and  *)
(* the arrays are too small by at most one slot for each request that had  *)
(* failed when freeServiceRef discounted it.                               *)
(***************************************************************************)
THEOREM PollArraysStaySound == MDnsSpec => []PollArraysAreSound
<1>1. MDnsInv => PollArraysAreSound
  BY DEF MDnsInv, PollArraysAreSound
<1> QED
  BY <1>1, MDnsInitEstablishesInv, MDnsNextPreservesInv, PTL DEF MDnsSpec

(***************************************************************************)
(* A callback reports about the request that has the id now, and only      *)
(* until stop has deallocated it.                                          *)
(***************************************************************************)
THEOREM EventsStopWithRequests == MDnsSpec => NoEventAfterStop
<1> DEFINE Step == \A id \in Ids :
          Len(delivered'[id]) > Len(delivered[id]) =>
             callPc[id] = "active" /\ delivered'[id][Len(delivered'[id])] \in Results[kind[id]]
<1>1. MDnsInv /\ [MDnsNext]_mdnsVars => [Step]_mdnsVars
  <2> SUFFICES ASSUME MDnsInv, MDnsNext PROVE Step
    OBVIOUS
  <2> SUFFICES ASSUME NEW id \in Ids, Len(delivered'[id]) > Len(delivered[id])
               PROVE  /\ callPc[id] = "active"
                      /\ delivered'[id][Len(delivered'[id])] \in Results[kind[id]]
    OBVIOUS
  <2>1. delivered \in [Ids -> Reports]
    BY DEF MDnsInv, MDnsTypeOK
  <2>2. Len(delivered[id]) \in Nat /\ Len(delivered[id]) >= 0
    BY <2>1 DEF Reports
  <2>3. delivered' # delivered
    BY <2>2
  <2>4. ASSUME NEW i \in Ids, allocateServiceRef(i) PROVE FALSE
    <3>1. delivered' = [delivered EXCEPT ![i] = <<>>]
      BY <2>4 DEF allocateServiceRef
    <3>2. delivered'[id] = <<>> \/ delivered'[id] = delivered[id]
      BY <2>1, <3>1
    <3>3. Len(<<>>) = 0
      OBVIOUS
    <3> QED
      BY <2>2, <3>2, <3>3
  <2>5. \E i \in Ids : processResult(i)
    BY <2>3, <2>4, Zenon DEF MDnsNext, run, discover, serviceRegister, resolveService, getAddrInfo,
         lookupServiceRef, RequestGoesOn, DNSServiceRequest, startMonitoring, stop,
         deallocateServiceRef, freeServiceRef, Answer, startService, stopService,
         addEventListenerImpl, removeEventListenerImpl, pollReturns, rescan, reporter
  <2>6. PICK i \in Ids : processResult(i)
    BY <2>5
  <2>7. PICK result \in Results[kind[i]] :
           /\ callPc[i] = "active"
           /\ delivered' = [delivered EXCEPT ![i] = Append(delivered[i], result)]
    BY <2>3, <2>6, CallbackReports
  <2>8. i = id
    BY <2>1, <2>2, <2>7
  <2>9. delivered'[id] = Append(delivered[id], result)
    BY <2>1, <2>7, <2>8
  <2> DEFINE R == UNION {Results[k] : k \in Kinds}
  <2>10. delivered[id] \in Seq(R) /\ result \in R
    BY <2>1, <2>7 DEF Reports, MDnsInv, MDnsTypeOK
  <2> HIDE DEF R
  <2>11. delivered'[id][Len(delivered'[id])] = result
    BY <2>9, <2>10
  <2> QED
    BY <2>7, <2>8, <2>11
<1>2. MDnsSpec => [][Step]_mdnsVars
  BY <1>1, MDnsInitEstablishesInv, MDnsNextPreservesInv, PTL DEF MDnsSpec
<1> QED
  BY <1>2 DEF NoEventAfterStop
===============================================================================
