--------------------------- MODULE UidRangesVector ---------------------------
(***************************************************************************)
(* One entry of Network::mUidRangeMap as the code keeps it: the vector     *)
(* mRanges, sorted by compUidRangeParcel.  Network::addToUidRangeMap and   *)
(* removeFromUidRangeMap change it by add and remove; what they pass was   *)
(* built by the constructor, and has passed canAddUidRanges when it is     *)
(* added.  An entry that becomes empty is erased: no ranges, no entry.     *)
(***************************************************************************)
EXTENDS Sequences, SequencesExt, UidRanges

CONSTANTS MaxLength,     \* bound on the length of mRanges
          Uids           \* UIDs asked about

VARIABLE mRanges

(* UidRanges(const std::vector<UidRangeParcel>&): copy and std::sort. *)
construct(ranges) == SortSeq(ranges, compUidRangeParcel)

(* Vectors a caller passes. *)
Arguments == {construct(s) : s \in BoundedSeq(Ranges, 2)}

(* std::inplace_merge of two sorted halves: stable, left half first. *)
RECURSIVE inplace_merge(_, _)
inplace_merge(a, b) ==
    IF a = <<>> THEN b
    ELSE IF b = <<>> THEN a
    ELSE IF compUidRangeParcel(Head(b), Head(a))
         THEN <<Head(b)>> \o inplace_merge(a, Tail(b))
         ELSE <<Head(a)>> \o inplace_merge(Tail(a), b)

(* A remove that erases every occurrence. *)
eraseAll(a, b) == SelectSeq(a, LAMBDA r : \A i \in DOMAIN b : b[i] # r)

(* std::set_difference of two sorted ranges. *)
RECURSIVE set_difference(_, _)
set_difference(a, b) ==
    IF a = <<>> \/ b = <<>> THEN a
    ELSE IF compUidRangeParcel(Head(a), Head(b))
         THEN <<Head(a)>> \o set_difference(Tail(a), b)
         ELSE IF compUidRangeParcel(Head(b), Head(a))
              THEN set_difference(a, Tail(b))
              ELSE set_difference(Tail(a), Tail(b))

(* std::lower_bound: index of the first element not ordered before point. *)
lower_bound(s, point) ==
    CHOOSE i \in 1 .. Len(s) + 1 :
        /\ \A j \in 1 .. i - 1 : compUidRangeParcel(s[j], point)
        /\ i <= Len(s) => ~compUidRangeParcel(s[i], point)

(* hasUid that takes the stop of a range to be exclusive. *)
vectorHasUidExclusive(s, uid) ==
    LET iter == lower_bound(s, [start |-> uid, stop |-> uid])
    IN  \/ iter <= Len(s) /\ s[iter].start = uid
        \/ iter > 1 /\ s[iter - 1].stop > uid

vectorHasUid(s, uid) ==
    LET iter == lower_bound(s, [start |-> uid, stop |-> uid])
    IN  \/ iter <= Len(s) /\ s[iter].start = uid
        \/ iter > 1 /\ s[iter - 1].stop >= uid

vectorOverlapsSelf(s) ==
    \E i, j \in 1 .. Len(s) : i < j /\ isOverlapped(s[i], s[j])

Init == mRanges = <<>>

canAddUidRanges(other) == ~vectorOverlapsSelf(other)

AddRanges(other) ==
    /\ canAddUidRanges(other)
    /\ Len(mRanges) + Len(other) <= MaxLength
    /\ mRanges' = inplace_merge(mRanges, other)

RemoveRanges(other) == mRanges' = set_difference(mRanges, other)

Next == \E other \in Arguments : AddRanges(other) \/ RemoveRanges(other)

Spec == Init /\ [][Next]_mRanges
-----------------------------------------------------------------------------
(* How often each range occurs in a vector. *)
Occurrences(s) == [r \in Ranges |-> Cardinality({i \in 1 .. Len(s) : s[i] = r})]

(* The UIDs that the ranges of a vector contain. *)
Covers(s, uid) == \E i \in 1 .. Len(s) : s[i].start <= uid /\ uid <= s[i].stop

(***************************************************************************)
(* On a vector whose ranges do not overlap, which is all that a single     *)
(* addUsers call can add (Network::canAddUidRanges), hasUid is membership. *)
(***************************************************************************)
HasUidIsExactOnDisjointRanges ==
    ~vectorOverlapsSelf(mRanges) =>
        \A uid \in Uids : vectorHasUid(mRanges, uid) = Covers(mRanges, uid)

(***************************************************************************)
(* The vector is the multiset of module UidRanges on which the model of    *)
(* NetworkController rests: add and remove change it as multiset sum and   *)
(* difference, so that no range is lost or duplicated by the in-place      *)
(* algorithms, and hasUid and overlapsSelf answer as for the multiset.     *)
(***************************************************************************)
ChangesAreMultisetOperations ==
    [][/\ \E other \in Arguments :
             Occurrences(mRanges') \in {add(Occurrences(mRanges), Occurrences(other)),
                                        remove(Occurrences(mRanges), Occurrences(other))}
       /\ \A uid \in Uids : vectorHasUid(mRanges', uid) = hasUid(Occurrences(mRanges'), uid)
       /\ vectorOverlapsSelf(mRanges') = overlapsSelf(Occurrences(mRanges'))]_mRanges

(***************************************************************************)
(* Network::appliesToUser, a loop around hasUid, is said to "Check if the  *)
(* user has been added to this network" (Network.cpp:93): hasUid answers   *)
(* for every vector that add can build, overlapping ranges included.       *)
(***************************************************************************)
HasUidIsMembership ==
    \A uid \in Uids : Covers(mRanges, uid) => vectorHasUid(mRanges, uid)
==============================================================================
