------------------------------ MODULE UidRanges ------------------------------
(***************************************************************************)
(* class UidRanges (server/UidRanges.cpp): a list of UID ranges, kept      *)
(* sorted by (start, stop).  A sorted vector is determined by how often    *)
(* each range occurs in it, so a UidRanges object is a function from the   *)
(* ranges that can occur to the number of their occurrences.  The module   *)
(* UidRangesVector checks that the vector code implements these operators. *)
(***************************************************************************)
EXTENDS Integers

CONSTANT Ranges          \* the UidRangeParcels that can occur: [start, stop]

ASSUME RangesAssumption ==
    Ranges \subseteq {r \in [start : Nat, stop : Nat] : r.start <= r.stop}

SUB_PRIORITY_HIGHEST == 0
SUB_PRIORITY_LOWEST == 998
SUB_PRIORITY_NO_DEFAULT == 999

UidRangesType == [Ranges -> Nat]

NoRanges == [r \in Ranges |-> 0]

Empty(mRanges) == mRanges = NoRanges

Present(mRanges) == {r \in Ranges : mRanges[r] > 0}

(* compUidRangeParcel: the sort order of mRanges. *)
compUidRangeParcel(lhs, rhs) ==
    IF lhs.start # rhs.start THEN lhs.start < rhs.start ELSE lhs.stop < rhs.stop

isOverlapped(r1, r2) == r1.stop >= r2.start /\ r1.start <= r2.stop

(***************************************************************************)
(* hasUid: std::lower_bound finds the first range not ordered before       *)
(* [uid, uid]; the answer is read off that range and the one before it.    *)
(***************************************************************************)
hasUid(mRanges, uid) ==
    LET point  == [start |-> uid, stop |-> uid]
        before == {r \in Present(mRanges) : compUidRangeParcel(r, point)}
        after  == Present(mRanges) \ before
    IN  \/ \E r \in after :                                  \* *iter
              /\ \A s \in after : ~compUidRangeParcel(s, r)
              /\ r.start = uid
        \/ \E r \in before :                                 \* *--iter
              /\ \A s \in before : ~compUidRangeParcel(r, s)
              /\ r.stop >= uid

(* add: append and inplace_merge. *)
add(mRanges, other) == [r \in Ranges |-> mRanges[r] + other[r]]

(* remove: std::set_difference removes one occurrence per occurrence in other. *)
remove(mRanges, other) ==
    [r \in Ranges |-> IF mRanges[r] > other[r] THEN mRanges[r] - other[r] ELSE 0]

overlapsSelf(mRanges) ==
    \/ \E r \in Present(mRanges) : mRanges[r] > 1
    \/ \E r, s \in Present(mRanges) : r # s /\ isOverlapped(r, s)
==============================================================================
