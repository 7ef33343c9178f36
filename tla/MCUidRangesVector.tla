-------------------------- MODULE MCUidRangesVector --------------------------
(* UidRangesVector for TLC: all ranges over three UIDs, vectors of up to five. *)
EXTENDS UidRangesVector

MCUids == 1 .. 4
MCRanges == {r \in [start : 1 .. 3, stop : 1 .. 3] : r.start <= r.stop}
==============================================================================
