CONSTANTS
    Ranges <- MCRanges
    Uids <- MCUids
    MaxLength = 5
SPECIFICATION Spec
INVARIANTS
    HasUidIsMembership
