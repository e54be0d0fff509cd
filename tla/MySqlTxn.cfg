SPECIFICATION Spec

CONSTANTS
    Conns = {c1, c2, c3}
    MaxId = 2
    Names = {n1}
    Plays <- AllPlays

SYMMETRY ConnSymmetry

CHECK_DEADLOCK FALSE

INVARIANT CommittedExactly
INVARIANT LocksExclude
INVARIANT NoOrphans
PROPERTY VictimsWait
