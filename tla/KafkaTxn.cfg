SPECIFICATION Spec

CONSTANTS
    i1 = i1
    i2 = i2
    t1 = t1
    p1 = p1
    p2 = p2
    Producers = {i1, i2}
    Tids = {t1}
    NoTid = NoTid
    Partitions = {p1, p2}
    Keys = {"k"}
    Payloads <- MCPayloads
    EpochMax = 1
    Behaviours = {{"plain"},
        {"topics"},
        {"lost", "clean"},
        {"lost", "kill"},
        {"lost", "truncate"},
        {"unwritten"},
        {"pipelined"},
        {"keys", "retention"},
        {"keys", "compact"},
        {"offsets", "clean", "resume"},
        {"kill", "resume"},
        {"offsets", "wrap"}}
    MaxOffset = 5
    MaxKeyed = 4
    MaxTxns = 2
    MaxInits = 3
    MaxRestarts = 1

SYMMETRY Symmetry

CHECK_DEADLOCK FALSE

INVARIANT AtMostOnce
INVARIANT AcksTrue
INVARIANT ReadCommitted
INVARIANT OffsetsAtomic
INVARIANT AbortIsFinal
