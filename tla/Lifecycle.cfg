SPECIFICATION FairSpec

CONSTANTS
    c1 = c1
    c2 = c2
    c3 = c3
    p1 = p1
    p2 = p2
    Conns = {c1, c2, c3}
    Stoppers = {p1, p2}
    ClonesFail = TRUE
    DeadlinePasses = TRUE

INVARIANT NoneServedAfterStop
INVARIANT StoppedMeansOver
PROPERTY StopEnds
