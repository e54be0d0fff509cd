SPECIFICATION Spec

CONSTANTS
    c1 = c1
    c2 = c2
    pg = pg
    Services = {pg}
    Clients = {c1, c2}
    MarkSites <- AllSites
    Operations = {"start", "stop", "restart", "reset"}
    MaxChanges = 2
    MaxInstances = 2
    Exits = {"killed", "clean"}
    WritesFail = TRUE
    RequestsOutlast = TRUE

SYMMETRY ClientSymmetry

INVARIANT AtMostARound
INVARIANT AckedKept
INVARIANT ResetSticks
INVARIANT NeverTorn
