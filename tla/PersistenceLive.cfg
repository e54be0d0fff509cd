SPECIFICATION FairSpec

CONSTANTS
    c1 = c1
    pg = pg
    Services = {pg}
    Clients = {c1}
    MarkSites <- CarefulSites
    Operations = {"start", "stop", "restart", "reset"}
    MaxChanges = 2
    MaxInstances = 2
    Exits = {"clean"}
    WritesFail = FALSE
    RequestsOutlast = TRUE

PROPERTY SnapshotsMoveForward
PROPERTY OperationsEnd
PROPERTY AckedReachesDisk
