SPECIFICATION Spec

CONSTANTS
    Consumers = {1, 2}
    Partitions = {1, 2}
    NoProtocol = NoProtocol
    Behaviours = {"leave", "again", "late", "change", "impatient", "commit", "delete", "restart", "crash"}
    MaxIds = 3
    MaxGeneration = 3
    MaxOffset = 1
    MaxFaults = 2
    Offers <- Rolling
    Identities <- Alike

CHECK_DEADLOCK FALSE

INVARIANT NobodyLeftOut
INVARIANT AllCovered
PROPERTY OffsetsMoveForward
