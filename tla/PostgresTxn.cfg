SPECIFICATION Spec

CONSTANTS
    s1 = s1
    s2 = s2
    d1 = d1
    n1 = n1
    NoSession = NoSession
    Sessions = {s1, s2}
    Databases = {d1}
    InitialDatabases = {d1}
    Names = {n1}
    Kinds = {"temp"}
    MaxWrites = 2
    MaxStatements = 2
    MaxSavepoints = 1
    ClientPatterns = {"slow-writer"}

SYMMETRY SessionSymmetry

INVARIANT WriteLock
INVARIANT CommittedExactly
INVARIANT TempObjectsGo
PROPERTY FailedBlockCommitsNothing
