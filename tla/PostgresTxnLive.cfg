SPECIFICATION FairSpec

CONSTANTS
    s1 = s1
    s2 = s2
    d1 = d1
    d2 = d2
    NoSession = NoSession
    Sessions = {s1, s2}
    Databases = {d1, d2}
    InitialDatabases = {d1}
    Names = {}
    Kinds = {"perm"}
    MaxWrites = 1
    MaxStatements = 1
    MaxSavepoints = 0
    ClientPatterns = {"slow-writer"}

INVARIANT DatabaseOfSessionExists
PROPERTY StoreSpec
PROPERTY NobodyWaitsForever
