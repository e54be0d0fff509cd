SPECIFICATION Spec

CONSTANTS
    a = a
    b = b
    Clients = {c1, c2}
    Indices = {a, b}
    Alias = alias
    Ids = {"d", "e"}
    Routings = {"r"}
    HighKeys = {"r"}
    Nothing = Nothing
    MaxWrites = 5
    Plays <- AllPlays

SYMMETRY Symmetry

CHECK_DEADLOCK FALSE

INVARIANT NoLostUpdate
INVARIANT RefreshedSeen
INVARIANT ScrollIsOneView

PROPERTY VersionsGrow
