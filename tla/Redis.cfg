SPECIFICATION Spec

CONSTANTS
    ka = ka
    kb = kb
    d0 = d0
    d1 = d1
    x = x
    y = y
    z = z
    Clients = {x, y, z}
    Keys = {ka, kb}
    Dbs = {d0, d1}
    First = d0
    MaxItems = 2
    MaxQueue = 2
    MaxFaults = 1
    Plays <- AllPlays

CHECK_DEADLOCK FALSE

INVARIANT NobodyWaitsOnData
INVARIANT EachItemOnce
PROPERTY ServedInOrder
PROPERTY ExecSawWhatItWatched
PROPERTY ExecIsWhole
