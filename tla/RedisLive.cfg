SPECIFICATION LiveSpec

CONSTANTS
    ka = ka
    kb = kb
    d0 = d0
    d1 = d1
    x = x
    y = y
    z = z
    Clients = {x, y, z}
    Keys = {ka, kb}
    Dbs = {d0}
    First = d0
    MaxItems = 2
    MaxQueue = 1
    MaxFaults = 1
    Plays <- LivePlays

CHECK_DEADLOCK FALSE

PROPERTY WaitersEnd
