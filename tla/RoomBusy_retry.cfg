SPECIFICATION Spec
CONSTANTS
    Rooms = {m1}
    Visitors = {v1, v2}
    Opens = 1
    TTL = 1
    Retry = 2
    MaxTime = 6
    MaxAsks = 4
    MaxSyncs = 0
    MaxFaults = 0
PROPERTY FreebusyRetried
CHECK_DEADLOCK FALSE
