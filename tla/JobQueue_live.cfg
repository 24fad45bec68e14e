SPECIFICATION FairSpec
CONSTANTS
    o1 = o1
    o2 = o2
    a1 = a1
    a2 = a2
    p1 = p1
    NoOne = NoOne
    Jobs = {j1, j2}
    Owners = {o1, o2}
    Apps = {a1, a2}
    OwnerOf <- MCOwnerOf
    Plans = {}
    AppOf <- MCAppOf
    Requests = {h1}
    Kinds = {"runtime"}
    PendingLimit = 1
    AlertLimit = 2
    TickLimit = 1
    MaxRestarts = 0
    MaxUpdates = 1
    MaxLostWrites = 0
    MaxClock = 1
PROPERTIES
    QueuedJobEnds
