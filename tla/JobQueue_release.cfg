SPECIFICATION Spec
CONSTANTS
    o1 = o1
    o2 = o2
    a1 = a1
    a2 = a2
    p1 = p1
    NoOne = NoOne
    Jobs = {j1, j2}
    Owners = {o1}
    Apps = {a1}
    OwnerOf <- MCOwnerOf
    Plans = {p1}
    AppOf <- MCAppOf
    Requests = {h1}
    Kinds = {"full_backup"}
    PendingLimit = 1
    AlertLimit = 2
    TickLimit = 1
    MaxRestarts = 1
    MaxUpdates = 1
    MaxLostWrites = 0
    MaxClock = 1
SYMMETRY MCSymmetry
INVARIANTS
    StatusTellsTruth
    OvertakenAtMostOnce
    DispatchedAtMostOnce
PROPERTIES
    FinishedIsFinal
    UpdateCutsNoJob
