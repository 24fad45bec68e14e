SPECIFICATION Spec
CONSTANTS
    None = None
    Ids = {i1, i2, i3}
    Owners = {o1}
    Names = {n1}
    Requests = {r1, r2}
    Kinds = {"apps", "domains"}
    Quota = 2
    Faults = {"drop"}
CHECK_DEADLOCK FALSE
SYMMETRY MCSymmetry
INVARIANTS
    LinkedRemovedFirst
