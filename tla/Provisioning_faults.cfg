SPECIFICATION Spec
CONSTANTS
    None = None
    Ids = {i1, i2, i3}
    Owners = {o1}
    Names = {n1}
    Requests = {r1, r2}
    Kinds = {"apps", "domains", "backups"}
    Quota = 2
    Faults = {"host", "publish", "save", "crash", "drop", "db"}
CHECK_DEADLOCK FALSE
SYMMETRY MCSymmetry
INVARIANTS
    TypeOK
    LinksResolve
    NameOnce
    StoredIsBuilt
    AgreeAtRest
PROPERTIES
    CatalogueKept
