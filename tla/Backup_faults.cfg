SPECIFICATION Spec
CONSTANTS
    None = None
    Ids = {b1, b2}
    Writes = {w1}
    Keep = 1
    Writers = {"app", "sftp"}
    Faults = {"host", "send", "save", "crash"}
CHECK_DEADLOCK FALSE
SYMMETRY MCSymmetry
INVARIANTS
    TypeOK
    SameMoment
    WritersResume
    RestoreIsWhole
    AnsweredIsKept
PROPERTIES
    RecoveryFirst
    LastCopyStays
