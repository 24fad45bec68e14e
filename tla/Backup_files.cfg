SPECIFICATION Spec
CONSTANTS
    None = None
    Ids = {b1, b2}
    Writes = {w1}
    Keep = 1
    Writers = {"app", "sftp"}
    Faults = {}
CHECK_DEADLOCK FALSE
SYMMETRY MCSymmetry
INVARIANT FilesAreReplaced
