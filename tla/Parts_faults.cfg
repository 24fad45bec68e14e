SPECIFICATION MCSpec
CONSTANTS
    Tasks = {t1, t2}
    LastMinute = 2
    MaxCronFaults = 2
    d1 = d1
    d2 = d2
    r1 = r1
    r2 = r2
    Domains = {d1, d2}
    Records = {r1, r2}
    DomainOf <- MCDomainOf
    ChallengeOf <- MCChallengeOf
    Refused = {r2}
    Challenges = {c1}
    LastSecond = 2
    MaxZoneFaults = 1
    Paths = {p1, p2}
    Files = {f1, f2}
    Uploads = {f1}
    Helpers = {h1, h2}
    Edits = {e1}
    Chunks = 2
    MaxBreaks = 1
    Cut = Cut
    NoFile = NoFile
    Archives = {u1, u2}
    Pieces = 2
    Slots = 1
    MaxImportFaults = 2
    Sites = {s1}
    Visits = {v1, v2}
    Guards = {g1, g2}
    MaxRules = 2
    Nowhere = Nowhere
CHECK_DEADLOCK FALSE
INVARIANTS
    StartedOnce
    ZonesAreCurrent
    UploadsAreWhole
    ImportIsWhole
    ProtectionAgrees
PROPERTIES
    SerialsGrow
    NothingIsOverwritten
    DueIsStarted
