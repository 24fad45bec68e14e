SPECIFICATION Spec
CONSTANTS
    Users = {admin, user}
    Admins = {admin}
    Handlers = {h1, h2}
    Sessions = {s1, s2}
    Tokens = {t1, t2}
    RecoveryCodes = {r1}
    TokenLimit = 1
    MaxAccess = 2
    MaxSecrets = 2
    MaxChanges = 2
    MaxPeriod = 1
    NoOne = NoOne
CONSTRAINT MCBound
SYMMETRY MCSymmetry
CHECK_DEADLOCK FALSE
INVARIANTS
    GrantsAreCurrent
    SecondFactorHolds
    CodesCountOnce
    TokenLimitHolds
