SPECIFICATION Spec
CONSTANTS
    Ips = {p1, p2}
    Max = 1
    Window = 2
    GcAbove = 1
    Workers = {w1, w2}
    Null = Null
    Limit = 2
    Lock = 2
    Temp = 1
    Lag = 1
    MaxAge = 2
    MaxTime = 5
INVARIANTS
    RateKept
    ForgottenIsPaid
    FiveLocks
    NobodyTriesLocked
PROPERTIES
    LockNeedsFive
    LockNotCut
SYMMETRY Interchangeable
CHECK_DEADLOCK FALSE
