SPECIFICATION Spec
CONSTANTS
    Workers = {w1, w2}
    Sessions = {s1}
    Grants = {g1, g2}
    Null = Null
    AccessTTL = 2
    RefreshTTL = 4
    MaxRequest = 1
    Overlap = FALSE
    MaxTime = 6
    MaxIssued = 2
INVARIANTS
    TokensCurrent
    SessionEnds
    LogoutEnds
SYMMETRY Interchangeable
CHECK_DEADLOCK FALSE
