SPECIFICATION Spec
CONSTANTS
    Workers = {w1, w2}
    Branches = {b1, b2}
    Members = {m1}
    Admins = {a1}
    Null = Null
    MaxRequest = 1
    MaxTime = 4
INVARIANTS
    StrandedByRaceOnly
SYMMETRY Interchangeable
CHECK_DEADLOCK FALSE
