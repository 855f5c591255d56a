SPECIFICATION Spec
CONSTANTS
    Callers = {c1, c2}
    Members = {m1, m2, m3}
    Impatient = {m1}
    TTL = 2
    MaxEntries = 2
    Null = Null
    Restarts = TRUE
    MaxTime = 3
    MaxVisits = 4
INVARIANTS
    CacheHoldsLatest
    FreshAnswerKept
PROPERTY
    Debounced
SYMMETRY Interchangeable
