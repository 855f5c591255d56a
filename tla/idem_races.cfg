SPECIFICATION Spec
CONSTANTS
    Callers = {c1, c2}
    Keys = {k1, k2}
    Bodies = {b1, b2}
    Window = 1
    Null = Null
    Overlap = TRUE
    Faults = TRUE
    ReuseStale = TRUE
    MaxTime = 2
    MaxLog = 2
INVARIANTS
    AnswersMatch
PROPERTY
    StoredAnswerStands
SYMMETRY Interchangeable
