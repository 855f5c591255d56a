SPECIFICATION Spec
CONSTANTS
    Callers = {c1, c2}
    Keys = {k1, k2}
    Bodies = {b1, b2}
    Window = 1
    Null = Null
    Overlap = FALSE
    Faults = FALSE
    ReuseStale = FALSE
    MaxTime = 4
    MaxLog = 4
PROPERTY
    KeepsPromise
SYMMETRY Interchangeable
