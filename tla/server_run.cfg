SPECIFICATION FairSpec
CONSTANTS
    Requests = {r1, r2}
    Batch = Batch
    MaxConns = 1
    Attempts = 3
    Steps = 2
    MaxNights = 1
INVARIANTS
    BatchKeepsPool
    ClosedOnlyAfterGrace
    NothingCutOff
    OneEffect
PROPERTIES
    ShutdownEnds
    RequestsAnswered
CHECK_DEADLOCK FALSE
