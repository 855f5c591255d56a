SPECIFICATION Spec
CONSTANTS
    Ids = {i1}
    Members = {m1}
    Branches = {b1}
    BranchOf <- MCBranchOf
    Null = Null
    MonthlyTerms = {1}
    PassTerm = 2
    PassVisits = 1
    Workers = {w1, w2}
    Runners = {cron}
    Ops = {"grant", "pause", "unpause", "cancel_pause", "refund", "check_in"}
    Idle = Idle
    Punctual = FALSE
    Faults = TRUE
    Straddle = TRUE
    MaxDay = 1
    GrantAhead = {0, 1}
    MaxAhead = 1
    MaxHold = 1
    MaxExtend = 1
    MaxEvents = 2
INVARIANTS
    PeriodSound
    RefundsBooked
    BatchNeverAborts
SYMMETRY Interchangeable
CHECK_DEADLOCK FALSE
