SPECIFICATION Spec
CONSTANTS
    Ids = {i1, i2}
    Members = {m1}
    Branches = {b1}
    BranchOf <- MCBranchOf
    Null = Null
    MonthlyTerms = {1}
    PassTerm = 2
    PassVisits = 2
    Workers = {w1}
    Runners = {cron}
    Ops = {"grant", "pause", "unpause", "cancel_pause", "bulk_extend", "check_in"}
    Idle = Idle
    Punctual = TRUE
    Faults = FALSE
    Straddle = FALSE
    MaxDay = 3
    GrantAhead = {0, 1, 4}
    MaxAhead = 1
    MaxHold = 1
    MaxExtend = 1
    MaxEvents = 2
INVARIANTS
    LedgerExplainsEnd
    ScheduledHoldsStart
    HoldsEndOnTime
    OneVisitPerDay
    CancelNeverConflicts
SYMMETRY Interchangeable
CHECK_DEADLOCK FALSE
