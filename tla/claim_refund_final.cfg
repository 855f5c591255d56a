SPECIFICATION Spec
CONSTANTS
    Ids = {i1}
    Members = {m1}
    Branches = {b1}
    BranchOf <- MCBranchOf
    Null = Null
    MonthlyTerms = {1}
    PassTerm = 2
    PassVisits = 1
    Workers = {w1}
    Runners = {cron}
    Ops = {"grant", "pause", "refund"}
    Idle = Idle
    Punctual = FALSE
    Faults = FALSE
    Straddle = FALSE
    MaxDay = 1
    GrantAhead = {0, 1}
    MaxAhead = 1
    MaxHold = 1
    MaxExtend = 1
    MaxEvents = 3
PROPERTY
    RefundIsFinal
CHECK_DEADLOCK FALSE
