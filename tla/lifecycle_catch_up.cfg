SPECIFICATION FairSpec
CONSTANTS
    Ids = {i1}
    Members = {m1}
    Branches = {b1}
    BranchOf <- MCBranchOf
    Null = Null
    MonthlyTerms = {1}
    PassTerm = 2
    PassVisits = 2
    Workers = {w1}
    Runners = {cron}
    Ops = {"grant", "pause", "unpause", "bulk_extend", "delete_member"}
    Idle = Idle
    Punctual = FALSE
    Faults = TRUE
    Straddle = TRUE
    MaxDay = 2
    GrantAhead = {0, 1}
    MaxAhead = 1
    MaxHold = 1
    MaxExtend = 1
    MaxEvents = 2
PROPERTIES
    HoldsEnd
    PastEndExpires
CHECK_DEADLOCK FALSE
