SPECIFICATION ReadSpec
CONSTANTS
    Writers = {w1, w2}
    Limit = 2
    Deletable = TRUE
    Null = Null
    NoAnswer = NoAnswer
    MaxStamp = 2
    MaxRows = 4
    Memberships = {m1, m2}
    Methods = {cash, card}
    Days = {1, 2}
    Amounts = {1, 2}
    MaxInt = 3
    MaxRefunds = 2
SYMMETRY Interchangeable
INVARIANTS
    NoRowTwice
    NoRowSkipped
    LaterRowsStayOut
    PartsGrow
    QuietPartsAgree
    RefundsMirrorGrants
    QuietRangeFits
CHECK_DEADLOCK FALSE
