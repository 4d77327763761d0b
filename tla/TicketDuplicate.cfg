SPECIFICATION Spec
CONSTANTS
    Requests = {r1, r2}
    Keys = {k1}
    NoKey = NoKey
    NoTicket = NoTicket
    Absent = Absent
    InProgress = InProgress
    MaxKeyLosses = 0
    MaxRedisFaults = 0
    MaxCrashes = 0
    MaxLateFailures = 1
CHECK_DEADLOCK FALSE
INVARIANTS NeverASecondTicket
