SPECIFICATION Spec
CONSTANTS
    Requests = {r1, r2, r3, r4}
    Keys = {k1, k2}
    NoKey = NoKey
    NoTicket = NoTicket
    Absent = Absent
    InProgress = InProgress
    MaxKeyLosses = 1
    MaxRedisFaults = 2
    MaxCrashes = 1
    MaxLateFailures = 1
SYMMETRY RequestSymmetry
CHECK_DEADLOCK FALSE
INVARIANTS
    TypeOK
    ExclusiveExecution
    SameAnswerPerKey
    DuplicatesAccounted
    RefusalCreatesNothing
    NoOrphanClaim
PROPERTIES
    StoredResponseStays
    ImplementsAtMostOnce
