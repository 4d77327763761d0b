SPECIFICATION FairSystem
CONSTANTS
    Requests = {r1, r2}
    Keys = {k1}
    NoKey = NoKey
    NoTicket = NoTicket
    Absent = Absent
    InProgress = InProgress
    MaxKeyLosses = 1
    MaxRedisFaults = 1
    MaxCrashes = 1
    MaxLateFailures = 2
    plain = plain
    Texts = {plain}
    Content <- MCContent
    NoText = NoText
    Categories = {"general"}
    Unset = Unset
    Unavailable = Unavailable
VIEW Essential
CHECK_DEADLOCK FALSE
INVARIANTS
    AnsweredMeansTriaged
    ReviewsAccounted
    FailuresLeaveNoReview
PROPERTIES
    ClaimsAreSettled
