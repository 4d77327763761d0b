SPECIFICATION FairSpec
CONSTANTS
    Calls = {c1, c2}
    Users = {u1, u2}
    NoUser = NoUser
    Texts = {"edited"}
    AIDraft = "ai"
    Comments = {"why"}
    NoComment = "null"
    NoCall = NoCall
    NoRow = NoRow
    MaxAuditFailures = 1
    MaxDbFailures = 1
    MaxCrashes = 1
CHECK_DEADLOCK FALSE
INVARIANTS
    TypeOK
    SerialDecisionsAreWhole
    FirstDecisionsAgree
    LastEditStands
    AuditIsTrue
    MissingAuditIsAccounted
PROPERTIES
    ImplementsReviewItem
    CallsFinish
