SPECIFICATION Spec
CONSTANTS
    Calls = {c1, c2}
    Users = {u1, u2}
    NoUser = NoUser
    Texts = {"edited"}
    AIDraft = "ai"
    Comments = {"why"}
    NoComment = "null"
    NoCall = NoCall
    NoRow = NoRow
    MaxAuditFailures = 0
    MaxDbFailures = 0
    MaxCrashes = 0
CHECK_DEADLOCK FALSE
PROPERTIES
    EditOnlyBeforeDecision
