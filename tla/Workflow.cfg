SPECIFICATION FairSpec
CONSTANTS
    Tickets = {t1}
    plain = plain
    refund = refund
    Texts = {plain, refund}
    Content <- MCContent
    NoText = NoText
    Categories = {"billing", "general"}
    Unset = Unset
    Unavailable = Unavailable
CHECK_DEADLOCK FALSE
INVARIANTS
    TypeOK
    EscalationHonoured
    CacheHoldsVerdicts
    ContextIsGenuine
PROPERTIES
    ImplementsWorkflowContract
