SPECIFICATION FairSpec
CONSTANTS
    Calls = {c1, c2, c3}
    Loops = {l1, l2}
    MainLoop = MainLoop
    NoLoop = NoLoop
    Thread = Thread
    Handler = Handler
    NoCall = NoCall
CHECK_DEADLOCK FALSE
INVARIANTS
    TypeOK
    OneBackgroundLoop
    ClientsStayHome
    NobodyDeadlocks
PROPERTIES
    EveryCallReturns
