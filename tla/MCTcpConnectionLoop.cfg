SPECIFICATION Spec
CONSTANTS
    t1 = t1
    t2 = t2
    Threads <- NoThread
    LoopCalls <- AllCalls
    ThreadCalls <- NoCall
    MaxCalls = 6
    HighWaterMark = 2
    SameLoop = TRUE
    ServerDies = TRUE
INVARIANTS
    AbortsExplained
    ServerDestroysOpen
PROPERTIES
    GoneIsDestroyed
    ShutdownCompletes
CHECK_DEADLOCK FALSE
