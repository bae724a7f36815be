SPECIFICATION Spec
CONSTANTS
    t1 = t1
    t2 = t2
    Threads <- NoThread
    LoopCalls <- OnlySend
    ThreadCalls <- NoCall
    MaxCalls = 2
    HighWaterMark = 2
    SameLoop = TRUE
    ServerDies = FALSE
INVARIANT NothingDropped
