SPECIFICATION Spec
CONSTANTS
    t1 = t1
    t2 = t2
    Threads <- TwoThreads
    LoopCalls <- AllCalls
    ThreadCalls <- AllCalls
    MaxCalls = 3
    HighWaterMark = 2
    SameLoop = FALSE
    ServerDies = TRUE
SYMMETRY Symmetry
INVARIANTS
    MessagesIntact
    WatchesWrites
    AbortsExplained
PROPERTIES
    FlushedBeforeFin
CHECK_DEADLOCK FALSE
