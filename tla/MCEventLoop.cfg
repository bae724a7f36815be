SPECIFICATION Spec
CONSTANTS
    t1 = t1
    t2 = t2
    f1 = f1
    f2 = f2
    f3 = f3
    c1 = c1
    LoopThread = LoopThread
    WakeupChannel = WakeupChannel
    Threads <- MCThreads
    Functors <- MCFunctors
    Channels <- MCChannels
INVARIANTS
    NoLostWakeup
PROPERTIES
    ImplementsExecutor
    EveryFunctorRuns
    QuitStops
CHECK_DEADLOCK FALSE
