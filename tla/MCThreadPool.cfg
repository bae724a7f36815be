SPECIFICATION Spec
CONSTANTS
    c1 = c1
    c2 = c2
    w1 = w1
    w2 = w2
    t1 = t1
    t2 = t2
    t3 = t3
    Clients = {c1, c2}
    Workers = {w1, w2}
    Submitters <- AllThreads
    Tasks = {t1, t2, t3}
    Throwing = {t1}
    Overloads <- BothOverloads
    StartSizes = {0, 2}
    MaxSize = 1
INVARIANTS
    QueueKept
    TaskInOnePlace
PROPERTIES
    TasksRun
    StopReturns
CHECK_DEADLOCK FALSE
