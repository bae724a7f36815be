SPECIFICATION Spec
CONSTANTS
    p1 = p1
    p2 = p2
    w1 = w1
    w2 = w2
    k1 = k1
    k2 = k2
    t1 = t1
    t2 = t2
    quit = quit
    Threads = {p1, p2, w1, w2}
    Waiters = {w1, w2}
    Producers = {p1, p2}
    Owner = p1
    Counters = {k1, k2}
    Counts = {1, 2}
    Values = {t1, t2, quit}
    Quit = quit
    Capacities <- AllCapacities
INVARIANTS
    NotifiesKept
    OpeningAnnounced
    FirstInFirstOut
PROPERTY
    JoinReturns
CHECK_DEADLOCK FALSE
