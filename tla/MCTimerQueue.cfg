SPECIFICATION Spec
CONSTANTS
    once1 = once1
    once2 = once2
    every = every
    Never = Never
    Timers <- MCTimers
    Interval <- MCInterval
    Times = {0, 2, 3}
    MinDelay = 1
    MaxTime = 5
    MaxPending = 1
    Builds = {TRUE, FALSE}
SYMMETRY Symmetry
INVARIANTS
    AlarmCovers
    NotRevived
    AssertionsExplained
PROPERTY
    NeverEarly
CHECK_DEADLOCK FALSE
