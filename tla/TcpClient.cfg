SPECIFICATION Spec
CONSTANTS
    UserCalls = {"connect", "disconnect", "stop"}
    retry_ = TRUE
    Owners = {"unique_ptr", "shared_ptr"}
    Outcomes = {"progress", "soft", "hard"}
    Dies = TRUE
    MaxCalls = 4
    MaxSockets = 3
    InitRetryDelay = 5
    MaxRetryDelay = 12
INVARIANTS
    SocketsAccounted
    ChannelFollowsState
    AbortsExplained
PROPERTY
    KeepsTrying
CHECK_DEADLOCK FALSE
