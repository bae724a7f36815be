SPECIFICATION Spec
CONSTANTS
    UserCalls = {"connect"}
    retry_ = TRUE
    Owners = {"unique_ptr"}
    Outcomes = {"progress"}
    Dies = FALSE
    MaxCalls = 1
    MaxSockets = 3
    InitRetryDelay = 5
    MaxRetryDelay = 12
INVARIANT RetryKeepsConnector
CHECK_DEADLOCK FALSE
