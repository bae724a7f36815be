SPECIFICATION Spec
CONSTANTS
    MaxRequests = 2
    Connections = {"none", "close", "Keep-Alive"}
INVARIANTS
    ParseAgrees
    AnswersMatch
PROPERTY
    ClientAnswered
CHECK_DEADLOCK FALSE
