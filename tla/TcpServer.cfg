SPECIFICATION Spec
CONSTANTS
    MaxThreads = 2
    Quitting = {1}
    MaxClients = 2
    MaxFds = 3
    MaxOthers = 1
    Ended = {1}
INVARIANTS
    ConnectionsAccounted
    
    NothingLeft
PROPERTIES
    ClientsServed
    CallsReturn
CHECK_DEADLOCK FALSE
