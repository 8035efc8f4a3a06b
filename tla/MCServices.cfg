CONSTANTS
    Clients = {c1, c2}
    NONE = NONE
    MaxThreads = 2
SPECIFICATION ServicesFairSpec
INVARIANTS
    StartReported
    ThreadsEndFirst
    NoConnectionLeft
PROPERTIES
    ShutdownEnds
    ConnectionsServed
CHECK_DEADLOCK FALSE
