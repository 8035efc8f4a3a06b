CONSTANTS
    Callers = {c1, c2}
    NThreads = 2
    IntWidth = 1
    SizeWidth = 2
    MaxTasks = 4
    NONE = NONE
    STOP = STOP
SPECIFICATION FairSpec
INVARIANTS
    RoundRobin
    DrainedBeforeExit
    NodeOutlivesUsers
PROPERTIES
    DoneEnds
    EveryTaskRuns
