CONSTANTS
    Threads = {t1, t2, t3}
    NONE = NONE
    MaxCalls = 1
    NS = 2
    Timeouts = {1}
    MaxClock = 3
    MaxWakes = 1
SPECIFICATION TimedFairSpec
INVARIANTS
    MutexDiscipline
    NoLostWakeup
PROPERTIES
    WaitersReleased
    IsLatch
    NoEarlyTimeout
    TimedWaitEnds
CHECK_DEADLOCK FALSE
