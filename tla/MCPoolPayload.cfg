CONSTANTS
    Callers = {c1}
    NThreads = 1
    IntWidth = 3
    SizeWidth = 4
    MaxTasks = 2
    NONE = NONE
    STOP = STOP
SPECIFICATION Spec
INVARIANT TaskSeesOwnPayload
