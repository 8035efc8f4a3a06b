CONSTANTS
    Clients = {c1, c2}
    MaxCapacity = 3
    Heap = {h1, h2}
    NULL = NULL
    ALLOCATED = ALLOCATED
SPECIFICATION Spec
INVARIANTS
    CountIsMark
    FreeListShape
    FlagTellsOrigin
PROPERTY
    IsAllocator
