CONSTANTS
    Producers = {p1, p2}
    Consumers = {c1, c2, c3}
    Objs = {o1, o2}
    Nodes = {n1, n2, n3}
    NULL = NULL
    MaxPushes = 4
SPECIFICATION FairSpec
INVARIANTS
    ListShape
    NodeOwnership
PROPERTIES
    Delivered
    IsFifo
