CONSTANTS
    Keys = {k1, k2, k3}
    Values = {v1, v2}
    Nodes = {n1, n2, n3}
    Capacity = 2
    NULL = NULL
SYMMETRY Symmetry
SPECIFICATION Spec
INVARIANTS
    BucketShape
    IterComplete
PROPERTY
    IsDictionary
