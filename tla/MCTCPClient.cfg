CONSTANTS
    Users = {u1, u2}
    NUL = NUL
    Bytes = {u1, u2, NUL}
    NONE = NONE
    MaxText = 2
    MaxConns = 2
    MaxCalls = 2
    WireSize = 2
    IoBuf = 2
    Block = 2
SPECIFICATION FairSpec
INVARIANTS
    TextsWhole
    TextsArrive
    NothingLeft
PROPERTY
    ExchangeEnds
CHECK_DEADLOCK FALSE
