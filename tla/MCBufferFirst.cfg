CONSTANTS
    Bytes = {0, 1}
    NUL = 0
    Block = 2
    MaxLen = 4
    MaxEnd = 5
    MaxFirst = 4
SPECIFICATION BufferSpec
INVARIANT NoOverrun
