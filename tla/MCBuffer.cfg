CONSTANTS
    Bytes = {0, 126, 128}
    NUL = 0
    Block = 2
    MaxLen = 2
    MaxEnd = 5
    MaxFirst = 2
    HexBlock = 2
    BytesPerLine = 2
    CharMax = 127
SPECIFICATION BufferSpec
INVARIANTS
    NoOverrun
    
PROPERTY
    IsStream
