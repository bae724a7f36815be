SPECIFICATION BufferSpec
CONSTANTS
    kInitialSize = 1
    kCheapPrepend = 2
    ExtraSize = 2
    MaxSize = 6
    Zero = 0
    Base = 4
    Widths = {1, 2}
    Bytes <- MCBytes
    Chunks <- MCChunks
    Lengths <- MCLengths
INVARIANTS
    BufferOK
    SpaceAssertionsHold
    IntegersReturn
PROPERTY
    ImplementsByteQueue
