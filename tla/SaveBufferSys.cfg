SPECIFICATION Spec
CONSTANTS
    SaveSize = 5
    Byte = {0, 1}
    LenAt = 1
    LenBytes = 2
    MaxChunk = 3
    Zero = 0
INVARIANTS BufferOK LengthFieldIsNext
PROPERTY ImplementsFifo
