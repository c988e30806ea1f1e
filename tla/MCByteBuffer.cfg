SPECIFICATION Spec
CONSTANTS
    Size = 4
    Byte = {0, 1}
INVARIANTS WriterStaysOff ReaderStaysIn
PROPERTY IsFifo
