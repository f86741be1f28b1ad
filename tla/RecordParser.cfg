CONSTANTS
    Base = 4
    Wires <- MCWires
    Streams <- MCStreams
    ReadLen = 6
    MaxSent = 3
SPECIFICATION Spec
INVARIANTS
    TypeOK
    TimeIsMonotone
    DecodesWhatWasSent
    BufferIsTail
CHECK_DEADLOCK FALSE \* the stream ends
