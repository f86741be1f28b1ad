CONSTANTS
    Session = {s1, s2}
    Caller = {timer}
    READ_QUEUE = 2
    MaxChunks = 3
    MaxRecords = 1
    None = None
SPECIFICATION Spec
SYMMETRY Symmetry
INVARIANTS
    TypeOK
    ReadsInCompletionOrder
    DisableSticks
    EnabledHasReason
    AtMostOneItemAfterStop
CHECK_DEADLOCK FALSE \* every session may be used up
