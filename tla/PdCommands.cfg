CONSTANTS
    Ids = 4
    Attempts = 2
    MaxQueue = 2
    MaxPasses = 2
    AnyCalls = 3
SPECIFICATION CmdSpec
INVARIANTS
    TypeOK
    FreshMessageId
    RailAsReported
    SuccessMeansContract
    SuccessKeepsTrace
    NoBackFeed
PROPERTY CommandEnds
CHECK_DEADLOCK FALSE \* the program ends
