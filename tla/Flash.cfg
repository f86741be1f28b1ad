SPECIFICATION FlashSpec
CONSTANTS
    ByteBits = 2
    Bitstreams <- MCBitstreams
    Reported = {0, 1, 2}
    DefaultMax = 4
    LeastMax = 1
    ScanLimit = 64
    MagicBytes <- MCMagic
    MagicBits = 3
    Polls = 2
    MaxCalls = 2
    Boards = {b1, b2}
    Nobody = Nobody
    Tries = 3
    MaxPlugs = 2
SYMMETRY Symmetry
INVARIANTS
    AsksOneBoard
    ScansReachTheirRegister
    LoadsInOrder
    OkMeansConfigured
PROPERTY OpensTheBoardAsked
CHECK_DEADLOCK FALSE \* the program may be done, or have found no Apollo
