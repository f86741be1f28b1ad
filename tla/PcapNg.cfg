SPECIFICATION TraceSpec
CONSTANTS
    B = 8
    SHB <- MCSHB
    Magic <- MCMagic
    LinkType = 48
    Names <- MCNames
    Message <- MCMessage
    Clock <- MCClock
    MaxRecords = 2
INVARIANTS
    DumpShowsTrace
CHECK_DEADLOCK FALSE \* a file that was dumped or refused is done with
