CONSTANTS
    Session = {cap}
    Cap = cap
    Caller = {main, timer, ctrlc}
    Main = main
    Timer = timer
    CtrlC = ctrlc
    MaxPresses = 2
    Devices = {d1, d2}
    READ_QUEUE = 3
    MaxChunks = 4
    MaxRecords = 1
    None = None
SPECIFICATION CliSpec
INVARIANTS
    ExitLeavesAnalyzerOff
    OkMeansWholeFile
PROPERTIES
    StopEndsProgram
    DeliversInOrder
