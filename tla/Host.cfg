SPECIFICATION MCSpec
CONSTANTS
    a = a
    b = b
    Device = {a, b}
    None = None
    Configs <- MCConfigs
    Named <- MCNamed
    InHeader <- MCInHeader
    InInterfaces <- MCInInterfaces
    MaxCalls = 4
    ConfigLen = 3
    InterfaceLen = 4
    EndpointLen = 3
    INTERFACE = 4
    ENDPOINT = 3
    Bytes = {0, 1, 3, 4}
    MaxLen = 9
INVARIANTS
    OneDeviceInModel
    ExamineAsksForAll
    WalkCoversBlob
    ParseGroupsByInterface
PROPERTIES
    EnumeratedHasAddress
CHECK_DEADLOCK FALSE \* the client may have made all its calls
