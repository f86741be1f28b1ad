SPECIFICATION Spec
CONSTANTS
    Capacity = 2
    Burst = 2
    Probes = 2
    MaxCalls = 4
    MaxChanges = 1
INVARIANT AckIsOfLastTransmit
CHECK_DEADLOCK FALSE \* the client may have made all its calls
