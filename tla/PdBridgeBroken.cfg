SPECIFICATION Spec
CONSTANTS
    ObjectLen = 1
    CrcLen = 2
    Capacity = 11
    Objects = {0, 1}
    FrameLen = 2
    Frames = {"offer", "accept"}
    Numbers = 3
PROPERTIES ReturnsReceivedMessage
