SPECIFICATION Spec
CONSTANTS
    Capturers = {p1}
    Flows = {f1}
    ChanCap = 2
    InitialAlloc = 1
    Timeout = 0
    NoPacket = NoPacket
    MaxStreams = 1
    MaxConns = 3
    MaxPackets = 8
    MaxTime = 0
    LastCapture = 0
PROPERTY BothEndsBeforeClose
