SPECIFICATION ASpec
CONSTANTS
    Capturers = {p1}
    Flows = {f1}
    ChanCap = 2
    InitialAlloc = 1
    Timeout = 0
    NoPacket = NoPacket
    MaxStreams = 1
    MaxConns = 2
    MaxPackets = 7
    MaxTime = 0
    LastCapture = 0
INVARIANT PacketsIsTotalSeen
