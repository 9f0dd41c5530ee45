SPECIFICATION FairSpec
CONSTANTS
    Capturers = {p1}
    Flows = {f1}
    ChanCap = 1
    InitialAlloc = 1
    Timeout = 0
    NoPacket = NoPacket
    MaxStreams = 3
    MaxConns = 2
    MaxPackets = 3
    MaxTime = 2
    LastCapture = 1
INVARIANTS OneStreamPerConnection
PROPERTIES StreamEventuallyCloses SendCompletes
