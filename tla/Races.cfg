SPECIFICATION Spec
CONSTANTS
    Capturers = {p1, p2}
    Flows = {f1}
    ChanCap = 2
    InitialAlloc = 1
    Timeout = 0
    NoPacket = NoPacket
    MaxStreams = 3
    MaxConns = 3
    MaxPackets = 3
    MaxTime = 1
    LastCapture = 1
SYMMETRY Symmetry
INVARIANTS TypeOK MapPointsToOwners FreeOnce ClosedIsReturned OpenHasDumper FullChannelHasReceiver
PROPERTIES LifecycleSpec
