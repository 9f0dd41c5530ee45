SPECIFICATION Spec
CONSTANTS
    Flow = {f1}
    Seqnum = {0,1,2,3,4,5,6,7,8,9,10}
    Time = {0,1,2,3}
    Duration = 3
    NoValue = NoValue
    uint32Max = 8
    MaxSegment = 2
    Isn = {7}
    Lengths = {0, 1, 2}
    Payload <- MCNoHttp
    DpiPackets = 5
    MaxInt64 = 1000
    Skew = 1
    MaxPackets = 4
    MaxConns = 1
INVARIANTS SequencesInRange
