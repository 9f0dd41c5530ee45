SPECIFICATION Spec
CONSTANTS
    Flow = {f1}
    Seqnum = {0, 1, 2, 3, 4, 5, 6, 7, 8, 9, 10, 11, 12, 13, 14, 15, 16, 17, 18, 19, 20, 21, 22, 23, 24, 25,
              26, 27, 28, 29, 30, 31, 32}
    Time = {0, 1, 2}
    Duration = 3
    NoValue = NoValue
    uint32Max = 31
    Isn = {30}
    MaxSegment = 1
    Lengths = {0, 1}
    Payload <- MCPayload
    DpiPackets = 1
    MaxInt64 = 1000
    Skew = 1
    MaxPackets = 3
    MaxConns = 2
INVARIANTS  SampleSinceLastSend   AddCounts 
