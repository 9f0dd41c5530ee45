SPECIFICATION CacheSpec
CONSTANTS
    Flow = {f1, f2}
    Seqnum = {1, 2, 3, 4}
    Time = {1, 2, 3}
    Duration = 1
    NoValue = NoValue
    MaxLength = 3
INVARIANTS IndexMatchesList ClosedIsEmpty
 
