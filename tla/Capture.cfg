SPECIFICATION Spec
CONSTANTS
    Capturers = {g1, g2}
    k1 = k1
    k2 = k2
    PieceKey = {k1, k2}
    Blocks <- MCBlocks
    Dumpers = {d1}
    ChanCap = 1
    PacketLen = {1}
    MaxReports = 2
    MaxPackets <- MCMaxPackets
INVARIANTS  ReportComplete ReportCoversBytes UncountedBounded
SYMMETRY MCSymmetry
CHECK_DEADLOCK FALSE
