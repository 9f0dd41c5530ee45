------------------------------ MODULE MCCapture ------------------------------
EXTENDS Capture, TLC

CONSTANTS k1, k2

\* A request for no block, for one, and for two of which one may be asked again.
MCBlocks == {<<>>, <<k1>>, <<k1, k2>>}

MCMaxPackets == ("" :> 1) @@ ("tcp" :> 2) @@ ("udp" :> 3)

MCSymmetry == Permutations(Capturers)
=============================================================================
