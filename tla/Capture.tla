------------------------------- MODULE Capture -------------------------------
(***************************************************************************)
(* handle1 in every capture goroutine: UDP packets go to the PieceDump,    *)
(* TCP packets to the streams' channels and from there to the interface's  *)
(* Stats (StatReport); the first goroutine that comes to the end of its    *)
(* packets logs the maps and ends the process with all of it.              *)
(***************************************************************************)
EXTENDS PieceDump, StatReport

CONSTANTS
    Blocks,      \* bound: the requests' lists of keys
    MaxPackets   \* bound: packets of one goroutine, by the filter

Filters == DOMAIN MaxPackets

ASSUME BlocksAssumption == Blocks \subseteq Seq(PieceKey)
ASSUME FilterAssumption == Filters \subseteq {"", "tcp", "udp"} /\ MaxPackets \in [Filters -> Nat]

VARIABLES
    filter,   \* BPFFilter of the interfaces
    packets   \* the packets each goroutine took

vars == <<dumpVars, statVars, filter, packets>>

Init == /\ DumpInit /\ StatInit
        /\ filter \in Filters
        /\ packets = [g \in Capturers |-> 0]

\* The next packet from the capture handle.
Takes(g) ==
    /\ packets[g] < MaxPackets[filter]
    /\ packets' = [packets EXCEPT ![g] = @ + 1]
    /\ UNCHANGED filter

\* Without a filter: no network or transport layer, or one that is neither TCP nor UDP.
Skip(g) ==
    /\ Running /\ dpc[g] = "packets"
    /\ Takes(g) /\ filter = ""
    /\ UNCHANGED <<dumpVars, statVars>>

CaptureUDP(g) ==
    /\ Takes(g) /\ filter # "tcp"
    /\ \/ \E ks \in Blocks : DumpPPLUDP(g, "req", ks)
       \/ \E k \in PieceKey : DumpPPLUDP(g, "resp", <<k>>)
       \/ DumpInvalid(g)
    /\ UNCHANGED statVars

CaptureTCP(g) ==
    /\ Running /\ dpc[g] = "packets"
    /\ Takes(g) /\ filter # "udp"
    /\ \E d \in Dumpers, dir \in Dir, len \in PacketLen : Assemble(d, dir, len)
    /\ UNCHANGED dumpVars

\* The handle is closed or the file is read: packet is nil.
Nil(g) == EndOfPackets(g) /\ UNCHANGED <<statVars, filter, packets>>

Dumping(g)  == DumpStep(g) /\ UNCHANGED <<statVars, filter, packets>>
\* Where there is no TCP every report is of zeros, and left out.
Reporter    == Running /\ filter # "udp" /\ StatStep /\ UNCHANGED <<dumpVars, filter, packets>>

Next ==
    \/ \E g \in Capturers : Skip(g) \/ CaptureUDP(g) \/ CaptureTCP(g) \/ Nil(g) \/ Dumping(g)
    \/ Reporter

Spec == Init /\ [][Next]_vars
=============================================================================
