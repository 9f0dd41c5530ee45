----------------------------- MODULE StatReport ------------------------------
(***************************************************************************)
(* The Stats of one interface: dump goroutines add the packets of their    *)
(* streams to four atomic counters, first the bytes, then the packet, and  *)
(* discard those that are left when the stream has closed; the reporter    *)
(* loads the counters one after the other at each tick.                    *)
(***************************************************************************)
EXTENDS Integers, Sequences, FiniteSets

CONSTANTS
    Dumpers,     \* dump goroutines of the interface's streams
    ChanCap,     \* capacity of a stream's channel (10 in the code)
    PacketLen,   \* payload lengths
    MaxReports   \* bound: ticks

ASSUME DumpersAssumption == IsFiniteSet(Dumpers)
ASSUME ChanCapAssumption == ChanCap \in Nat \ {0} /\ PacketLen \subseteq Nat /\ MaxReports \in Nat
ASSUME LongestAssumption == \E n \in PacketLen : \A m \in PacketLen : m <= n

VARIABLES
    data,      \* the streams' channels: <<direction, length>>
    closed,    \* the streams that were closed
    adding,    \* the packet whose bytes a goroutine has added, or none
    counter,   \* TXBytes, TXPackets, RXBytes, RXPackets
    loaded,    \* the reporter's locals of this tick, as far as loaded
    old,       \* the locals of the tick before
    reports,
    handed     \* history: packets handed to a stream and not discarded

statVars == <<data, closed, adding, counter, loaded, old, reports, handed>>

Dir      == {"tx", "rx"}
Counters == Dir \X {"Bytes", "Packets"}
None     == <<>>
NoCounts == [c \in Counters |-> 0]

\* Mutant: packets before bytes.
LoadPacketsFirst == <<<<"tx", "Packets">>, <<"tx", "Bytes">>, <<"rx", "Packets">>, <<"rx", "Bytes">>>>

\* The order of the loads in Stat.
LoadOrder == <<<<"tx", "Bytes">>, <<"tx", "Packets">>, <<"rx", "Bytes">>, <<"rx", "Packets">>>>

StatInit ==
    /\ data = [d \in Dumpers |-> <<>>]
    /\ closed = [d \in Dumpers |-> FALSE]
    /\ adding = [d \in Dumpers |-> None]
    /\ counter = NoCounts /\ loaded = <<>> /\ old = NoCounts
    /\ reports = 0 /\ handed = 0

\* stream.handle: the capture goroutine waits while the channel is full.  (The
\* stream may close after it was found open.)
Assemble(d, dir, len) ==
    /\ Len(data[d]) < ChanCap
    /\ data' = [data EXCEPT ![d] = Append(@, <<dir, len>>)]
    /\ handed' = handed + 1
    /\ UNCHANGED <<closed, adding, counter, loaded, old, reports>>

\* conn.stat: AddTXBytes or AddRXBytes ...
AddBytes(d) ==
    /\ adding[d] = None /\ ~closed[d] /\ data[d] # <<>>
    /\ LET p == Head(data[d]) IN
       /\ adding' = [adding EXCEPT ![d] = p]
       /\ counter' = [counter EXCEPT ![<<p[1], "Bytes">>] = @ + p[2]]
    /\ data' = [data EXCEPT ![d] = Tail(@)]
    /\ UNCHANGED <<closed, loaded, old, reports, handed>>

\* Mutant: one direction is forgotten.
AddPacketsOfClient(d) ==
    /\ adding[d] # None
    /\ counter' = IF adding[d][1] = "tx" THEN [counter EXCEPT ![<<"tx", "Packets">>] = @ + 1] ELSE counter
    /\ adding' = [adding EXCEPT ![d] = None]
    /\ UNCHANGED <<data, closed, loaded, old, reports, handed>>

\* ... then AddTXPackets or AddRXPackets.
AddPackets(d) ==
    /\ adding[d] # None
    /\ counter' = [counter EXCEPT ![<<adding[d][1], "Packets">>] = @ + 1]
    /\ adding' = [adding EXCEPT ![d] = None]
    /\ UNCHANGED <<data, closed, loaded, old, reports, handed>>

\* conn.handle after both FINs, or the ticker: both in the dump goroutine.
Close(d) ==
    /\ adding[d] = None /\ ~closed[d]
    /\ closed' = [closed EXCEPT ![d] = TRUE]
    /\ UNCHANGED <<data, adding, counter, loaded, old, reports, handed>>

\* The packets of a closed stream are taken off its channel uncounted.
Discard(d) ==
    /\ closed[d] /\ data[d] # <<>>
    /\ data' = [data EXCEPT ![d] = Tail(@)]
    /\ handed' = handed - 1
    /\ UNCHANGED <<closed, adding, counter, loaded, old, reports>>

\* A tick: one load after the other ...
Load ==
    /\ reports < MaxReports /\ Len(loaded) < Len(LoadOrder)
    /\ loaded' = Append(loaded, counter[LoadOrder[Len(loaded) + 1]])
    /\ UNCHANGED <<data, closed, adding, counter, old, reports, handed>>

Loaded == [c \in Counters |-> loaded[CHOOSE i \in DOMAIN LoadOrder : LoadOrder[i] = c]]

\* ... and the increase since the last tick is logged.
Report ==
    /\ Len(loaded) = Len(LoadOrder)
    /\ old' = Loaded
    /\ loaded' = <<>>
    /\ reports' = reports + 1
    /\ UNCHANGED <<data, closed, adding, counter, handed>>

StatStep ==
    \/ \E d \in Dumpers : AddBytes(d) \/ AddPackets(d) \/ Close(d) \/ Discard(d)
    \/ Load \/ Report
-----------------------------------------------------------------------------
StatTypeOK ==
    /\ data \in [Dumpers -> Seq(Dir \X PacketLen)]
    /\ closed \in [Dumpers -> BOOLEAN]
    /\ adding \in [Dumpers -> (Dir \X PacketLen) \cup {None}]
    /\ counter \in [Counters -> Nat] /\ old \in [Counters -> Nat]
    /\ loaded \in Seq(Nat) /\ Len(loaded) <= Len(LoadOrder)
    /\ reports \in Nat /\ handed \in Int

MaxLen == CHOOSE n \in PacketLen : \A m \in PacketLen : m <= n

\* What was reported so far as bytes belongs to the packets reported with it,
\* but for one packet of each dump goroutine that was between its two
\* additions: bytes are added first and loaded first (conn.go:135, stat.go:45).
ReportCoversBytes ==
    \A dir \in Dir :
        old[<<dir, "Bytes">>] <= MaxLen * (old[<<dir, "Packets">>] + Cardinality(Dumpers))

\* However the process ends, the packets it was handed and has neither counted
\* nor discarded are in a channel or between the additions of a dump goroutine.
UncountedBounded ==
    handed - counter[<<"tx", "Packets">>] - counter[<<"rx", "Packets">>]
        <= Cardinality(Dumpers) * (ChanCap + 1)

\* No report shows less than one before: an increase is never negative.
ReportsGrow == [][\A c \in Counters : old'[c] >= old[c]]_old
=============================================================================
