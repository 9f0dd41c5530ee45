------------------------------ MODULE ConnStat ------------------------------
(***************************************************************************)
(* What one dump goroutine does with the packets of a stream: conn.stat    *)
(* counts them, times the client's segments against the server's           *)
(* acknowledgements with the RTTCache, adds to the interface's Stats and   *)
(* hands payloads to the DPI engine, for one connection after another.     *)
(*                                                                         *)
(* The client and the server are external: the client sends segments in    *)
(* order, pure ACKs and retransmissions, the server acknowledges any       *)
(* prefix.  Packets of two interfaces may be queued in the order opposite  *)
(* to their timestamps, by at most Skew.  A packet may still be counted     *)
(* after the cache was closed: by a dump goroutine of TcpAssembly that was  *)
(* in conn.handle when another closed the stream.                           *)
(***************************************************************************)
EXTENDS RTTCache, TcpSequence

Enginer == INSTANCE Http

CONSTANTS
    Isn,          \* the client's initial sequence numbers
    Lengths,      \* payload lengths
    Payload,      \* payloads, as Http sees them
    DpiPackets,   \* packets of a stream given to DPI (5 in the code)
    MaxInt64,
    Skew,
    MaxPackets,   \* bound: packets of one connection
    MaxConns      \* bound: connections of the stream object

ASSUME IsnAssumption == Isn \subseteq 0..uint32Max
ASSUME LengthAssumption == Lengths \subseteq Nat /\ {Skew, DpiPackets, MaxInt64} \subseteq Nat
\* conn.stat makes keys of the sum of two numbers.
ASSUME KeysAssumption ==
    Flow # {} /\ \A n \in 0..uint32Max, l \in Lengths \cup {0, 1} : n + l \in Seqnum
ASSUME PayloadAssumption == \A p \in Payload : p.words \in Seq(Seq(STRING))

VARIABLES
    c2s, s2c,           \* Bytes and Packets of the two conns
    SYNRTT, MinRTT, MaxRTT, TotalRTT, RttCount,
    StreamType, dpitotal, Req, Resp,
    stat,               \* the interface's Stats
    segments,           \* the client's segments: <<offset, length>>
    now, packets, conns,
    lastSend,           \* history: when each key was last pushed
    sample,             \* history: the last RTT measured, and what it should be
    negative,           \* history: a packet was older than what it answers
    past                \* history: the counts of the connections before

rttVars == <<SYNRTT, MinRTT, MaxRTT, TotalRTT, RttCount>>
dpiVars == <<StreamType, dpitotal, Req, Resp>>
envVars == <<sequenceVars, segments, now, packets, conns>>
histVars == <<lastSend, sample, negative, past>>
vars == <<cacheVars, c2s, s2c, rttVars, dpiVars, stat, envVars, histVars>>

TheFlow   == CHOOSE f \in Flow : TRUE
Wire(pos) == Add(first, pos)
NoRequest == [conn |-> 0, words |-> <<>>]
Zero      == [Bytes |-> 0, Packets |-> 0]
Count(c, n) == [Bytes |-> c.Bytes + n, Packets |-> c.Packets + 1]

\* Mutant: a reset that keeps the sum.
ResetKeepsTotal ==
    /\ SYNRTT' = -1 /\ MinRTT' = MaxInt64 /\ MaxRTT' = -MaxInt64
    /\ RttCount' = 0
    /\ UNCHANGED TotalRTT

\* What stream.reset sets for the next connection.
ResetRtt == /\ SYNRTT' = -1 /\ MinRTT' = MaxInt64 /\ MaxRTT' = -MaxInt64
            /\ TotalRTT' = 0 /\ RttCount' = 0

\* Mutant: the request of the connection before stays.
ResetKeepsReq ==
    /\ StreamType' = "UNKNOWN" /\ dpitotal' = 0 /\ Resp' = FALSE
    /\ UNCHANGED Req

ResetDpi == /\ StreamType' = "UNKNOWN" /\ dpitotal' = 0 /\ Req' = NoRequest /\ Resp' = FALSE
           

Init ==
    /\ NewRTTCache
    /\ c2s = Zero /\ s2c = Zero
    /\ SYNRTT = -1 /\ MinRTT = MaxInt64 /\ MaxRTT = -MaxInt64 /\ TotalRTT = 0 /\ RttCount = 0
    /\ StreamType = "UNKNOWN" /\ dpitotal = 0 /\ Req = NoRequest /\ Resp = FALSE
    /\ stat = [tx |-> Zero, rx |-> Zero]
    /\ SequenceInit /\ first \in Isn /\ segments = {}
    /\ now = 0 /\ packets = 0 /\ conns = 1
    /\ lastSend = << >>
    /\ sample = [rtt |-> 0, due |-> 0]
    /\ negative = FALSE
    /\ past = [tx |-> Zero, rx |-> Zero]

-----------------------------------------------------------------------------
\* stream.dpicb, called by the decoder for a request or a response: a
\* response is reported with the latest request.
Dpicb(payload) ==
    LET type == Enginer!DPIDecoder(payload) IN
    /\ Req' = IF type = "request" THEN [conn |-> conns, words |-> payload.words] ELSE Req
    /\ Resp' = (Resp \/ type = "response")
    /\ IF type = "response" /\ Req # NoRequest
       THEN StreamType' = "HTTP" /\ dpitotal' = 0
       ELSE UNCHANGED StreamType /\ dpitotal' = dpitotal + 1

\* The last lines of conn.stat.
Dpi(len, payload) ==
    LET look == /\ len > 0
                /\ \/ StreamType = "UNKNOWN" /\ dpitotal <= DpiPackets
                   \/ StreamType = "HTTP"
    IN  IF look
        THEN Dpicb(payload)
        ELSE UNCHANGED dpiVars

\* conn.stat for a packet of the client: its key is the byte after it.  The
\* sum is not brought back under 2^32.
ClientKey(pos, len) == <<TheFlow, Wire(pos) + IF len > 0 THEN len ELSE 1>>

StatClient(pos, len, ts, payload) ==
    LET k == ClientKey(pos, len) IN
    /\ Push(k, ts)
    /\ c2s' = Count(c2s, len)
    /\ IF closed
       THEN UNCHANGED <<stat, dpiVars, lastSend>>
       ELSE /\ stat' = [stat EXCEPT !.tx = Count(@, len)]
            /\ lastSend' = [l \in DOMAIN lastSend \cup {k} |-> IF l = k THEN ts ELSE lastSend[l]]
            /\ Dpi(len, payload)
    /\ UNCHANGED <<s2c, rttVars, sample, negative, past>>

\* RttCount counts every answer of Pull, the negative ones too.
Measure(rtt) ==
    /\ RttCount' = RttCount + 1
    /\ IF rtt < 0
       THEN UNCHANGED <<SYNRTT, MinRTT, MaxRTT, TotalRTT>>
       ELSE /\ SYNRTT' = IF RttCount = 0 THEN rtt ELSE SYNRTT
            /\ MinRTT' = IF rtt < MinRTT THEN rtt ELSE MinRTT
            /\ MaxRTT' = IF rtt > MaxRTT THEN rtt ELSE MaxRTT
            /\ TotalRTT' = TotalRTT + rtt

\* Mutant: Stats are added to after the return for a negative RTT.
StatServerLate(ack, len, ts, payload) ==
    LET k == <<TheFlow, Wire(ack)>> IN
    /\ Pull(k)
    /\ s2c' = Count(s2c, len)
    /\ IF ret'.ok
       THEN LET rtt == ts - ret'.value.Seen IN
            /\ Measure(rtt)
            /\ sample' = [rtt |-> rtt, due |-> ts - lastSend[ret'.value.key]]
            /\ negative' = (negative \/ rtt < 0)
            /\ stat' = IF rtt < 0 THEN stat ELSE [stat EXCEPT !.rx = Count(@, len)]
            /\ IF rtt < 0 THEN UNCHANGED dpiVars ELSE Dpi(len, payload)
       ELSE /\ stat' = [stat EXCEPT !.rx = Count(@, len)]
            /\ UNCHANGED <<rttVars, sample, negative>> /\ Dpi(len, payload)
    /\ UNCHANGED <<c2s, lastSend, past>>

\* conn.stat for a packet of the server.
StatServer(ack, len, ts, payload) ==
    LET k == <<TheFlow, Wire(ack)>> IN
    /\ Pull(k)
    /\ s2c' = Count(s2c, len)
    /\ IF closed
       THEN UNCHANGED <<stat, rttVars, dpiVars, sample, negative>>
       ELSE /\ stat' = [stat EXCEPT !.rx = Count(@, len)]
            /\ IF ret'.ok
               THEN LET rtt == ts - ret'.value.Seen IN
                    /\ Measure(rtt)
                    /\ sample' = [rtt |-> rtt, due |-> ts - lastSend[ret'.value.key]]
                    /\ negative' = (negative \/ rtt < 0)
                    /\ IF rtt < 0 THEN UNCHANGED dpiVars ELSE Dpi(len, payload)
               ELSE UNCHANGED <<rttVars, sample, negative>> /\ Dpi(len, payload)
    /\ UNCHANGED <<c2s, lastSend, past>>

-----------------------------------------------------------------------------
\* The packets on the wire, dumped one after the other by the goroutine.
Timestamps == {ts \in Time : ts <= now /\ now - ts <= Skew}

NextPacket ==
    /\ packets < MaxPackets /\ packets' = packets + 1
    /\ now' \in {n \in Time : n >= now /\ n <= now + 1}
    /\ UNCHANGED conns

ClientSends(len, ts, payload) ==
    /\ NextPacket
    /\ Segment(len)
    /\ StatClient(sent, len, ts, payload)
    /\ segments' = IF len > 0 THEN segments \cup {<<sent, len>>} ELSE segments

ClientResends(seg, ts, payload) ==
    /\ NextPacket
    /\ StatClient(seg[1], seg[2], ts, payload)
    /\ UNCHANGED <<sequenceVars, segments>>

ServerSends(ack, len, ts, payload) ==
    /\ NextPacket
    /\ StatServer(ack, len, ts, payload)
    /\ UNCHANGED <<sequenceVars, segments>>

\* stream.close empties and closes the cache.
Close ==
    /\ ~closed
    /\ RemoveAll
    /\ UNCHANGED <<c2s, s2c, rttVars, dpiVars, stat, envVars, histVars>>

\* stream.reset, when newStream hands the object to another connection.
ResetStream ==
    /\ closed /\ conns < MaxConns
    /\ Reset
    /\ ResetRtt
    /\ c2s' = Zero /\ s2c' = Zero
    /\ ResetDpi
    /\ past' = stat
    /\ first' \in Isn /\ next' = first' /\ sent' = 0 /\ segments' = {} /\ packets' = 0 /\ conns' = conns + 1
    /\ lastSend' = << >>
    /\ negative' = FALSE
    /\ UNCHANGED <<stat, now, sample>>

\* Only for the bounded model: the last connection is over.
AllOver == closed /\ conns = MaxConns /\ UNCHANGED vars

Next ==
    \/ \E ts \in Timestamps, payload \in Payload :
           \/ \E len \in Lengths : ClientSends(len, ts, payload)
           \/ \E seg \in segments : ClientResends(seg, ts, payload)
           \/ \E len \in Lengths, ack \in 0..sent : ServerSends(ack, len, ts, payload)
    \/ Close
    \/ ResetStream
    \/ AllOver

Spec == Init /\ [][Next]_vars
-----------------------------------------------------------------------------
\* The line RTTStat prints: the average lies between the least and the
\* greatest RTT of the connection, across retransmissions, misses and re-use
\* of the stream, as long as no packet was older than the one it answers
\* (such a packet is counted in RttCount and nowhere else).
AverageWithinRange ==
    RttCount > 0 /\ ~negative =>
        MinRTT <= TotalRTT \div RttCount /\ TotalRTT \div RttCount <= MaxRTT

\* An RTT is the time since the latest transmission of the segment it is
\* measured on, whatever was retransmitted or reordered in the list.
SampleSinceLastSend == sample.rtt = sample.due

\* The interface's Stats are what its streams counted: nothing is lost or
\* counted twice on any return of conn.stat, connection after connection.
\* Only what a stream counts after its close is missing from the Stats.
StatsMatchConns ==
    /\ \A f \in {"Bytes", "Packets"} :
         /\ stat.tx[f] <= past.tx[f] + c2s[f]
         /\ stat.rx[f] <= past.rx[f] + s2c[f]
    /\ ~closed => \A f \in {"Bytes", "Packets"} :
         /\ stat.tx[f] = past.tx[f] + c2s[f]
         /\ stat.rx[f] = past.rx[f] + s2c[f]

VersionNumbers == {n \in DOMAIN Enginer!Numbers : Enginer!Numbers[n] \in 0..Enginer!Big}

\* An exchange that is reported joins a response with a request that was
\* complete and that this connection sent, not with one of the connection
\* that had the stream before (its RTT would be the time between the two).
ExchangeOfConnection ==
    StreamType = "HTTP" =>
        /\ Req.conn = conns
        /\ Len(Req.words) = 3
        /\ \E a, b \in VersionNumbers : Req.words[3] = <<"HTTP/", a, ".", b>>

\* tcp.go:8: a Sequence is always in the range [0, 0xFFFFFFFF].
SequencesInRange == \A k \in cache : Seqno(k) \in 0..uint32Max

=============================================================================
