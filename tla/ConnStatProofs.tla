--------------------------- MODULE ConnStatProofs ---------------------------
(***************************************************************************)
(* Theorems about TcpSequence, for every width of the sequence space, and  *)
(* about ConnStat, which uses its numbers and the RTT cache.               *)
(***************************************************************************)
EXTENDS ConnStat, RTTCacheProofs

\* Add is the addition that wraps once.
LEMMA AddWraps ==
    ASSUME NEW s \in Sequence, NEW n \in 0..uint32Max
    PROVE  /\ Add(s, n) \in Sequence
           /\ Add(s, n) = s + n \/ Add(s, n) = s + n - (uint32Max + 1)
BY MaxAssumption, Z3 DEF Sequence, Add

LEMMA WindowBounds == Window \in Nat /\ 4 * Window <= uint32Max /\ Window >= 2
BY MaxAssumption, Z3 DEF Window

SeqInv == SequenceTypeOK /\ AddCounts

LEMMA SeqInit == SequenceInit => SeqInv
BY WindowBounds, MaxAssumption DEF SequenceInit, SeqInv, SequenceTypeOK, AddCounts, Sequence

\* A segment of the window keeps them, the empty one of a pure ACK too.
LEMMA SegmentKeeps ==
    ASSUME SeqInv, NEW n \in Nat, Segment(n)
    PROVE  SeqInv'
<1> USE DEF SeqInv, SequenceTypeOK, AddCounts
<1>1. /\ n \in 0..uint32Max /\ sent + n \in 0..Window /\ sent' = sent + n /\ first' = first
      /\ next' = Add(next, n)
  BY MaxAssumption, WindowBounds DEF Segment
<1>2. /\ next' \in Sequence
      /\ next' = next + n \/ next' = next + n - (uint32Max + 1)
  BY <1>1, AddWraps
<1> QED  BY <1>1, <1>2, WindowBounds, MaxAssumption DEF Sequence

LEMMA SameSeq == ASSUME SeqInv, UNCHANGED sequenceVars PROVE SeqInv'
BY DEF SeqInv, SequenceTypeOK, AddCounts, sequenceVars

LEMMA SeqStep == SeqInv /\ [SequenceNext]_sequenceVars => SeqInv'
<1> SUFFICES ASSUME SeqInv, [SequenceNext]_sequenceVars PROVE SeqInv'
  OBVIOUS
<1> USE DEF SeqInv, SequenceTypeOK, AddCounts
<1>1. ASSUME NEW n \in 1..MaxSegment, Segment(n) PROVE SeqInv'
  BY <1>1, SegmentKeeps, SegmentAssumption
<1>2. ASSUME NEW n \in 1..MaxSegment, Acknowledge(n) PROVE SeqInv'
  <2>1. /\ n \in 0..uint32Max /\ sent - n \in 0..Window /\ sent' = sent - n /\ next' = next
        /\ first' = Add(first, n)
    BY <1>2, SegmentAssumption, MaxAssumption, WindowBounds DEF Acknowledge
  <2>2. /\ first' \in Sequence
        /\ first' = first + n \/ first' = first + n - (uint32Max + 1)
    BY <2>1, AddWraps
  <2> QED  BY <2>1, <2>2, WindowBounds, MaxAssumption DEF Sequence
<1>3. CASE UNCHANGED sequenceVars
  BY <1>3, SameSeq
<1> QED  BY <1>1, <1>2, <1>3 DEF SequenceNext

\* The sender's number is always the window's start plus the bytes in flight,
\* modulo 2^32 (tcp.go, Add).
THEOREM AddIsModular == SequenceSpec => []AddCounts
<1>1. SeqInv => AddCounts
  BY DEF SeqInv
<1> QED  BY <1>1, SeqInit, SeqStep, PTL DEF SequenceSpec

LEMMA SeqInvOrders == SeqInv => DifferenceOrders
BY WindowBounds, MaxAssumption
   DEF SeqInv, SequenceTypeOK, AddCounts, DifferenceOrders, Difference, Sequence

\* Within a quarter of the space Difference keeps the order of two sequence
\* numbers and is antisymmetric, for every width and across every rollover;
\* it may be one short of the distance, never more (tcp.go, Difference).
THEOREM DifferenceKeepsOrder == SequenceSpec => []DifferenceOrders
<1> QED  BY SeqInvOrders, SeqInit, SeqStep, PTL DEF SequenceSpec

-----------------------------------------------------------------------------
(* The invariant of ConnStat, part by part.                                 *)

\* The client's segments are of the window, in which SeqInv counts.
SegmentsInv == segments \subseteq (0..Window) \X Lengths

\* Each element of the cache's list has the time its key was last pushed at.
SeenInv ==
    \A i \in DOMAIN linkedList :
        /\ linkedList[i].key \in DOMAIN lastSend
        /\ linkedList[i].Seen = lastSend[linkedList[i].key]

\* The sum of the RTTs lies between its bounds, with no division.
RttInv ==
    /\ MinRTT \in Int /\ MaxRTT \in Int /\ TotalRTT \in Nat /\ RttCount \in Nat
    /\ negative \in BOOLEAN
    /\ ~negative => MinRTT * RttCount <= TotalRTT /\ TotalRTT <= MaxRTT * RttCount

Counter == [Bytes : Nat, Packets : Nat]
StatsInv ==
    /\ {c2s, s2c} \subseteq Counter /\ {stat, past} \subseteq [tx : Counter, rx : Counter]
    /\ StatsMatchConns

\* The latest request is a complete one of this connection, and without one
\* the stream is not HTTP.
Complete(words) ==
    /\ Len(words) = 3
    /\ \E a, b \in VersionNumbers : words[3] = <<"HTTP/", a, ".", b>>
RequestInv ==
    /\ conns \in Nat /\ conns # 0
    /\ Req # NoRequest => Req.conn = conns /\ Complete(Req.words)
    /\ StreamType = "HTTP" => Req # NoRequest

StatInv ==
    /\ CacheInv /\ SeqInv /\ SegmentsInv
    /\ SeenInv /\ SampleSinceLastSend
    /\ RttInv /\ StatsInv /\ RequestInv


-----------------------------------------------------------------------------
(* What the steps are.                                                      *)

LEMMA TheFlowIs == TheFlow \in Flow
BY KeysAssumption DEF TheFlow

LEMMA KeysAre ==
    ASSUME SeqInv, NEW pos \in 0..Window
    PROVE  /\ <<TheFlow, Wire(pos)>> \in Key
           /\ \A len \in Lengths : ClientKey(pos, len) \in Key
<1>1. Wire(pos) \in 0..uint32Max
  <2>1. pos \in 0..uint32Max /\ first \in Sequence
    BY WindowBounds, MaxAssumption DEF SeqInv, SequenceTypeOK
  <2> QED  BY <2>1, AddWraps DEF Wire, Sequence
<1>2. Wire(pos) \in Seqnum
  <2>1. Wire(pos) + 0 \in Seqnum
    BY <1>1, KeysAssumption
  <2> QED  BY <1>1, <2>1
<1>3. \A len \in Lengths : Wire(pos) + (IF len > 0 THEN len ELSE 1) \in Seqnum
  BY <1>1, KeysAssumption
<1> QED  BY <1>2, <1>3, TheFlowIs DEF Key, ClientKey

ClientStep ==
    \E pos \in 0..Window, len \in Lengths, ts \in Time, payload \in Payload :
        StatClient(pos, len, ts, payload)

ServerStep ==
    \E pos \in 0..Window, len \in Lengths, ts \in Time, payload \in Payload :
        StatServer(pos, len, ts, payload)

\* The window and the segments in it, and what happens to the streams.
LEMMA StepsAre ==
    ASSUME SeqInv, SegmentsInv, [Next]_vars
    PROVE  /\ SeqInv' /\ SegmentsInv'
           /\ \/ ClientStep /\ conns' = conns
              \/ ServerStep /\ conns' = conns
              \/ Close
              \/ ResetStream
              \/ UNCHANGED vars
<1>1. /\ first \in Sequence /\ next \in Sequence /\ sent \in 0..Window
      /\ segments \subseteq (0..Window) \X Lengths
  BY DEF SeqInv, SequenceTypeOK, SegmentsInv
<1>2. \A ts \in Timestamps : ts \in Time
  BY DEF Timestamps
<1>3. ASSUME NEW ts \in Timestamps, NEW payload \in Payload, NEW len \in Lengths,
             ClientSends(len, ts, payload)
      PROVE  SeqInv' /\ SegmentsInv' /\ ClientStep /\ conns' = conns
  <2>1. /\ Segment(len) /\ StatClient(sent, len, ts, payload) /\ conns' = conns
        /\ segments' = IF len > 0 THEN segments \cup {<<sent, len>>} ELSE segments
    BY <1>3 DEF ClientSends, NextPacket
  <2>2. SeqInv'
    BY <2>1, SegmentKeeps, LengthAssumption
  <2>3. SegmentsInv'
    BY <1>1, <2>1 DEF SegmentsInv
  <2> QED  BY <1>1, <1>2, <2>1, <2>2, <2>3 DEF ClientStep
<1>4. ASSUME NEW ts \in Timestamps, NEW payload \in Payload, NEW seg \in segments,
             ClientResends(seg, ts, payload)
      PROVE  SeqInv' /\ SegmentsInv' /\ ClientStep /\ conns' = conns
  <2>1. /\ seg[1] \in 0..Window /\ seg[2] \in Lengths
        /\ StatClient(seg[1], seg[2], ts, payload) /\ conns' = conns
        /\ UNCHANGED <<sequenceVars, segments>>
    BY <1>1, <1>4 DEF ClientResends, NextPacket
  <2> QED  BY <1>2, <2>1, SameSeq DEF ClientStep, SegmentsInv
<1>5. ASSUME NEW ts \in Timestamps, NEW payload \in Payload, NEW len \in Lengths, NEW ack \in 0..sent,
             ServerSends(ack, len, ts, payload)
      PROVE  SeqInv' /\ SegmentsInv' /\ ServerStep /\ conns' = conns
  <2>1. /\ ack \in 0..Window /\ StatServer(ack, len, ts, payload) /\ conns' = conns
        /\ UNCHANGED <<sequenceVars, segments>>
    BY <1>1, <1>5, WindowBounds DEF ServerSends, NextPacket
  <2> QED  BY <1>2, <2>1, SameSeq DEF ServerStep, SegmentsInv
<1>6. CASE Close
  BY <1>6, SameSeq DEF Close, envVars, SegmentsInv
<1>7. CASE ResetStream
  <2>1. first' \in 0..uint32Max /\ next' = first' /\ sent' = 0
    BY <1>7, IsnAssumption DEF ResetStream
  <2>2. SeqInv'
    <3>1. next' = first' + sent'
      <4>1. \A i \in 0..uint32Max : i + 0 = i
        BY MaxAssumption
      <4> QED  BY <2>1, <4>1, Zenon
    <3>2. sent' \in 0..Window
      BY <2>1, WindowBounds
    <3> QED  BY <2>1, <3>1, <3>2 DEF SeqInv, SequenceTypeOK, AddCounts, Sequence
  <2>3. SegmentsInv'
    BY <1>7 DEF ResetStream, SegmentsInv
  <2> QED  BY <1>7, <2>2, <2>3
<1>8. CASE UNCHANGED vars
  BY <1>8, SameSeq DEF vars, envVars, SegmentsInv
<1>9. CASE Next
  BY <1>3, <1>4, <1>5, <1>6, <1>7, <1>8, <1>9 DEF Next, AllOver
<1> QED  BY <1>8, <1>9

LEMMA CacheStep ==
    ASSUME CacheInv, SeqInv, ClientStep \/ ServerStep \/ Close \/ ResetStream \/ UNCHANGED vars
    PROVE  CacheInv'
<1>1. CASE ClientStep
  <2>1. PICK k \in Key, ts \in Time : Push(k, ts)
    BY <1>1, KeysAre DEF ClientStep, StatClient
  <2> QED  BY <2>1, PushInv
<1>2. CASE ServerStep
  <2>1. PICK k \in Key : Pull(k)
    BY <1>2, KeysAre DEF ServerStep, StatServer
  <2> QED  BY <2>1, PullInv
<1>3. CASE Close \/ ResetStream
  BY <1>3, OthersInv DEF Close, ResetStream
<1>4. CASE UNCHANGED vars
  BY <1>4, SameInv DEF vars, cacheVars
<1> QED  BY <1>1, <1>2, <1>3, <1>4

-----------------------------------------------------------------------------
(* The time an RTT is measured from.                                        *)

\* What is taken out leaves elements that were there.
LEMMA RemoveLeaves ==
    ASSUME CacheInv, NEW R, RemoveElements(R)
    PROVE  \A j \in DOMAIN linkedList' : \E i \in DOMAIN linkedList : linkedList'[j] = linkedList[i]
<1> DEFINE W == Without(R)
<1>1. \A j \in DOMAIN W : \E i \in DOMAIN linkedList : W[j] = linkedList[i]
  BY WithoutKeeps DEF CacheInv
<1> HIDE DEF W
<1>2. linkedList' = W
  BY DEF RemoveElements, W
<1> QED  BY <1>1, <1>2

LEMMA PullLeaves ==
    ASSUME CacheInv, NEW k \in Key, Pull(k)
    PROVE  \A j \in DOMAIN linkedList' : \E i \in DOMAIN linkedList : linkedList'[j] = linkedList[i]
<1>1. CASE UNCHANGED <<linkedList, cache>>
  BY <1>1
<1>2. CASE PullHit(k)
  BY <1>2, RemoveLeaves DEF PullHit
<1>3. CASE PullScan(k)
  <2>1. PICK R : RemoveElements(R)
    BY <1>3 DEF PullScan
  <2> QED  BY <2>1, RemoveLeaves
<1> QED  BY <1>1, <1>2, <1>3 DEF Pull

\* A Push changes the element of its own key only.
LEMMA PushLeaves ==
    ASSUME CacheInv, NEW k \in Key, NEW ts \in Time, Push(k, ts), ~closed
    PROVE  \A j \in DOMAIN linkedList' :
               \/ linkedList'[j] = [key |-> k, Seen |-> ts]
               \/ \E i \in DOMAIN linkedList : linkedList'[j] = linkedList[i] /\ linkedList[i].key # k
<1> DEFINE e == [key |-> k, Seen |-> ts]
<1>1. /\ linkedList \in Seq(Entry) /\ cache = KeysOf(linkedList) /\ e \in Entry
      /\ \A i, j \in DOMAIN linkedList : linkedList[i].key = linkedList[j].key => i = j
  BY DEF CacheInv, IndexMatchesList, Entry
<1>2. CASE k \in cache /\ linkedList' = <<[key |-> k, Seen |-> ts]>> \o Without({At(k)})
  <2> DEFINE W == Without({At(k)})
  <2>1. /\ W \in Seq(Entry)
        /\ \A j \in DOMAIN W : \E i \in DOMAIN linkedList \ {At(k)} : W[j] = linkedList[i]
    BY <1>1, WithoutKeeps
  <2>2. At(k) \in DOMAIN linkedList /\ linkedList[At(k)].key = k
    BY <1>2, KeyIsAt
  <2> HIDE DEF W, e
  <2>3. linkedList' = <<e>> \o W
    BY <1>2 DEF e, W
  <2>4. \A j \in DOMAIN linkedList' : linkedList'[j] = e \/ (j - 1 \in DOMAIN W /\ linkedList'[j] = W[j - 1])
    BY <1>1, <2>1, <2>3
  <2>5. \A j \in DOMAIN W : \E i \in DOMAIN linkedList : W[j] = linkedList[i] /\ linkedList[i].key # k
    BY <1>1, <2>1, <2>2
  <2>6. \A j \in DOMAIN linkedList' :
            linkedList'[j] = e
            \/ \E i \in DOMAIN linkedList : linkedList'[j] = linkedList[i] /\ linkedList[i].key # k
    BY <2>4, <2>5
  <2> QED  BY <2>6 DEF e
<1>3. CASE k \notin cache /\ linkedList' = Append(linkedList, [key |-> k, Seen |-> ts])
  <2>1. linkedList' = Append(linkedList, e)
    BY <1>3
  <2> HIDE DEF e
  <2>2. \A j \in DOMAIN linkedList' : linkedList'[j] = e \/ (j \in DOMAIN linkedList /\ linkedList'[j] = linkedList[j])
    BY <1>1, <2>1
  <2>3. \A j \in DOMAIN linkedList : linkedList[j].key # k
    BY <1>1, <1>3 DEF KeysOf
  <2>4. \A j \in DOMAIN linkedList' :
            linkedList'[j] = e
            \/ \E i \in DOMAIN linkedList : linkedList'[j] = linkedList[i] /\ linkedList[i].key # k
    BY <2>2, <2>3
  <2> QED  BY <2>4 DEF e
<1> QED  BY <1>2, <1>3 DEF Push

LEMMA SameSeen ==
    ASSUME SeenInv, lastSend' = lastSend,
           \A j \in DOMAIN linkedList' : \E i \in DOMAIN linkedList : linkedList'[j] = linkedList[i]
    PROVE  SeenInv'
BY DEF SeenInv

\* A Pull hands out an element of the list, with the time it was pushed at.
LEMMA PullsSeen ==
    ASSUME CacheInv, SeenInv, NEW k \in Key, Pull(k), ret'.ok
    PROVE  /\ ret'.value.Seen = lastSend[ret'.value.key]
           /\ ret'.value.Seen \in Int
<1>1. PullHit(k) \/ PullScan(k)
  BY DEF Pull, Returns
<1>2. Taken /\ ret'.op = "Pull"
  BY <1>1, HitTakes, ScanTakes DEF PullHit, PullScan, Returns
<1>3. PICK i \in DOMAIN linkedList : linkedList[i] = ret'.value
  BY <1>2 DEF Taken
<1>4. linkedList[i] \in Entry
  BY EntriesAre
<1> QED  BY <1>3, <1>4, SeqnumAssumption DEF SeenInv, Entry

LEMMA SeenStep ==
    ASSUME CacheInv, SeqInv, SeenInv, SampleSinceLastSend,
           ClientStep \/ ServerStep \/ Close \/ ResetStream \/ UNCHANGED vars
    PROVE  SeenInv' /\ SampleSinceLastSend'
<1>1. CASE ClientStep
  <2>1. PICK pos \in 0..Window, len \in Lengths, ts \in Time, payload \in Payload :
            StatClient(pos, len, ts, payload)
    BY <1>1 DEF ClientStep
  <2> DEFINE k == ClientKey(pos, len)
  <2>2. k \in Key /\ Push(k, ts) /\ UNCHANGED sample
    BY <2>1, KeysAre DEF StatClient
  <2>3. closed => lastSend' = lastSend
    BY <2>1 DEF StatClient
  <2>4. ~closed => lastSend' = [l \in DOMAIN lastSend \cup {k} |-> IF l = k THEN ts ELSE lastSend[l]]
    BY <2>1 DEF StatClient
  <2> HIDE DEF k
  <2>5. CASE closed
    <3>1. UNCHANGED linkedList
      BY <2>2, <2>5 DEF Push
    <3> QED  BY <2>2, <2>3, <2>5, <3>1, SameSeen DEF SampleSinceLastSend
  <2>6. CASE ~closed
    <3>1. \A j \in DOMAIN linkedList' :
               \/ linkedList'[j] = [key |-> k, Seen |-> ts]
               \/ \E i \in DOMAIN linkedList : linkedList'[j] = linkedList[i] /\ linkedList[i].key # k
      BY <2>2, <2>6, PushLeaves
    <3>2. SeenInv'
      <4> SUFFICES ASSUME NEW j \in DOMAIN linkedList'
                   PROVE  /\ linkedList'[j].key \in DOMAIN lastSend'
                          /\ linkedList'[j].Seen = lastSend'[linkedList'[j].key]
        BY DEF SeenInv
      <4>1. CASE linkedList'[j] = [key |-> k, Seen |-> ts]
        BY <2>4, <2>6, <4>1
      <4>2. ASSUME NEW i \in DOMAIN linkedList, linkedList'[j] = linkedList[i], linkedList[i].key # k
            PROVE  /\ linkedList'[j].key \in DOMAIN lastSend'
                   /\ linkedList'[j].Seen = lastSend'[linkedList'[j].key]
        BY <2>4, <2>6, <4>2 DEF SeenInv
      <4> QED  BY <3>1, <4>1, <4>2
    <3> QED  BY <2>2, <3>2 DEF SampleSinceLastSend
  <2> QED  BY <2>5, <2>6
<1>2. CASE ServerStep
  <2>1. PICK pos \in 0..Window, len \in Lengths, ts \in Time, payload \in Payload :
            StatServer(pos, len, ts, payload)
    BY <1>2 DEF ServerStep
  <2>2. PICK k \in Key : Pull(k)
    BY <2>1, KeysAre DEF StatServer
  <2>3. SeenInv'
    <3>1. lastSend' = lastSend
      BY <2>1 DEF StatServer
    <3> QED  BY <2>2, <3>1, PullLeaves, SameSeen
  <2>4. SampleSinceLastSend'
    <3>1. CASE ~closed /\ ret'.ok
      <4>1. sample' = [rtt |-> ts - ret'.value.Seen, due |-> ts - lastSend[ret'.value.key]]
        BY <2>1, <3>1 DEF StatServer
      <4>2. ret'.value.Seen = lastSend[ret'.value.key]
        BY <2>2, <3>1, PullsSeen
      <4> QED  BY <4>1, <4>2 DEF SampleSinceLastSend
    <3>2. CASE closed \/ ~ret'.ok
      <4>1. UNCHANGED sample
        BY <2>1, <3>2 DEF StatServer
      <4> QED  BY <4>1 DEF SampleSinceLastSend
    <3> QED  BY <3>1, <3>2
  <2> QED  BY <2>3, <2>4
<1>3. CASE Close
  <2>1. RemoveElements(DOMAIN linkedList) /\ UNCHANGED <<lastSend, sample>>
    BY <1>3 DEF Close, RemoveAll, histVars
  <2> QED  BY <2>1, RemoveLeaves, SameSeen DEF SampleSinceLastSend
<1>4. CASE ResetStream
  <2>1. linkedList' = <<>> /\ UNCHANGED sample
    BY <1>4 DEF ResetStream, Reset, CacheInv, ClosedIsEmpty
  <2> QED  BY <2>1 DEF SeenInv, SampleSinceLastSend
<1>5. CASE UNCHANGED vars
  BY <1>5, SameSeen DEF vars, cacheVars, histVars, SampleSinceLastSend
<1> QED  BY <1>1, <1>2, <1>3, <1>4, <1>5

-----------------------------------------------------------------------------
(* The average.                                                             *)

LEMMA TimesKeepsOrder ==
    ASSUME NEW a \in Int, NEW b \in Int, NEW c \in Nat, a <= b
    PROVE  a * c <= b * c
BY Z3

\* One more term keeps the sum between the bounds.
LEMMA OneMoreTerm ==
    ASSUME NEW m \in Int, NEW M \in Int, NEW m1 \in Int, NEW M1 \in Int,
           NEW t \in Nat, NEW c \in Nat, NEW r \in Nat,
           m1 <= m, m1 <= r, M <= M1, r <= M1, m * c <= t, t <= M * c
    PROVE  m1 * (c + 1) <= t + r /\ t + r <= M1 * (c + 1)
<1> DEFINE a == m * c  a1 == m1 * c  b == M * c  b1 == M1 * c
<1>1. a \in Int /\ a1 \in Int /\ b \in Int /\ b1 \in Int
  OBVIOUS
<1>2. a1 <= a /\ b <= b1
  BY TimesKeepsOrder
<1>3. m1 * (c + 1) = a1 + m1 /\ M1 * (c + 1) = b1 + M1
  BY Z3
<1> HIDE DEF a, a1, b, b1
<1>4. a1 + m1 <= t + r /\ t + r <= b1 + M1
  BY <1>1, <1>2 DEF a, b
<1> QED  BY <1>3, <1>4

\* A sum of c terms between m and M has its average between them.
LEMMA QuotientInRange ==
    ASSUME NEW m \in Int, NEW M \in Int, NEW t \in Nat, NEW c \in Nat, c # 0,
           m * c <= t, t <= M * c
    PROVE  m <= t \div c /\ t \div c <= M
<1> DEFINE q == t \div c
<1>1. q \in Int /\ q * c <= t /\ t < q * c + c
  BY Z3
<1> HIDE DEF q
<1>2. m <= q
  <2> SUFFICES ASSUME q + 1 <= m PROVE FALSE
    BY <1>1
  <2>1. (q + 1) * c <= m * c
    BY <1>1, TimesKeepsOrder
  <2>2. (q + 1) * c = q * c + c
    BY <1>1, Z3
  <2> QED  BY <1>1, <2>1, <2>2
<1>3. q <= M
  <2> SUFFICES ASSUME M + 1 <= q PROVE FALSE
    BY <1>1
  <2>1. (M + 1) * c <= q * c
    BY <1>1, TimesKeepsOrder
  <2>2. (M + 1) * c = M * c + c
    BY Z3
  <2> QED  BY <1>1, <2>1, <2>2
<1> QED  BY <1>2, <1>3 DEF q

\* One more answer of Pull, for any sign of its RTT.
LEMMA MeasureKeeps ==
    ASSUME RttInv, NEW rtt \in Int, Measure(rtt), negative' = (negative \/ rtt < 0)
    PROVE  RttInv'
<1>1. /\ MinRTT \in Int /\ MaxRTT \in Int /\ TotalRTT \in Nat /\ RttCount \in Nat
      /\ RttCount' = RttCount + 1 /\ negative \in BOOLEAN
  BY DEF RttInv, Measure
<1>2. CASE rtt < 0
  <2>1. negative' = TRUE
    BY <1>2
  <2>2. UNCHANGED <<MinRTT, MaxRTT, TotalRTT>>
    BY <1>2 DEF Measure
  <2> QED  BY <1>1, <2>1, <2>2 DEF RttInv
<1>3. CASE ~(rtt < 0)
  <2>1. /\ MinRTT' \in Int /\ MinRTT' <= MinRTT /\ MinRTT' <= rtt
        /\ MaxRTT' \in Int /\ MaxRTT <= MaxRTT' /\ rtt <= MaxRTT'
        /\ TotalRTT' = TotalRTT + rtt /\ TotalRTT' \in Nat
    BY <1>1, <1>3 DEF Measure
  <2>2. negative' = negative
    <3>1. negative' = (negative \/ FALSE)
      BY <1>3
    <3> QED  BY <1>1, <3>1
  <2>3. ~negative => MinRTT' * (RttCount + 1) <= TotalRTT + rtt /\ TotalRTT + rtt <= MaxRTT' * (RttCount + 1)
    <3> SUFFICES ASSUME ~negative
                 PROVE  /\ MinRTT' * (RttCount + 1) <= TotalRTT + rtt
                        /\ TotalRTT + rtt <= MaxRTT' * (RttCount + 1)
      OBVIOUS
    <3>1. MinRTT * RttCount <= TotalRTT /\ TotalRTT <= MaxRTT * RttCount
      BY DEF RttInv
    <3>2. rtt \in Nat
      BY <1>3
    <3> QED  BY <1>1, <2>1, <3>1, <3>2, OneMoreTerm
  <2>4. ~negative' => MinRTT' * RttCount' <= TotalRTT' /\ TotalRTT' <= MaxRTT' * RttCount'
    BY <1>1, <2>1, <2>2, <2>3, Zenon
  <2>5. RttCount' \in Nat /\ negative' \in BOOLEAN
    BY <1>1, <2>2
  <2> QED  BY <2>1, <2>4, <2>5, Zenon DEF RttInv
<1> QED  BY <1>2, <1>3

LEMMA SameRtt == ASSUME RttInv, UNCHANGED <<rttVars, negative>> PROVE RttInv'
BY DEF RttInv, rttVars

LEMMA NothingMeasured == MaxInt64 * 0 = 0 /\ (-MaxInt64) * 0 = 0 /\ MaxInt64 \in Int /\ -MaxInt64 \in Int
BY LengthAssumption, Z3

LEMMA RttStep ==
    ASSUME CacheInv, SeqInv, SeenInv, RttInv,
           ClientStep \/ ServerStep \/ Close \/ ResetStream \/ UNCHANGED vars
    PROVE  RttInv'
<1>1. CASE ServerStep
  <2>1. PICK pos \in 0..Window, len \in Lengths, ts \in Time, payload \in Payload :
            StatServer(pos, len, ts, payload)
    BY <1>1 DEF ServerStep
  <2>2. PICK k \in Key : Pull(k)
    BY <2>1, KeysAre DEF StatServer
  <2>3. CASE ~closed /\ ret'.ok
    <3> DEFINE rtt == ts - ret'.value.Seen
    <3>1. Measure(rtt) /\ negative' = (negative \/ rtt < 0)
      BY <2>1, <2>3 DEF StatServer
    <3>2. rtt \in Int
      BY <2>2, <2>3, PullsSeen, SeqnumAssumption
    <3> HIDE DEF rtt
    <3> QED  BY <3>1, <3>2, MeasureKeeps
  <2>4. CASE closed \/ ~ret'.ok
    <3>1. UNCHANGED <<rttVars, negative>>
      BY <2>1, <2>4 DEF StatServer
    <3> QED  BY <3>1, SameRtt
  <2> QED  BY <2>3, <2>4
<1>2. CASE ResetStream
  <2>1. MinRTT' = MaxInt64 /\ MaxRTT' = -MaxInt64 /\ TotalRTT' = 0 /\ RttCount' = 0
    BY <1>2 DEF ResetStream, ResetRtt
  <2>2. negative' = FALSE
    BY <1>2 DEF ResetStream
  <2>3. MinRTT' * RttCount' = 0 /\ MaxRTT' * RttCount' = 0
    BY <2>1, NothingMeasured, Zenon
  <2>4. /\ MinRTT' \in Int /\ MaxRTT' \in Int /\ TotalRTT' \in Nat /\ RttCount' \in Nat
        /\ negative' \in BOOLEAN
    BY <2>1, <2>2, NothingMeasured
  <2>5. MinRTT' * RttCount' <= TotalRTT' /\ TotalRTT' <= MaxRTT' * RttCount'
    <3>1. 0 <= 0
      OBVIOUS
    <3> QED  BY <2>1, <2>3, <3>1, Zenon
  <2> QED  BY <2>4, <2>5, Zenon DEF RttInv
<1>3. CASE ClientStep
  <2>1. UNCHANGED <<rttVars, negative>>
    BY <1>3 DEF ClientStep, StatClient
  <2> QED  BY <2>1, SameRtt
<1>4. CASE Close \/ UNCHANGED vars
  BY <1>4, SameRtt DEF Close, vars, histVars
<1> QED  BY <1>1, <1>2, <1>3, <1>4

-----------------------------------------------------------------------------
(* The interface's Stats.                                                   *)

By(n, f) == IF f = "Bytes" THEN n ELSE 1

LEMMA CountIs ==
    ASSUME NEW c \in Counter, NEW n \in Nat
    PROVE  /\ Count(c, n) \in Counter
           /\ \A f \in {"Bytes", "Packets"} : Count(c, n)[f] = c[f] + By(n, f)
BY DEF Counter, Count, By

LEMMA CounterIs ==
    ASSUME NEW c \in Counter, NEW f \in {"Bytes", "Packets"}
    PROVE  c[f] \in Nat
BY DEF Counter

LEMMA StatsStep ==
    ASSUME CacheInv, StatsInv, ClientStep \/ ServerStep \/ Close \/ ResetStream \/ UNCHANGED vars
    PROVE  StatsInv'
<1>1. /\ c2s \in Counter /\ s2c \in Counter
      /\ stat \in [tx : Counter, rx : Counter] /\ past \in [tx : Counter, rx : Counter]
      /\ stat.tx \in Counter /\ stat.rx \in Counter /\ past.tx \in Counter /\ past.rx \in Counter
      /\ closed \in BOOLEAN
  BY DEF StatsInv, CacheInv
<1>2. CASE ClientStep
  <2>1. PICK len \in Nat :
            /\ c2s' = Count(c2s, len) /\ UNCHANGED <<s2c, past, closed>>
            /\ stat' = IF closed THEN stat ELSE [stat EXCEPT !.tx = Count(stat.tx, len)]
    BY <1>2, LengthAssumption DEF ClientStep, StatClient, Push
  <2>2. /\ c2s' \in Counter /\ stat' \in [tx : Counter, rx : Counter]
        /\ stat'.tx = (IF closed THEN stat.tx ELSE Count(stat.tx, len)) /\ stat'.rx = stat.rx
    BY <1>1, <2>1, CountIs
  <2>3. StatsMatchConns'
    <3> SUFFICES ASSUME NEW f \in {"Bytes", "Packets"}
                 PROVE  /\ stat'.tx[f] <= past.tx[f] + c2s'[f] /\ stat.rx[f] <= past.rx[f] + s2c[f]
                        /\ ~closed => /\ stat'.tx[f] = past.tx[f] + c2s'[f]
                                      /\ stat.rx[f] = past.rx[f] + s2c[f]
      BY <2>1, <2>2 DEF StatsMatchConns
    <3>1. /\ stat.tx[f] <= past.tx[f] + c2s[f] /\ stat.rx[f] <= past.rx[f] + s2c[f]
          /\ ~closed => /\ stat.tx[f] = past.tx[f] + c2s[f]
                        /\ stat.rx[f] = past.rx[f] + s2c[f]
      BY DEF StatsInv, StatsMatchConns
    <3>2. /\ c2s'[f] = c2s[f] + By(len, f)
          /\ ~closed => stat'.tx[f] = stat.tx[f] + By(len, f)
          /\ closed => stat'.tx[f] = stat.tx[f]
      <4>1. \A k \in Counter : Count(k, len)[f] = k[f] + By(len, f)
        BY CountIs
      <4>2. c2s' = Count(c2s, len)
        BY <2>1
      <4>3. (~closed => stat'.tx = Count(stat.tx, len)) /\ (closed => stat'.tx = stat.tx)
        BY <2>2
      <4> QED  BY <1>1, <4>1, <4>2, <4>3, Zenon
    <3>3. By(len, f) \in Nat
      BY DEF By
    <3>4. /\ stat.tx[f] \in Nat /\ past.tx[f] \in Nat /\ c2s[f] \in Nat
      BY <1>1, CounterIs
    <3> QED  BY <3>1, <3>2, <3>3, <3>4
  <2> QED  BY <1>1, <2>1, <2>2, <2>3 DEF StatsInv
<1>3. CASE ServerStep
  <2>1. PICK len \in Nat :
            /\ s2c' = Count(s2c, len) /\ UNCHANGED <<c2s, past, closed>>
            /\ stat' = IF closed THEN stat ELSE [stat EXCEPT !.rx = Count(stat.rx, len)]
    BY <1>3, LengthAssumption DEF ServerStep, StatServer, Pull
  <2>2. /\ s2c' \in Counter /\ stat' \in [tx : Counter, rx : Counter]
        /\ stat'.rx = (IF closed THEN stat.rx ELSE Count(stat.rx, len)) /\ stat'.tx = stat.tx
    BY <1>1, <2>1, CountIs
  <2>3. StatsMatchConns'
    <3> SUFFICES ASSUME NEW f \in {"Bytes", "Packets"}
                 PROVE  /\ stat'.rx[f] <= past.rx[f] + s2c'[f] /\ stat.tx[f] <= past.tx[f] + c2s[f]
                        /\ ~closed => /\ stat'.rx[f] = past.rx[f] + s2c'[f]
                                      /\ stat.tx[f] = past.tx[f] + c2s[f]
      BY <2>1, <2>2 DEF StatsMatchConns
    <3>1. /\ stat.rx[f] <= past.rx[f] + s2c[f] /\ stat.tx[f] <= past.tx[f] + c2s[f]
          /\ ~closed => /\ stat.rx[f] = past.rx[f] + s2c[f]
                        /\ stat.tx[f] = past.tx[f] + c2s[f]
      BY DEF StatsInv, StatsMatchConns
    <3>2. /\ s2c'[f] = s2c[f] + By(len, f)
          /\ ~closed => stat'.rx[f] = stat.rx[f] + By(len, f)
          /\ closed => stat'.rx[f] = stat.rx[f]
      <4>1. \A k \in Counter : Count(k, len)[f] = k[f] + By(len, f)
        BY CountIs
      <4>2. s2c' = Count(s2c, len)
        BY <2>1
      <4>3. (~closed => stat'.rx = Count(stat.rx, len)) /\ (closed => stat'.rx = stat.rx)
        BY <2>2
      <4> QED  BY <1>1, <4>1, <4>2, <4>3, Zenon
    <3>3. By(len, f) \in Nat
      BY DEF By
    <3>4. /\ stat.rx[f] \in Nat /\ past.rx[f] \in Nat /\ s2c[f] \in Nat
      BY <1>1, CounterIs
    <3> QED  BY <3>1, <3>2, <3>3, <3>4
  <2> QED  BY <1>1, <2>1, <2>2, <2>3 DEF StatsInv
<1>4. CASE Close
  <2>1. closed' = TRUE /\ UNCHANGED <<c2s, s2c, stat, past>>
    BY <1>4 DEF Close, RemoveAll, histVars
  <2> QED  BY <2>1 DEF StatsInv, StatsMatchConns
<1>5. CASE ResetStream
  <2>1. c2s' = Zero /\ s2c' = Zero /\ past' = stat /\ stat' = stat
    BY <1>5 DEF ResetStream
  <2>2. Zero \in Counter /\ Zero.Bytes = 0 /\ Zero.Packets = 0
    BY DEF Zero, Counter
  <2>3. \A c \in Counter : \A f \in {"Bytes", "Packets"} : c[f] \in Nat /\ c[f] <= c[f] + 0 /\ c[f] = c[f] + 0
    BY DEF Counter
  <2>4. StatsMatchConns'
    BY <1>1, <2>1, <2>2, <2>3 DEF StatsMatchConns
  <2> QED  BY <1>1, <2>1, <2>2, <2>4 DEF StatsInv
<1>6. CASE UNCHANGED vars
  <2>1. UNCHANGED <<c2s, s2c, stat, past, closed>>
    BY <1>6 DEF vars, cacheVars, histVars
  <2> QED  BY <2>1 DEF StatsInv, StatsMatchConns
<1> QED  BY <1>2, <1>3, <1>4, <1>5, <1>6

-----------------------------------------------------------------------------
(* The exchange that is reported.                                           *)

LEMMA FirstPosition ==
    ASSUME NEW n \in Nat, NEW I, I \subseteq 1..n, I # {}
    PROVE  \E x \in I : \A y \in I : x <= y
<1> DEFINE back == {n + 1 - i : i \in I}
<1>1. back \subseteq 1..n /\ back # {}
  <2>1. \A i \in I : i \in 1..n
    OBVIOUS
  <2>2. \A i \in I : n + 1 - i \in 1..n
    BY <2>1
  <2> QED  BY <2>2
<1>2. \A i \in I : n + 1 - i \in back /\ i \in Int
  OBVIOUS
<1>3. \A b \in back : \E i \in I : b = n + 1 - i
  OBVIOUS
<1> HIDE DEF back
<1>4. PICK b \in back : \A j \in back : j <= b
  BY <1>1, LastPosition
<1>5. PICK x \in I : b = n + 1 - x
  BY <1>3
<1>6. \A y \in I : x <= y
  BY <1>2, <1>4, <1>5
<1> QED  BY <1>6

\* A request that is recognised has a method, a URI and a version.
LEMMA RequestIsComplete ==
    ASSUME NEW p \in Payload, Enginer!DPIDecoder(p) = "request"
    PROVE  Complete(p.words)
<1>1. Enginer!Request(p).ok /\ p.words \in Seq(Seq(STRING))
  BY PayloadAssumption DEF Enginer!DPIDecoder
<1>2. /\ Enginer!ParseRequestLine(p.words).ok
      /\ Enginer!ParseHTTPVersion(Enginer!ParseRequestLine(p.words).proto).ok
  BY <1>1 DEF Enginer!Request, Enginer!NotOk
<1> DEFINE v == Enginer!ParseRequestLine(p.words).proto
<1>3. Len(p.words) >= 3 /\ v = IF Len(p.words) = 3 THEN p.words[3] ELSE <<"other">>
  BY <1>1, <1>2 DEF Enginer!ParseRequestLine, Enginer!NotOk
<1> HIDE DEF v
<1> DEFINE dot   == Enginer!Strings!SelectInSeq(v, LAMBDA q : q = ".")
           major == SubSeq(v, 2, dot - 1)
           minor == SubSeq(v, dot + 1, Len(v))
<1>4. /\ v # <<>> /\ v[1] = "HTTP/" /\ dot # 0
      /\ Enginer!IsNumber(major) /\ Enginer!Atoi(major) \in 0..Enginer!Big
      /\ Enginer!IsNumber(minor) /\ Enginer!Atoi(minor) \in 0..Enginer!Big
  BY <1>2 DEF Enginer!ParseHTTPVersion, Enginer!NotOk, v
<1>5. Len(p.words) = 3 /\ v = p.words[3]
  <2>1. v # <<"other">>
    BY <1>4
  <2> QED  BY <1>3, <2>1
<1>6. v \in Seq(STRING)
  <2> DEFINE s == Seq(STRING)
  <2>1. p.words \in Seq(s)
    BY <1>1
  <2> HIDE DEF s
  <2>2. p.words[3] \in s
    BY <1>3, <2>1
  <2> QED  BY <1>5, <2>2 DEF s
<1>7. dot \in 1..Len(v) /\ v[dot] = "."
  <2> DEFINE I == {i \in 1..Len(v) : v[i] = "."}
  <2>1. dot = IF I # {} THEN Enginer!Strings!Min(I) ELSE 0
    BY DEF Enginer!Strings!SelectInSeq
  <2>2. I # {} /\ dot = CHOOSE x \in I : \A y \in I : x <= y
    BY <1>4, <2>1 DEF Enginer!Strings!Min
  <2>3. \E x \in I : \A y \in I : x <= y
    <3>1. I \subseteq 1..Len(v) /\ Len(v) \in Nat
      BY <1>6
    <3> HIDE DEF I
    <3> QED  BY <2>2, <3>1, FirstPosition
  <2> QED  BY <2>2, <2>3
<1> HIDE DEF dot
<1>8. Len(major) = 1 /\ major[1] \in VersionNumbers /\ Len(minor) = 1 /\ minor[1] \in VersionNumbers
  BY <1>4 DEF Enginer!IsNumber, Enginer!Atoi, VersionNumbers
<1>9. dot = 3 /\ Len(v) = 4 /\ v[2] = major[1] /\ v[4] = minor[1]
  <2>1. Len(v) \in Nat /\ dot \in Int
    BY <1>6, <1>7
  <2>2. dot = 3
    <3>1. Len(major) = IF 2 <= dot - 1 THEN dot - 2 ELSE 0
      BY <1>6, <2>1, <1>7
    <3> QED  BY <1>8, <2>1, <3>1
  <2>3. Len(v) = 4
    <3>1. /\ 4 <= Len(v) => Len(minor) = Len(v) - 3
          /\ ~(4 <= Len(v)) => Len(minor) = 0
      BY <1>6, <2>1, <2>2, <1>7
    <3> HIDE DEF minor, major
    <3> QED  BY <1>8, <2>1, <3>1
  <2>4. major[1] = v[2] /\ minor[1] = v[4]
    BY <1>6, <2>2, <2>3
  <2> QED  BY <2>2, <2>3, <2>4
<1>10. v = <<"HTTP/", major[1], ".", minor[1]>>
  BY <1>6, <1>4, <1>7, <1>9
<1> QED  BY <1>8, <1>10, <1>5 DEF Complete

\* One packet for DPI, of a connection whose number is not 0.
LEMMA DpiKeeps ==
    ASSUME RequestInv, conns' = conns, NEW len \in Nat, NEW p \in Payload, Dpi(len, p) \/ UNCHANGED dpiVars
    PROVE  RequestInv'
<1>1. CASE UNCHANGED dpiVars
  BY <1>1 DEF RequestInv, dpiVars
<1>2. CASE Dpicb(p)
  <2> DEFINE type == Enginer!DPIDecoder(p)
  <2>1. /\ Req' = IF type = "request" THEN [conn |-> conns, words |-> p.words] ELSE Req
        /\ StreamType' = IF type = "response" /\ Req # NoRequest THEN "HTTP" ELSE StreamType
    BY <1>2 DEF Dpicb
  <2>2. type = "request" => Complete(p.words)
    BY RequestIsComplete
  <2> HIDE DEF type
  <2>3. CASE type = "request"
    <3>1. Req'.conn = conns /\ Req'.words = p.words
      BY <2>1, <2>3
    <3>2. Req' # NoRequest
      BY <3>1 DEF NoRequest, RequestInv
    <3> QED  BY <2>2, <2>3, <3>1, <3>2 DEF RequestInv
  <2>4. CASE type # "request"
    <3>1. Req' = Req /\ (StreamType' = "HTTP" => StreamType = "HTTP" \/ Req # NoRequest)
      BY <2>1, <2>4
    <3> QED  BY <3>1 DEF RequestInv
  <2> QED  BY <2>3, <2>4
<1> QED  BY <1>1, <1>2 DEF Dpi

LEMMA RequestStep ==
    ASSUME RequestInv,
           \/ (ClientStep \/ ServerStep) /\ conns' = conns
           \/ Close \/ ResetStream \/ UNCHANGED vars
    PROVE  RequestInv'
<1>1. CASE (ClientStep \/ ServerStep) /\ conns' = conns
  <2>1. PICK len \in Lengths, p \in Payload : Dpi(len, p) \/ UNCHANGED dpiVars
    <3>1. CASE ClientStep
      BY <3>1 DEF ClientStep, StatClient
    <3>2. CASE ServerStep
      BY <3>2 DEF ServerStep, StatServer
    <3> QED  BY <1>1, <3>1, <3>2
  <2>2. len \in Nat
    BY LengthAssumption
  <2> QED  BY <1>1, <2>1, <2>2, DpiKeeps
<1>2. CASE ResetStream
  <2>1. conns' = conns + 1 /\ Req' = NoRequest /\ StreamType' = "UNKNOWN"
    BY <1>2 DEF ResetStream, ResetDpi
  <2> QED  BY <2>1 DEF RequestInv
<1>3. CASE Close \/ UNCHANGED vars
  <2>1. UNCHANGED <<dpiVars, conns>>
    BY <1>3 DEF Close, vars, envVars
  <2> QED  BY <2>1 DEF RequestInv, dpiVars
<1> QED  BY <1>1, <1>2, <1>3

-----------------------------------------------------------------------------
(* The theorems of ConnStat.                                                *)

LEMMA StatInit == Init => StatInv
<1> SUFFICES ASSUME Init PROVE StatInv
  OBVIOUS
<1>1. NewRTTCache /\ SequenceInit
  BY DEF Init
<1>2. CacheInv /\ SeqInv /\ linkedList = <<>>
  BY <1>1, NewInv, SeqInit DEF NewRTTCache
<1>3. SegmentsInv /\ SeenInv /\ SampleSinceLastSend
  BY <1>2 DEF Init, SegmentsInv, SeenInv, SampleSinceLastSend
<1>4. RttInv
  <2>1. MinRTT = MaxInt64 /\ MaxRTT = -MaxInt64 /\ TotalRTT = 0 /\ RttCount = 0 /\ negative = FALSE
    BY DEF Init
  <2>2. MinRTT * RttCount = 0 /\ MaxRTT * RttCount = 0
    BY <2>1, NothingMeasured, Zenon
  <2>3. /\ MinRTT \in Int /\ MaxRTT \in Int /\ TotalRTT \in Nat /\ RttCount \in Nat
        /\ negative \in BOOLEAN
    BY <2>1, NothingMeasured
  <2>4. MinRTT * RttCount <= TotalRTT /\ TotalRTT <= MaxRTT * RttCount
    <3>1. 0 <= 0
      OBVIOUS
    <3> QED  BY <2>1, <2>2, <3>1, Zenon
  <2> QED  BY <2>3, <2>4, Zenon DEF RttInv
<1>5. StatsInv
  <2>1. Zero \in Counter /\ Zero.Bytes = 0 /\ Zero.Packets = 0
    BY DEF Zero, Counter
  <2>2. c2s = Zero /\ s2c = Zero /\ stat = [tx |-> Zero, rx |-> Zero] /\ past = stat
    BY DEF Init
  <2> QED  BY <2>1, <2>2 DEF StatsInv, StatsMatchConns
<1>6. RequestInv
  BY DEF Init, RequestInv
<1> QED  BY <1>2, <1>3, <1>4, <1>5, <1>6 DEF StatInv

\* The invariant the theorems below rest on, for any flows, numbers, lengths,
\* payloads and times, and any number of packets and connections.
THEOREM StatInvariant == Spec => []StatInv
<1>1. StatInv /\ [Next]_vars => StatInv'
  <2> SUFFICES ASSUME StatInv, [Next]_vars PROVE StatInv'
    OBVIOUS
  <2>1. /\ SeqInv' /\ SegmentsInv'
        /\ \/ (ClientStep \/ ServerStep) /\ conns' = conns
           \/ Close \/ ResetStream \/ UNCHANGED vars
    BY StepsAre DEF StatInv
  <2>2. CacheInv'
    BY <2>1, CacheStep DEF StatInv
  <2>3. SeenInv' /\ SampleSinceLastSend'
    BY <2>1, SeenStep DEF StatInv
  <2>4. RttInv' /\ StatsInv' /\ RequestInv'
    BY <2>1, RttStep, StatsStep, RequestStep DEF StatInv
  <2> QED  BY <2>1, <2>2, <2>3, <2>4 DEF StatInv
<1> QED  BY <1>1, StatInit, PTL DEF Spec

\* A measured RTT is the time since the last transmission of the segment it
\* is measured on, through retransmissions, acknowledgements that hit a
\* neighbour's key, and re-use of the cache (stream.go, conn.stat).
THEOREM RttSinceLastSend == Spec => []SampleSinceLastSend
<1>1. StatInv => SampleSinceLastSend
  BY DEF StatInv
<1> QED  BY <1>1, StatInvariant, PTL

\* The average RTT lies between the least and the greatest, unless a packet
\* was older than the one it answers (stream.go, RTTStat).
THEOREM AverageIsBetween == Spec => []AverageWithinRange
<1>1. StatInv => AverageWithinRange
  <2> SUFFICES ASSUME RttInv, RttCount > 0, ~negative
               PROVE  MinRTT <= TotalRTT \div RttCount /\ TotalRTT \div RttCount <= MaxRTT
    BY DEF StatInv, AverageWithinRange
  <2>1. /\ MinRTT \in Int /\ MaxRTT \in Int /\ TotalRTT \in Nat /\ RttCount \in Nat /\ RttCount # 0
        /\ MinRTT * RttCount <= TotalRTT /\ TotalRTT <= MaxRTT * RttCount
    BY DEF RttInv
  <2> QED  BY <2>1, QuotientInRange, Zenon
<1> QED  BY <1>1, StatInvariant, PTL

\* The interface's Stats are the sum of what the streams counted, and only
\* what is counted after the close of the cache is missing (stream.go).
THEOREM StatsAreComplete == Spec => []StatsMatchConns
<1>1. StatInv => StatsMatchConns
  BY DEF StatInv, StatsInv
<1> QED  BY <1>1, StatInvariant, PTL

\* An exchange is reported with a complete request of its own connection,
\* for any payloads (stream.go, dpicb, and httpassembly).
THEOREM ExchangesAreOfTheirConnection == Spec => []ExchangeOfConnection
<1>1. StatInv => ExchangeOfConnection
  BY DEF StatInv, RequestInv, ExchangeOfConnection, Complete
<1> QED  BY <1>1, StatInvariant, PTL

\* The client's numbers in ConnStat are counted modulo 2^32 and ordered by
\* Difference as those of TcpSequence are, pure ACKs included.
THEOREM StreamNumbersCount == Spec => [](AddCounts /\ DifferenceOrders)
<1>1. StatInv => AddCounts /\ DifferenceOrders
  BY SeqInvOrders DEF StatInv, SeqInv
<1> QED  BY <1>1, StatInvariant, PTL

\* What holds of the cache under any operations holds of it as conn.stat and
\* the stream use it, for one connection after another: map and list agree, a
\* closed cache is empty, and an acknowledgement takes out the segment it
\* acknowledges and all of the flow in front of it (conn.go, stream.go).
THEOREM StreamUsesCache == Spec => [](IndexMatchesList /\ ClosedIsEmpty) /\ PullTakesItsSegment
<1>1. StatInv => IndexMatchesList /\ ClosedIsEmpty
  BY DEF StatInv, CacheInv
<1>2. StatInv /\ [Next]_vars => [Taken]_cacheVars
  <2> SUFFICES ASSUME StatInv, [Next]_vars, ret'.op = "Pull", ret'.ok, ~UNCHANGED cacheVars PROVE Taken
    BY DEF Taken
  <2>1. ClientStep \/ ServerStep \/ Close \/ ResetStream \/ UNCHANGED vars
    BY StepsAre DEF StatInv
  <2>2. ClientStep => ret'.op = "Push"
    BY DEF ClientStep, StatClient, Push, Returns
  <2>3. Close \/ ResetStream => ret'.op # "Pull"
    BY DEF Close, ResetStream, RemoveAll, Reset, Returns
  <2>4. ServerStep
    BY <2>1, <2>2, <2>3 DEF vars
  <2>5. PICK k \in Key : Pull(k)
    BY <2>4, KeysAre DEF StatInv, ServerStep, StatServer
  <2>6. PullHit(k) \/ PullScan(k)
    BY <2>5 DEF Pull, Returns
  <2> QED  BY <2>6, HitTakes, ScanTakes DEF StatInv
<1> QED  BY <1>1, <1>2, StatInvariant, PTL DEF Spec, PullTakesItsSegment, Taken
=============================================================================
