---------------------------- MODULE CaptureProofs ----------------------------
(***************************************************************************)
(* Theorems about the interface's counters and their report, for any       *)
(* number of dump goroutines, any capacity of their channels and any       *)
(* lengths: what the exit of the process loses, and what a report says     *)
(* though its four loads are taken at four moments; and about the maps of  *)
(* piece requests and responses.                                           *)
(***************************************************************************)
EXTENDS Capture, FiniteSetTheorems, SequenceTheorems, TLAPS

\* The places a packet that is not counted can be in: i > 0 in the channel of
\* d, 0 between the two additions of d.
Place       == Dumpers \X (0..ChanCap)
Taken(x)    == IF x[2] = 0 THEN adding[x[1]] # None ELSE x[2] <= Len(data[x[1]])
Outstanding == {x \in Place : Taken(x)}
Adding(dir) == {d \in Dumpers : adding[d] # None /\ adding[d][1] = dir}
N           == Cardinality(Dumpers)

Bytes(dir)   == counter[<<dir, "Bytes">>]
Packets(dir) == counter[<<dir, "Packets">>]

ChannelsBounded == \A d \in Dumpers : Len(data[d]) <= ChanCap

\* Every packet handed over is counted or in one place.
AllAccounted == handed = Packets("tx") + Packets("rx") + Cardinality(Outstanding)

\* Of the bytes that are counted, those whose packet is not are being added.
BytesCovered == \A dir \in Dir : Bytes(dir) <= MaxLen * (Packets(dir) + Cardinality(Adding(dir)))

\* What the reporter has loaded so far covers its bytes, with the packets it
\* loaded or, if it is still to load them, with those there are.
LoadsCovered ==
    /\ Len(loaded) = 1 => loaded[1] <= MaxLen * (Packets("tx") + N)
    /\ Len(loaded) >= 2 => loaded[1] <= MaxLen * (loaded[2] + N)
    /\ Len(loaded) = 3 => loaded[3] <= MaxLen * (Packets("rx") + N)
    /\ Len(loaded) = 4 => loaded[3] <= MaxLen * (loaded[4] + N)

\* Counters only grow, from one report through the loads of the next.
LoadsBetween ==
    /\ \A c \in Counters : old[c] <= counter[c]
    /\ \A i \in DOMAIN loaded : old[LoadOrder[i]] <= loaded[i] /\ loaded[i] <= counter[LoadOrder[i]]

StatInv ==
    /\ StatTypeOK /\ ChannelsBounded /\ AllAccounted
    /\ BytesCovered /\ LoadsCovered /\ LoadsBetween /\ ReportCoversBytes

-----------------------------------------------------------------------------
LEMMA MaxLenBounds == MaxLen \in Nat /\ \A m \in PacketLen : m <= MaxLen
BY LongestAssumption, ChanCapAssumption DEF MaxLen

LEMMA DumpersCounted == N \in Nat
BY DumpersAssumption, FS_CardinalityType DEF N

\* The places are finitely many: at most the capacity and one more for each
\* dump goroutine.
LEMMA PlacesCounted ==
    /\ IsFiniteSet(Place)
    /\ Cardinality(Place) = N * (ChanCap + 1)
<1>1. IsFiniteSet(0..ChanCap) /\ Cardinality(0..ChanCap) = ChanCap + 1
  BY FS_Interval, ChanCapAssumption
<1> QED  BY <1>1, FS_Product, DumpersAssumption DEF Place, N

LEMMA OutstandingCounted ==
    /\ IsFiniteSet(Outstanding)
    /\ Cardinality(Outstanding) \in Nat
    /\ Cardinality(Outstanding) <= N * (ChanCap + 1)
<1>1. Outstanding \in SUBSET Place
  BY DEF Outstanding
<1> QED  BY <1>1, PlacesCounted, FS_Subset, FS_CardinalityType

LEMMA AddingCounted ==
    ASSUME NEW dir
    PROVE  /\ IsFiniteSet(Adding(dir))
           /\ Cardinality(Adding(dir)) \in Nat
           /\ Cardinality(Adding(dir)) <= N
<1>1. Adding(dir) \in SUBSET Dumpers
  BY DEF Adding
<1> QED  BY <1>1, DumpersAssumption, FS_Subset, FS_CardinalityType DEF N

\* The two facts about products that the bounds need.
LEMMA OneMore ==
    ASSUME NEW m \in Nat, NEW a \in Nat
    PROVE  m * (a + 1) = m * a + m
OBVIOUS

LEMMA ProductGrows ==
    ASSUME NEW m \in Nat, NEW a \in Nat, NEW b \in Nat, a <= b
    PROVE  m * a <= m * b /\ m * a \in Nat /\ m * b \in Nat
OBVIOUS

-----------------------------------------------------------------------------
\* The values the four loads stand for.
LEMMA LoadsAre ==
    /\ Len(LoadOrder) = 4
    /\ LoadOrder[1] = <<"tx", "Bytes">> /\ LoadOrder[2] = <<"tx", "Packets">>
    /\ LoadOrder[3] = <<"rx", "Bytes">> /\ LoadOrder[4] = <<"rx", "Packets">>
    /\ \A c \in Counters : \E i \in 1..4 : LoadOrder[i] = c
BY DEF LoadOrder, Counters, Dir

LEMMA LoadedAre ==
    \A i \in 1..4 : LoadOrder[i] \in Counters /\ Loaded[LoadOrder[i]] = loaded[i]
<1> SUFFICES ASSUME NEW i \in 1..4
             PROVE  LoadOrder[i] \in Counters /\ Loaded[LoadOrder[i]] = loaded[i]
  OBVIOUS
<1>1. LoadOrder[i] \in Counters
  BY DEF LoadOrder, Counters, Dir
<1>2. DOMAIN LoadOrder = 1..4
  BY DEF LoadOrder
<1>3. \A j \in 1..4 : LoadOrder[j] = LoadOrder[i] => j = i
  BY DEF LoadOrder
<1>4. (CHOOSE j \in DOMAIN LoadOrder : LoadOrder[j] = LoadOrder[i]) = i
  BY <1>2, <1>3
<1> QED  BY <1>1, <1>4 DEF Loaded

LEMMA StatInitInv == StatInit => StatInv
<1> SUFFICES ASSUME StatInit PROVE StatInv
  OBVIOUS
<1>1. StatTypeOK
  BY LoadsAre, ChanCapAssumption DEF StatInit, StatTypeOK, NoCounts, None
<1>2. Outstanding = {} /\ \A dir \in Dir : Adding(dir) = {}
  BY ChanCapAssumption DEF StatInit, Outstanding, Place, Taken, Adding
<1>3. Cardinality(Outstanding) = 0 /\ \A dir \in Dir : Cardinality(Adding(dir)) = 0
  BY <1>2, FS_EmptySet
<1>4. \A c \in Counters : counter[c] = 0 /\ old[c] = 0
  BY DEF StatInit, NoCounts
<1>5. \A dir \in Dir : <<dir, "Bytes">> \in Counters /\ <<dir, "Packets">> \in Counters
  BY DEF Counters
<1>6. AllAccounted
  BY <1>3, <1>4, <1>5 DEF StatInit, AllAccounted, Packets, Dir
<1>7. BytesCovered
  <2> SUFFICES ASSUME NEW dir \in Dir
               PROVE  Bytes(dir) <= MaxLen * (Packets(dir) + Cardinality(Adding(dir)))
    BY DEF BytesCovered
  <2>1. Bytes(dir) = 0 /\ Packets(dir) + Cardinality(Adding(dir)) = 0
    BY <1>3, <1>4, <1>5 DEF Bytes, Packets
  <2> QED  BY <2>1, MaxLenBounds
<1>8. ReportCoversBytes
  <2> SUFFICES ASSUME NEW dir \in Dir
               PROVE  old[<<dir, "Bytes">>] <= MaxLen * (old[<<dir, "Packets">>] + N)
    BY DEF ReportCoversBytes, N
  <2>1. old[<<dir, "Bytes">>] = 0 /\ old[<<dir, "Packets">>] + N = N
    BY <1>4, <1>5, DumpersCounted
  <2>2. 0 <= MaxLen * N
    BY MaxLenBounds, DumpersCounted, ProductGrows
  <2> QED  BY <2>1, <2>2
<1>9. ChannelsBounded /\ LoadsCovered /\ LoadsBetween
  BY <1>4, ChanCapAssumption DEF StatInit, ChannelsBounded, LoadsCovered, LoadsBetween
<1> QED  BY <1>1, <1>6, <1>7, <1>8, <1>9 DEF StatInv

LEMMA AssembleInv ==
    ASSUME StatInv, NEW d \in Dumpers, NEW dir \in Dir, NEW len \in PacketLen, Assemble(d, dir, len)
    PROVE  StatInv'
<1>1. /\ StatTypeOK /\ data[d] \in Seq(Dir \X PacketLen) /\ Len(data[d]) \in Nat
      /\ Len(data[d]) < ChanCap /\ data' = [data EXCEPT ![d] = Append(@, <<dir, len>>)]
      /\ UNCHANGED <<closed, adding, counter, loaded, old, reports>> /\ handed' = handed + 1
  BY DEF StatInv, StatTypeOK, Assemble
<1>2. /\ data' \in [Dumpers -> Seq(Dir \X PacketLen)]
      /\ Len(data'[d]) = Len(data[d]) + 1
      /\ \A e \in Dumpers : e # d => data'[e] = data[e]
  BY <1>1 DEF StatTypeOK
<1>3. StatTypeOK'
  BY <1>1, <1>2 DEF StatTypeOK
<1>4. ChannelsBounded'
  BY <1>1, <1>2, ChanCapAssumption DEF StatInv, ChannelsBounded
<1>5. AllAccounted'
  <2> DEFINE x == <<d, Len(data[d]) + 1>>
  <2>1. x \in Place /\ x \notin Outstanding
    BY <1>1, ChanCapAssumption DEF Place, Outstanding, Taken
  <2>2. \A y \in Place : Taken(y)' <=> Taken(y) \/ y = x
    <3> SUFFICES ASSUME NEW e \in Dumpers, NEW i \in 0..ChanCap
                 PROVE  Taken(<<e, i>>)' <=> Taken(<<e, i>>) \/ <<e, i>> = x
      BY DEF Place
    <3>1. CASE i = 0
      BY <1>1, <3>1 DEF Taken
    <3>2. CASE i # 0 /\ e = d
      BY <1>1, <1>2, <3>2, ChanCapAssumption DEF Taken
    <3>3. CASE e # d
      BY <1>1, <1>2, <3>3 DEF Taken
    <3> QED  BY <3>1, <3>2, <3>3
  <2>3. Outstanding' = Outstanding \cup {x}
    BY <2>1, <2>2 DEF Outstanding, Place
  <2>4. Cardinality(Outstanding') = Cardinality(Outstanding) + 1
    BY <2>1, <2>3, FS_AddElement, OutstandingCounted
  <2>5. <<"tx", "Packets">> \in Counters /\ <<"rx", "Packets">> \in Counters
    BY DEF Counters, Dir
  <2> QED  BY <1>1, <2>4, <2>5, OutstandingCounted DEF StatInv, AllAccounted, Packets, StatTypeOK
<1>6. (BytesCovered /\ LoadsCovered /\ LoadsBetween /\ ReportCoversBytes)'
  BY <1>1 DEF StatInv, BytesCovered, LoadsCovered, LoadsBetween, ReportCoversBytes, Bytes, Packets,
              Adding
<1> QED  BY <1>3, <1>4, <1>5, <1>6 DEF StatInv

\* What was loaded stays true while dump goroutines go on counting.
LEMMA CountersGrow ==
    ASSUME StatInv, StatTypeOK', UNCHANGED <<loaded, old>>,
           \A c \in Counters : counter[c] <= counter'[c]
    PROVE  (LoadsCovered /\ LoadsBetween /\ ReportCoversBytes)'
<1> DEFINE P(dir) == <<dir, "Packets">>
<1>1. \A dir \in Dir : P(dir) \in Counters /\ counter[P(dir)] \in Nat /\ counter'[P(dir)] \in Nat
  BY DEF StatInv, StatTypeOK, Counters
<1>2. \A dir \in Dir : MaxLen * (counter[P(dir)] + N) <= MaxLen * (counter'[P(dir)] + N)
  <2> SUFFICES ASSUME NEW dir \in Dir
               PROVE  MaxLen * (counter[P(dir)] + N) <= MaxLen * (counter'[P(dir)] + N)
    OBVIOUS
  <2>1. /\ counter[P(dir)] + N \in Nat /\ counter'[P(dir)] + N \in Nat
        /\ counter[P(dir)] + N <= counter'[P(dir)] + N
    BY <1>1, DumpersCounted
  <2> QED  BY <2>1, MaxLenBounds, ProductGrows
<1>3. \A dir \in Dir : /\ MaxLen * (counter[P(dir)] + N) \in Nat
                       /\ MaxLen * (counter'[P(dir)] + N) \in Nat
  <2> SUFFICES ASSUME NEW dir \in Dir
               PROVE  /\ MaxLen * (counter[P(dir)] + N) \in Nat
                      /\ MaxLen * (counter'[P(dir)] + N) \in Nat
    OBVIOUS
  <2>1. counter[P(dir)] + N \in Nat /\ counter'[P(dir)] + N \in Nat
    BY <1>1, DumpersCounted
  <2> QED  BY <2>1, MaxLenBounds, ProductGrows
<1>4. \A i \in DOMAIN loaded : loaded[i] \in Nat
  BY DEF StatInv, StatTypeOK
<1>5. LoadsCovered'
  <2>1. CASE Len(loaded) = 1
    <3>1. loaded[1] \in Nat /\ loaded[1] <= MaxLen * (counter[P("tx")] + N) /\ "tx" \in Dir
      BY <1>4, <2>1 DEF StatInv, StatTypeOK, LoadsCovered, Packets, Dir
    <3> HIDE DEF P
    <3>2. loaded[1] <= MaxLen * (counter'[P("tx")] + N)
      BY <3>1, <1>2, <1>3
    <3> QED  BY <2>1, <3>2 DEF LoadsCovered, Packets, P, N
  <2>2. CASE Len(loaded) = 3
    <3>1. loaded[3] \in Nat /\ loaded[3] <= MaxLen * (counter[P("rx")] + N) /\ "rx" \in Dir
      BY <1>4, <2>2 DEF StatInv, StatTypeOK, LoadsCovered, Packets, Dir
    <3> HIDE DEF P
    <3>2. loaded[3] <= MaxLen * (counter'[P("rx")] + N)
      BY <3>1, <1>2, <1>3
    <3> QED  BY <2>2, <3>2 DEF LoadsCovered, Packets, P, N, StatInv
  <2>3. CASE Len(loaded) \notin {1, 3}
    BY <2>3 DEF LoadsCovered, StatInv, N
  <2> QED  BY <2>1, <2>2, <2>3
<1>6. LoadsBetween'
  <2>1. \A c \in Counters : old[c] \in Nat /\ counter[c] \in Nat /\ counter'[c] \in Nat
    BY DEF StatInv, StatTypeOK
  <2>2. DOMAIN loaded \subseteq 1..4
    BY LoadsAre DEF StatInv, StatTypeOK
  <2>3. \A i \in DOMAIN loaded : LoadOrder[i] \in Counters
    BY <2>2, LoadedAre
  <2> QED  BY <1>4, <2>1, <2>3 DEF LoadsBetween, StatInv
<1>7. ReportCoversBytes'
  BY DEF StatInv, ReportCoversBytes
<1> QED  BY <1>5, <1>6, <1>7

LEMMA AddBytesInv ==
    ASSUME StatInv, NEW d \in Dumpers, AddBytes(d)
    PROVE  StatInv'
<1> DEFINE p == Head(data[d])
           B == <<p[1], "Bytes">>
<1>1. /\ StatTypeOK /\ adding[d] = None /\ data[d] # <<>>
      /\ adding' = [adding EXCEPT ![d] = p]
      /\ counter' = [counter EXCEPT ![B] = @ + p[2]]
      /\ data' = [data EXCEPT ![d] = Tail(@)]
      /\ UNCHANGED <<closed, loaded, old, reports, handed>>
  BY DEF StatInv, AddBytes
<1>2. /\ data[d] \in Seq(Dir \X PacketLen) /\ p \in Dir \X PacketLen
      /\ Tail(data[d]) \in Seq(Dir \X PacketLen)
      /\ Len(data[d]) \in Nat \ {0} /\ Len(Tail(data[d])) = Len(data[d]) - 1
  BY <1>1 DEF StatTypeOK
<1>3. p[1] \in Dir /\ p[2] \in PacketLen /\ p[2] \in Nat /\ B \in Counters /\ p # None
  <2>1. \A q \in Dir \X PacketLen : q[1] \in Dir /\ q[2] \in PacketLen /\ q # None
    BY DEF None
  <2>2. p[1] \in Dir /\ p[2] \in PacketLen /\ p # None
    BY <1>2, <2>1
  <2> QED  BY <2>2, ChanCapAssumption DEF Counters
<1> HIDE DEF p
<1>4. /\ \A e \in Dumpers : e # d => data'[e] = data[e] /\ adding'[e] = adding[e]
      /\ data'[d] = Tail(data[d]) /\ adding'[d] = p
      /\ Len(data'[d]) = Len(data[d]) - 1
      /\ \A c \in Counters : counter'[c] = IF c = B THEN counter[c] + p[2] ELSE counter[c]
  BY <1>1, <1>2 DEF StatTypeOK
<1>5. StatTypeOK'
  BY <1>1, <1>2, <1>3 DEF StatTypeOK
<1>6. ChannelsBounded'
  <2>1. \A e \in Dumpers : Len(data[e]) <= ChanCap
    BY DEF StatInv, ChannelsBounded
  <2>2. Len(data'[d]) <= ChanCap
    BY <1>2, <1>4, <2>1, ChanCapAssumption
  <2> QED  BY <1>4, <2>1, <2>2 DEF ChannelsBounded
<1>7. AllAccounted'
  <2> DEFINE y == <<d, Len(data[d])>>
             z == <<d, 0>>
  <2>1. y \in Place /\ z \in Place /\ y # z /\ y \in Outstanding /\ z \notin Outstanding
    BY <1>1, <1>2, ChanCapAssumption DEF StatInv, ChannelsBounded, Place, Outstanding, Taken
  <2>2. \A x \in Place : Taken(x)' <=> (Taken(x) /\ x # y) \/ x = z
    <3> SUFFICES ASSUME NEW e \in Dumpers, NEW i \in 0..ChanCap
                 PROVE  Taken(<<e, i>>)' <=> (Taken(<<e, i>>) /\ <<e, i>> # y) \/ <<e, i>> = z
      BY DEF Place
    <3>1. CASE e = d /\ i = 0
      BY <1>3, <1>4, <3>1 DEF Taken
    <3>2. CASE e = d /\ i # 0
      <4>1. Taken(<<e, i>>)' <=> i <= Len(data[d]) - 1
        BY <1>4, <3>2 DEF Taken
      <4>2. Taken(<<e, i>>) <=> i <= Len(data[d])
        BY <3>2 DEF Taken
      <4>3. <<e, i>> # z /\ (<<e, i>> = y <=> i = Len(data[d]))
        BY <3>2
      <4> QED  BY <1>2, <4>1, <4>2, <4>3, ChanCapAssumption
    <3>3. CASE e # d
      BY <1>4, <3>3 DEF Taken
    <3> QED  BY <3>1, <3>2, <3>3
  <2>3. Outstanding' = (Outstanding \ {y}) \cup {z}
    BY <2>1, <2>2 DEF Outstanding, Place
  <2>4. IsFiniteSet(Outstanding \ {y}) /\ Cardinality(Outstanding \ {y}) = Cardinality(Outstanding) - 1
    BY <2>1, FS_RemoveElement, OutstandingCounted
  <2>5. Cardinality(Outstanding') = Cardinality(Outstanding)
    <3>1. z \notin Outstanding \ {y}
      BY <2>1
    <3>2. Cardinality((Outstanding \ {y}) \cup {z}) = Cardinality(Outstanding \ {y}) + 1
      BY <2>4, <3>1, FS_AddElement
    <3> QED  BY <2>3, <2>4, <3>2, OutstandingCounted
  <2>6. counter'[<<"tx", "Packets">>] = counter[<<"tx", "Packets">>]
        /\ counter'[<<"rx", "Packets">>] = counter[<<"rx", "Packets">>]
    BY <1>1 DEF StatTypeOK, Counters, Dir
  <2> QED  BY <1>1, <2>5, <2>6 DEF StatInv, AllAccounted, Packets
<1>8. BytesCovered'
  <2> SUFFICES ASSUME NEW dir \in Dir
               PROVE  (Bytes(dir) <= MaxLen * (Packets(dir) + Cardinality(Adding(dir))))'
    BY DEF BytesCovered
  <2>1. /\ <<dir, "Bytes">> \in Counters /\ <<dir, "Packets">> \in Counters
        /\ Bytes(dir) \in Nat /\ Packets(dir) \in Nat /\ Packets(dir)' = Packets(dir)
        /\ Bytes(dir)' = IF dir = p[1] THEN Bytes(dir) + p[2] ELSE Bytes(dir)
    BY <1>1, <1>3 DEF StatTypeOK, Counters, Bytes, Packets
  <2>2. Bytes(dir) <= MaxLen * (Packets(dir) + Cardinality(Adding(dir)))
    BY DEF StatInv, BytesCovered
  <2>3. CASE dir = p[1]
    <3>1. Adding(dir)' = Adding(dir) \cup {d} /\ d \notin Adding(dir)
      BY <1>1, <1>3, <1>4, <2>3 DEF Adding
    <3>2. Cardinality(Adding(dir)') = Cardinality(Adding(dir)) + 1
      BY <3>1, FS_AddElement, AddingCounted
    <3> DEFINE a == Packets(dir) + Cardinality(Adding(dir))
    <3>3. a \in Nat /\ Packets(dir)' + Cardinality(Adding(dir)') = a + 1
      BY <2>1, <3>2, AddingCounted
    <3>4. Bytes(dir) <= MaxLen * a /\ MaxLen * a \in Nat
      BY <2>2, <3>3, MaxLenBounds, ProductGrows
    <3> HIDE DEF a
    <3>5. Bytes(dir) + p[2] <= MaxLen * a + MaxLen
      BY <1>3, <2>1, <3>4, MaxLenBounds
    <3>6. MaxLen * (a + 1) = MaxLen * a + MaxLen
      BY <3>3, MaxLenBounds, OneMore
    <3>7. Bytes(dir)' <= MaxLen * (a + 1)
      BY <2>1, <2>3, <3>5, <3>6
    <3> QED  BY <3>3, <3>7 DEF MaxLen
  <2>4. CASE dir # p[1]
    <3>1. Adding(dir)' = Adding(dir)
      BY <1>1, <1>3, <1>4, <2>4 DEF Adding
    <3> QED  BY <2>1, <2>2, <2>4, <3>1 DEF MaxLen
  <2> QED  BY <2>3, <2>4
<1>9. \A c \in Counters : counter[c] <= counter'[c]
  BY <1>1, <1>3, <1>4 DEF StatTypeOK
<1> QED  BY <1>1, <1>5, <1>6, <1>7, <1>8, <1>9, CountersGrow DEF StatInv

LEMMA AddPacketsInv ==
    ASSUME StatInv, NEW d \in Dumpers, AddPackets(d)
    PROVE  StatInv'
<1> DEFINE at == adding[d][1]
           P == <<at, "Packets">>
<1>1. /\ StatTypeOK /\ adding[d] # None
      /\ adding' = [adding EXCEPT ![d] = None]
      /\ counter' = [counter EXCEPT ![P] = @ + 1]
      /\ UNCHANGED <<data, closed, loaded, old, reports, handed>>
  BY DEF StatInv, AddPackets
<1>2. at \in Dir /\ P \in Counters
  BY <1>1 DEF StatTypeOK, Counters
<1> HIDE DEF at
<1>3. /\ \A e \in Dumpers : e # d => adding'[e] = adding[e]
      /\ adding'[d] = None
      /\ \A c \in Counters : /\ counter[c] \in Nat
                             /\ counter'[c] = IF c = P THEN counter[c] + 1 ELSE counter[c]
  BY <1>1 DEF StatTypeOK
<1>4. StatTypeOK'
  BY <1>1, <1>2 DEF StatTypeOK
<1>5. ChannelsBounded'
  BY <1>1 DEF StatInv, ChannelsBounded
<1>6. AllAccounted'
  <2> DEFINE z == <<d, 0>>
  <2>1. z \in Place /\ z \in Outstanding
    BY <1>1, ChanCapAssumption DEF Place, Outstanding, Taken
  <2>2. \A x \in Place : Taken(x)' <=> Taken(x) /\ x # z
    BY <1>1, <1>3 DEF Taken, Place
  <2>3. Outstanding' = Outstanding \ {z}
    BY <2>2 DEF Outstanding, Place
  <2>4. Cardinality(Outstanding') = Cardinality(Outstanding) - 1
    BY <2>1, <2>3, FS_RemoveElement, OutstandingCounted
  <2>5. /\ <<"tx", "Packets">> \in Counters /\ <<"rx", "Packets">> \in Counters
        /\ at = "tx" \/ at = "rx"
    BY <1>2 DEF Counters, Dir
  <2>6. Packets("tx")' + Packets("rx")' = Packets("tx") + Packets("rx") + 1
    BY <1>3, <2>5 DEF Packets
  <2>7. /\ Packets("tx") \in Nat /\ Packets("rx") \in Nat
        /\ Packets("tx")' \in Nat /\ Packets("rx")' \in Nat
    BY <1>3, <2>5 DEF Packets
  <2> QED  BY <1>1, <2>4, <2>6, <2>7, OutstandingCounted DEF StatInv, AllAccounted
<1>7. BytesCovered'
  <2> SUFFICES ASSUME NEW dir \in Dir
               PROVE  (Bytes(dir) <= MaxLen * (Packets(dir) + Cardinality(Adding(dir))))'
    BY DEF BytesCovered
  <2>1. /\ <<dir, "Bytes">> \in Counters /\ <<dir, "Packets">> \in Counters
        /\ Packets(dir) \in Nat /\ Bytes(dir)' = Bytes(dir)
        /\ Packets(dir)' = IF dir = at THEN Packets(dir) + 1 ELSE Packets(dir)
    BY <1>3 DEF Counters, Bytes, Packets
  <2>2. Bytes(dir) <= MaxLen * (Packets(dir) + Cardinality(Adding(dir)))
    BY DEF StatInv, BytesCovered
  <2>3. Packets(dir)' + Cardinality(Adding(dir)') = Packets(dir) + Cardinality(Adding(dir))
    <3>1. CASE dir = at
      <4>1. Adding(dir)' = Adding(dir) \ {d} /\ d \in Adding(dir)
        BY <1>1, <1>3, <3>1 DEF Adding, at
      <4>2. Cardinality(Adding(dir)') = Cardinality(Adding(dir)) - 1
        BY <4>1, FS_RemoveElement, AddingCounted
      <4> QED  BY <2>1, <3>1, <4>2, AddingCounted
    <3>2. CASE dir # at
      <4>1. Adding(dir)' = Adding(dir)
        BY <1>1, <1>3, <3>2 DEF Adding, at
      <4> QED  BY <2>1, <3>2, <4>1
    <3> QED  BY <3>1, <3>2
  <2> QED  BY <2>1, <2>2, <2>3 DEF MaxLen
<1>8. \A c \in Counters : counter[c] <= counter'[c]
  BY <1>3
<1> QED  BY <1>1, <1>4, <1>5, <1>6, <1>7, <1>8, CountersGrow DEF StatInv

\* A packet that is discarded leaves its place and is not asked for any more.
LEMMA DiscardInv ==
    ASSUME StatInv, NEW d \in Dumpers, Discard(d)
    PROVE  StatInv'
<1>1. /\ StatTypeOK /\ data[d] # <<>>
      /\ data' = [data EXCEPT ![d] = Tail(@)] /\ handed' = handed - 1
      /\ UNCHANGED <<closed, adding, counter, loaded, old, reports>>
  BY DEF StatInv, Discard
<1>2. /\ data[d] \in Seq(Dir \X PacketLen) /\ Tail(data[d]) \in Seq(Dir \X PacketLen)
      /\ Len(data[d]) \in Nat \ {0} /\ Len(Tail(data[d])) = Len(data[d]) - 1
  BY <1>1 DEF StatTypeOK
<1>3. /\ \A e \in Dumpers : e # d => data'[e] = data[e]
      /\ Len(data'[d]) = Len(data[d]) - 1
  BY <1>1, <1>2 DEF StatTypeOK
<1>4. StatTypeOK'
  BY <1>1, <1>2 DEF StatTypeOK
<1>5. \A e \in Dumpers : Len(data[e]) <= ChanCap
  BY DEF StatInv, ChannelsBounded
<1>6. ChannelsBounded'
  <2>1. Len(data'[d]) <= ChanCap
    BY <1>2, <1>3, <1>5, ChanCapAssumption
  <2> QED  BY <1>3, <1>5, <2>1 DEF ChannelsBounded
<1>7. AllAccounted'
  <2> DEFINE y == <<d, Len(data[d])>>
  <2>1. y \in Place /\ y \in Outstanding
    BY <1>2, <1>5, ChanCapAssumption DEF Place, Outstanding, Taken
  <2>2. \A x \in Place : Taken(x)' <=> Taken(x) /\ x # y
    <3> SUFFICES ASSUME NEW e \in Dumpers, NEW i \in 0..ChanCap
                 PROVE  Taken(<<e, i>>)' <=> Taken(<<e, i>>) /\ <<e, i>> # y
      BY DEF Place
    <3>1. CASE i = 0
      BY <1>1, <1>2, <3>1 DEF Taken
    <3>2. CASE e = d /\ i # 0
      <4>1. Taken(<<e, i>>)' <=> i <= Len(data[d]) - 1
        BY <1>3, <3>2 DEF Taken
      <4>2. Taken(<<e, i>>) <=> i <= Len(data[d])
        BY <3>2 DEF Taken
      <4>3. <<e, i>> = y <=> i = Len(data[d])
        BY <3>2
      <4> QED  BY <1>2, <4>1, <4>2, <4>3, ChanCapAssumption
    <3>3. CASE e # d
      BY <1>1, <1>3, <3>3 DEF Taken
    <3> QED  BY <3>1, <3>2, <3>3
  <2>3. Outstanding' = Outstanding \ {y}
    BY <2>1, <2>2 DEF Outstanding, Place
  <2>4. Cardinality(Outstanding') = Cardinality(Outstanding) - 1
    BY <2>1, <2>3, FS_RemoveElement, OutstandingCounted
  <2>5. Packets("tx") \in Nat /\ Packets("rx") \in Nat
    BY <1>1 DEF StatTypeOK, Packets, Counters, Dir
  <2> QED  BY <1>1, <2>4, <2>5, OutstandingCounted DEF StatInv, AllAccounted, Packets
<1>8. (BytesCovered /\ LoadsCovered /\ LoadsBetween /\ ReportCoversBytes)'
  BY <1>1 DEF StatInv, BytesCovered, LoadsCovered, LoadsBetween, ReportCoversBytes, Bytes, Packets,
              Adding
<1> QED  BY <1>4, <1>6, <1>7, <1>8 DEF StatInv

LEMMA CloseInv ==
    ASSUME StatInv, NEW d \in Dumpers, Close(d)
    PROVE  StatInv'
<1>1. /\ StatTypeOK /\ closed' = [closed EXCEPT ![d] = TRUE]
      /\ UNCHANGED <<data, adding, counter, loaded, old, reports, handed>>
  BY DEF StatInv, Close
<1>2. (StatTypeOK /\ LoadsCovered /\ LoadsBetween /\ ReportCoversBytes)'
  BY <1>1 DEF StatInv, StatTypeOK, LoadsCovered, LoadsBetween, ReportCoversBytes, Packets
<1>3. (ChannelsBounded /\ AllAccounted /\ BytesCovered)'
  BY <1>1 DEF StatInv, ChannelsBounded, AllAccounted, Outstanding, Place, Taken, BytesCovered,
              Bytes, Packets, Adding
<1> QED  BY <1>2, <1>3 DEF StatInv

\* Neither a load nor a report disturbs what dump goroutines count.
LEMMA ReporterQuiet ==
    ASSUME StatInv, UNCHANGED <<data, adding, counter, handed>>
    PROVE  (ChannelsBounded /\ AllAccounted /\ BytesCovered)'
<1>1. Outstanding' = Outstanding /\ \A dir \in Dir : Adding(dir)' = Adding(dir)
  BY DEF Outstanding, Taken, Place, Adding
<1> QED  BY <1>1 DEF StatInv, ChannelsBounded, AllAccounted, BytesCovered, Bytes, Packets, MaxLen

\* So a load of the bytes is covered by any later one of the packets.
LEMMA BytesBounded ==
    ASSUME StatInv, NEW dir \in Dir
    PROVE  /\ Bytes(dir) \in Nat /\ Packets(dir) \in Nat
           /\ Bytes(dir) <= MaxLen * (Packets(dir) + N)
<1> DEFINE a == Packets(dir) + Cardinality(Adding(dir))
           b == Packets(dir) + N
<1>1. Bytes(dir) \in Nat /\ Packets(dir) \in Nat
  BY DEF StatInv, StatTypeOK, Counters, Bytes, Packets
<1>2. a \in Nat /\ b \in Nat /\ a <= b
  BY <1>1, AddingCounted, DumpersCounted
<1>3. Bytes(dir) <= MaxLen * a
  BY DEF StatInv, BytesCovered
<1> HIDE DEF a, b
<1>4. MaxLen * a <= MaxLen * b /\ MaxLen * a \in Nat /\ MaxLen * b \in Nat
  BY <1>2, MaxLenBounds, ProductGrows
<1> QED  BY <1>1, <1>3, <1>4 DEF b

LEMMA LoadInv ==
    ASSUME StatInv, Load
    PROVE  StatInv'
<1>1. /\ StatTypeOK /\ loaded \in Seq(Nat) /\ Len(loaded) < Len(LoadOrder)
      /\ loaded' = Append(loaded, counter[LoadOrder[Len(loaded) + 1]])
      /\ UNCHANGED <<data, closed, adding, counter, old, reports, handed>>
  BY DEF StatInv, StatTypeOK, Load
<1>2. Len(loaded) \in 0..3
  <2>1. Len(loaded) \in Nat
    BY <1>1
  <2>2. Len(LoadOrder) = 4
    BY LoadsAre
  <2>3. Len(loaded) < 4
    BY <1>1, <2>2, Zenon
  <2>4. \A k \in Nat : k < 4 => k \in 0..3
    OBVIOUS
  <2> QED  BY <2>1, <2>3, <2>4, Zenon
<1>3. PICK n \in 0..3 : n = Len(loaded)
  BY <1>2
<1>4. PICK c \in Counters : c = LoadOrder[n + 1]
  <2>1. n + 1 \in 1..4
    OBVIOUS
  <2> QED  BY <2>1, LoadedAre
<1>5. counter[c] \in Nat /\ loaded' = Append(loaded, counter[c])
  BY <1>1, <1>3, <1>4 DEF StatTypeOK
<1>6. /\ loaded' \in Seq(Nat) /\ Len(loaded') = n + 1
      /\ \A i \in 1..n : loaded'[i] = loaded[i] /\ loaded[i] \in Nat
      /\ loaded'[n + 1] = counter[c]
  BY <1>1, <1>3, <1>5
<1>7. StatTypeOK'
  BY <1>1, <1>6, LoadsAre DEF StatTypeOK
<1>8. LoadsCovered'
  <2> DEFINE T == MaxLen * (Packets("tx") + N)
             R == MaxLen * (Packets("rx") + N)
  <2>1. "tx" \in Dir /\ "rx" \in Dir /\ Packets("tx")' = Packets("tx") /\ Packets("rx")' = Packets("rx")
    BY <1>1 DEF Dir, Packets
  <2>2. Bytes("tx") <= T /\ Bytes("rx") <= R
    BY <2>1, BytesBounded
  <2>3. CASE n = 0
    <3>1. loaded'[1] = Bytes("tx") /\ Len(loaded') = 1
      <4>1. n + 1 = 1
        BY <2>3
      <4>2. c = <<"tx", "Bytes">>
        BY <1>4, <4>1, LoadsAre, Zenon
      <4> QED  BY <1>6, <4>1, <4>2, Zenon DEF Bytes
    <3>2. loaded'[1] <= MaxLen * (Packets("tx")' + N)
      BY <2>1, <2>2, <3>1
    <3> QED  BY <3>1, <3>2 DEF LoadsCovered, N, MaxLen
  <2>4. CASE n = 1
    <3>1. loaded'[2] = Packets("tx") /\ Len(loaded') = 2 /\ loaded'[1] = loaded[1]
      <4>1. n + 1 = 2 /\ 1 \in 1..n
        BY <2>4
      <4>2. c = <<"tx", "Packets">>
        BY <1>4, <4>1, LoadsAre, Zenon
      <4> QED  BY <1>6, <4>1, <4>2, Zenon DEF Packets
    <3>2. loaded[1] <= T
      BY <1>3, <2>4 DEF StatInv, LoadsCovered
    <3> QED  BY <3>1, <3>2 DEF LoadsCovered, N, MaxLen
  <2>5. CASE n = 2
    <3>1. /\ loaded'[3] = Bytes("rx") /\ Len(loaded') = 3
          /\ loaded'[1] = loaded[1] /\ loaded'[2] = loaded[2]
      <4>1. n + 1 = 3 /\ 1 \in 1..n /\ 2 \in 1..n
        BY <2>5
      <4>2. c = <<"rx", "Bytes">>
        BY <1>4, <4>1, LoadsAre, Zenon
      <4> QED  BY <1>6, <4>1, <4>2, Zenon DEF Bytes
    <3>2. loaded[1] <= MaxLen * (loaded[2] + N)
      BY <1>3, <2>5 DEF StatInv, LoadsCovered
    <3>3. loaded'[3] <= MaxLen * (Packets("rx")' + N)
      BY <2>1, <2>2, <3>1
    <3>4. loaded'[1] <= MaxLen * (loaded'[2] + N)
      BY <3>1, <3>2
    <3> QED  BY <3>1, <3>3, <3>4 DEF LoadsCovered, N, MaxLen
  <2>6. CASE n = 3
    <3>1. /\ loaded'[4] = Packets("rx") /\ Len(loaded') = 4
          /\ loaded'[1] = loaded[1] /\ loaded'[2] = loaded[2] /\ loaded'[3] = loaded[3]
      <4>1. n + 1 = 4 /\ 1 \in 1..n /\ 2 \in 1..n /\ 3 \in 1..n
        BY <2>6
      <4>2. c = <<"rx", "Packets">>
        BY <1>4, <4>1, LoadsAre, Zenon
      <4> QED  BY <1>6, <4>1, <4>2, Zenon DEF Packets
    <3>2. loaded[1] <= MaxLen * (loaded[2] + N) /\ loaded[3] <= R
      BY <1>3, <2>6 DEF StatInv, LoadsCovered
    <3> QED  BY <3>1, <3>2 DEF LoadsCovered, N, MaxLen
  <2> QED  BY <2>3, <2>4, <2>5, <2>6
<1>9. LoadsBetween'
  <2>1. \A k \in Counters : old[k] <= counter[k]
    BY DEF StatInv, LoadsBetween
  <2>2. \A i \in 1..n : /\ old[LoadOrder[i]] <= loaded'[i]
                        /\ loaded'[i] <= counter[LoadOrder[i]]
    <3>1. DOMAIN loaded = 1..n
      BY <1>1, <1>3
    <3> QED  BY <1>6, <3>1 DEF StatInv, LoadsBetween
  <2>3. old[c] <= loaded'[n + 1] /\ loaded'[n + 1] <= counter[c]
    BY <1>5, <1>6, <2>1
  <2>4. DOMAIN loaded' = 1..(n + 1) /\ \A i \in 1..(n + 1) : i \in 1..n \/ i = n + 1
    BY <1>6
  <2> QED  BY <1>1, <1>4, <2>1, <2>2, <2>3, <2>4 DEF LoadsBetween
<1>10. ReportCoversBytes'
  BY <1>1 DEF StatInv, ReportCoversBytes, MaxLen
<1> QED  BY <1>1, <1>7, <1>8, <1>9, <1>10, ReporterQuiet DEF StatInv

\* A report takes its four loads over, and none of them is less than in the
\* report before.
LEMMA ReportStep ==
    ASSUME StatInv, Report
    PROVE  StatInv' /\ \A c \in Counters : old'[c] >= old[c]
<1>1. /\ StatTypeOK /\ Len(loaded) = 4 /\ loaded \in Seq(Nat) /\ DOMAIN loaded = 1..4
      /\ old' = Loaded /\ loaded' = <<>> /\ reports' = reports + 1
      /\ UNCHANGED <<data, closed, adding, counter, handed>>
  BY LoadsAre DEF StatInv, StatTypeOK, Report
<1>2. \A i \in 1..4 : /\ LoadOrder[i] \in Counters /\ old'[LoadOrder[i]] = loaded[i]
                      /\ loaded[i] \in Nat
                      /\ old[LoadOrder[i]] <= loaded[i] /\ loaded[i] <= counter[LoadOrder[i]]
  <2>1. \A i \in 1..4 : old[LoadOrder[i]] <= loaded[i] /\ loaded[i] <= counter[LoadOrder[i]]
    BY <1>1 DEF StatInv, LoadsBetween
  <2>2. \A i \in 1..4 : loaded[i] \in Nat
    <3>1. \A s \in Seq(Nat) : \A i \in 1..Len(s) : s[i] \in Nat
      OBVIOUS
    <3>2. loaded \in Seq(Nat) /\ Len(loaded) = 4
      BY <1>1
    <3> QED  BY <3>1, <3>2, Zenon
  <2>3. \A i \in 1..4 : LoadOrder[i] \in Counters /\ old'[LoadOrder[i]] = loaded[i]
    BY <1>1, LoadedAre
  <2> QED  BY <2>1, <2>2, <2>3
<1>3. \A c \in Counters : old'[c] \in Nat /\ old[c] <= old'[c] /\ old'[c] <= counter[c]
  BY <1>2, LoadsAre
<1>4. StatTypeOK'
  <2>1. old' \in [Counters -> Nat]
    <3>1. DOMAIN Loaded = Counters /\ Loaded = [c \in Counters |-> Loaded[c]]
      BY DEF Loaded
    <3> QED  BY <1>1, <1>3, <3>1
  <2>2. reports' \in Nat /\ loaded' \in Seq(Nat) /\ Len(loaded') <= Len(LoadOrder)
    BY <1>1, LoadsAre DEF StatTypeOK
  <2> QED  BY <1>1, <2>1, <2>2 DEF StatTypeOK
<1>5. LoadsCovered' /\ LoadsBetween'
  BY <1>1, <1>3 DEF LoadsCovered, LoadsBetween
<1>6. ReportCoversBytes'
  <2>1. LoadsCovered /\ 1 \in 1..4 /\ 2 \in 1..4 /\ 3 \in 1..4 /\ 4 \in 1..4
    BY DEF StatInv
  <2>2. /\ old'[<<"tx", "Bytes">>] = loaded[1] /\ old'[<<"tx", "Packets">>] = loaded[2]
        /\ old'[<<"rx", "Bytes">>] = loaded[3] /\ old'[<<"rx", "Packets">>] = loaded[4]
    BY <1>2, <2>1, LoadsAre
  <2>3. /\ loaded[1] <= MaxLen * (loaded[2] + N)
        /\ loaded[3] <= MaxLen * (loaded[4] + N)
    BY <1>1, <2>1 DEF LoadsCovered
  <2>4. /\ old'[<<"tx", "Bytes">>] <= MaxLen * (old'[<<"tx", "Packets">>] + N)
        /\ old'[<<"rx", "Bytes">>] <= MaxLen * (old'[<<"rx", "Packets">>] + N)
    BY <2>2, <2>3
  <2> QED  BY <2>4 DEF ReportCoversBytes, Dir, N, MaxLen
<1>7. \A c \in Counters : old[c] \in Nat
  BY <1>1 DEF StatTypeOK
<1> QED  BY <1>1, <1>3, <1>4, <1>5, <1>6, <1>7, ReporterQuiet DEF StatInv

\* A step of the reporter, of a dump goroutine or of a capture goroutine.
LEMMA StatNext ==
    ASSUME StatInv, Next
    PROVE  StatInv'
<1>1. ASSUME UNCHANGED statVars
      PROVE  StatInv'
  <2>1. (StatTypeOK /\ LoadsCovered /\ LoadsBetween /\ ReportCoversBytes)'
    BY <1>1 DEF StatInv, StatTypeOK, LoadsCovered, LoadsBetween, ReportCoversBytes, statVars,
                Packets, MaxLen, N
  <2> QED  BY <1>1, <2>1, ReporterQuiet DEF StatInv, statVars
<1>2. ASSUME NEW g \in Capturers, CaptureTCP(g)
      PROVE  StatInv'
  BY <1>2, AssembleInv DEF CaptureTCP
<1>3. ASSUME NEW g \in Capturers, Skip(g) \/ CaptureUDP(g) \/ Nil(g) \/ Dumping(g)
      PROVE  UNCHANGED statVars
  BY <1>3 DEF Skip, CaptureUDP, Nil, Dumping
<1>4. ASSUME Reporter
      PROVE  StatInv'
  <2>1. CASE \E d \in Dumpers : AddBytes(d) \/ AddPackets(d) \/ Close(d) \/ Discard(d)
    BY <2>1, AddBytesInv, AddPacketsInv, CloseInv, DiscardInv
  <2>2. CASE Load
    BY <2>2, LoadInv
  <2>3. CASE Report
    BY <2>3, ReportStep
  <2> QED  BY <1>4, <2>1, <2>2, <2>3 DEF Reporter, StatStep
<1> QED  BY <1>1, <1>2, <1>3, <1>4 DEF Next

\* The counters, what is loaded of them and what is still to be counted fit
\* together at every moment.
THEOREM StatInvariant == Spec => []StatInv
<1>1. Init => StatInv
  BY StatInitInv DEF Init
<1>2. StatInv /\ [Next]_vars => StatInv'
  <2>1. ASSUME StatInv, UNCHANGED vars
        PROVE  StatInv'
    <3>1. (StatTypeOK /\ LoadsCovered /\ LoadsBetween /\ ReportCoversBytes)'
      BY <2>1 DEF StatInv, StatTypeOK, LoadsCovered, LoadsBetween, ReportCoversBytes, vars, statVars,
                  Packets, MaxLen, N
    <3> QED  BY <2>1, <3>1, ReporterQuiet DEF StatInv, vars, statVars
  <2> QED  BY <2>1, StatNext
<1> QED  BY <1>1, <1>2, PTL DEF Spec

\* However and whenever the process exits (handle.go:31), what it was handed
\* and neither counted nor discarded with a closed stream is no more than the
\* channels hold and one packet of each dump goroutine.
THEOREM LossAtExit == Spec => []UncountedBounded
<1>1. StatInv => UncountedBounded
  <2> SUFFICES ASSUME StatInv PROVE UncountedBounded
    OBVIOUS
  <2>1. /\ Packets("tx") \in Nat /\ Packets("rx") \in Nat
        /\ handed = Packets("tx") + Packets("rx") + Cardinality(Outstanding)
    BY DEF StatInv, StatTypeOK, AllAccounted, Packets, Counters, Dir
  <2>2. handed - Packets("tx") - Packets("rx") = Cardinality(Outstanding)
    BY <2>1, OutstandingCounted
  <2> QED  BY <2>2, OutstandingCounted DEF UncountedBounded, Packets, N
<1> QED  BY <1>1, StatInvariant, PTL

\* Bytes are never reported without their packets, but for one packet of each
\* dump goroutine (conn.go:135, stat.go:45): the order of the four loads and
\* of the two additions makes it so.
THEOREM ReportsCoverBytes == Spec => []ReportCoversBytes
<1>1. StatInv => ReportCoversBytes
  BY DEF StatInv
<1> QED  BY <1>1, StatInvariant, PTL

\* The increase that a report logs is never negative, though the locals it is
\* taken from were loaded at different moments (stat.go:45).
THEOREM IncreasesAreReal == Spec => ReportsGrow
<1>1. StatInv /\ [Next]_vars => [\A c \in Counters : old'[c] >= old[c]]_old
  <2> SUFFICES ASSUME StatInv, [Next]_vars, old' # old
               PROVE  \A c \in Counters : old'[c] >= old[c]
    OBVIOUS
  <2>1. Report
    BY DEF Next, vars, statVars, Skip, CaptureUDP, CaptureTCP, Nil, Dumping, Reporter, StatStep,
           Assemble, AddBytes, AddPackets, Close, Discard, Load
  <2> QED  BY <2>1, ReportStep
<1>2. Spec => [][Next]_vars
  BY PTL DEF Spec
<1> QED  BY <1>1, <1>2, StatInvariant, PTL DEF ReportsGrow

-----------------------------------------------------------------------------
(***************************************************************************)
(* The counts of piece requests and responses and their report, for any    *)
(* number of capture goroutines, keys and blocks of a request: what the    *)
(* unlocked maps hold nevertheless.                                        *)
(***************************************************************************)
Counts == [Maps -> [PieceKey -> Nat]]

\* How often c is in q; what g has still to store.
Occ(q, c)     == Cardinality({i \in DOMAIN q : q[i] = c})
Left(g, m, k) == Occ(todo[g], <<m, k>>)

Alone(g) == \A h \in Capturers \ {g} : dpc[h] = "start"

-----------------------------------------------------------------------------
(* The invariant of the Dumper, part by part.                               *)

DumpTypes ==
    /\ pplMap \in Counts /\ seen \in [Capturers -> Counts]
    /\ dpc \in [Capturers ->
           {"start", "packets", "fetch", "store", "requests", "responses", "exited"}]
    /\ todo \in [Capturers -> Seq(Maps \X PieceKey)] /\ fetched \in [Capturers -> Nat]
    /\ unvisited \in [Capturers -> SUBSET PieceKey]
    /\ lines \in [Capturers ->
           SUBSET [map : Maps, key : PieceKey, count : Nat, resp : Nat, copies : Nat]]
    /\ outputs \in Nat

\* A goroutine that has not begun saw nothing; one that stores has what to store.
Stages ==
    \A g \in Capturers :
        /\ dpc[g] = "start" => \A m \in Maps, k \in PieceKey : seen[g][m][k] = 0
        /\ todo[g] # <<>> <=> dpc[g] \in {"fetch", "store"}

\* Responses are deleted by the report.
Whole(m) == m = "req" \/ Reporting = {}

\* What g alone sees is counted or still to be, and no store of another is
\* between its reading of the count and its own store.
KeyCounted(m, k) ==
    /\ SeenBy(m, k) = {} => pplMap[m][k] = 0
    /\ Pending(m, k) \subseteq SeenBy(m, k)
    /\ Whole(m) => \A g \in SeenBy(m, k) :
         /\ g \in Pending(m, k) \/ pplMap[m][k] >= 1
         /\ SeenBy(m, k) = {g} =>
              /\ pplMap[m][k] + Left(g, m, k) = seen[g][m][k]
              /\ dpc[g] = "store" /\ Head(todo[g]) = <<m, k>> => fetched[g] = pplMap[m][k]

KeysCounted == \A m \in Maps, k \in PieceKey : KeyCounted(m, k)

Requests(g)  == {k \in PieceKey : seen[g]["req"][k] > 0}
Responses(g) == {k \in PieceKey : seen[g]["req"][k] = 0 /\ seen[g]["resp"][k] > 0}
ReqRow(g, k)  == [map |-> "req", key |-> k, count |-> seen[g]["req"][k],
                  resp |-> seen[g]["resp"][k], copies |-> 1]
RespRow(g, k) == [map |-> "resp", key |-> k, count |-> seen[g]["resp"][k], resp |-> 0, copies |-> 1]

Logged(g, R, Q) == lines[g] = {ReqRow(g, k) : k \in R} \cup {RespRow(g, k) : k \in Q}
Deleted(g, R)   == \A k \in PieceKey : pplMap["resp"][k] = IF k \in R THEN 0 ELSE seen[g]["resp"][k]

\* The report of a goroutine that captures alone, as far as it has come.
Reported(g) ==
    /\ outputs = IF dpc[g] = "start" THEN 0 ELSE 1
    /\ g \notin Reporting => lines[g] = {}
    /\ dpc[g] = "requests" =>
         LET R == Requests(g) \ unvisited[g] IN
         unvisited[g] \subseteq Requests(g) /\ Logged(g, R, {}) /\ Deleted(g, R)
    /\ dpc[g] = "responses" =>
         /\ unvisited[g] \subseteq Responses(g) /\ Deleted(g, Requests(g))
         /\ Logged(g, Requests(g), Responses(g) \ unvisited[g])
    /\ dpc[g] = "exited" => process = "done" /\ Logged(g, Requests(g), Responses(g))

ReportInv == \A g \in Capturers : Alone(g) => Reported(g)

DumpInv == DumpTypes /\ Stages /\ KeysCounted /\ ReportInv


-----------------------------------------------------------------------------
(* Counting in sequences.                                                   *)

LEMMA OccIs ==
    ASSUME NEW S, NEW q \in Seq(S), NEW c
    PROVE  /\ Occ(q, c) \in Nat
           /\ Occ(q, c) = 0 <=> \A i \in DOMAIN q : q[i] # c
<1> DEFINE At == {i \in DOMAIN q : q[i] = c}
<1>1. Len(q) \in Nat /\ DOMAIN q = 1..Len(q) /\ At \in SUBSET (1..Len(q))
  OBVIOUS
<1>2. IsFiniteSet(At)
  <2>1. IsFiniteSet(1..Len(q))
    BY <1>1, FS_Interval
  <2> QED  BY <1>1, <2>1, FS_Subset
<1>3. Cardinality(At) \in Nat /\ (Cardinality(At) = 0 <=> At = {})
  BY <1>2, FS_CardinalityType, FS_EmptySet
<1>4. At = {} <=> \A i \in DOMAIN q : q[i] # c
  OBVIOUS
<1> QED  BY <1>3, <1>4 DEF Occ

\* Storing the first of what is to be stored leaves one less of it.
LEMMA OccTail ==
    ASSUME NEW S, NEW q \in Seq(S), q # <<>>, NEW c
    PROVE  /\ Tail(q) \in Seq(S) /\ Head(q) \in S
           /\ \A i \in DOMAIN Tail(q) : \E j \in DOMAIN q : q[j] = Tail(q)[i]
           /\ \A j \in DOMAIN q : q[j] = Head(q) \/ \E i \in DOMAIN Tail(q) : q[j] = Tail(q)[i]
           /\ \E j \in DOMAIN q : q[j] = Head(q)
           /\ Occ(q, c) = Occ(Tail(q), c) + IF Head(q) = c THEN 1 ELSE 0
<1> DEFINE n == Len(q)
           r == Tail(q)
           A == {i \in DOMAIN q : q[i] = c}
           B == {i \in DOMAIN r : r[i] = c}
           f == [i \in B |-> i + 1]
<1>1. /\ n \in Nat /\ n >= 1 /\ DOMAIN q = 1..n /\ r \in Seq(S) /\ DOMAIN r = 1..(n - 1)
      /\ Head(q) = q[1] /\ q[1] \in S /\ \A i \in 1..(n - 1) : r[i] = q[i + 1]
  OBVIOUS
<1> HIDE DEF n, r
<1>2. \A i \in DOMAIN r : i + 1 \in DOMAIN q /\ q[i + 1] = r[i] /\ i + 1 # 1
  BY <1>1
<1>3. \A j \in DOMAIN q : j = 1 \/ (j - 1 \in DOMAIN r /\ q[j] = r[j - 1] /\ j = (j - 1) + 1)
  BY <1>1
<1>4. IsFiniteSet(A) /\ IsFiniteSet(B)
  <2>1. A \in SUBSET (1..n) /\ B \in SUBSET (1..(n - 1))
    BY <1>1
  <2>2. IsFiniteSet(1..n) /\ IsFiniteSet(1..(n - 1))
    BY <1>1, FS_Interval
  <2> QED  BY <2>1, <2>2, FS_Subset
<1>5. f \in Bijection(B, A \ {1})
  <2>1. f \in [B -> A \ {1}]
    BY <1>2
  <2>2. \A i, j \in B : f[i] = f[j] => i = j
    BY <1>1
  <2>3. \A j \in A \ {1} : \E i \in B : f[i] = j
    BY <1>3
  <2> HIDE DEF f
  <2> QED  BY <2>1, <2>2, <2>3 DEF Bijection, Injection, Surjection, IsInjective
<1>6. Cardinality(B) = Cardinality(A \ {1}) /\ Cardinality(B) \in Nat
  BY <1>4, <1>5, FS_Bijection, FS_CardinalityType DEF ExistsBijection
<1>7. Cardinality(A \ {1}) = IF 1 \in A THEN Cardinality(A) - 1 ELSE Cardinality(A)
  BY <1>4, FS_RemoveElement
<1>8. Cardinality(A) \in Nat
  BY <1>4, FS_CardinalityType
<1>9. 1 \in A <=> Head(q) = c
  BY <1>1
<1>10. Occ(q, c) = Cardinality(A) /\ Occ(r, c) = Cardinality(B)
  BY DEF Occ
<1> HIDE DEF A, B, f
<1>11. Occ(q, c) = Occ(r, c) + IF Head(q) = c THEN 1 ELSE 0
  BY <1>6, <1>7, <1>8, <1>9, <1>10
<1>12. /\ \A i \in DOMAIN r : \E j \in DOMAIN q : q[j] = r[i]
       /\ \A j \in DOMAIN q : q[j] = Head(q) \/ \E i \in DOMAIN r : q[j] = r[i]
       /\ \E j \in DOMAIN q : q[j] = Head(q)
  BY <1>1, <1>2, <1>3
<1> QED  BY <1>1, <1>11, <1>12 DEF r

-----------------------------------------------------------------------------
(* The steps.                                                               *)

\* What one goroutine does in the Dumper.
LEMMA StepIs ==
    ASSUME Next
    PROVE  \/ UNCHANGED dumpVars
           \/ \E g \in Capturers :
                \/ SetFile(g) \/ DumpInvalid(g) \/ EndOfPackets(g) \/ LogSeparator(g) \/ Exit(g)
                \/ Fetch(g) \/ Store(g) \/ \E h \in Capturers : Collide(g, h)
                \/ \E m \in Maps, ks \in Seq(PieceKey) : DumpPPLUDP(g, m, ks)
                \/ \E k \in PieceKey : LogRequest(g, k) \/ LogResponse(g, k)
<1>1. \A k \in PieceKey : <<k>> \in Seq(PieceKey)
  OBVIOUS
<1>2. \A g \in Capturers : CaptureUDP(g) =>
          DumpInvalid(g) \/ \E m \in Maps, ks \in Seq(PieceKey) : DumpPPLUDP(g, m, ks)
  BY <1>1, BlocksAssumption DEF CaptureUDP, Maps
<1>3. \A g \in Capturers : Skip(g) \/ CaptureTCP(g) => UNCHANGED dumpVars
  BY DEF Skip, CaptureTCP
<1>4. Reporter => UNCHANGED dumpVars
  BY DEF Reporter
<1> QED  BY <1>2, <1>3, <1>4 DEF Next, Nil, Dumping, DumpStep

\* A step is of one goroutine; the others find their own state as it was.
Only(g) ==
    \A h \in Capturers \ {g} :
        /\ dpc'[h] = dpc[h] /\ todo'[h] = todo[h] /\ fetched'[h] = fetched[h]
        /\ unvisited'[h] = unvisited[h] /\ seen'[h] = seen[h] /\ lines'[h] = lines[h]

\* A step that neither sees, reads nor counts.
Moves(g) ==
    \/ SetFile(g) \/ DumpInvalid(g) \/ EndOfPackets(g) \/ LogSeparator(g) \/ Exit(g)
    \/ (\E k \in PieceKey : LogResponse(g, k)) \/ \E h \in Capturers : Collide(g, h)

LEMMA MovesIs ==
    ASSUME DumpTypes, NEW g \in Capturers, Moves(g)
    PROVE  /\ UNCHANGED <<pplMap, todo, fetched, seen>> /\ Only(g) /\ Running
           /\ \/ dpc'[g] = dpc[g]
              \/ dpc[g] = "start" /\ dpc'[g] = "packets"
              \/ dpc[g] = "packets" /\ dpc'[g] = "requests"
              \/ dpc[g] = "requests" /\ dpc'[g] = "responses"
              \/ dpc[g] = "responses" /\ dpc'[g] = "exited"
<1> USE DEF DumpTypes, Only
<1>1. CASE SetFile(g)
  BY <1>1 DEF SetFile
<1>2. CASE DumpInvalid(g) \/ \E h \in Capturers : Collide(g, h)
  BY <1>2 DEF DumpInvalid, Collide
<1>3. CASE EndOfPackets(g)
  BY <1>3 DEF EndOfPackets
<1>4. CASE LogSeparator(g)
  BY <1>4 DEF LogSeparator
<1>5. CASE Exit(g)
  BY <1>5 DEF Exit
<1>6. ASSUME NEW k \in PieceKey, LogResponse(g, k) PROVE UNCHANGED <<pplMap, todo, fetched, seen, dpc>> /\ Only(g) /\ Running
  BY <1>6 DEF LogResponse, Line
<1> QED  BY <1>1, <1>2, <1>3, <1>4, <1>5, <1>6 DEF Moves

LEMMA SeesIs ==
    ASSUME DumpTypes, NEW g \in Capturers, NEW m \in Maps, NEW ks \in Seq(PieceKey), DumpPPLUDP(g, m, ks)
    PROVE  /\ UNCHANGED <<pplMap, fetched, unvisited, outputs, process, lines>> /\ Only(g) /\ Running
           /\ dpc[g] = "packets" /\ dpc'[g] = IF ks = <<>> THEN "packets" ELSE "fetch"
           /\ todo'[g] = [i \in DOMAIN ks |-> <<m, ks[i]>>]
           /\ todo'[g] \in Seq(Maps \X PieceKey) /\ (todo'[g] = <<>> <=> ks = <<>>)
           /\ seen'[g] \in Counts
           /\ \A k \in PieceKey : seen'[g][m][k] = seen[g][m][k] + Occ(ks, k)
           /\ \A n \in Maps \ {m}, k \in PieceKey : seen'[g][n][k] = seen[g][n][k]
<1> DEFINE td == [i \in DOMAIN ks |-> <<m, ks[i]>>]
           sn == [k \in PieceKey |-> seen[g][m][k] + Occ(ks, k)]
<1>1. /\ UNCHANGED <<pplMap, fetched, unvisited, outputs, process, lines>> /\ Running /\ dpc[g] = "packets"
      /\ dpc' = [dpc EXCEPT ![g] = IF ks = <<>> THEN "packets" ELSE "fetch"]
      /\ todo' = [todo EXCEPT ![g] = td]
      /\ seen' = [seen EXCEPT ![g] = [seen[g] EXCEPT ![m] = sn]]
  BY DEF DumpPPLUDP, Occ
<1>2. td \in Seq(Maps \X PieceKey) /\ (td = <<>> <=> ks = <<>>)
  OBVIOUS
<1>3. sn \in [PieceKey -> Nat]
  BY OccIs DEF DumpTypes, Counts
<1>4. \A k \in PieceKey : sn[k] = seen[g][m][k] + Occ(ks, k)
  OBVIOUS
<1> HIDE DEF td, sn
<1>5. seen'[g] = [seen[g] EXCEPT ![m] = sn]
  BY <1>1 DEF DumpTypes
<1>6. seen'[g] \in Counts /\ seen'[g][m] = sn /\ \A n \in Maps \ {m} : seen'[g][n] = seen[g][n]
  BY <1>3, <1>5 DEF DumpTypes, Counts
<1>7. Only(g) /\ todo'[g] = td /\ dpc'[g] = IF ks = <<>> THEN "packets" ELSE "fetch"
  BY <1>1 DEF DumpTypes, Only
<1> QED  BY <1>1, <1>2, <1>4, <1>6, <1>7 DEF td

LEMMA FetchIs ==
    ASSUME DumpTypes, Stages, NEW g \in Capturers, Fetch(g)
    PROVE  /\ UNCHANGED <<pplMap, todo, unvisited, outputs, process, seen, lines>> /\ Only(g) /\ Running
           /\ dpc[g] = "fetch" /\ dpc'[g] = "store"
           /\ \E m \in Maps, k \in PieceKey : Head(todo[g]) = <<m, k>> /\ fetched'[g] = pplMap[m][k]
<1>1. dpc[g] = "fetch" /\ todo[g] # <<>> /\ todo[g] \in Seq(Maps \X PieceKey)
  BY DEF Fetch, DumpTypes, Stages
<1>2. PICK m \in Maps, k \in PieceKey : Head(todo[g]) = <<m, k>>
  <2>1. Head(todo[g]) \in Maps \X PieceKey
    BY <1>1, OccTail
  <2> QED  BY <2>1
<1>3. fetched' = [fetched EXCEPT ![g] = pplMap[m][k]] /\ dpc' = [dpc EXCEPT ![g] = "store"]
  <2>1. /\ fetched' = [fetched EXCEPT ![g] = pplMap[Head(todo[g])[1]][Head(todo[g])[2]]]
        /\ dpc' = [dpc EXCEPT ![g] = "store"]
    BY DEF Fetch
  <2>2. Head(todo[g])[1] = m /\ Head(todo[g])[2] = k
    BY <1>2
  <2> QED  BY <2>1, <2>2
<1>4. UNCHANGED <<pplMap, todo, unvisited, outputs, process, seen, lines>> /\ Running
  BY DEF Fetch
<1>5. Only(g) /\ fetched'[g] = pplMap[m][k] /\ dpc'[g] = "store"
  BY <1>3, <1>4 DEF DumpTypes, Only
<1> QED  BY <1>1, <1>2, <1>4, <1>5

LEMMA StoreIs ==
    ASSUME DumpTypes, Stages, NEW g \in Capturers, Store(g)
    PROVE  /\ UNCHANGED <<unvisited, outputs, process, seen, lines>> /\ Only(g) /\ Running
           /\ dpc[g] = "store" /\ dpc'[g] = (IF todo'[g] = <<>> THEN "packets" ELSE "fetch")
           /\ todo[g] # <<>> /\ todo'[g] = Tail(todo[g]) /\ fetched'[g] = 0 /\ pplMap' \in Counts
           /\ \E m \in Maps, k \in PieceKey :
                /\ Head(todo[g]) = <<m, k>> /\ pplMap'[m][k] = fetched[g] + 1
                /\ \A n \in Maps, j \in PieceKey : <<n, j>> # <<m, k>> => pplMap'[n][j] = pplMap[n][j]
<1>1. dpc[g] = "store" /\ todo[g] # <<>> /\ todo[g] \in Seq(Maps \X PieceKey)
  BY DEF Store, DumpTypes, Stages
<1>2. PICK m \in Maps, k \in PieceKey : Head(todo[g]) = <<m, k>>
  <2>1. Head(todo[g]) \in Maps \X PieceKey
    BY <1>1, OccTail
  <2> QED  BY <2>1
<1>3. /\ pplMap' = [pplMap EXCEPT ![m] = [pplMap[m] EXCEPT ![k] = fetched[g] + 1]]
      /\ todo' = [todo EXCEPT ![g] = Tail(todo[g])] /\ fetched' = [fetched EXCEPT ![g] = 0]
      /\ dpc' = [dpc EXCEPT ![g] = IF Len(todo[g]) = 1 THEN "packets" ELSE "fetch"]
  <2> DEFINE c == Head(todo[g])
  <2>1. /\ pplMap' = [pplMap EXCEPT ![c[1]] = [pplMap[c[1]] EXCEPT ![c[2]] = fetched[g] + 1]]
        /\ todo' = [todo EXCEPT ![g] = Tail(todo[g])] /\ fetched' = [fetched EXCEPT ![g] = 0]
        /\ dpc' = [dpc EXCEPT ![g] = IF Len(todo[g]) = 1 THEN "packets" ELSE "fetch"]
    BY DEF Store
  <2>2. c[1] = m /\ c[2] = k
    BY <1>2
  <2> HIDE DEF c
  <2> QED  BY <2>1, <2>2
<1>4. UNCHANGED <<unvisited, outputs, process, seen, lines>> /\ Running
  BY DEF Store
<1>5. Len(todo[g]) = 1 <=> Tail(todo[g]) = <<>>
  <2>1. Tail(todo[g]) \in Seq(Maps \X PieceKey) /\ Len(Tail(todo[g])) = Len(todo[g]) - 1 /\ Len(todo[g]) \in Nat
    BY <1>1
  <2>2. Tail(todo[g]) = <<>> <=> Len(Tail(todo[g])) = 0
    BY <2>1, EmptySeq
  <2> QED  BY <2>1, <2>2
<1>6. /\ Only(g) /\ fetched'[g] = 0 /\ todo'[g] = Tail(todo[g])
      /\ dpc'[g] = IF Len(todo[g]) = 1 THEN "packets" ELSE "fetch"
  BY <1>3, <1>4 DEF DumpTypes, Only
<1>7. /\ pplMap' \in Counts /\ pplMap'[m][k] = fetched[g] + 1
      /\ \A n \in Maps, j \in PieceKey : <<n, j>> # <<m, k>> => pplMap'[n][j] = pplMap[n][j]
  <2>1. fetched[g] + 1 \in Nat /\ pplMap \in [Maps -> [PieceKey -> Nat]]
    BY DEF DumpTypes, Counts
  <2>2. [pplMap[m] EXCEPT ![k] = fetched[g] + 1] \in [PieceKey -> Nat]
    BY <2>1
  <2>3. pplMap' \in Counts /\ pplMap'[m] = [pplMap[m] EXCEPT ![k] = fetched[g] + 1]
        /\ \A n \in Maps : n # m => pplMap'[n] = pplMap[n]
    BY <1>3, <2>1, <2>2 DEF Counts
  <2>4. pplMap'[m][k] = fetched[g] + 1 /\ \A j \in PieceKey : j # k => pplMap'[m][j] = pplMap[m][j]
    BY <2>1, <2>3
  <2> QED  BY <2>3, <2>4
<1> QED  BY <1>1, <1>2, <1>4, <1>5, <1>6, <1>7

LEMMA RequestIs ==
    ASSUME DumpTypes, NEW g \in Capturers, NEW k \in PieceKey, LogRequest(g, k)
    PROVE  /\ UNCHANGED <<dpc, todo, fetched, outputs, process, seen>> /\ Only(g) /\ Running /\ dpc[g] = "requests"
           /\ pplMap["req"][k] > 0 /\ \A l \in lines[g] : l.map = "req" => l.key # k
           /\ pplMap' \in Counts /\ pplMap'["req"] = pplMap["req"] /\ pplMap'["resp"][k] = 0
           /\ \A j \in PieceKey \ {k} : pplMap'["resp"][j] = pplMap["resp"][j]
           /\ unvisited'[g] = unvisited[g] \ {k}
           /\ lines'[g] = lines[g] \cup {[map |-> "req", key |-> k, count |-> pplMap["req"][k],
                                          resp |-> pplMap["resp"][k], copies |-> outputs]}
<1>1. /\ UNCHANGED <<dpc, todo, fetched, outputs, process, seen>> /\ Running /\ dpc[g] = "requests"
      /\ pplMap["req"][k] > 0 /\ \A l \in lines[g] : l.map = "req" => l.key # k
      /\ pplMap' = [pplMap EXCEPT !["resp"] = [pplMap["resp"] EXCEPT ![k] = 0]]
      /\ unvisited' = [unvisited EXCEPT ![g] = unvisited[g] \ {k}]
      /\ lines' = [lines EXCEPT ![g] = lines[g] \cup
             {[map |-> "req", key |-> k, count |-> pplMap["req"][k], resp |-> pplMap["resp"][k], copies |-> outputs]}]
  BY DEF LogRequest, Line, Keys
<1>2. Only(g) /\ unvisited'[g] = unvisited[g] \ {k}
      /\ lines'[g] = lines[g] \cup {[map |-> "req", key |-> k, count |-> pplMap["req"][k],
                                     resp |-> pplMap["resp"][k], copies |-> outputs]}
  BY <1>1 DEF DumpTypes, Only
<1>3. pplMap["resp"] \in [PieceKey -> Nat] /\ [pplMap["resp"] EXCEPT ![k] = 0] \in [PieceKey -> Nat]
  BY DEF DumpTypes, Counts, Maps
<1>4. pplMap' \in Counts /\ pplMap'["req"] = pplMap["req"] /\ pplMap'["resp"] = [pplMap["resp"] EXCEPT ![k] = 0]
  BY <1>1, <1>3 DEF DumpTypes, Counts, Maps
<1> QED  BY <1>1, <1>2, <1>3, <1>4

LEMMA ActIs ==
    ASSUME Next
    PROVE  \/ UNCHANGED dumpVars
           \/ \E g \in Capturers :
                \/ Moves(g) \/ Fetch(g) \/ Store(g)
                \/ \E m \in Maps, ks \in Seq(PieceKey) : DumpPPLUDP(g, m, ks)
                \/ \E k \in PieceKey : LogRequest(g, k)
BY StepIs DEF Moves

LEMMA TypesStep ==
    ASSUME DumpTypes, Stages, Next
    PROVE  DumpTypes'
<1> USE DEF DumpTypes
<1>1. ASSUME NEW g \in Capturers, Moves(g) PROVE DumpTypes'
  <2>1. UNCHANGED <<pplMap, todo, fetched, seen>>
    BY <1>1, MovesIs
  <2>2. CASE SetFile(g)
    BY <2>1, <2>2 DEF SetFile
  <2>3. CASE DumpInvalid(g) \/ \E h \in Capturers : Collide(g, h)
    BY <2>1, <2>3 DEF DumpInvalid, Collide
  <2>4. CASE EndOfPackets(g)
    BY <2>1, <2>4 DEF EndOfPackets, Keys
  <2>5. CASE LogSeparator(g)
    BY <2>1, <2>5 DEF LogSeparator, Keys
  <2>6. CASE Exit(g)
    BY <2>1, <2>6 DEF Exit
  <2>7. ASSUME NEW k \in PieceKey, LogResponse(g, k) PROVE DumpTypes'
    <3>1. [map |-> "resp", key |-> k, count |-> pplMap["resp"][k], resp |-> 0, copies |-> outputs]
              \in [map : Maps, key : PieceKey, count : Nat, resp : Nat, copies : Nat]
      BY DEF Counts, Maps
    <3> QED  BY <2>1, <2>7, <3>1 DEF LogResponse, Line
  <2> QED  BY <1>1, <2>2, <2>3, <2>4, <2>5, <2>6, <2>7 DEF Moves
<1>2. ASSUME NEW g \in Capturers, NEW m \in Maps, NEW ks \in Seq(PieceKey), DumpPPLUDP(g, m, ks) PROVE DumpTypes'
  <2>1. /\ UNCHANGED <<pplMap, fetched, unvisited, outputs, lines>>
        /\ todo'[g] \in Seq(Maps \X PieceKey) /\ seen'[g] \in Counts
    BY <1>2, SeesIs
  <2>2. /\ todo' = [todo EXCEPT ![g] = todo'[g]] /\ seen' = [seen EXCEPT ![g] = seen'[g]]
        /\ \E at \in {"packets", "fetch"} : dpc' = [dpc EXCEPT ![g] = at]
    BY <1>2 DEF DumpPPLUDP
  <2> QED  BY <2>1, <2>2
<1>3. ASSUME NEW g \in Capturers, Fetch(g) PROVE DumpTypes'
  <2>1. UNCHANGED <<pplMap, todo, unvisited, outputs, seen, lines>> /\ fetched'[g] \in Nat
    BY <1>3, FetchIs DEF Counts
  <2>2. fetched' = [fetched EXCEPT ![g] = fetched'[g]] /\ dpc' = [dpc EXCEPT ![g] = "store"]
    BY <1>3 DEF Fetch
  <2> QED  BY <2>1, <2>2
<1>4. ASSUME NEW g \in Capturers, Store(g) PROVE DumpTypes'
  <2>1. UNCHANGED <<unvisited, outputs, seen, lines>> /\ pplMap' \in Counts
        /\ todo[g] # <<>> /\ todo'[g] = Tail(todo[g])
    BY <1>4, StoreIs
  <2>2. Tail(todo[g]) \in Seq(Maps \X PieceKey)
    BY <2>1, OccTail
  <2>3. /\ todo' = [todo EXCEPT ![g] = Tail(todo[g])] /\ fetched' = [fetched EXCEPT ![g] = 0]
        /\ \E at \in {"packets", "fetch"} : dpc' = [dpc EXCEPT ![g] = at]
    BY <1>4 DEF Store
  <2> QED  BY <2>1, <2>2, <2>3
<1>5. ASSUME NEW g \in Capturers, NEW k \in PieceKey, LogRequest(g, k) PROVE DumpTypes'
  <2>1. UNCHANGED <<dpc, todo, fetched, outputs, seen>> /\ pplMap' \in Counts
    BY <1>5, RequestIs
  <2>2. [map |-> "req", key |-> k, count |-> pplMap["req"][k], resp |-> pplMap["resp"][k], copies |-> outputs]
              \in [map : Maps, key : PieceKey, count : Nat, resp : Nat, copies : Nat]
    BY DEF Counts, Maps
  <2> QED  BY <1>5, <2>1, <2>2 DEF LogRequest, Line
<1>6. CASE UNCHANGED dumpVars
  BY <1>6 DEF dumpVars
<1> QED  BY ActIs, <1>1, <1>2, <1>3, <1>4, <1>5, <1>6

LEMMA StagesStep ==
    ASSUME DumpTypes, Stages, Next
    PROVE  Stages'
<1>0. ASSUME NEW g \in Capturers, Only(g), dpc'[g] # "start", todo'[g] # <<>> <=> dpc'[g] \in {"fetch", "store"}
      PROVE  Stages'
  BY <1>0 DEF Stages, Only
<1>1. ASSUME NEW g \in Capturers, Moves(g) PROVE Stages'
  <2>1. CASE dpc'[g] = dpc[g]
    BY <1>1, <2>1, MovesIs DEF Stages, Only
  <2>2. CASE dpc'[g] # dpc[g]
    BY <1>0, <1>1, <2>2, MovesIs DEF Stages
  <2> QED  BY <2>1, <2>2
<1>2. ASSUME NEW g \in Capturers, NEW m \in Maps, NEW ks \in Seq(PieceKey), DumpPPLUDP(g, m, ks) PROVE Stages'
  BY <1>0, <1>2, SeesIs
<1>3. ASSUME NEW g \in Capturers, Fetch(g) PROVE Stages'
  BY <1>0, <1>3, FetchIs DEF Stages
<1>4. ASSUME NEW g \in Capturers, Store(g) PROVE Stages'
  BY <1>0, <1>4, StoreIs
<1>5. ASSUME NEW g \in Capturers, NEW k \in PieceKey, LogRequest(g, k) PROVE Stages'
  BY <1>0, <1>5, RequestIs DEF Stages
<1>6. CASE UNCHANGED dumpVars
  BY <1>6 DEF dumpVars, Stages
<1> QED  BY ActIs, <1>1, <1>2, <1>3, <1>4, <1>5, <1>6

\* What is pending is left to store.
LEMMA PendingIs ==
    ASSUME DumpTypes, NEW g \in Capturers, NEW m \in Maps, NEW k \in PieceKey
    PROVE  /\ Left(g, m, k) \in Nat
           /\ g \in Pending(m, k) <=> Left(g, m, k) # 0
           /\ pplMap[m][k] \in Nat /\ seen[g][m][k] \in Nat
<1>1. todo[g] \in Seq(Maps \X PieceKey)
  BY DEF DumpTypes
<1>2. Left(g, m, k) \in Nat /\ (Left(g, m, k) = 0 <=> \A i \in DOMAIN todo[g] : todo[g][i] # <<m, k>>)
  BY <1>1, OccIs DEF Left
<1>3. g \in Pending(m, k) <=> \E i \in DOMAIN todo[g] : todo[g][i] = <<m, k>>
  BY DEF Pending
<1>4. pplMap[m][k] \in Nat /\ seen[g][m][k] \in Nat
  BY DEF DumpTypes, Counts
<1> QED  BY <1>2, <1>3, <1>4

LEMMA KeyStep ==
    ASSUME DumpTypes, Stages, Next, NEW m \in Maps, NEW k \in PieceKey, KeyCounted(m, k)
    PROVE  KeyCounted(m, k)'
<1>0. DumpTypes'
  BY TypesStep
<1>1. /\ SeenBy(m, k) = {} => pplMap[m][k] = 0
      /\ Pending(m, k) \subseteq SeenBy(m, k)
      /\ Whole(m) => \A g \in SeenBy(m, k) : g \in Pending(m, k) \/ pplMap[m][k] >= 1
      /\ Whole(m) => \A g \in SeenBy(m, k) :
             SeenBy(m, k) = {g} => pplMap[m][k] + Left(g, m, k) = seen[g][m][k]
      /\ Whole(m) => \A g \in SeenBy(m, k) :
             SeenBy(m, k) = {g} /\ dpc[g] = "store" /\ Head(todo[g]) = <<m, k>> => fetched[g] = pplMap[m][k]
  BY DEF KeyCounted
\* Nothing happens to the key.
<1>2. ASSUME pplMap'[m][k] = pplMap[m][k], Whole(m)' => Whole(m),
             \A g \in Capturers :
                /\ seen'[g][m][k] = seen[g][m][k]
                /\ g \in Pending(m, k)' <=> g \in Pending(m, k)
                /\ Left(g, m, k)' = Left(g, m, k)
                /\ dpc'[g] = "store" /\ Head(todo'[g]) = <<m, k>> =>
                       \/ fetched'[g] = pplMap'[m][k]
                       \/ dpc[g] = "store" /\ todo'[g] = todo[g] /\ fetched'[g] = fetched[g]
      PROVE  KeyCounted(m, k)'
  <2>1. SeenBy(m, k)' = SeenBy(m, k) /\ SeenBy(m, k) \subseteq Capturers
    BY <1>2 DEF SeenBy
  <2>2. Pending(m, k)' = Pending(m, k)
    BY <1>2 DEF Pending
  <2> QED  BY <1>1, <1>2, <2>1, <2>2 DEF KeyCounted
<1>3. ASSUME NEW g \in Capturers, Only(g), pplMap'[m][k] = pplMap[m][k], seen'[g][m][k] = seen[g][m][k],
             todo'[g] = todo[g], dpc'[g] = "store" => fetched'[g] = fetched[g] /\ dpc[g] = "store",
             Whole(m)' => Whole(m)
      PROVE  KeyCounted(m, k)'
  <2>1. \A h \in Capturers :
            /\ seen'[h][m][k] = seen[h][m][k] /\ todo'[h] = todo[h]
            /\ dpc'[h] = "store" => fetched'[h] = fetched[h] /\ dpc[h] = "store"
    BY <1>3 DEF Only
  <2>2. \A h \in Capturers : (h \in Pending(m, k)' <=> h \in Pending(m, k)) /\ Left(h, m, k)' = Left(h, m, k)
    BY <2>1 DEF Pending, Left
  <2> QED  BY <1>2, <1>3, <2>1, <2>2
<1>4. ASSUME NEW g \in Capturers, Only(g), dpc[g] \in {"requests", "responses", "exited"} =>
                                            dpc'[g] \in {"requests", "responses", "exited"}
      PROVE  Whole(m)' => Whole(m)
  BY <1>4 DEF Whole, Reporting, Only
<1>5. ASSUME NEW g \in Capturers, Moves(g) PROVE KeyCounted(m, k)'
  BY <1>3, <1>4, <1>5, MovesIs
<1>6. ASSUME NEW g \in Capturers, NEW j \in PieceKey, LogRequest(g, j) PROVE KeyCounted(m, k)'
  <2>1. /\ UNCHANGED <<dpc, todo, fetched, seen>> /\ Only(g) /\ dpc[g] = "requests"
        /\ pplMap'["req"] = pplMap["req"] /\ pplMap'["resp"][j] = 0
        /\ \A i \in PieceKey \ {j} : pplMap'["resp"][i] = pplMap["resp"][i]
    BY <1>6, RequestIs
  <2>2. CASE m = "req"
    BY <1>3, <1>4, <2>1, <2>2
  <2>3. CASE m = "resp"
    <3>1. ~Whole(m)'
      BY <2>1, <2>3 DEF Whole, Reporting
    <3>2. SeenBy(m, k)' = SeenBy(m, k) /\ Pending(m, k)' = Pending(m, k)
      BY <2>1 DEF SeenBy, Pending
    <3>3. pplMap'[m][k] = 0 \/ pplMap'[m][k] = pplMap[m][k]
      BY <2>1, <2>3
    <3> QED  BY <1>1, <3>1, <3>2, <3>3 DEF KeyCounted
  <2> QED  BY <2>2, <2>3 DEF Maps
<1>7. ASSUME NEW g \in Capturers, Fetch(g) PROVE KeyCounted(m, k)'
  <2>1. /\ UNCHANGED <<pplMap, todo, seen>> /\ Only(g) /\ dpc[g] = "fetch" /\ dpc'[g] = "store"
    BY <1>7, FetchIs
  <2>2. PICK n \in Maps, j \in PieceKey : Head(todo[g]) = <<n, j>> /\ fetched'[g] = pplMap[n][j]
    BY <1>7, FetchIs
  <2>3. \A h \in Capturers : (h \in Pending(m, k)' <=> h \in Pending(m, k)) /\ Left(h, m, k)' = Left(h, m, k)
    BY <2>1 DEF Pending, Left
  <2>4. Head(todo'[g]) = <<m, k>> => fetched'[g] = pplMap'[m][k]
    BY <2>1, <2>2
  <2>5. \A h \in Capturers : h # g => dpc'[h] = dpc[h] /\ fetched'[h] = fetched[h]
    BY <2>1 DEF Only
  <2>6. Whole(m)' => Whole(m)
    BY <1>4, <2>1
  <2> QED  BY <1>2, <2>1, <2>3, <2>4, <2>5, <2>6
<1>8. ASSUME NEW g \in Capturers, Store(g) PROVE KeyCounted(m, k)'
  <2>1. /\ UNCHANGED seen /\ Only(g) /\ dpc[g] = "store" /\ dpc'[g] \in {"packets", "fetch"}
        /\ todo[g] # <<>> /\ todo'[g] = Tail(todo[g])
    BY <1>8, StoreIs
  <2>2. PICK n \in Maps, j \in PieceKey :
            /\ Head(todo[g]) = <<n, j>> /\ pplMap'[n][j] = fetched[g] + 1
            /\ <<m, k>> # <<n, j>> => pplMap'[m][k] = pplMap[m][k]
    BY <1>8, StoreIs
  <2>3. /\ Left(g, m, k) = Left(g, m, k)' + IF <<n, j>> = <<m, k>> THEN 1 ELSE 0
        /\ g \in Pending(m, k)' => g \in Pending(m, k)
        /\ <<n, j>> = <<m, k>> => g \in Pending(m, k)
        /\ <<n, j>> # <<m, k>> => (g \in Pending(m, k) => g \in Pending(m, k)')
    <3>1. todo[g] \in Seq(Maps \X PieceKey)
      BY DEF DumpTypes
    <3>2. /\ \A i \in DOMAIN Tail(todo[g]) : \E l \in DOMAIN todo[g] : todo[g][l] = Tail(todo[g])[i]
          /\ \A l \in DOMAIN todo[g] : todo[g][l] = <<n, j>> \/ \E i \in DOMAIN Tail(todo[g]) : todo[g][l] = Tail(todo[g])[i]
          /\ \E l \in DOMAIN todo[g] : todo[g][l] = <<n, j>>
          /\ Occ(todo[g], <<m, k>>) = Occ(Tail(todo[g]), <<m, k>>) + IF <<n, j>> = <<m, k>> THEN 1 ELSE 0
      <4> DEFINE q == todo[g]
                 c == <<n, j>>
      <4>1. q \in Seq(Maps \X PieceKey) /\ q # <<>> /\ Head(q) = c
        BY <2>1, <2>2, <3>1
      <4> HIDE DEF q
      <4>2. /\ \A i \in DOMAIN Tail(q) : \E l \in DOMAIN q : q[l] = Tail(q)[i]
            /\ \A l \in DOMAIN q : q[l] = Head(q) \/ \E i \in DOMAIN Tail(q) : q[l] = Tail(q)[i]
            /\ \E l \in DOMAIN q : q[l] = Head(q)
            /\ Occ(q, <<m, k>>) = Occ(Tail(q), <<m, k>>) + IF Head(q) = <<m, k>> THEN 1 ELSE 0
        BY <4>1, OccTail
      <4> HIDE DEF c
      <4>3. /\ \A l \in DOMAIN q : q[l] = c \/ \E i \in DOMAIN Tail(q) : q[l] = Tail(q)[i]
            /\ \E l \in DOMAIN q : q[l] = c
            /\ Occ(q, <<m, k>>) = Occ(Tail(q), <<m, k>>) + IF c = <<m, k>> THEN 1 ELSE 0
        BY <4>1, <4>2
      <4> QED  BY <4>2, <4>3 DEF q, c
    <3>3. Left(g, m, k) = Occ(todo[g], <<m, k>>) /\ Left(g, m, k)' = Occ(Tail(todo[g]), <<m, k>>)
      BY <2>1 DEF Left
    <3> QED  BY <2>1, <3>2, <3>3 DEF Pending
  <2>4. \A h \in Capturers : h # g =>
            /\ dpc'[h] = dpc[h] /\ todo'[h] = todo[h] /\ fetched'[h] = fetched[h]
            /\ (h \in Pending(m, k)' <=> h \in Pending(m, k)) /\ Left(h, m, k)' = Left(h, m, k)
    BY <2>1 DEF Only, Pending, Left
  <2>5. Whole(m)' => Whole(m)
    BY <1>4, <2>1
  <2>6. SeenBy(m, k)' = SeenBy(m, k) /\ SeenBy(m, k) \subseteq Capturers
    BY <2>1 DEF SeenBy
  <2>7. Left(g, m, k) \in Nat /\ Left(g, m, k)' \in Nat /\ fetched[g] \in Nat
    <3>1. todo[g] \in Seq(Maps \X PieceKey) /\ todo'[g] \in Seq(Maps \X PieceKey) /\ fetched[g] \in Nat
      BY <1>0 DEF DumpTypes
    <3> QED  BY <3>1, OccIs DEF Left
  <2>8. CASE <<n, j>> # <<m, k>>
    <3>1. pplMap'[m][k] = pplMap[m][k] /\ Left(g, m, k)' = Left(g, m, k)
      BY <2>2, <2>3, <2>7, <2>8
    <3>2. g \in Pending(m, k)' <=> g \in Pending(m, k)
      BY <2>3, <2>8
    <3> QED  BY <1>2, <2>1, <2>4, <2>5, <3>1, <3>2
  <2>9. CASE <<n, j>> = <<m, k>>
    <3>1. n = m /\ j = k
      BY <2>9
    <3>2. pplMap'[m][k] = fetched[g] + 1 /\ g \in SeenBy(m, k) /\ Left(g, m, k) = Left(g, m, k)' + 1
      BY <1>1, <2>2, <2>3, <2>9, <3>1
    <3>3. Pending(m, k)' \subseteq SeenBy(m, k)
      BY <1>1, <2>3, <2>4 DEF Pending
    <3>4. \A h \in SeenBy(m, k) : SeenBy(m, k) = {h} => h = g
      BY <3>2
    <3>5. ASSUME Whole(m), SeenBy(m, k) = {g} PROVE pplMap'[m][k] + Left(g, m, k)' = seen[g][m][k]
      <4>1. fetched[g] = pplMap[m][k] /\ pplMap[m][k] + Left(g, m, k) = seen[g][m][k]
        BY <1>1, <2>1, <2>2, <3>1, <3>2, <3>5
      <4> QED  BY <2>7, <3>2, <4>1
    <3>6. pplMap'[m][k] >= 1
      BY <2>7, <3>2
    <3> QED  BY <2>1, <2>5, <2>6, <3>2, <3>3, <3>4, <3>5, <3>6 DEF KeyCounted
  <2> QED  BY <2>8, <2>9
<1>9. ASSUME NEW g \in Capturers, NEW n \in Maps, NEW ks \in Seq(PieceKey), DumpPPLUDP(g, n, ks)
      PROVE  KeyCounted(m, k)'
  <2>1. /\ UNCHANGED <<pplMap, fetched>> /\ Only(g) /\ dpc[g] = "packets" /\ dpc'[g] \in {"packets", "fetch"}
        /\ todo'[g] = [i \in DOMAIN ks |-> <<n, ks[i]>>]
        /\ seen'[g][n][k] = seen[g][n][k] + Occ(ks, k)
        /\ n # m => seen'[g][m][k] = seen[g][m][k]
    BY <1>9, SeesIs
  <2>2. \A h \in Capturers : h # g =>
            /\ dpc'[h] = dpc[h] /\ todo'[h] = todo[h] /\ fetched'[h] = fetched[h] /\ seen'[h] = seen[h]
            /\ (h \in Pending(m, k)' <=> h \in Pending(m, k)) /\ Left(h, m, k)' = Left(h, m, k)
    BY <2>1 DEF Only, Pending, Left
  <2>3. Whole(m)' => Whole(m)
    BY <1>4, <2>1
  <2>4. Left(g, m, k) = 0 /\ g \notin Pending(m, k)
    <3>1. todo[g] = <<>>
      BY <2>1 DEF Stages
    <3>2. g \notin Pending(m, k)
      BY <3>1 DEF Pending
    <3> QED  BY <3>2, PendingIs
  <2>5. Left(g, m, k)' = IF n = m THEN Occ(ks, k) ELSE 0
    <3>1. DOMAIN todo'[g] = DOMAIN ks
      BY <2>1
    <3>2. n = m => {i \in DOMAIN todo'[g] : todo'[g][i] = <<m, k>>} = {i \in DOMAIN ks : ks[i] = k}
      BY <2>1, <3>1
    <3>3. n # m => {i \in DOMAIN todo'[g] : todo'[g][i] = <<m, k>>} = {}
      BY <2>1, <3>1
    <3>4. Left(g, m, k)' = Cardinality({i \in DOMAIN todo'[g] : todo'[g][i] = <<m, k>>})
      BY DEF Left, Occ
    <3> QED  BY <3>2, <3>3, <3>4, FS_EmptySet DEF Occ
  <2>6. Occ(ks, k) \in Nat /\ (g \in Pending(m, k)' <=> n = m /\ Occ(ks, k) # 0)
    <3>1. Occ(ks, k) \in Nat
      BY OccIs
    <3>2. g \in Pending(m, k)' <=> Left(g, m, k)' # 0
      <4>1. todo'[g] \in Seq(Maps \X PieceKey)
        BY <1>0 DEF DumpTypes
      <4>2. Left(g, m, k)' = 0 <=> \A i \in DOMAIN todo'[g] : todo'[g][i] # <<m, k>>
        BY <4>1, OccIs DEF Left
      <4>3. g \in Pending(m, k)' <=> \E i \in DOMAIN todo'[g] : todo'[g][i] = <<m, k>>
        BY DEF Pending
      <4> QED  BY <4>2, <4>3
    <3> QED  BY <2>5, <3>1, <3>2
  <2>7. seen[g][m][k] \in Nat /\ pplMap[m][k] \in Nat
    BY PendingIs
  <2>8. CASE n # m \/ Occ(ks, k) = 0
    <3>1. seen'[g][m][k] = seen[g][m][k] /\ Left(g, m, k)' = 0 /\ g \notin Pending(m, k)'
      BY <2>1, <2>5, <2>6, <2>7, <2>8
    <3> QED  BY <1>2, <2>1, <2>2, <2>3, <2>4, <3>1
  <2>9. CASE n = m /\ Occ(ks, k) # 0
    <3>1. /\ seen'[g][m][k] = seen[g][m][k] + Occ(ks, k) /\ Left(g, m, k)' = Occ(ks, k)
          /\ g \in Pending(m, k)' /\ seen'[g][m][k] > 0
      BY <2>1, <2>5, <2>6, <2>7, <2>9
    <3>2. SeenBy(m, k)' = SeenBy(m, k) \cup {g}
      BY <2>2, <3>1 DEF SeenBy
    <3>3. Pending(m, k)' \subseteq SeenBy(m, k)'
      BY <1>1, <2>2, <3>2 DEF Pending
    <3>4. ASSUME Whole(m), SeenBy(m, k)' = {g} PROVE pplMap[m][k] + Left(g, m, k)' = seen'[g][m][k]
      <4>1. CASE SeenBy(m, k) = {}
        <5>1. pplMap[m][k] = 0 /\ ~(seen[g][m][k] > 0)
          BY <1>1, <4>1 DEF SeenBy
        <5> QED  BY <2>6, <2>7, <3>1, <5>1
      <4>2. CASE SeenBy(m, k) = {g}
        <5>1. pplMap[m][k] + Left(g, m, k) = seen[g][m][k]
          BY <1>1, <3>4, <4>2
        <5> QED  BY <2>4, <2>6, <2>7, <3>1, <5>1
      <4> QED  BY <3>2, <3>4, <4>1, <4>2
    <3>5. \A h \in SeenBy(m, k)' : (SeenBy(m, k)' = {h} => h = g)
                                     /\ (h = g \/ (h \in SeenBy(m, k) /\ (h \in Pending(m, k) => h \in Pending(m, k)')))
      BY <2>2, <3>2 DEF SeenBy
    <3>6. Whole(m) => \A h \in SeenBy(m, k)' : h \in Pending(m, k)' \/ pplMap[m][k] >= 1
      BY <1>1, <3>1, <3>5
    <3> QED  BY <2>1, <2>3, <3>2, <3>3, <3>4, <3>5, <3>6 DEF KeyCounted
  <2> QED  BY <2>8, <2>9
<1>10. CASE UNCHANGED dumpVars
  BY <1>10 DEF dumpVars, KeyCounted, SeenBy, Pending, Left, Whole, Reporting
<1> QED  BY ActIs, <1>5, <1>6, <1>7, <1>8, <1>9, <1>10

-----------------------------------------------------------------------------
(* The report.                                                              *)

LEMMA AloneCounts ==
    ASSUME DumpTypes, Stages, KeysCounted, NEW g \in Capturers, Alone(g), todo[g] = <<>>,
           NEW m \in Maps, NEW k \in PieceKey, Whole(m)
    PROVE  pplMap[m][k] = seen[g][m][k]
<1>1. KeyCounted(m, k) /\ g \notin Pending(m, k)
  BY DEF KeysCounted, Pending
<1>2. Left(g, m, k) = 0 /\ pplMap[m][k] \in Nat /\ seen[g][m][k] \in Nat
  BY <1>1, PendingIs
<1>3. SeenBy(m, k) \subseteq {g}
  BY DEF SeenBy, Alone, Stages
<1>4. CASE SeenBy(m, k) = {g}
  BY <1>1, <1>2, <1>4 DEF KeyCounted
<1>5. CASE SeenBy(m, k) = {}
  <2>1. ~(seen[g][m][k] > 0)
    BY <1>5 DEF SeenBy
  <2> QED  BY <1>1, <1>2, <1>5, <2>1 DEF KeyCounted
<1> QED  BY <1>3, <1>4, <1>5

\* While the others have not begun only g has steps to take.
LEMMA AloneActs ==
    ASSUME DumpTypes, Stages, Next, NEW g \in Capturers, Alone(g)'
    PROVE  \/ UNCHANGED dumpVars
           \/ /\ Alone(g) /\ Only(g)
              /\ \/ Moves(g) \/ Fetch(g) \/ Store(g)
                 \/ \E m \in Maps, ks \in Seq(PieceKey) : DumpPPLUDP(g, m, ks)
                 \/ \E k \in PieceKey : LogRequest(g, k)
<1>1. ASSUME NEW h \in Capturers, h # g, Moves(h) PROVE FALSE
  <2>1. dpc'[h] = "start"
    BY <1>1 DEF Alone
  <2>2. dpc[h] = "start" /\ dpc'[h] = dpc[h]
    BY <1>1, <2>1, MovesIs
  <2>3. ~SetFile(h)
    BY <2>1 DEF SetFile, DumpTypes
  <2>4. \A i \in Capturers : ~Collide(h, i)
    BY <2>2 DEF Collide, Stores
  <2>5. \A k \in PieceKey : ~LogResponse(h, k)
    BY <2>2 DEF LogResponse
  <2>6. ~DumpInvalid(h) /\ ~EndOfPackets(h) /\ ~LogSeparator(h) /\ ~Exit(h)
    BY <2>2 DEF DumpInvalid, EndOfPackets, LogSeparator, Exit
  <2> QED  BY <1>1, <2>3, <2>4, <2>5, <2>6 DEF Moves
<1>2. ASSUME NEW h \in Capturers, h # g,
             \/ Fetch(h) \/ Store(h)
             \/ \E m \in Maps, ks \in Seq(PieceKey) : DumpPPLUDP(h, m, ks)
             \/ \E k \in PieceKey : LogRequest(h, k)
      PROVE  FALSE
  <2>1. dpc'[h] = "start"
    BY <1>2 DEF Alone
  <2> QED  BY <1>2, <2>1, FetchIs, StoreIs, SeesIs, RequestIs
<1>3. ASSUME \/ Moves(g) \/ Fetch(g) \/ Store(g)
             \/ \E m \in Maps, ks \in Seq(PieceKey) : DumpPPLUDP(g, m, ks)
             \/ \E k \in PieceKey : LogRequest(g, k)
      PROVE  Alone(g) /\ Only(g)
  <2>1. Only(g)
    BY <1>3, MovesIs, FetchIs, StoreIs, SeesIs, RequestIs
  <2> QED  BY <2>1 DEF Only, Alone
<1> QED  BY ActIs, <1>1, <1>2, <1>3

LEMMA ReportKept ==
    ASSUME DumpInv, Next
    PROVE  ReportInv'
<1>0. DumpTypes /\ Stages /\ KeysCounted
  BY DEF DumpInv
<1> SUFFICES ASSUME NEW g \in Capturers, Alone(g)' PROVE Reported(g)'
  BY DEF ReportInv
<1>1. CASE UNCHANGED dumpVars
  <2>1. Alone(g)
    BY <1>1 DEF dumpVars, Alone
  <2> QED  BY <1>1, <2>1 DEF DumpInv, ReportInv, Reported, dumpVars, Reporting, Logged, Deleted,
                             Requests, Responses, ReqRow, RespRow
<1>2. CASE ~UNCHANGED dumpVars
  <2>0. Alone(g) /\ Reported(g)
    BY <1>0, <1>2, AloneActs DEF DumpInv, ReportInv
  <2>1. CASE UNCHANGED <<dpc, outputs, lines, seen, pplMap, unvisited>> /\ Running
    BY <2>0, <2>1 DEF Reported, Reporting, Logged, Deleted, Requests, Responses, ReqRow, RespRow, Running
  \* Until its last packet it reports nothing.
  <2>2. ASSUME dpc[g] \in {"start", "packets", "fetch", "store"}, dpc'[g] \in {"packets", "fetch", "store"},
               UNCHANGED lines, outputs' = IF dpc[g] = "start" THEN outputs + 1 ELSE outputs
        PROVE  Reported(g)'
    <3>1. g \notin Reporting /\ outputs' = 1 /\ lines'[g] = {}
      BY <2>0, <2>2 DEF Reported, Reporting
    <3> QED  BY <2>2, <3>1 DEF Reported, Reporting
  <2>3. CASE SetFile(g)
    BY <1>0, <2>2, <2>3 DEF SetFile, DumpTypes
  <2>4. CASE Fetch(g) \/ Store(g)
    BY <1>0, <2>2, <2>4, FetchIs, StoreIs
  <2>5. ASSUME NEW m \in Maps, NEW ks \in Seq(PieceKey), DumpPPLUDP(g, m, ks) PROVE Reported(g)'
    BY <1>0, <2>2, <2>5, SeesIs
  <2>6. CASE DumpInvalid(g) \/ \E h \in Capturers : Collide(g, h)
    BY <2>1, <2>6 DEF DumpInvalid, Collide
  <2>7. CASE EndOfPackets(g)
    <3>1. /\ dpc[g] = "packets" /\ dpc'[g] = "requests" /\ unvisited'[g] = Keys("req")
          /\ UNCHANGED <<pplMap, outputs, seen, lines>>
      BY <1>0, <2>7 DEF EndOfPackets, DumpTypes
    <3>2. todo[g] = <<>> /\ Whole("req") /\ Whole("resp")
      BY <1>0, <2>0, <3>1 DEF Stages, Whole, Reporting, Alone
    <3>3. \A k \in PieceKey : pplMap["req"][k] = seen[g]["req"][k] /\ pplMap["resp"][k] = seen[g]["resp"][k]
      BY <1>0, <2>0, <3>2, AloneCounts DEF Maps
    <3>4. unvisited'[g] = Requests(g) /\ Requests(g)' = Requests(g)
      BY <3>1, <3>3 DEF Keys, Requests
    <3>5. Requests(g)' \ unvisited'[g] = {}
      BY <3>4
    <3>6. lines'[g] = {} /\ outputs' = 1
      BY <2>0, <3>1 DEF Reported, Reporting
    <3>7. Logged(g, {}, {})' /\ Deleted(g, {})'
      BY <3>1, <3>3, <3>6 DEF Logged, Deleted
    <3>8. dpc'[g] = "requests" /\ unvisited'[g] \subseteq Requests(g)' /\ g \in Reporting'
      BY <3>1, <3>4 DEF Reporting
    <3> QED  BY <3>5, <3>6, <3>7, <3>8 DEF Reported
  <2>8. ASSUME NEW k \in PieceKey, LogRequest(g, k) PROVE Reported(g)'
    <3>r. PICK R : R = Requests(g) \ unvisited[g]
      OBVIOUS
    <3>1. /\ UNCHANGED <<dpc, outputs, seen>> /\ dpc[g] = "requests"
          /\ pplMap["req"][k] > 0 /\ \A l \in lines[g] : l.map = "req" => l.key # k
          /\ pplMap'["req"] = pplMap["req"] /\ pplMap'["resp"][k] = 0
          /\ \A j \in PieceKey \ {k} : pplMap'["resp"][j] = pplMap["resp"][j]
          /\ unvisited'[g] = unvisited[g] \ {k}
          /\ lines'[g] = lines[g] \cup {[map |-> "req", key |-> k, count |-> pplMap["req"][k],
                                         resp |-> pplMap["resp"][k], copies |-> outputs]}
      BY <1>0, <2>8, RequestIs
    <3>2. outputs = 1 /\ unvisited[g] \subseteq Requests(g) /\ Logged(g, R, {}) /\ Deleted(g, R)
      BY <2>0, <3>1, <3>r DEF Reported
    <3>3. pplMap["req"][k] = seen[g]["req"][k] /\ k \in Requests(g)
      <4>1. todo[g] = <<>>
        BY <1>0, <3>1 DEF Stages
      <4>2. pplMap["req"][k] = seen[g]["req"][k]
        BY <1>0, <2>0, <4>1, AloneCounts DEF Maps, Whole
      <4> QED  BY <3>1, <4>2 DEF Requests
    <3>4. k \notin R
      <4>1. k \in R => ReqRow(g, k) \in lines[g]
        BY <3>2 DEF Logged
      <4>2. ReqRow(g, k).map = "req" /\ ReqRow(g, k).key = k
        BY DEF ReqRow
      <4> QED  BY <3>1, <4>1, <4>2
    <3>5. Requests(g)' \ unvisited'[g] = R \cup {k} /\ Requests(g)' = Requests(g)
      BY <3>1, <3>3, <3>4, <3>r DEF Requests
    <3>6. lines'[g] = lines[g] \cup {ReqRow(g, k)}
      <4>1. pplMap["resp"][k] = seen[g]["resp"][k]
        BY <3>2, <3>4 DEF Deleted
      <4> QED  BY <3>1, <3>2, <3>3, <4>1 DEF ReqRow
    <3>7. Logged(g, R \cup {k}, {})'
      BY <3>1, <3>2, <3>6 DEF Logged, ReqRow
    <3>8. Deleted(g, R \cup {k})'
      <4> SUFFICES ASSUME NEW j \in PieceKey
                   PROVE  pplMap'["resp"][j] = IF j \in R \cup {k} THEN 0 ELSE seen'[g]["resp"][j]
        BY <3>1, <3>5 DEF Deleted
      <4> QED  BY <3>1, <3>2 DEF Deleted
    <3>9. dpc'[g] = "requests" /\ unvisited'[g] \subseteq Requests(g)' /\ g \in Reporting' /\ outputs' = 1
      BY <3>1, <3>2, <3>5 DEF Reporting
    <3> QED  BY <3>5, <3>7, <3>8, <3>9 DEF Reported
  <2>9. CASE LogSeparator(g)
    <3>1. /\ dpc[g] = "requests" /\ dpc'[g] = "responses" /\ unvisited'[g] = Keys("resp")
          /\ unvisited[g] \cap Keys("req") = {} /\ UNCHANGED <<pplMap, outputs, seen, lines>>
      BY <1>0, <2>9 DEF LogSeparator, DumpTypes
    <3>2. outputs = 1 /\ unvisited[g] \subseteq Requests(g)
          /\ Logged(g, Requests(g) \ unvisited[g], {}) /\ Deleted(g, Requests(g) \ unvisited[g])
      BY <2>0, <3>1 DEF Reported
    <3>3. Keys("req") = Requests(g)
      <4>1. todo[g] = <<>>
        BY <1>0, <3>1 DEF Stages
      <4>2. \A k \in PieceKey : pplMap["req"][k] = seen[g]["req"][k]
        BY <1>0, <2>0, <4>1, AloneCounts DEF Maps, Whole
      <4> QED  BY <4>2 DEF Requests, Keys
    <3>4. Requests(g) \ unvisited[g] = Requests(g)
      BY <3>1, <3>2, <3>3
    <3>5. Requests(g)' = Requests(g) /\ Responses(g)' = Responses(g)
      BY <3>1 DEF Requests, Responses
    <3>6. unvisited'[g] = Responses(g)
      <4>1. \A k \in PieceKey : pplMap["resp"][k] = IF k \in Requests(g) THEN 0 ELSE seen[g]["resp"][k]
        BY <3>2, <3>4 DEF Deleted
      <4>2. \A k \in PieceKey : seen[g]["req"][k] \in Nat
        BY <1>0 DEF DumpTypes, Counts, Maps
      <4> QED  BY <3>1, <4>1, <4>2 DEF Keys, Requests, Responses
    <3>7. Responses(g)' \ unvisited'[g] = {}
      BY <3>5, <3>6
    <3>8. Logged(g, Requests(g), {})' /\ Deleted(g, Requests(g))'
      BY <3>1, <3>2, <3>4, <3>5 DEF Logged, Deleted, ReqRow
    <3>9. dpc'[g] = "responses" /\ unvisited'[g] \subseteq Responses(g)' /\ g \in Reporting' /\ outputs' = 1
      BY <3>1, <3>2, <3>5, <3>6 DEF Reporting
    <3> QED  BY <3>7, <3>8, <3>9 DEF Reported
  <2>10. ASSUME NEW k \in PieceKey, LogResponse(g, k) PROVE Reported(g)'
    <3>q. PICK Q : Q = Responses(g) \ unvisited[g]
      OBVIOUS
    <3>1. /\ UNCHANGED <<pplMap, dpc, outputs, seen>> /\ dpc[g] = "responses"
          /\ pplMap["resp"][k] > 0 /\ \A l \in lines[g] : l.map = "resp" => l.key # k
          /\ unvisited'[g] = unvisited[g] \ {k}
          /\ lines'[g] = lines[g] \cup {[map |-> "resp", key |-> k, count |-> pplMap["resp"][k],
                                         resp |-> 0, copies |-> outputs]}
      BY <1>0, <2>10 DEF LogResponse, Line, Keys, DumpTypes
    <3>2. outputs = 1 /\ unvisited[g] \subseteq Responses(g) /\ Deleted(g, Requests(g)) /\ Logged(g, Requests(g), Q)
      BY <2>0, <3>1, <3>q DEF Reported
    <3>3. pplMap["resp"][k] = seen[g]["resp"][k] /\ k \in Responses(g)
      <4>1. pplMap["resp"][k] = seen[g]["resp"][k] /\ k \notin Requests(g)
        BY <3>1, <3>2 DEF Deleted
      <4>2. seen[g]["req"][k] \in Nat
        BY <1>0 DEF DumpTypes, Counts, Maps
      <4> QED  BY <3>1, <4>1, <4>2 DEF Requests, Responses
    <3>4. k \notin Q
      <4>1. k \in Q => RespRow(g, k) \in lines[g]
        BY <3>2 DEF Logged
      <4>2. RespRow(g, k).map = "resp" /\ RespRow(g, k).key = k
        BY DEF RespRow
      <4> QED  BY <3>1, <4>1, <4>2
    <3>5. /\ Responses(g)' \ unvisited'[g] = Q \cup {k}
          /\ Requests(g)' = Requests(g) /\ Responses(g)' = Responses(g)
      BY <3>1, <3>3, <3>4, <3>q DEF Requests, Responses
    <3>6. lines'[g] = lines[g] \cup {RespRow(g, k)}
      BY <3>1, <3>2, <3>3 DEF RespRow
    <3>7. Logged(g, Requests(g), Q \cup {k})'
      BY <3>1, <3>2, <3>5, <3>6 DEF Logged, ReqRow, RespRow
    <3>8. Deleted(g, Requests(g))'
      BY <3>1, <3>2, <3>5 DEF Deleted
    <3>9. dpc'[g] = "responses" /\ unvisited'[g] \subseteq Responses(g)' /\ g \in Reporting' /\ outputs' = 1
      BY <3>1, <3>2, <3>5 DEF Reporting
    <3> QED  BY <3>5, <3>7, <3>8, <3>9 DEF Reported
  <2>11. CASE Exit(g)
    <3>1. /\ dpc[g] = "responses" /\ dpc'[g] = "exited" /\ process' = "done"
          /\ unvisited[g] \cap Keys("resp") = {} /\ UNCHANGED <<pplMap, outputs, seen, lines>>
      BY <1>0, <2>11 DEF Exit, DumpTypes
    <3>2. outputs = 1 /\ unvisited[g] \subseteq Responses(g) /\ Deleted(g, Requests(g))
          /\ Logged(g, Requests(g), Responses(g) \ unvisited[g])
      BY <2>0, <3>1 DEF Reported
    <3>3. Responses(g) \subseteq Keys("resp")
      BY <3>2 DEF Deleted, Responses, Requests, Keys
    <3>4. Responses(g) \ unvisited[g] = Responses(g)
      BY <3>1, <3>2, <3>3
    <3>5. Logged(g, Requests(g), Responses(g))'
      BY <3>1, <3>2, <3>4 DEF Logged, Requests, Responses, ReqRow, RespRow
    <3>6. g \in Reporting' /\ outputs' = 1
      BY <3>1, <3>2 DEF Reporting
    <3> QED  BY <3>1, <3>5, <3>6 DEF Reported
  <2> QED  BY <1>0, <1>2, AloneActs, <2>3, <2>4, <2>5, <2>6, <2>7, <2>8, <2>9, <2>10, <2>11 DEF Moves
<1> QED  BY <1>1, <1>2

-----------------------------------------------------------------------------
LEMMA DumpInitInv ==
    ASSUME Init
    PROVE  DumpInv
<1> USE DEF Init, DumpInit
<1>1. DumpTypes
  <2>1. [m \in Maps |-> [k \in PieceKey |-> 0]] \in Counts
    BY DEF Counts
  <2>2. [g \in Capturers |-> <<>>] \in [Capturers -> Seq(Maps \X PieceKey)]
    OBVIOUS
  <2> QED  BY <2>1, <2>2 DEF DumpTypes
<1>2. Stages
  BY DEF Stages
<1>3. \A m \in Maps, k \in PieceKey :
          pplMap[m][k] = 0 /\ SeenBy(m, k) = {} /\ Pending(m, k) = {}
  BY DEF SeenBy, Pending
<1>4. KeysCounted
  BY <1>3 DEF KeysCounted, KeyCounted
<1>5. ReportInv
  BY DEF ReportInv, Reported, Reporting
<1> QED  BY <1>1, <1>2, <1>4, <1>5 DEF DumpInv

LEMMA DumpInvStep ==
    ASSUME DumpInv, [Next]_vars
    PROVE  DumpInv'
<1>1. CASE Next
  <2>1. DumpTypes' /\ Stages'
    BY <1>1, TypesStep, StagesStep DEF DumpInv
  <2>2. KeysCounted'
    BY <1>1, KeyStep DEF DumpInv, KeysCounted
  <2>3. ReportInv'
    BY <1>1, ReportKept
  <2> QED  BY <2>1, <2>2, <2>3 DEF DumpInv
<1>2. CASE UNCHANGED vars
  <2> USE <1>2 DEF vars, dumpVars
  <2>1. DumpTypes' /\ Stages'
    BY DEF DumpInv, DumpTypes, Stages
  <2>2. KeysCounted'
    <3> SUFFICES ASSUME NEW m \in Maps, NEW k \in PieceKey PROVE KeyCounted(m, k)'
      BY DEF KeysCounted
    <3>1. KeyCounted(m, k)
      BY DEF DumpInv, KeysCounted
    <3> QED  BY <3>1 DEF KeyCounted, SeenBy, Pending, Left, Whole, Reporting
  <2>3. ReportInv'
    BY DEF DumpInv, ReportInv, Alone, Reported, Reporting, Logged, Deleted,
           Requests, Responses, ReqRow, RespRow
  <2> QED  BY <2>1, <2>2, <2>3 DEF DumpInv
<1> QED  BY <1>1, <1>2

\* The counts a goroutine alone is concerned with are as if it had the maps for
\* itself, and the report of one that captures alone as if nothing ran beside.
THEOREM DumperInvariant == Spec => []DumpInv
<1>1. Init => DumpInv
  BY DumpInitInv
<1>2. DumpInv /\ [Next]_vars => DumpInv'
  BY DumpInvStep
<1> QED  BY <1>1, <1>2, PTL DEF Spec

\* DumpPPLUDP, dump.go:142: the unlocked read and store of a count lose nothing
\* of a key that one goroutine alone sees, and never the key itself.
THEOREM CountsAreSeen == Spec => []CountsSeen
<1>1. ASSUME DumpInv PROVE CountsSeen
  <2> SUFFICES ASSUME NEW m \in Maps, NEW k \in PieceKey, Pending(m, k) = {}, Whole(m)
               PROVE  /\ SeenBy(m, k) = {} => pplMap[m][k] = 0
                      /\ \A g \in SeenBy(m, k) :
                           /\ pplMap[m][k] >= 1
                           /\ SeenBy(m, k) = {g} => pplMap[m][k] = seen[g][m][k]
    BY DEF CountsSeen, Whole
  <2>1. KeyCounted(m, k) /\ DumpTypes
    BY <1>1 DEF DumpInv, KeysCounted
  <2>2. \A g \in SeenBy(m, k) : Left(g, m, k) = 0 /\ pplMap[m][k] \in Nat
    BY <2>1, PendingIs DEF SeenBy
  <2> QED  BY <2>1, <2>2 DEF KeyCounted
<1> QED  BY <1>1, DumperInvariant, PTL

\* DumpMap: the report of a goroutine that captures alone has every request
\* with its response and every other response, once, with the counts of all of
\* its packets.
THEOREM ReportIsComplete == Spec => []ReportComplete
<1>1. ASSUME DumpInv PROVE ReportComplete
  <2> SUFFICES ASSUME NEW g \in Capturers, dpc[g] = "exited", Alone(g)
               PROVE  lines[g] = {ReqRow(g, k) : k \in Requests(g)} \cup {RespRow(g, k) : k \in Responses(g)}
    BY DEF ReportComplete, Alone, ReqRow, RespRow, Requests, Responses
  <2> QED  BY <1>1 DEF DumpInv, ReportInv, Reported, Logged
<1> QED  BY <1>1, DumperInvariant, PTL
=============================================================================
