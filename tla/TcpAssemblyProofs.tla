------------------------- MODULE TcpAssemblyProofs --------------------------
(* Theorems about TcpAssembly, for every number of capture goroutines,      *)
(* flows, stream objects and packets.                                       *)
EXTENDS TcpAssembly, TLAPS

-----------------------------------------------------------------------------
(* The free list: taking its last element, growing it, returning to it.     *)

\* Taking the last stream off a duplicate-free list leaves the others.
LEMMA FrontOfInjective ==
    ASSUME NEW S, NEW q \in Seq(S), q # <<>>, IsInjective(q)
    PROVE  LET r == SubSeq(q, 1, Len(q) - 1) IN
           /\ r \in Seq(S) /\ IsInjective(r)
           /\ Range(r) = Range(q) \ {q[Len(q)]}
           /\ q[Len(q)] \in S /\ q[Len(q)] \in Range(q)
<1> DEFINE r == SubSeq(q, 1, Len(q) - 1)
<1>1. /\ Len(q) \in Nat \ {0} /\ DOMAIN q = 1..Len(q)
      /\ q[Len(q)] \in S /\ q[Len(q)] \in Range(q)
  BY DEF Range
<1>2. /\ r \in Seq(S) /\ Len(r) = Len(q) - 1 /\ DOMAIN r = 1..(Len(q) - 1)
      /\ \A i \in 1..(Len(q) - 1) : r[i] = q[i]
  BY <1>1
<1>3. IsInjective(r)
  BY <1>1, <1>2 DEF IsInjective
<1>4. Range(r) = Range(q) \ {q[Len(q)]}
  <2>1. ASSUME NEW x \in Range(r)
        PROVE  x \in Range(q) \ {q[Len(q)]}
    <3>1. PICK i \in 1..(Len(q) - 1) : x = q[i]
      BY <1>2 DEF Range
    <3> QED  BY <3>1, <1>1 DEF Range, IsInjective
  <2>2. ASSUME NEW x \in Range(q) \ {q[Len(q)]}
        PROVE  x \in Range(r)
    <3>1. PICK i \in 1..Len(q) : x = q[i]
      BY <1>1 DEF Range
    <3>2. i \in 1..(Len(q) - 1)
      BY <3>1, <1>1
    <3> QED  BY <3>1, <3>2, <1>2 DEF Range
  <2> QED  BY <2>1, <2>2
<1> QED  BY <1>1, <1>2, <1>3, <1>4

\* Returning a stream that is not in the list keeps it free of duplicates.
LEMMA AppendToInjective ==
    ASSUME NEW S, NEW q \in Seq(S), IsInjective(q), NEW x \in S, x \notin Range(q)
    PROVE  /\ Append(q, x) \in Seq(S) /\ IsInjective(Append(q, x))
           /\ Range(Append(q, x)) = Range(q) \cup {x}
<1> DEFINE r == Append(q, x)
<1>1. /\ r \in Seq(S) /\ Len(q) \in Nat /\ DOMAIN q = 1..Len(q)
      /\ DOMAIN r = 1..(Len(q) + 1)
      /\ \A i \in 1..Len(q) : r[i] = q[i]
      /\ r[Len(q) + 1] = x
  OBVIOUS
<1>2. \A i \in 1..Len(q) : r[i] # x
  BY <1>1 DEF Range
<1>3. IsInjective(r)
  BY <1>1, <1>2 DEF IsInjective
<1>4. Range(r) = Range(q) \cup {x}
  <2>1. ASSUME NEW y \in Range(r)
        PROVE  y \in Range(q) \cup {x}
    <3>1. PICK i \in 1..(Len(q) + 1) : y = r[i]
      BY <1>1 DEF Range
    <3> QED  BY <3>1, <1>1 DEF Range
  <2>2. ASSUME NEW y \in Range(q)
        PROVE  y \in Range(r)
    <3>1. PICK i \in 1..Len(q) : y = q[i]
      BY <1>1 DEF Range
    <3> QED  BY <3>1, <1>1 DEF Range
  <2>3. x \in Range(r)
    BY <1>1 DEF Range
  <2> QED  BY <2>1, <2>2, <2>3
<1> QED  BY <1>1, <1>3, <1>4

\* grow fills the empty free list with nextAlloc different new objects.
LEMMA GrownIsFresh ==
    ASSUME TypeOK, free = <<>>, allocated + nextAlloc <= MaxStreams
    PROVE  /\ Grown \in Seq(Stream) /\ Grown # <<>> /\ IsInjective(Grown)
           /\ Range(Grown) = (allocated + 1)..(allocated + nextAlloc)
<1> DEFINE b == [i \in 1..nextAlloc |-> allocated + i]
<1>1. allocated \in Nat /\ nextAlloc \in Nat \ {0} /\ MaxStreams \in Nat
  BY NatAssumption DEF TypeOK
<1>2. b \in Seq(Stream) /\ Len(b) = nextAlloc /\ DOMAIN b = 1..nextAlloc
  BY <1>1 DEF Stream
<1>3. Grown = b
  BY <1>2 DEF Grown
<1>4. IsInjective(b)
  BY <1>1, <1>2 DEF IsInjective
<1>5. Range(b) = (allocated + 1)..(allocated + nextAlloc)
  <2>1. ASSUME NEW x \in Range(b)
        PROVE  x \in (allocated + 1)..(allocated + nextAlloc)
    BY <1>1, <1>2 DEF Range
  <2>2. ASSUME NEW x \in (allocated + 1)..(allocated + nextAlloc)
        PROVE  x \in Range(b)
    <3>1. x - allocated \in 1..nextAlloc /\ b[x - allocated] = x
      BY <1>1
    <3> QED  BY <3>1, <1>2 DEF Range
  <2> QED  BY <2>1, <2>2
<1> HIDE DEF b
<1>6. b # <<>>
  BY <1>1, <1>2
<1> QED  BY <1>2, <1>3, <1>4, <1>5, <1>6
-----------------------------------------------------------------------------
(* Each step preserves PoolInv.  Most steps of a goroutine change neither   *)
(* the map, nor the free list, nor closed, nor a lock: QuietStep.           *)

\* What the rest of PoolInv, after TypeOK, is about.
\* A dump goroutine d moves inside its loop, or leaves it when the stream is
\* closed, and touches nothing the pool's consistency depends on.
LEMMA QuietStep ==
    ASSUME PoolInv, TypeOK',
           UNCHANGED <<streams, free, allocated, newConnectionCount, key, closed, mu, target,
                       capVars>>,
           NEW d \in Dumper, dpc[d] \notin {"off", "remove"},
           NEW l, l \notin {"off", "remove"},
           dpc' = [dpc EXCEPT ![d] = l],
           l \in {"drain", "discard", "done"} =>
               closed[target[d]] \/ dpc[d] \in {"drain", "discard", "done"},
           \A e \in Dumper : dpc'[e] \in {"got", "stat"} => hand'[e] \in Packet
    PROVE  PoolInv'
<1> USE DEF PoolInv, InFree, Allocated
<1>1. \A e \in Dumper : dpc'[e] = (IF e = d THEN l ELSE dpc[e])
  BY DEF TypeOK
<1>2. RefsAreUsed'
  BY <1>1 DEF RefsAreUsed, capVars
<1>3. RemoverOwns'
  BY <1>1 DEF RemoverOwns, Nil, Dumper, TypeOK
<1>4. MapPointsToOwners' /\ FreeOnce' /\ FreeIsClosed'
  BY DEF MapPointsToOwners, FreeOnce, FreeIsClosed
<1>5. ClosedIsReturned'
  BY <1>1 DEF ClosedIsReturned
<1>6. OpenHasDumper'
  BY <1>1 DEF OpenHasDumper
<1> QED  BY <1>2, <1>3, <1>4, <1>5, <1>6

\* A capture goroutine p moves on with a packet and a stream that are real.
LEMMA CaptureQuietStep ==
    ASSUME PoolInv, TypeOK',
           UNCHANGED <<streams, free, allocated, newConnectionCount, key, closed, mu, dumpVars>>,
           RefsAreUsed'
    PROVE  PoolInv'
BY DEF PoolInv, dumpVars, InFree, Allocated, RemoverOwns, MapPointsToOwners, FreeOnce,
       FreeIsClosed, ClosedIsReturned, OpenHasDumper

LEMMA CaptureInv ==
    ASSUME PoolInv, NEW p \in Capturers, Capture(p)
    PROVE  PoolInv'
<1> USE DEF PoolInv
<1>1. captured \in Nat /\ MaxPackets \in Nat /\ now \in Time
  BY NatAssumption DEF TypeOK
<1>2. PICK k \in Key, kind \in {"syn", "data", "end"} :
        \/ /\ Lookup(k) # Nil
           /\ cpc' = [cpc EXCEPT ![p] = "check"]
           /\ ref' = [ref EXCEPT ![p] = Lookup(k)]
           /\ pkt' = [pkt EXCEPT ![p] = [key |-> k, kind |-> kind, ts |-> now]]
        \/ /\ cpc' = [cpc EXCEPT ![p] = "create"]
           /\ pkt' = [pkt EXCEPT ![p] = [key |-> k, kind |-> kind, ts |-> now]]
           /\ UNCHANGED ref
        \/ UNCHANGED capVars
  BY DEF Capture
<1>3. [key |-> k, kind |-> kind, ts |-> now] \in Packet
  BY <1>1 DEF Packet
<1>4. Reverse(k) \in Key
  BY DEF Reverse, Key
<1>5. Lookup(k) # Nil => Lookup(k) \in Stream /\ Lookup(k) \in Allocated
  BY <1>4 DEF Lookup, MapPointsToOwners, TypeOK, Nil
<1>6. TypeOK'
  <2>1. captured' \in 0..MaxPackets
    BY <1>1 DEF Capture
  <2>2. /\ cpc' \in [Capturers -> {"idle", "create", "check", "send"}]
        /\ pkt' \in [Capturers -> Packet \cup {NoPacket}]
        /\ ref' \in [Capturers -> Stream \cup {Nil}]
    <3>1. /\ cpc \in [Capturers -> {"idle", "create", "check", "send"}]
          /\ pkt \in [Capturers -> Packet \cup {NoPacket}]
          /\ ref \in [Capturers -> Stream \cup {Nil}]
      BY DEF TypeOK
    <3> HIDE DEF PoolInv
    <3>2. CASE Lookup(k) # Nil /\ cpc' = [cpc EXCEPT ![p] = "check"]
               /\ ref' = [ref EXCEPT ![p] = Lookup(k)]
               /\ pkt' = [pkt EXCEPT ![p] = [key |-> k, kind |-> kind, ts |-> now]]
      BY <3>1, <3>2, <1>3, <1>5
    <3>3. CASE cpc' = [cpc EXCEPT ![p] = "create"] /\ UNCHANGED ref
               /\ pkt' = [pkt EXCEPT ![p] = [key |-> k, kind |-> kind, ts |-> now]]
      BY <3>1, <3>3, <1>3
    <3>4. CASE UNCHANGED capVars
      BY <3>1, <3>4 DEF capVars
    <3> QED  BY <1>2, <3>2, <3>3, <3>4
  <2> QED  BY <2>1, <2>2 DEF Capture, TypeOK, poolVars, connVars, dumpVars
<1>7. RefsAreUsed'
  <2>1. \A q \in Capturers :
          /\ cpc'[q] # "idle" => pkt'[q] \in Packet
          /\ cpc'[q] \in {"check", "send"} => ref'[q] \in Allocated
    BY <1>2, <1>3, <1>5 DEF RefsAreUsed, capVars, TypeOK
  <2> QED  BY <2>1 DEF RefsAreUsed, Capture, poolVars, dumpVars, Allocated
<1> QED  BY <1>6, <1>7, CaptureQuietStep DEF Capture, poolVars

LEMMA HandleCheckInv ==
    ASSUME PoolInv, NEW p \in Capturers, HandleCheck(p)
    PROVE  PoolInv'
<1>1. /\ cpc \in [Capturers -> {"idle", "create", "check", "send"}]
      /\ pkt \in [Capturers -> Packet \cup {NoPacket}]
      /\ ref \in [Capturers -> Stream \cup {Nil}]
      /\ TypeOK /\ RefsAreUsed
  BY DEF PoolInv, TypeOK
<1>2. \/ /\ cpc' = [cpc EXCEPT ![p] = "idle"]
         /\ pkt' = [pkt EXCEPT ![p] = NoPacket]
         /\ ref' = [ref EXCEPT ![p] = Nil]
      \/ /\ cpc' = [cpc EXCEPT ![p] = "send"] /\ cpc[p] = "check"
         /\ UNCHANGED <<pkt, ref>>
  BY DEF HandleCheck
<1>3. /\ cpc' \in [Capturers -> {"idle", "create", "check", "send"}]
      /\ pkt' \in [Capturers -> Packet \cup {NoPacket}]
      /\ ref' \in [Capturers -> Stream \cup {Nil}]
  BY <1>1, <1>2
<1>4. TypeOK'
  BY <1>1, <1>3 DEF HandleCheck, TypeOK, poolVars, connVars, dumpVars, envVars
<1>5. \A q \in Capturers :
        /\ cpc'[q] # "idle" => pkt'[q] \in Packet
        /\ cpc'[q] \in {"check", "send"} => ref'[q] \in Allocated
  BY <1>1, <1>2 DEF RefsAreUsed
<1>6. RefsAreUsed'
  BY <1>1, <1>5 DEF HandleCheck, RefsAreUsed, poolVars, dumpVars, Allocated
<1> QED  BY <1>4, <1>6, CaptureQuietStep DEF HandleCheck, poolVars

LEMMA SendInv ==
    ASSUME PoolInv, NEW p \in Capturers, Send(p)
    PROVE  PoolInv'
<1>1. /\ cpc \in [Capturers -> {"idle", "create", "check", "send"}]
      /\ pkt \in [Capturers -> Packet \cup {NoPacket}]
      /\ ref \in [Capturers -> Stream \cup {Nil}]
      /\ data \in [Stream -> Seq(Packet)]
      /\ TypeOK /\ RefsAreUsed /\ pkt[p] \in Packet
  BY DEF PoolInv, TypeOK, RefsAreUsed, Send
<1>2. data' \in [Stream -> Seq(Packet)]
  <2>1. CASE ref[p] \in Stream
    <3>1. Append(data[ref[p]], pkt[p]) \in Seq(Packet)
      BY <1>1, <2>1
    <3> QED  BY <1>1, <3>1 DEF Send
  <2>2. CASE ref[p] \notin Stream
    BY <1>1, <2>2 DEF Send
  <2> QED  BY <2>1, <2>2
<1>3. /\ cpc' \in [Capturers -> {"idle", "create", "check", "send"}]
      /\ pkt' \in [Capturers -> Packet \cup {NoPacket}]
      /\ ref' \in [Capturers -> Stream \cup {Nil}]
  BY <1>1 DEF Send
<1>4. TypeOK'
  BY <1>1, <1>2, <1>3 DEF Send, TypeOK, poolVars, connVars, dumpVars, envVars
<1>5. \A q \in Capturers :
        /\ cpc'[q] # "idle" => pkt'[q] \in Packet
        /\ cpc'[q] \in {"check", "send"} => ref'[q] \in Allocated
  BY <1>1 DEF RefsAreUsed, Send
<1>6. RefsAreUsed'
  BY <1>1, <1>5 DEF Send, RefsAreUsed, poolVars, dumpVars, Allocated
<1> QED  BY <1>4, <1>6, CaptureQuietStep DEF Send, poolVars
-----------------------------------------------------------------------------
(* The dump goroutine's quiet steps.                                        *)

\* The types a step of a dump goroutine relies on.
LEMMA DumpTypes ==
    ASSUME PoolInv, NEW d \in Dumper, dpc[d] # "off"
    PROVE  /\ target[d] \in Stream /\ target[d] \in Allocated /\ key[target[d]] \in Key
           /\ data \in [Stream -> Seq(Packet)] /\ lastSeen \in [Stream -> Time]
           /\ closed \in [Stream -> BOOLEAN] /\ waitClose \in [Stream -> SUBSET Side]
           /\ connClosed \in [Stream -> BOOLEAN] /\ Packets \in [Stream -> [Side -> Nat]]
           /\ dpc \in [Dumper -> {"off", "loop", "select", "got", "stat", "store",
                                  "close", "remove", "drain", "discard", "done"}]
           /\ hand \in [Dumper -> Packet \cup {NoPacket}] /\ side \in [Dumper -> Side]
           /\ finish \in [Dumper -> BOOLEAN] /\ loaded \in [Dumper -> Nat]
           /\ \A e \in Dumper : dpc[e] \in {"got", "stat"} => hand[e] \in Packet
<1>1. TypeOK /\ RefsAreUsed /\ MaxStreams \in Nat
  BY NatAssumption DEF PoolInv
<1>2. target[d] \in Allocated /\ key[target[d]] \in Key
  BY <1>1 DEF RefsAreUsed
<1>3. target[d] \in Stream
  BY <1>1, <1>2 DEF TypeOK, Allocated, Stream
<1> QED  BY <1>1, <1>2, <1>3 DEF TypeOK, RefsAreUsed

LEMMA LoopInv ==
    ASSUME PoolInv, NEW d \in Dumper, Loop(d)
    PROVE  PoolInv'
<1> USE DEF Loop, Goto, poolVars, connVars, capVars, envVars
<1>1. TypeOK'
  <2>1. dpc' \in [Dumper -> {"off", "loop", "select", "got", "stat", "store",
                            "close", "remove", "drain", "discard", "done"}]
    BY DumpTypes
  <2> QED  BY <2>1 DEF PoolInv, TypeOK
<1> DEFINE l == IF closed[target[d]] THEN "drain" ELSE "select"
<1>2. /\ l \notin {"off", "remove"} /\ dpc[d] \notin {"off", "remove"}
      /\ dpc' = [dpc EXCEPT ![d] = l]
      /\ l \in {"drain", "discard", "done"} => closed[target[d]]
      /\ \A e \in Dumper : dpc'[e] \in {"got", "stat"} => hand'[e] \in Packet
  BY DumpTypes
<1> HIDE DEF l
<1> QED  BY <1>1, <1>2, QuietStep

LEMMA ReceiveInv ==
    ASSUME PoolInv, NEW d \in Dumper, Receive(d)
    PROVE  PoolInv'
<1> USE DEF Receive, Goto, poolVars, connVars, capVars, envVars
<1> DEFINE q == data[target[d]]
<1>1. q \in Seq(Packet) /\ q # <<>>
  BY DumpTypes
<1>2. Head(q) \in Packet /\ Tail(q) \in Seq(Packet)
  BY <1>1
<1>3. TypeOK'
  <2>1. /\ dpc' \in [Dumper -> {"off", "loop", "select", "got", "stat", "store",
                                "close", "remove", "drain", "discard", "done"}]
        /\ hand' \in [Dumper -> Packet \cup {NoPacket}]
        /\ data' \in [Stream -> Seq(Packet)]
    BY <1>2, DumpTypes
  <2> QED  BY <2>1 DEF PoolInv, TypeOK
<1>4. /\ dpc[d] \notin {"off", "remove"} /\ dpc' = [dpc EXCEPT ![d] = "got"]
      /\ \A e \in Dumper : dpc'[e] \in {"got", "stat"} => hand'[e] \in Packet
  BY <1>2, DumpTypes
<1> QED  BY <1>3, <1>4, QuietStep

LEMMA TickInv ==
    ASSUME PoolInv, NEW d \in Dumper, Tick(d)
    PROVE  PoolInv'
<1> USE DEF Tick, Goto, poolVars, connVars, capVars, envVars
<1> DEFINE l == IF lastSeen[target[d]] < now - Timeout THEN "close" ELSE "loop"
<1>1. TypeOK'
  <2>1. dpc' \in [Dumper -> {"off", "loop", "select", "got", "stat", "store",
                            "close", "remove", "drain", "discard", "done"}]
    BY DumpTypes
  <2> QED  BY <2>1 DEF PoolInv, TypeOK
<1>2. /\ l \notin {"off", "remove", "drain", "discard", "done"}
      /\ dpc[d] \notin {"off", "remove"} /\ dpc' = [dpc EXCEPT ![d] = l]
      /\ \A e \in Dumper : dpc'[e] \in {"got", "stat"} => hand'[e] \in Packet
  BY DumpTypes
<1> HIDE DEF l
<1> QED  BY <1>1, <1>2, QuietStep

LEMMA DumpDataInv ==
    ASSUME PoolInv, NEW d \in Dumper, DumpData(d)
    PROVE  PoolInv'
<1> DEFINE s     == target[d]
           m     == hand[d]
           sd    == IF m.key = key[s] THEN "c2s" ELSE "s2c"
           found == ~closed[s] /\ m.key \in connMap[s]
           live  == found /\ ~connClosed[s]
           l     == IF live THEN "stat" ELSE "loop"
<1>1. dpc[d] = "got" /\ m \in Packet /\ m.ts \in Time /\ sd \in Side /\ s \in Stream
  <2>1. m \in Packet
    BY DumpTypes DEF DumpData
  <2> QED  BY <2>1, DumpTypes DEF DumpData, Packet, Side
<1>2. /\ lastSeen' = (IF found /\ lastSeen[s] < m.ts
                      THEN [lastSeen EXCEPT ![s] = m.ts] ELSE lastSeen)
      /\ waitClose' = (IF live /\ m.kind = "end"
                       THEN [waitClose EXCEPT ![s] = @ \cup {sd}] ELSE waitClose)
      /\ side' = (IF live THEN [side EXCEPT ![d] = sd] ELSE side)
      /\ hand' = (IF live THEN hand ELSE [hand EXCEPT ![d] = NoPacket])
      /\ dpc' = [dpc EXCEPT ![d] = l]
  BY DEF DumpData, Goto
<1> HIDE DEF live, found, sd, s, m
<1>3. TypeOK'
  <2>1. /\ lastSeen' \in [Stream -> Time] /\ waitClose' \in [Stream -> SUBSET Side]
    BY <1>1, <1>2, DumpTypes
  <2>2. /\ side' \in [Dumper -> Side] /\ hand' \in [Dumper -> Packet \cup {NoPacket}]
    BY <1>1, <1>2, DumpTypes
  <2>3. dpc' \in [Dumper -> {"off", "loop", "select", "got", "stat", "store",
                            "close", "remove", "drain", "discard", "done"}]
    BY <1>1, <1>2, DumpTypes
  <2> QED  BY <2>1, <2>2, <2>3
           DEF PoolInv, TypeOK, DumpData, poolVars, capVars, envVars
<1>4. \A e \in Dumper : dpc'[e] \in {"got", "stat"} => hand'[e] \in Packet
  BY <1>1, <1>2, DumpTypes
<1>5. l \notin {"off", "remove", "drain", "discard", "done"}
  OBVIOUS
<1> HIDE DEF l
<1> QED  BY <1>1, <1>2, <1>3, <1>4, <1>5, QuietStep DEF DumpData, poolVars, envVars
LEMMA StatLoadInv ==
    ASSUME PoolInv, NEW d \in Dumper, StatLoad(d)
    PROVE  PoolInv'
<1> USE DEF StatLoad, Goto, poolVars, connVars, capVars, envVars
<1> DEFINE l == IF connClosed[target[d]] THEN "loop" ELSE "store"
<1>1. Packets[target[d]][side[d]] \in Nat
  BY DumpTypes
<1>2. /\ dpc[d] \notin {"off", "remove"} /\ dpc' = [dpc EXCEPT ![d] = l]
      /\ l \notin {"off", "remove", "got", "stat", "drain", "discard", "done"}
      /\ hand' = [hand EXCEPT ![d] = NoPacket]
      /\ finish' = finish \/ \E b \in BOOLEAN : finish' = [finish EXCEPT ![d] = b]
      /\ \/ loaded' = loaded
         \/ loaded' = [loaded EXCEPT ![d] = Packets[target[d]][side[d]]]
  OBVIOUS
<1>3. /\ dpc' \in [Dumper -> {"off", "loop", "select", "got", "stat", "store",
                              "close", "remove", "drain", "discard", "done"}]
      /\ hand' \in [Dumper -> Packet \cup {NoPacket}]
      /\ finish' \in [Dumper -> BOOLEAN] /\ loaded' \in [Dumper -> Nat]
  BY <1>1, <1>2, DumpTypes
<1>4. TypeOK'
  BY <1>3 DEF PoolInv, TypeOK
<1>5. \A e \in Dumper : dpc'[e] \in {"got", "stat"} => hand'[e] \in Packet
  BY <1>2, DumpTypes
<1> HIDE DEF l
<1> QED  BY <1>2, <1>4, <1>5, QuietStep

LEMMA StatStoreInv ==
    ASSUME PoolInv, NEW d \in Dumper, StatStore(d)
    PROVE  PoolInv'
<1> DEFINE l == IF finish[d] THEN "close" ELSE "loop"
<1>1. /\ l \notin {"off", "remove", "drain", "discard", "done"}
      /\ dpc[d] = "store" /\ dpc' = [dpc EXCEPT ![d] = l]
  BY DEF StatStore, Goto
<1>2. Packets' \in [Stream -> [Side -> Nat]]
  BY <1>1, DumpTypes DEF StatStore
<1>3. /\ connClosed' \in [Stream -> BOOLEAN] /\ finish' \in [Dumper -> BOOLEAN]
      /\ side' \in [Dumper -> Side] /\ loaded' \in [Dumper -> Nat]
      /\ dpc' \in [Dumper -> {"off", "loop", "select", "got", "stat", "store",
                              "close", "remove", "drain", "discard", "done"}]
  BY <1>1, DumpTypes DEF StatStore, Side
<1>4. TypeOK'
  BY <1>2, <1>3 DEF PoolInv, TypeOK, StatStore, poolVars, capVars, envVars
<1>5. \A e \in Dumper : dpc'[e] \in {"got", "stat"} => hand'[e] \in Packet
  BY <1>1, DumpTypes DEF StatStore
<1> HIDE DEF l
<1> QED  BY <1>1, <1>4, <1>5, QuietStep DEF StatStore, poolVars, envVars

LEMMA DrainInv ==
    ASSUME PoolInv, NEW d \in Dumper, Drain(d)
    PROVE  PoolInv'
<1> USE DEF Drain, Goto, poolVars, connVars, capVars, envVars
<1> DEFINE l == IF data[target[d]] # <<>> THEN "discard" ELSE "done"
<1>1. /\ l \in {"discard", "done"} /\ dpc[d] = "drain" /\ dpc' = [dpc EXCEPT ![d] = l]
      /\ \A e \in Dumper : dpc'[e] \in {"got", "stat"} => hand'[e] \in Packet
  BY DumpTypes
<1>2. dpc' \in [Dumper -> {"off", "loop", "select", "got", "stat", "store",
                          "close", "remove", "drain", "discard", "done"}]
  BY <1>1, DumpTypes
<1>3. TypeOK'
  BY <1>2 DEF PoolInv, TypeOK
<1> HIDE DEF l
<1> QED  BY <1>1, <1>3, QuietStep

LEMMA DiscardInv ==
    ASSUME PoolInv, NEW d \in Dumper, Discard(d)
    PROVE  PoolInv'
<1> USE DEF Discard, Goto, poolVars, connVars, capVars, envVars
<1>1. data[target[d]] \in Seq(Packet) /\ data[target[d]] # <<>>
  BY DumpTypes
<1>2. Tail(data[target[d]]) \in Seq(Packet)
  BY <1>1
<1>3. /\ dpc' \in [Dumper -> {"off", "loop", "select", "got", "stat", "store",
                              "close", "remove", "drain", "discard", "done"}]
      /\ data' \in [Stream -> Seq(Packet)]
  BY <1>2, DumpTypes
<1>4. TypeOK'
  BY <1>3 DEF PoolInv, TypeOK
<1>5. /\ dpc[d] = "discard" /\ dpc' = [dpc EXCEPT ![d] = "drain"]
      /\ \A e \in Dumper : dpc'[e] \in {"got", "stat"} => hand'[e] \in Packet
  BY DumpTypes
<1> QED  BY <1>4, <1>5, QuietStep

LEMMA ClockInv ==
    ASSUME PoolInv, Clock
    PROVE  PoolInv'
<1>1. now' \in Time
  BY NatAssumption DEF PoolInv, TypeOK, Clock, Time
<1>2. TypeOK'
  BY <1>1 DEF PoolInv, TypeOK, Clock, poolVars, connVars, capVars, dumpVars
<1>3. RefsAreUsed'
  BY DEF PoolInv, RefsAreUsed, Clock, poolVars, capVars, dumpVars, Allocated
<1> QED  BY <1>2, <1>3, CaptureQuietStep DEF Clock, poolVars

-----------------------------------------------------------------------------
(* The two halves of close, and newStream: the steps the invariant is for.  *)

LEMMA CloseEnterInv ==
    ASSUME PoolInv, NEW d \in Dumper, CloseEnter(d)
    PROVE  PoolInv'
<1> DEFINE s == target[d]
<1>1. /\ dpc[d] = "close" /\ mu[s] = Nil /\ s \in Stream /\ s \in Allocated
      /\ UNCHANGED <<streams, free, allocated, nextAlloc, newConnectionCount, key, data,
                     lastSeen, connVars, capVars, target, hand, side, finish, loaded, envVars>>
  BY DumpTypes DEF CloseEnter, poolVars
<1>2. CASE closed[s]
  <2>1. dpc' = [dpc EXCEPT ![d] = "loop"] /\ UNCHANGED <<closed, connMap, mu>>
    BY <1>2 DEF CloseEnter, Goto
  <2>2. dpc' \in [Dumper -> {"off", "loop", "select", "got", "stat", "store",
                            "close", "remove", "drain", "discard", "done"}]
    BY <1>1, <2>1, DumpTypes
  <2>3. TypeOK'
    BY <1>1, <2>1, <2>2 DEF PoolInv, TypeOK, connVars, capVars, envVars
  <2>4. \A e \in Dumper : dpc'[e] \in {"got", "stat"} => hand'[e] \in Packet
    BY <1>1, <2>1, DumpTypes
  <2> QED  BY <1>1, <2>1, <2>3, <2>4, QuietStep
<1>3. CASE ~closed[s]
  <2>1. /\ closed' = [closed EXCEPT ![s] = TRUE]
        /\ connMap' = [connMap EXCEPT ![s] = @ \ {key[s], Reverse(key[s])}]
        /\ mu' = [mu EXCEPT ![s] = d]
        /\ dpc' = [dpc EXCEPT ![d] = "remove"]
    BY <1>3 DEF CloseEnter, Goto
  <2>2. /\ closed \in [Stream -> BOOLEAN] /\ connMap \in [Stream -> SUBSET Key]
        /\ mu \in [Stream -> Dumper \cup {Nil}] /\ TypeOK /\ Nil \notin Dumper
        /\ dpc \in [Dumper -> {"off", "loop", "select", "got", "stat", "store",
                               "close", "remove", "drain", "discard", "done"}]
    BY DEF PoolInv, TypeOK, Nil, Dumper
  <2>3. s \notin InFree
    BY <1>3 DEF PoolInv, FreeIsClosed
  <2>4. /\ InFree' = InFree /\ Allocated' = Allocated /\ Allocated \subseteq Stream
        /\ \A e \in Dumper : dpc'[e] = (IF e = d THEN "remove" ELSE dpc[e])
        /\ \A t \in Stream : closed'[t] = (IF t = s THEN TRUE ELSE closed[t])
        /\ \A t \in Stream : mu'[t] = (IF t = s THEN d ELSE mu[t])
    BY <1>1, <2>1, <2>2, NatAssumption DEF InFree, Allocated, Stream, TypeOK
  <2>5. \A e \in Dumper : target[e] = s => dpc[e] # "remove"
    BY <1>1, <2>2 DEF PoolInv, RemoverOwns
  <2>6. TypeOK'
    <3>1. /\ closed' \in [Stream -> BOOLEAN] /\ connMap' \in [Stream -> SUBSET Key]
          /\ mu' \in [Stream -> Dumper \cup {Nil}]
          /\ dpc' \in [Dumper -> {"off", "loop", "select", "got", "stat", "store",
                                  "close", "remove", "drain", "discard", "done"}]
      BY <2>1, <2>2
    <3> QED  BY <1>1, <2>2, <3>1 DEF TypeOK, connVars, capVars, envVars
  <2>7. RefsAreUsed'
    BY <1>1, <2>4 DEF PoolInv, RefsAreUsed, capVars
  <2>8. RemoverOwns'
    <3>1. ASSUME NEW e \in Dumper, dpc'[e] = "remove"
          PROVE  mu'[target[e]] = e /\ closed'[target[e]] /\ target[e] \notin InFree
      <4>1. CASE e = d
        BY <1>1, <2>3, <2>4, <4>1
      <4>2. CASE e # d
        <5>1. dpc[e] = "remove" /\ target[e] \in Stream
          BY <2>4, <3>1, <4>2 DEF PoolInv, RefsAreUsed
        <5> QED  BY <2>4, <2>5, <5>1 DEF PoolInv, RemoverOwns
      <4> QED  BY <4>1, <4>2
    <3>2. ASSUME NEW t \in Stream, mu'[t] # Nil
          PROVE  dpc'[mu'[t]] = "remove" /\ target[mu'[t]] = t
      <4>1. CASE t = s
        BY <1>1, <2>4, <4>1
      <4>2. CASE t # s
        <5>1. mu'[t] = mu[t] /\ mu[t] \in Dumper
          BY <2>2, <2>4, <3>2, <4>2
        <5> QED  BY <1>1, <2>4, <3>2, <5>1 DEF PoolInv, RemoverOwns
      <4> QED  BY <4>1, <4>2
    <3> QED  BY <1>1, <2>4, <3>1, <3>2 DEF RemoverOwns, Nil
  <2>9. MapPointsToOwners' /\ FreeOnce'
    BY <1>1, <2>4 DEF PoolInv, MapPointsToOwners, FreeOnce
  <2>10. FreeIsClosed'
    <3>1. InFree \subseteq Stream
      BY <2>4 DEF PoolInv, FreeOnce
    <3> QED  BY <1>1, <2>4, <3>1 DEF PoolInv, FreeIsClosed
  <2>11. ClosedIsReturned'
    <3>1. ASSUME NEW t \in Allocated \ InFree, closed'[t]
          PROVE  \E e \in Dumper : /\ target[e] = t /\ dpc'[e] = "remove"
                                  /\ \A f \in Dumper \ {e} : target[f] = t => dpc'[f] # "remove"
      <4>1. CASE t = s
        BY <2>4, <2>5, <4>1
      <4>2. CASE t # s
        <5>1. closed[t] /\ t \in Stream
          BY <2>4, <3>1, <4>2
        <5>2. PICK e \in Dumper : /\ target[e] = t /\ dpc[e] = "remove"
                                  /\ \A f \in Dumper \ {e} : target[f] = t => dpc[f] # "remove"
          BY <5>1 DEF PoolInv, ClosedIsReturned
        <5> QED  BY <1>1, <2>4, <4>2, <5>2
      <4> QED  BY <4>1, <4>2
    <3> QED  BY <1>1, <2>4, <3>1 DEF ClosedIsReturned
  <2>12. OpenHasDumper'
    <3>1. ASSUME NEW t \in Allocated \ InFree, ~closed'[t]
          PROVE  \E e \in Dumper : /\ target[e] = t
                                  /\ dpc'[e] \notin {"off", "drain", "discard", "done"}
      <4>1. ~closed[t] /\ t # s
        BY <2>4, <3>1
      <4>2. PICK e \in Dumper : target[e] = t /\ dpc[e] \notin {"off", "drain", "discard", "done"}
        BY <4>1 DEF PoolInv, OpenHasDumper
      <4> QED  BY <2>4, <4>2
    <3> QED  BY <1>1, <2>4, <3>1 DEF OpenHasDumper
  <2> QED  BY <2>6, <2>7, <2>8, <2>9, <2>10, <2>11, <2>12 DEF PoolInv
<1> QED  BY <1>2, <1>3
LEMMA CloseRemoveInv ==
    ASSUME PoolInv, NEW d \in Dumper, CloseRemove(d)
    PROVE  PoolInv'
<1> DEFINE s == target[d]
<1>1. /\ dpc[d] = "remove"
      /\ streams' = [streams EXCEPT ![key[s]] = Nil] /\ free' = Append(free, s)
      /\ mu' = [mu EXCEPT ![s] = Nil] /\ dpc' = [dpc EXCEPT ![d] = "loop"]
      /\ UNCHANGED <<allocated, nextAlloc, newConnectionCount, key, connMap, data, lastSeen,
                     closed, connVars, capVars, target, hand, side, finish, loaded, envVars>>
  BY DEF CloseRemove, Goto
<1>2. /\ s \in Stream /\ s \in Allocated /\ key[s] \in Key
      /\ mu[s] = d /\ closed[s] /\ s \notin InFree
  BY <1>1, DumpTypes DEF PoolInv, RemoverOwns
<1>3. /\ TypeOK /\ free \in Seq(Stream) /\ IsInjective(free) /\ Nil \notin Dumper
      /\ streams \in [Key -> Stream \cup {Nil}] /\ mu \in [Stream -> Dumper \cup {Nil}]
      /\ InFree \subseteq Allocated /\ Allocated \subseteq Stream
      /\ dpc \in [Dumper -> {"off", "loop", "select", "got", "stat", "store",
                             "close", "remove", "drain", "discard", "done"}]
  <2>1. TypeOK /\ allocated \in 0..MaxStreams /\ Nil \notin Dumper
    BY DEF PoolInv, TypeOK, Nil, Dumper
  <2>2. Allocated \subseteq Stream
    BY <2>1, NatAssumption DEF Allocated, Stream
  <2>3. IsInjective(free) /\ InFree \subseteq Allocated
    BY DEF PoolInv, FreeOnce
  <2> QED  BY <2>1, <2>2, <2>3 DEF TypeOK
<1>4. free' \in Seq(Stream) /\ IsInjective(free') /\ InFree' = InFree \cup {s}
  BY <1>1, <1>2, <1>3, AppendToInjective DEF InFree
<1>5. /\ Allocated' = Allocated
      /\ \A k \in Key : streams'[k] = (IF k = key[s] THEN Nil ELSE streams[k])
      /\ \A e \in Dumper : dpc'[e] = (IF e = d THEN "loop" ELSE dpc[e])
      /\ \A t \in Stream : mu'[t] = (IF t = s THEN Nil ELSE mu[t])
  BY <1>1, <1>2, <1>3 DEF Allocated
<1>6. TypeOK'
  <2>1. /\ streams' \in [Key -> Stream \cup {Nil}] /\ mu' \in [Stream -> Dumper \cup {Nil}]
        /\ dpc' \in [Dumper -> {"off", "loop", "select", "got", "stat", "store",
                                "close", "remove", "drain", "discard", "done"}]
    BY <1>1, <1>3
  <2> QED  BY <1>1, <1>3, <1>4, <2>1 DEF TypeOK, connVars, capVars, envVars
<1>7. RefsAreUsed'
  BY <1>1, <1>5 DEF PoolInv, RefsAreUsed, capVars
<1>8. RemoverOwns'
  <2>1. ASSUME NEW e \in Dumper, dpc'[e] = "remove"
        PROVE  mu'[target[e]] = e /\ closed[target[e]] /\ target[e] \notin InFree'
    <3>1. e # d /\ dpc[e] = "remove" /\ target[e] \in Stream
      BY <1>3, <1>5, <2>1 DEF PoolInv, RefsAreUsed
    <3>2. mu[target[e]] = e /\ closed[target[e]] /\ target[e] \notin InFree
      BY <3>1 DEF PoolInv, RemoverOwns
    <3>3. target[e] # s
      BY <1>2, <3>1, <3>2
    <3> QED  BY <1>4, <1>5, <3>1, <3>2, <3>3
  <2>2. ASSUME NEW t \in Stream, mu'[t] # Nil
        PROVE  dpc'[mu'[t]] = "remove" /\ target[mu'[t]] = t
    <3>1. t # s /\ mu'[t] = mu[t] /\ mu[t] \in Dumper
      BY <1>3, <1>5, <2>2
    <3>2. dpc[mu[t]] = "remove" /\ target[mu[t]] = t
      BY <2>2, <3>1 DEF PoolInv, RemoverOwns
    <3> QED  BY <1>5, <3>1, <3>2
  <2> QED  BY <1>1, <2>1, <2>2 DEF RemoverOwns, Nil
<1>9. MapPointsToOwners'
  <2>1. ASSUME NEW k \in Key, streams'[k] # Nil
        PROVE  key[streams'[k]] = k /\ streams'[k] \in Allocated \ InFree'
    <3>1. k # key[s] /\ streams'[k] = streams[k]
      BY <1>5, <2>1
    <3>2. key[streams[k]] = k /\ streams[k] \in Allocated \ InFree
      BY <2>1, <3>1 DEF PoolInv, MapPointsToOwners
    <3> QED  BY <1>4, <3>1, <3>2
  <2> QED  BY <1>1, <1>5, <2>1 DEF MapPointsToOwners, Nil
<1>10. FreeOnce' /\ FreeIsClosed'
  BY <1>1, <1>2, <1>3, <1>4, <1>5 DEF PoolInv, FreeOnce, FreeIsClosed
<1>11. ClosedIsReturned'
  <2>1. ASSUME NEW t \in Allocated \ InFree', closed[t]
        PROVE  \E e \in Dumper : /\ target[e] = t /\ dpc'[e] = "remove"
                                /\ \A f \in Dumper \ {e} : target[f] = t => dpc'[f] # "remove"
    <3>1. t # s /\ t \notin InFree
      BY <1>4, <2>1
    <3>2. PICK e \in Dumper : /\ target[e] = t /\ dpc[e] = "remove"
                            /\ \A f \in Dumper \ {e} : target[f] = t => dpc[f] # "remove"
      BY <2>1, <3>1 DEF PoolInv, ClosedIsReturned
    <3> QED  BY <1>5, <3>1, <3>2
  <2> QED  BY <1>1, <1>5, <2>1 DEF ClosedIsReturned
<1>12. OpenHasDumper'
  <2>1. ASSUME NEW t \in Allocated \ InFree', ~closed[t]
        PROVE  \E e \in Dumper : /\ target[e] = t
                                /\ dpc'[e] \notin {"off", "drain", "discard", "done"}
    <3>1. PICK e \in Dumper : target[e] = t /\ dpc[e] \notin {"off", "drain", "discard", "done"}
      BY <1>4, <2>1 DEF PoolInv, OpenHasDumper
    <3> QED  BY <1>5, <3>1
  <2> QED  BY <1>1, <1>5, <2>1 DEF OpenHasDumper
<1> QED  BY <1>6, <1>7, <1>8, <1>9, <1>10, <1>11, <1>12 DEF PoolInv

LEMMA NewStreamInv ==
    ASSUME PoolInv, NEW p \in Capturers, NewStream(p)
    PROVE  PoolInv'
<1> DEFINE grow == free = <<>>
           pool == IF grow THEN Grown ELSE free
           s    == pool[Len(pool)]
           n    == newConnectionCount + 1
           k    == pkt[p].key
           ts   == pkt[p].ts
<1>1. /\ cpc[p] = "create" /\ cpc' = [cpc EXCEPT ![p] = "check"]
      /\ grow => allocated + nextAlloc <= MaxStreams
      /\ n <= MaxConns /\ newConnectionCount' = n
      /\ allocated' = (IF grow THEN allocated + nextAlloc ELSE allocated)
      /\ nextAlloc' = (IF grow THEN 2 * nextAlloc ELSE nextAlloc)
      /\ free' = SubSeq(pool, 1, Len(pool) - 1)
      /\ streams' = [streams EXCEPT ![k] = s] /\ ref' = [ref EXCEPT ![p] = s]
      /\ UNCHANGED <<data, mu, pkt, hand, side, finish, loaded, envVars>>
  BY DEF NewStream
<1>2. /\ key' = [key EXCEPT ![s] = k]
      /\ connMap' = [connMap EXCEPT ![s] = @ \cup {k, Reverse(k)}]
      /\ waitClose' = [waitClose EXCEPT ![s] = {}]
      /\ connClosed' = [connClosed EXCEPT ![s] = FALSE]
      /\ Packets' = [Packets EXCEPT ![s] = [sd \in Side |-> 0]]
      /\ lastSeen' = [lastSeen EXCEPT ![s] = ts]
      /\ closed' = [closed EXCEPT ![s] = FALSE]
      /\ dpc' = [dpc EXCEPT ![n] = "loop"] /\ target' = [target EXCEPT ![n] = s]
  BY DEF NewStream, Reset
<1>3. /\ TypeOK /\ pkt[p] \in Packet /\ k \in Key /\ ts \in Time /\ Reverse(k) \in Key
      /\ allocated \in Nat /\ nextAlloc \in Nat \ {0} /\ MaxStreams \in Nat /\ MaxConns \in Nat
      /\ n \in Dumper /\ dpc[n] = "off" /\ Nil \notin Dumper /\ Nil \notin Stream
  <2>1. TypeOK /\ pkt[p] \in Packet
    BY <1>1 DEF PoolInv, RefsAreUsed
  <2>2. k \in Key /\ ts \in Time
    BY <2>1 DEF Packet
  <2>3. Reverse(k) \in Key
    BY <2>2 DEF Reverse, Key
  <2>4. /\ newConnectionCount \in Nat /\ allocated \in Nat /\ nextAlloc \in Nat \ {0}
        /\ MaxStreams \in Nat /\ MaxConns \in Nat
    BY <2>1, NatAssumption DEF TypeOK
  <2>5. n \in Dumper
    BY <1>1, <2>4 DEF Dumper
  <2>6. dpc[n] = "off"
    BY <2>4, <2>5 DEF PoolInv, RefsAreUsed
  <2> QED  BY <2>1, <2>2, <2>3, <2>4, <2>5, <2>6 DEF Nil, Dumper, Stream
<1>4. /\ pool \in Seq(Stream) /\ pool # <<>> /\ IsInjective(pool)
      /\ Range(pool) \subseteq Allocated' /\ Allocated \subseteq Allocated'
      /\ Allocated' \subseteq Stream
      /\ \A t \in Allocated' \ Range(pool) : t \in Allocated \ InFree
      /\ \A t \in Allocated \ InFree : t \notin Range(pool)
      /\ \A e \in Dumper : target[e] \in Range(pool) => closed[target[e]]
  <2>1. /\ free \in Seq(Stream) /\ IsInjective(free) /\ InFree \subseteq Allocated
        /\ allocated \in 0..MaxStreams
        /\ \A e \in Dumper : target[e] \in InFree => closed[target[e]]
    BY DEF PoolInv, TypeOK, FreeOnce, FreeIsClosed
  <2>2. CASE ~grow
    BY <1>1, <1>3, <2>1, <2>2 DEF InFree, Allocated, Stream
  <2>3. CASE grow
    <3>1. /\ Grown \in Seq(Stream) /\ Grown # <<>> /\ IsInjective(Grown)
          /\ Range(Grown) = (allocated + 1)..(allocated + nextAlloc)
      BY <1>1, <1>3, <2>3, GrownIsFresh
    <3>2. InFree = {}
      BY <2>3 DEF InFree, Range
    <3>3. \A e \in Dumper : target[e] \in 0..allocated
      <4>1. \A e \in Dumper : dpc[e] = "off" => target[e] = 0
        BY DEF PoolInv, RefsAreUsed, Nil
      <4>2. \A e \in Dumper : dpc[e] # "off" => target[e] \in 1..allocated
        BY DEF PoolInv, RefsAreUsed, Allocated
      <4> QED  BY <1>3, <4>1, <4>2
    <3> QED  BY <1>1, <1>3, <2>3, <3>1, <3>2, <3>3 DEF Allocated, Stream
  <2> QED  BY <2>2, <2>3
<1>5. /\ free' \in Seq(Stream) /\ IsInjective(free') /\ InFree' = Range(pool) \ {s}
      /\ s \in Stream /\ s \in Range(pool) /\ s \in Allocated' \ InFree'
  BY <1>1, <1>4, FrontOfInjective DEF InFree
<1> HIDE DEF s, pool, grow, n, k, ts
<1>6. /\ \A q \in Key : streams'[q] = (IF q = k THEN s ELSE streams[q])
      /\ \A t \in Stream : key'[t] = (IF t = s THEN k ELSE key[t])
      /\ \A t \in Stream : closed'[t] = (IF t = s THEN FALSE ELSE closed[t])
      /\ \A e \in Dumper : dpc'[e] = (IF e = n THEN "loop" ELSE dpc[e])
      /\ \A e \in Dumper : target'[e] = (IF e = n THEN s ELSE target[e])
      /\ \A q \in Capturers : cpc'[q] = (IF q = p THEN "check" ELSE cpc[q])
      /\ \A q \in Capturers : ref'[q] = (IF q = p THEN s ELSE ref[q])
  BY <1>1, <1>2, <1>3, <1>5 DEF TypeOK
\* No goroutine is closing s: it was free, or it is new.
<1>7. \A e \in Dumper : dpc[e] = "remove" => target[e] \in Allocated \ InFree /\ target[e] # s
  BY <1>4, <1>5 DEF PoolInv, RemoverOwns, RefsAreUsed
<1>8. TypeOK'
  <2>1. /\ allocated' \in 0..MaxStreams /\ nextAlloc' \in Nat \ {0}
        /\ newConnectionCount' \in 0..MaxConns
    BY <1>1, <1>3 DEF TypeOK, Dumper
  <2>2. /\ streams' \in [Key -> Stream \cup {Nil}] /\ key' \in [Stream -> Key \cup {NoKey}]
        /\ connMap' \in [Stream -> SUBSET Key] /\ lastSeen' \in [Stream -> Time]
        /\ closed' \in [Stream -> BOOLEAN] /\ waitClose' \in [Stream -> SUBSET Side]
        /\ connClosed' \in [Stream -> BOOLEAN]
    BY <1>1, <1>2, <1>3, <1>5 DEF TypeOK
  <2>3. Packets' \in [Stream -> [Side -> Nat]]
    BY <1>2, <1>3 DEF TypeOK
  <2>4. /\ cpc' \in [Capturers -> {"idle", "create", "check", "send"}]
        /\ ref' \in [Capturers -> Stream \cup {Nil}]
        /\ dpc' \in [Dumper -> {"off", "loop", "select", "got", "stat", "store",
                                "close", "remove", "drain", "discard", "done"}]
        /\ target' \in [Dumper -> Stream \cup {Nil}]
    BY <1>1, <1>2, <1>3, <1>5 DEF TypeOK
  <2> QED  BY <1>1, <1>3, <1>5, <2>1, <2>2, <2>3, <2>4 DEF TypeOK, envVars
<1>9. RefsAreUsed'
  <2>1. ASSUME NEW q \in Capturers
        PROVE  /\ cpc'[q] # "idle" => pkt'[q] \in Packet
               /\ cpc'[q] \in {"check", "send"} => ref'[q] \in Allocated'
    BY <1>1, <1>3, <1>4, <1>5, <1>6 DEF PoolInv, RefsAreUsed
  <2>2. ASSUME NEW e \in Dumper
        PROVE  /\ dpc'[e] = "off" <=> e > newConnectionCount'
               /\ dpc'[e] = "off" => target'[e] = Nil
               /\ dpc'[e] # "off" => target'[e] \in Allocated' /\ key'[target'[e]] \in Key
               /\ dpc'[e] \in {"got", "stat"} => hand'[e] \in Packet
    <3>1. CASE e = n
      BY <1>1, <1>3, <1>5, <1>6, <3>1 DEF Dumper
    <3>2. CASE e # n
      <4>1. dpc[e] = "off" <=> e > newConnectionCount
        BY DEF PoolInv, RefsAreUsed
      <4>2. dpc'[e] = "off" <=> e > newConnectionCount'
        <5>1. newConnectionCount \in Nat /\ e \in Nat
          BY <1>3, NatAssumption DEF TypeOK, Dumper
        <5>2. e > newConnectionCount <=> e > newConnectionCount + 1
          BY <3>2, <5>1 DEF n
        <5> QED  BY <1>1, <1>6, <3>2, <4>1, <5>2 DEF n
      <4>3. dpc[e] # "off" => target[e] \in Allocated' /\ target[e] \in Stream
                              /\ key[target[e]] \in Key
        BY <1>4 DEF PoolInv, RefsAreUsed
      <4> QED  BY <1>1, <1>3, <1>6, <3>2, <4>2, <4>3 DEF PoolInv, RefsAreUsed
    <3> QED  BY <3>1, <3>2
  <2> QED  BY <2>1, <2>2 DEF RefsAreUsed
<1>10. RemoverOwns'
  <2>1. ASSUME NEW e \in Dumper, dpc'[e] = "remove"
        PROVE  mu'[target'[e]] = e /\ closed'[target'[e]] /\ target'[e] \notin InFree'
    <3>1. e # n /\ dpc[e] = "remove" /\ target'[e] = target[e]
      BY <1>6, <2>1
    <3>2. target[e] \in Allocated \ InFree /\ target[e] # s /\ target[e] \in Stream
      BY <1>4, <1>7, <3>1
    <3>3. mu[target[e]] = e /\ closed[target[e]]
      BY <3>1 DEF PoolInv, RemoverOwns
    <3> QED  BY <1>1, <1>4, <1>5, <1>6, <3>1, <3>2, <3>3
  <2>2. ASSUME NEW t \in Stream, mu'[t] # Nil'
        PROVE  dpc'[mu'[t]] = "remove" /\ target'[mu'[t]] = t
    <3>1. mu[t] \in Dumper /\ mu'[t] = mu[t]
      BY <1>1, <1>3, <2>2 DEF TypeOK, Nil
    <3>2. dpc[mu[t]] = "remove" /\ target[mu[t]] = t
      BY <1>1, <2>2 DEF PoolInv, RemoverOwns, Nil
    <3> QED  BY <1>3, <1>6, <3>1, <3>2
  <2> QED  BY <2>1, <2>2 DEF RemoverOwns
<1>11. MapPointsToOwners'
  <2>1. ASSUME NEW q \in Key, streams'[q] # Nil
        PROVE  key'[streams'[q]] = q /\ streams'[q] \in Allocated' \ InFree'
    <3>1. CASE q = k
      BY <1>5, <1>6, <3>1
    <3>2. CASE q # k
      <4>1. streams'[q] = streams[q]
        BY <1>6, <3>2
      <4>2. key[streams[q]] = q /\ streams[q] \in Allocated \ InFree
        BY <2>1, <4>1 DEF PoolInv, MapPointsToOwners
      <4> QED  BY <1>4, <1>5, <1>6, <4>1, <4>2
    <3> QED  BY <3>1, <3>2
  <2> QED  BY <2>1 DEF MapPointsToOwners, Nil
<1>12. FreeOnce'
  BY <1>4, <1>5 DEF FreeOnce
<1>13. FreeIsClosed'
  BY <1>4, <1>5, <1>6 DEF FreeIsClosed
<1>14. ClosedIsReturned'
  <2>1. ASSUME NEW t \in Allocated' \ InFree', closed'[t]
        PROVE  \E e \in Dumper :
                   /\ target'[e] = t /\ dpc'[e] = "remove"
                   /\ \A f \in Dumper \ {e} : target'[f] = t => dpc'[f] # "remove"
    <3>1. t # s /\ t \in Allocated \ InFree /\ closed[t]
      BY <1>4, <1>5, <1>6, <2>1
    <3>2. PICK e \in Dumper : /\ target[e] = t /\ dpc[e] = "remove"
                            /\ \A f \in Dumper \ {e} : target[f] = t => dpc[f] # "remove"
      BY <3>1 DEF PoolInv, ClosedIsReturned
    <3> QED  BY <1>3, <1>6, <3>1, <3>2
  <2> QED  BY <2>1 DEF ClosedIsReturned
<1>15. OpenHasDumper'
  <2>1. ASSUME NEW t \in Allocated' \ InFree', ~closed'[t]
        PROVE  \E e \in Dumper : /\ target'[e] = t
                                /\ dpc'[e] \notin {"off", "drain", "discard", "done"}
    <3>1. CASE t = s
      BY <1>3, <1>6, <3>1
    <3>2. CASE t # s
      <4>1. t \in Allocated \ InFree /\ ~closed[t]
        BY <1>4, <1>5, <1>6, <2>1, <3>2
      <4>2. PICK e \in Dumper : target[e] = t /\ dpc[e] \notin {"off", "drain", "discard", "done"}
        BY <4>1 DEF PoolInv, OpenHasDumper
      <4> QED  BY <1>3, <1>6, <4>2
    <3> QED  BY <3>1, <3>2
  <2> QED  BY <2>1 DEF OpenHasDumper
<1> QED  BY <1>8, <1>9, <1>10, <1>11, <1>12, <1>13, <1>14, <1>15 DEF PoolInv
-----------------------------------------------------------------------------
(* The invariant of the pool.                                               *)

LEMMA InitInv == Init => PoolInv
<1> SUFFICES ASSUME Init PROVE PoolInv
  OBVIOUS
<1>1. /\ Allocated = {} /\ InFree = {} /\ 0 \in Time /\ "c2s" \in Side
      /\ MaxStreams \in Nat /\ MaxConns \in Nat /\ MaxPackets \in Nat
      /\ InitialAlloc \in Nat \ {0}
  BY NatAssumption DEF Init, Allocated, InFree, Range, Time, Side
<1>2. TypeOK
  <2>1. free \in Seq(Stream) /\ data \in [Stream -> Seq(Packet)]
    BY DEF Init
  <2>2. Packets \in [Stream -> [Side -> Nat]]
    BY DEF Init
  <2> QED  BY <1>1, <2>1, <2>2 DEF Init, TypeOK
<1>3. RefsAreUsed
  BY NatAssumption DEF Init, RefsAreUsed, Dumper
<1>4. RemoverOwns /\ MapPointsToOwners /\ FreeOnce /\ FreeIsClosed
      /\ ClosedIsReturned /\ OpenHasDumper
  BY <1>1 DEF Init, RemoverOwns, MapPointsToOwners, FreeOnce, IsInjective, FreeIsClosed,
              ClosedIsReturned, OpenHasDumper, Nil
<1> QED  BY <1>2, <1>3, <1>4 DEF PoolInv

LEMMA StutterInv ==
    ASSUME PoolInv, UNCHANGED vars
    PROVE  PoolInv'
<1>1. UNCHANGED <<streams, free, allocated, nextAlloc, newConnectionCount, key, connMap, data,
                  lastSeen, closed, mu, waitClose, connClosed, Packets, cpc, pkt, ref,
                  dpc, target, hand, side, finish, loaded, now, captured>>
  BY DEF vars, poolVars, connVars, capVars, dumpVars, envVars
<1>2. TypeOK'
  BY <1>1 DEF PoolInv, TypeOK
<1>3. RefsAreUsed'
  BY <1>1 DEF PoolInv, RefsAreUsed, Allocated
<1> QED  BY <1>1, <1>2, <1>3, CaptureQuietStep DEF dumpVars

LEMMA NextInv == PoolInv /\ [Next]_vars => PoolInv'
<1> SUFFICES ASSUME PoolInv, [Next]_vars PROVE PoolInv'
  OBVIOUS
<1>1. ASSUME NEW p \in Capturers, CaptureStep(p) PROVE PoolInv'
  BY <1>1, CaptureInv, NewStreamInv, HandleCheckInv, SendInv DEF CaptureStep
<1>2. ASSUME NEW d \in Dumper, DumpStep(d) PROVE PoolInv'
  BY <1>2, LoopInv, ReceiveInv, TickInv, DumpDataInv, StatLoadInv, StatStoreInv,
     CloseEnterInv, CloseRemoveInv, DrainInv, DiscardInv DEF DumpStep
<1>3. CASE Clock
  BY <1>3, ClockInv
<1>4. CASE TrafficOver
  BY <1>4, StutterInv DEF TrafficOver
<1>5. CASE UNCHANGED vars
  BY <1>5, StutterInv
<1> QED  BY <1>1, <1>2, <1>3, <1>4, <1>5 DEF Next

\* However captures, closes, timeouts and re-uses of streams interleave, the
\* pool's map, its free list, the streams' locks and flags and the goroutines
\* stay consistent (streampool.go, stream.go: newStream, getStream, close,
\* remove).
THEOREM PoolInvariant == Spec => []PoolInv
<1>1. Init => PoolInv
  BY InitInv
<1>2. PoolInv /\ [Next]_vars => PoolInv'
  BY NextInv
<1> QED  BY <1>1, <1>2, PTL DEF Spec

\* Every variable keeps its type: the type invariant of the model.
THEOREM TypeCorrect == Spec => []TypeOK
<1>1. PoolInv => TypeOK
  BY DEF PoolInv
<1> QED  BY <1>1, PoolInvariant, PTL

\* getStream never finds a stream that is free or that serves another
\* connection, although it looks the map up outside stream.mu.
THEOREM MapIsSound == Spec => []MapPointsToOwners
<1>1. PoolInv => MapPointsToOwners
  BY DEF PoolInv
<1> QED  BY <1>1, PoolInvariant, PTL

\* The free list never holds a stream twice: no object is given to two
\* connections by newStream, however many dump goroutines close it.
THEOREM NoDoubleFree == Spec => []FreeOnce
<1>1. PoolInv => FreeOnce
  BY DEF PoolInv
<1> QED  BY <1>1, PoolInvariant, PTL

\* A stream that close has marked is free again or about to be returned, by
\* exactly one goroutine: the pool loses no stream.
THEOREM NoLostStream == Spec => []ClosedIsReturned
<1>1. PoolInv => ClosedIsReturned
  BY DEF PoolInv
<1> QED  BY <1>1, PoolInvariant, PTL

\* An open stream always has a goroutine still in the loop of dump, so that
\* its timeout is looked at: the safety half of StreamEventuallyCloses.
THEOREM OpenIsServed == Spec => []OpenHasDumper
<1>1. PoolInv => OpenHasDumper
  BY DEF PoolInv
<1> QED  BY <1>1, PoolInvariant, PTL

-----------------------------------------------------------------------------
(* The pool implements StreamLifecycle.                                     *)

LEMMA InitLifecycle == Init => Lifecycle!Init
BY NatAssumption DEF Init, Lifecycle!Init, lifeOf, Allocated

\* A step that changes neither the pool nor closed changes no life.
LEMMA SameLife ==
    ASSUME UNCHANGED <<free, allocated, closed>>
    PROVE  lifeOf' = lifeOf
BY DEF lifeOf, Allocated, InFree

LEMMA NewStreamLifecycle ==
    ASSUME PoolInv, NEW p \in Capturers, NewStream(p)
    PROVE  \E s \in Stream : Lifecycle!Acquire(s)
<1> DEFINE grow == free = <<>>
           pool == IF grow THEN Grown ELSE free
           s    == pool[Len(pool)]
<1>1. /\ grow => allocated + nextAlloc <= MaxStreams
      /\ allocated' = (IF grow THEN allocated + nextAlloc ELSE allocated)
      /\ free' = SubSeq(pool, 1, Len(pool) - 1)
      /\ closed' = [closed EXCEPT ![s] = FALSE]
  BY DEF NewStream, Reset
<1>2. /\ TypeOK /\ FreeOnce /\ allocated \in Nat /\ nextAlloc \in Nat \ {0} /\ MaxStreams \in Nat
      /\ closed \in [Stream -> BOOLEAN] /\ free \in Seq(Stream) /\ allocated <= MaxStreams
  BY NatAssumption DEF PoolInv, TypeOK
<1>3. /\ pool \in Seq(Stream) /\ pool # <<>> /\ IsInjective(pool)
      /\ Range(pool) \subseteq Allocated' /\ Allocated \subseteq Allocated'
      /\ Range(pool) = InFree \cup (Allocated' \ Allocated) /\ InFree \subseteq Allocated
  <2>1. CASE ~grow
    BY <1>1, <1>2, <2>1 DEF InFree, Allocated, FreeOnce
  <2>2. CASE grow
    <3>1. /\ Grown \in Seq(Stream) /\ Grown # <<>> /\ IsInjective(Grown)
          /\ Range(Grown) = (allocated + 1)..(allocated + nextAlloc)
      BY <1>1, <1>2, <2>2, GrownIsFresh
    <3>2. InFree = {}
      BY <2>2 DEF InFree, Range
    <3> QED  BY <1>1, <1>2, <2>2, <3>1, <3>2 DEF Allocated
  <2> QED  BY <2>1, <2>2
<1>4. /\ InFree' = Range(pool) \ {s} /\ s \in Stream /\ s \in Range(pool)
  BY <1>1, <1>3, FrontOfInjective DEF InFree
<1> HIDE DEF s, pool, grow
<1>5. \A t \in Stream : closed'[t] = (IF t = s THEN FALSE ELSE closed[t])
  BY <1>1, <1>2
<1>6. /\ lifeOf[s] \in {"none", "free"} /\ lifeOf'[s] = "open"
      /\ lifeOf' \in [Stream -> Lifecycle!State]
  BY <1>3, <1>4, <1>5 DEF lifeOf, Lifecycle!State
<1>7. ASSUME NEW t \in Stream \ {s}
      PROVE  \/ lifeOf'[t] = lifeOf[t]
             \/ lifeOf[t] = "none" /\ lifeOf'[t] = "free"
  BY <1>3, <1>4, <1>5 DEF lifeOf
<1> QED  BY <1>4, <1>6, <1>7 DEF Lifecycle!Acquire

LEMMA CloseEnterLifecycle ==
    ASSUME PoolInv, NEW d \in Dumper, CloseEnter(d)
    PROVE  lifeOf' = lifeOf \/ Lifecycle!Close(target[d])
<1> DEFINE s == target[d]
<1>1. s \in Stream /\ s \in Allocated /\ closed \in [Stream -> BOOLEAN]
      /\ UNCHANGED <<free, allocated>>
  BY DumpTypes DEF CloseEnter, poolVars
<1>2. CASE closed[s]
  BY <1>1, <1>2, SameLife DEF CloseEnter
<1>3. CASE ~closed[s]
  <2>1. s \notin InFree
    BY <1>3 DEF PoolInv, FreeIsClosed
  <2>2. closed' = [closed EXCEPT ![s] = TRUE]
    BY <1>3 DEF CloseEnter
  <2>3. lifeOf[s] = "open"
    BY <1>1, <1>3, <2>1 DEF lifeOf
  <2>4. lifeOf' = [lifeOf EXCEPT ![s] = "closing"]
    BY <1>1, <2>1, <2>2 DEF lifeOf, Allocated, InFree
  <2> QED  BY <2>3, <2>4 DEF Lifecycle!Close
<1> QED  BY <1>2, <1>3

LEMMA CloseRemoveLifecycle ==
    ASSUME PoolInv, NEW d \in Dumper, CloseRemove(d)
    PROVE  Lifecycle!Release(target[d])
<1> DEFINE s == target[d]
<1>1. dpc[d] = "remove" /\ UNCHANGED <<allocated, closed>> /\ free' = Append(free, s)
  BY DEF CloseRemove
<1>2. s \in Stream /\ s \in Allocated /\ closed[s] /\ s \notin InFree
  BY <1>1, DumpTypes DEF PoolInv, RemoverOwns
<1>3. free \in Seq(Stream) /\ IsInjective(free)
  BY DEF PoolInv, TypeOK, FreeOnce
<1>4. InFree' = InFree \cup {s}
  BY <1>1, <1>2, <1>3, AppendToInjective DEF InFree
<1>5. Allocated' = Allocated
  BY <1>1 DEF Allocated
<1>6. lifeOf[s] = "closing"
  BY <1>2 DEF lifeOf
<1>7. lifeOf' = [lifeOf EXCEPT ![s] = "free"]
  BY <1>1, <1>2, <1>4, <1>5 DEF lifeOf
<1> QED  BY <1>6, <1>7 DEF Lifecycle!Release

LEMMA NextLifecycle == PoolInv /\ [Next]_vars => [Lifecycle!Next]_lifeOf
<1> SUFFICES ASSUME PoolInv, [Next]_vars
             PROVE  Lifecycle!Next \/ lifeOf' = lifeOf
  OBVIOUS
<1>1. ASSUME NEW p \in Capturers, CaptureStep(p)
      PROVE  Lifecycle!Next \/ lifeOf' = lifeOf
  <2>1. CASE NewStream(p)
    BY <2>1, NewStreamLifecycle DEF Lifecycle!Next
  <2>2. CASE Capture(p) \/ HandleCheck(p) \/ Send(p)
    BY <2>2, SameLife DEF Capture, HandleCheck, Send, poolVars
  <2> QED  BY <1>1, <2>1, <2>2 DEF CaptureStep
<1>2. ASSUME NEW d \in Dumper, DumpStep(d)
      PROVE  Lifecycle!Next \/ lifeOf' = lifeOf
  <2>1. CASE CloseEnter(d)
    <3>1. target[d] \in Stream
      BY <2>1, DumpTypes DEF CloseEnter
    <3> QED  BY <2>1, <3>1, CloseEnterLifecycle DEF Lifecycle!Next
  <2>2. CASE CloseRemove(d)
    <3>1. target[d] \in Stream
      BY <2>2, DumpTypes DEF CloseRemove
    <3> QED  BY <2>2, <3>1, CloseRemoveLifecycle DEF Lifecycle!Next
  <2>3. CASE Loop(d) \/ Receive(d) \/ Tick(d) \/ DumpData(d) \/ StatLoad(d) \/ StatStore(d)
             \/ Drain(d) \/ Discard(d)
    BY <2>3, SameLife
       DEF Loop, Receive, Tick, DumpData, StatLoad, StatStore, Drain, Discard, poolVars
  <2> QED  BY <1>2, <2>1, <2>2, <2>3 DEF DumpStep
<1>3. CASE Clock \/ UNCHANGED vars \/ TrafficOver
  BY <1>3, SameLife DEF Clock, TrafficOver, vars, poolVars
<1> QED  BY <1>1, <1>2, <1>3 DEF Next

\* Every behaviour of the pool and its goroutines is, seen per stream object,
\* a behaviour of StreamLifecycle: acquired when free or new, closed once,
\* returned once, never returned open and never closed free.
THEOREM PoolImplementsLifecycle == Spec => LifecycleSpec
<1>1. Init => Lifecycle!Init
  BY InitLifecycle
<1>2. PoolInv /\ [Next]_vars => [Lifecycle!Next]_lifeOf
  BY NextLifecycle
<1> QED  BY <1>1, <1>2, PoolInvariant, PTL DEF Spec, LifecycleSpec, Lifecycle!Spec
=============================================================================
