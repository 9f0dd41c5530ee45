---------------------------- MODULE StreamProofs -----------------------------
(***************************************************************************)
(* What holds of single streams, on top of the pool's invariant: a channel *)
(* that holds one packet of every capture goroutine never blocks one for   *)
(* want of a receiver, and one capture goroutine alone never opens a       *)
(* connection twice.                                                       *)
(***************************************************************************)
EXTENDS TcpAssemblyProofs, FiniteSetTheorems

\* Capture goroutines between the test of closed and the send.
Senders(s) == {p \in Capturers : cpc[p] = "send" /\ ref[p] = s}

Serves(d, s) == target[d] = s /\ dpc[d] \notin {"off", "done"}
Deserted(s)  == \A d \in Dumper : ~Serves(d, s)

\* What is in the channel of a stream that no dump goroutine serves, or on its
\* way there, was found when its last one left: at most one packet of each.
DesertedHasRoom ==
    \A s \in Stream : Deserted(s) =>
        Len(data[s]) + Cardinality(Senders(s)) <= Cardinality(Capturers)

\* A stream in the hand of a capture goroutine was handed out before.
RefsWereServed ==
    \A p \in Capturers : cpc[p] \in {"check", "send"} =>
        \E d \in Dumper : target[d] = ref[p]

ChannelInv == PoolInv /\ DesertedHasRoom /\ RefsWereServed

-----------------------------------------------------------------------------
(* What the steps below rely on.                                            *)

LEMMA ChannelTypes ==
    ASSUME PoolInv
    PROVE  /\ cpc \in [Capturers -> {"idle", "create", "check", "send"}]
           /\ ref \in [Capturers -> Stream \cup {Nil}]
           /\ data \in [Stream -> Seq(Packet)]
           /\ dpc \in [Dumper -> {"off", "loop", "select", "got", "stat", "store",
                                  "close", "remove", "drain", "discard", "done"}]
           /\ target \in [Dumper -> Stream \cup {Nil}]
           /\ \A s \in Stream : Len(data[s]) \in Nat /\ s # Nil
           /\ \A d \in Dumper : dpc[d] = "off" => target[d] = Nil
           /\ \A d \in Dumper : dpc[d] # "off" => target[d] \in Stream
           /\ \A p \in Capturers : cpc[p] \in {"check", "send"} => ref[p] \in Stream
<1>1. TypeOK /\ RefsAreUsed /\ MaxStreams \in Nat
  BY NatAssumption DEF PoolInv
<1>2. /\ cpc \in [Capturers -> {"idle", "create", "check", "send"}]
      /\ ref \in [Capturers -> Stream \cup {Nil}]
      /\ data \in [Stream -> Seq(Packet)]
      /\ dpc \in [Dumper -> {"off", "loop", "select", "got", "stat", "store",
                             "close", "remove", "drain", "discard", "done"}]
      /\ target \in [Dumper -> Stream \cup {Nil}]
  BY <1>1 DEF TypeOK
<1>3. \A s \in Stream : Len(data[s]) \in Nat /\ s # Nil
  BY <1>2 DEF Stream, Nil
<1>4. \A s \in Allocated : s \in Stream
  BY <1>1 DEF TypeOK, Allocated, Stream
<1> QED  BY <1>1, <1>2, <1>3, <1>4 DEF RefsAreUsed

LEMMA SendersAreFew ==
    ASSUME NEW s
    PROVE  /\ IsFiniteSet(Senders(s)) /\ Cardinality(Senders(s)) \in Nat
           /\ Cardinality(Capturers) \in Nat
           /\ Cardinality(Senders(s)) <= Cardinality(Capturers)
<1>1. IsFiniteSet(Capturers) /\ Senders(s) \in SUBSET Capturers
  BY CapturersAssumption DEF Senders
<1> QED  BY <1>1, FS_Subset, FS_CardinalityType

\* An allocated stream outside of the free list has been handed out.
LEMMA HandedOut ==
    ASSUME PoolInv, NEW s \in Allocated \ InFree
    PROVE  \E d \in Dumper : target[d] = s
<1>1. CASE closed[s]
  BY <1>1 DEF PoolInv, ClosedIsReturned
<1>2. CASE ~closed[s]
  BY <1>2 DEF PoolInv, OpenHasDumper
<1> QED  BY <1>1, <1>2

\* Nobody who finds a stream open finds it deserted.
LEMMA OpenIsNotDeserted ==
    ASSUME ChannelInv, NEW p \in Capturers, cpc[p] = "check", ~closed[ref[p]]
    PROVE  ~Deserted(ref[p])
<1>1. PICK d \in Dumper : target[d] = ref[p]
  BY DEF ChannelInv, RefsWereServed
<1>2. ref[p] \in Allocated \ InFree
  BY <1>1 DEF ChannelInv, PoolInv, FreeIsClosed, RefsAreUsed
<1>3. PICK e \in Dumper : target[e] = ref[p] /\ dpc[e] \notin {"off", "drain", "discard", "done"}
  BY <1>2 DEF ChannelInv, PoolInv, OpenHasDumper
<1> QED  BY <1>3 DEF Deserted, Serves

-----------------------------------------------------------------------------
(* The capture goroutines' steps.                                           *)

LEMMA SendersStay ==
    ASSUME UNCHANGED <<data, dpc, target>>, DesertedHasRoom,
           \A s \in Stream : Deserted(s) => Senders(s)' \subseteq Senders(s),
           PoolInv
    PROVE  DesertedHasRoom'
<1> SUFFICES ASSUME NEW s \in Stream, Deserted(s)'
             PROVE  (Len(data[s]) + Cardinality(Senders(s)) <= Cardinality(Capturers))'
  BY DEF DesertedHasRoom
<1>1. Deserted(s)
  BY DEF Deserted, Serves
<1>2. Senders(s)' \in SUBSET Senders(s) /\ Len(data[s]) \in Nat /\ data'[s] = data[s]
  BY <1>1, ChannelTypes
<1>3. Cardinality(Senders(s)') <= Cardinality(Senders(s)) /\ Cardinality(Senders(s)') \in Nat
  BY <1>2, SendersAreFew, FS_Subset, FS_CardinalityType
<1>4. Len(data[s]) + Cardinality(Senders(s)) <= Cardinality(Capturers)
  BY <1>1 DEF DesertedHasRoom
<1> QED  BY <1>2, <1>3, <1>4, SendersAreFew

LEMMA CaptureRoom ==
    ASSUME ChannelInv, NEW p \in Capturers, Capture(p)
    PROVE  DesertedHasRoom' /\ RefsWereServed'
<1> USE DEF ChannelInv
<1>1. PICK k \in Key :
        \/ /\ Lookup(k) # Nil
           /\ cpc' = [cpc EXCEPT ![p] = "check"]
           /\ ref' = [ref EXCEPT ![p] = Lookup(k)]
        \/ cpc' = [cpc EXCEPT ![p] = "create"] /\ UNCHANGED ref
        \/ UNCHANGED <<cpc, ref>>
  BY DEF Capture, capVars
<1>2. /\ cpc \in [Capturers -> {"idle", "create", "check", "send"}]
      /\ ref \in [Capturers -> Stream \cup {Nil}] /\ cpc[p] = "idle"
      /\ UNCHANGED <<data, dpc, target>>
  BY ChannelTypes DEF Capture, dumpVars
<1>3. DesertedHasRoom'
  <2>1. \A s \in Stream : Senders(s)' \subseteq Senders(s)
    BY <1>1, <1>2 DEF Senders
  <2> QED  BY <1>2, <2>1, SendersStay
<1>4. RefsWereServed'
  <2>1. Reverse(k) \in Key
    BY DEF Reverse, Key
  <2>2. Lookup(k) # Nil => \E d \in Dumper : target[d] = Lookup(k)
    <3>1. Lookup(k) # Nil => Lookup(k) \in Allocated \ InFree
      BY <2>1 DEF Lookup, PoolInv, MapPointsToOwners
    <3> QED  BY <3>1, HandedOut
  <2>3. \A q \in Capturers : cpc'[q] \in {"check", "send"} => \E d \in Dumper : target[d] = ref'[q]
    BY <1>1, <1>2, <2>2 DEF RefsWereServed
  <2> QED  BY <1>2, <2>3 DEF RefsWereServed
<1> QED  BY <1>3, <1>4

LEMMA NewStreamRoom ==
    ASSUME ChannelInv, NEW p \in Capturers, NewStream(p)
    PROVE  DesertedHasRoom' /\ RefsWereServed'
<1> USE DEF ChannelInv
<1> DEFINE n == newConnectionCount + 1
<1>1. PICK s : /\ dpc' = [dpc EXCEPT ![n] = "loop"] /\ target' = [target EXCEPT ![n] = s]
               /\ ref' = [ref EXCEPT ![p] = s] /\ cpc' = [cpc EXCEPT ![p] = "check"]
               /\ UNCHANGED data /\ n <= MaxConns
  BY DEF NewStream, Reset
<1>2. n \in Dumper /\ dpc[n] = "off"
  <2>1. newConnectionCount \in Nat /\ MaxConns \in Nat
    BY NatAssumption DEF PoolInv, TypeOK
  <2>2. n \in Dumper /\ n > newConnectionCount
    BY <1>1, <2>1 DEF Dumper
  <2> QED  BY <2>2 DEF PoolInv, RefsAreUsed
<1> HIDE DEF n
<1>3. /\ cpc \in [Capturers -> {"idle", "create", "check", "send"}]
      /\ ref \in [Capturers -> Stream \cup {Nil}]
      /\ dpc \in [Dumper -> {"off", "loop", "select", "got", "stat", "store",
                             "close", "remove", "drain", "discard", "done"}]
      /\ target \in [Dumper -> Stream \cup {Nil}] /\ target[n] = Nil
      /\ \A t \in Stream : t # Nil
      /\ \A q \in Capturers : cpc[q] \in {"check", "send"} => ref[q] \in Stream
      /\ cpc[p] = "create"
  BY <1>2, ChannelTypes DEF NewStream
<1>4. \A t \in Stream : Deserted(t)' => Deserted(t)
  BY <1>1, <1>2, <1>3 DEF Deserted, Serves
<1>5. \A t : Senders(t)' = Senders(t)
  BY <1>1, <1>3 DEF Senders
<1>6. DesertedHasRoom'
  BY <1>1, <1>4, <1>5 DEF DesertedHasRoom
<1>7. RefsWereServed'
  <2>1. \A q \in Capturers : cpc'[q] \in {"check", "send"} => \E d \in Dumper : target'[d] = ref'[q]
    BY <1>1, <1>2, <1>3 DEF RefsWereServed
  <2> QED  BY <2>1 DEF RefsWereServed
<1> QED  BY <1>6, <1>7

LEMMA HandleCheckRoom ==
    ASSUME ChannelInv, NEW p \in Capturers, HandleCheck(p)
    PROVE  DesertedHasRoom' /\ RefsWereServed'
<1> USE DEF ChannelInv
<1>1. /\ cpc[p] = "check" /\ UNCHANGED <<data, dpc, target>>
      /\ cpc \in [Capturers -> {"idle", "create", "check", "send"}]
      /\ ref \in [Capturers -> Stream \cup {Nil}]
  BY ChannelTypes DEF HandleCheck, dumpVars
<1>2. \/ cpc' = [cpc EXCEPT ![p] = "idle"] /\ ref' = [ref EXCEPT ![p] = Nil]
      \/ ~closed[ref[p]] /\ cpc' = [cpc EXCEPT ![p] = "send"] /\ UNCHANGED ref
  BY DEF HandleCheck
<1>3. \A s \in Stream : Deserted(s) => Senders(s)' \subseteq Senders(s)
  <2>1. CASE cpc' = [cpc EXCEPT ![p] = "idle"] /\ ref' = [ref EXCEPT ![p] = Nil]
    BY <1>1, <2>1 DEF Senders
  <2>2. CASE ~closed[ref[p]] /\ cpc' = [cpc EXCEPT ![p] = "send"] /\ UNCHANGED ref
    <3>1. ~Deserted(ref[p])
      BY <1>1, <2>2, OpenIsNotDeserted
    <3> QED  BY <1>1, <2>2, <3>1 DEF Senders
  <2> QED  BY <1>2, <2>1, <2>2
<1>4. DesertedHasRoom'
  BY <1>1, <1>3, SendersStay
<1>5. RefsWereServed'
  <2>1. \A q \in Capturers : cpc'[q] \in {"check", "send"} => \E d \in Dumper : target[d] = ref'[q]
    BY <1>1, <1>2 DEF RefsWereServed
  <2> QED  BY <1>1, <2>1 DEF RefsWereServed
<1> QED  BY <1>4, <1>5

LEMMA SendRoom ==
    ASSUME ChannelInv, NEW p \in Capturers, Send(p)
    PROVE  DesertedHasRoom' /\ RefsWereServed'
<1> USE DEF ChannelInv
<1>1. /\ cpc[p] = "send" /\ ref[p] \in Stream /\ UNCHANGED <<dpc, target>>
      /\ cpc \in [Capturers -> {"idle", "create", "check", "send"}]
      /\ ref \in [Capturers -> Stream \cup {Nil}] /\ data \in [Stream -> Seq(Packet)]
      /\ cpc' = [cpc EXCEPT ![p] = "idle"] /\ ref' = [ref EXCEPT ![p] = Nil]
      /\ data' = [data EXCEPT ![ref[p]] = Append(@, pkt[p])]
  BY ChannelTypes DEF Send, dumpVars
<1>2. ASSUME NEW s \in Stream, Deserted(s)'
      PROVE  (Len(data[s]) + Cardinality(Senders(s)) <= Cardinality(Capturers))'
  <2>1. /\ Deserted(s) /\ Len(data[s]) \in Nat
        /\ Len(data[s]) + Cardinality(Senders(s)) <= Cardinality(Capturers)
    BY <1>1, <1>2, ChannelTypes DEF Deserted, Serves, DesertedHasRoom
  <2>2. CASE ref[p] = s
    <3>1. data'[s] = Append(data[s], pkt[p]) /\ Len(data'[s]) = Len(data[s]) + 1
      BY <1>1, <2>2
    <3>2. Senders(s)' = Senders(s) \ {p} /\ p \in Senders(s)
      BY <1>1, <2>2, ChannelTypes DEF Senders
    <3>3. Cardinality(Senders(s)') = Cardinality(Senders(s)) - 1
      BY <3>2, SendersAreFew, FS_RemoveElement
    <3> QED  BY <2>1, <3>1, <3>3, SendersAreFew
  <2>3. CASE ref[p] # s
    <3>1. data'[s] = data[s] /\ Senders(s)' = Senders(s)
      BY <1>1, <2>3, ChannelTypes DEF Senders
    <3> QED  BY <2>1, <3>1
  <2> QED  BY <2>2, <2>3
<1>3. RefsWereServed'
  <2>1. \A q \in Capturers : cpc'[q] \in {"check", "send"} => \E d \in Dumper : target[d] = ref'[q]
    BY <1>1 DEF RefsWereServed
  <2> QED  BY <1>1, <2>1 DEF RefsWereServed
<1> QED  BY <1>2, <1>3 DEF DesertedHasRoom

-----------------------------------------------------------------------------
(* The dump goroutines' steps: a channel only gets shorter, under a goroutine
   that goes on serving it, or is empty when one leaves.                      *)

LEMMA DumpRoom ==
    ASSUME ChannelInv, NEW d \in Dumper, DumpStep(d)
    PROVE  DesertedHasRoom' /\ RefsWereServed'
<1> USE DEF ChannelInv
<1> DEFINE t == target[d]
<1>1. UNCHANGED <<cpc, ref, target>> /\ dpc[d] \notin {"off", "done"}
  BY DEF DumpStep, Loop, Receive, Tick, DumpData, StatLoad, StatStore, CloseEnter,
         CloseRemove, Drain, Discard, capVars
<1>2. PICK l : /\ dpc' = [dpc EXCEPT ![d] = l]
               /\ l = "off" => FALSE
               /\ l = "done" => data[t] = <<>>
  <2>1. dpc' = [dpc EXCEPT ![d] = dpc'[d]]
    BY ChannelTypes DEF DumpStep, Loop, Receive, Tick, DumpData, StatLoad, StatStore, CloseEnter,
         CloseRemove, Drain, Discard, Goto
  <2>2. dpc'[d] # "off" /\ (dpc'[d] = "done" => data[t] = <<>>)
    BY ChannelTypes DEF DumpStep, Loop, Receive, Tick, DumpData, StatLoad, StatStore, CloseEnter,
         CloseRemove, Drain, Discard, Goto
  <2> QED  BY <2>1, <2>2
<1>3. /\ t \in Stream /\ data \in [Stream -> Seq(Packet)]
      /\ dpc \in [Dumper -> {"off", "loop", "select", "got", "stat", "store",
                             "close", "remove", "drain", "discard", "done"}]
  BY <1>1, ChannelTypes
<1>4. /\ \A s \in Stream \ {t} : data'[s] = data[s]
      /\ l = "done" => data'[t] = data[t]
  <2>1. UNCHANGED data \/ (Receive(d) \/ Discard(d))
    BY DEF DumpStep, Loop, Tick, DumpData, StatLoad, StatStore, CloseEnter, CloseRemove, Drain
  <2>2. Receive(d) \/ Discard(d) => dpc'[d] # "done" /\ data' = [data EXCEPT ![t] = Tail(@)]
    BY <1>3 DEF Receive, Discard, Goto
  <2> QED  BY <1>2, <1>3, <2>1, <2>2
<1>5. \A s : Senders(s)' = Senders(s)
  BY <1>1 DEF Senders
<1>6. ASSUME NEW s \in Stream, Deserted(s)'
      PROVE  (Len(data[s]) + Cardinality(Senders(s)) <= Cardinality(Capturers))'
  <2>1. CASE s # t
    <3>1. Deserted(s)
      BY <1>1, <1>2, <1>3, <1>6, <2>1 DEF Deserted, Serves
    <3> QED  BY <1>4, <1>5, <2>1, <3>1 DEF DesertedHasRoom
  <2>2. CASE s = t
    <3>1. l = "done"
      BY <1>1, <1>2, <1>3, <1>6, <2>2 DEF Deserted, Serves
    <3>2. data'[s] = <<>> /\ Len(data'[s]) = 0
      BY <1>2, <1>4, <2>2, <3>1
    <3> QED  BY <1>5, <3>2, SendersAreFew
  <2> QED  BY <2>1, <2>2
<1>7. RefsWereServed'
  BY <1>1 DEF RefsWereServed
<1> QED  BY <1>6, <1>7 DEF DesertedHasRoom

LEMMA ChannelStep ==
    ASSUME ChannelInv, [Next]_vars, PoolInv'
    PROVE  ChannelInv'
<1>1. CASE UNCHANGED <<cpc, ref, dpc, target, data>>
  BY <1>1 DEF ChannelInv, DesertedHasRoom, RefsWereServed, Deserted, Serves, Senders
<1>2. ASSUME NEW p \in Capturers, CaptureStep(p) PROVE ChannelInv'
  BY <1>2, CaptureRoom, NewStreamRoom, HandleCheckRoom, SendRoom DEF CaptureStep, ChannelInv
<1>3. ASSUME NEW d \in Dumper, DumpStep(d) PROVE ChannelInv'
  BY <1>3, DumpRoom DEF ChannelInv
<1>4. Clock \/ TrafficOver \/ UNCHANGED vars => UNCHANGED <<cpc, ref, dpc, target, data>>
  BY DEF Clock, TrafficOver, vars, capVars, dumpVars
<1> QED  BY <1>1, <1>2, <1>3, <1>4 DEF Next

LEMMA ChannelInit == Init => DesertedHasRoom /\ RefsWereServed
<1> SUFFICES ASSUME Init PROVE DesertedHasRoom /\ RefsWereServed
  OBVIOUS
<1>1. /\ \A s \in Stream : data[s] = <<>>
      /\ \A p \in Capturers : cpc[p] = "idle"
  BY DEF Init
<1>2. \A s \in Stream : Len(data[s]) = 0
  BY <1>1
<1> QED  BY <1>1, <1>2, SendersAreFew DEF DesertedHasRoom, RefsWereServed

\* The invariant the theorem below rests on.
THEOREM ChannelInvariant == Spec => []ChannelInv
<1>1. Init => DesertedHasRoom /\ RefsWereServed
  BY ChannelInit
<1>2. ChannelInv /\ [Next]_vars /\ PoolInv' => ChannelInv'
  BY ChannelStep
<1>3. PoolInv /\ DesertedHasRoom /\ RefsWereServed => ChannelInv
  BY DEF ChannelInv
<1> QED  BY <1>1, <1>2, <1>3, PoolInvariant, PTL DEF Spec

\* With a channel that holds one packet of every capture goroutine, whatever
\* closes, drains and re-uses streams, none waits on a full channel that
\* nobody will read (stream.go:138).
THEOREM NoSendIsStranded ==
    ASSUME ChanCap >= Cardinality(Capturers)
    PROVE  Spec => []FullChannelHasReceiver
<1>1. ChannelInv => FullChannelHasReceiver
  <2> SUFFICES ASSUME ChannelInv, NEW p \in Capturers, cpc[p] = "send",
                      Len(data[ref[p]]) = ChanCap, Deserted(ref[p])
               PROVE  FALSE
    BY DEF FullChannelHasReceiver, Deserted, Serves
  <2>1. ref[p] \in Stream
    BY ChannelTypes DEF ChannelInv
  <2>2. ChanCap + Cardinality(Senders(ref[p])) <= Cardinality(Capturers)
    BY <2>1 DEF ChannelInv, DesertedHasRoom
  <2>3. Senders(ref[p]) # {}
    BY DEF Senders
  <2>4. Cardinality(Senders(ref[p])) # 0
    BY <2>3, SendersAreFew, FS_EmptySet
  <2> QED  BY <2>2, <2>4, SendersAreFew, NatAssumption
<1> QED  BY <1>1, ChannelInvariant, PTL

-----------------------------------------------------------------------------
(* One stream for each connection, where one goroutine captures.            *)

\* The streams that serve a connection or are being closed.
InUse == Allocated \ InFree

\* They are found under their own key, and nothing under the reverse; and the
\* lookup that made a goroutine go on to newStream would still find nothing.
FoundUnderKey ==
    \A s \in InUse : streams[key[s]] = s /\ streams[Reverse(key[s])] = Nil
StillUnknown ==
    \A p \in Capturers : cpc[p] = "create" => Lookup(pkt[p].key) = Nil

LoneInv == PoolInv /\ FoundUnderKey /\ StillUnknown

LEMMA ReverseIsOther ==
    ASSUME NEW k \in Key
    PROVE  Reverse(k) \in Key /\ Reverse(Reverse(k)) = k /\ Reverse(k) # k
<1>1. PICK f \in Flows, i \in {0, 1} : k = <<f, i>>
  BY DEF Key
<1>2. Reverse(k) = <<f, 1 - i>> /\ 1 - i \in {0, 1} /\ 1 - i # i /\ 1 - (1 - i) = i
  BY <1>1 DEF Reverse
<1> QED  BY <1>1, <1>2 DEF Reverse, Key

LEMMA UsedTypes ==
    ASSUME PoolInv
    PROVE  /\ streams \in [Key -> Stream \cup {Nil}] /\ key \in [Stream -> Key \cup {NoKey}]
           /\ \A s \in InUse : s \in Stream /\ s # Nil /\ key[s] \in Key
           /\ \A p \in Capturers : cpc[p] = "create" => pkt[p].key \in Key
<1>1. TypeOK /\ RefsAreUsed /\ MaxStreams \in Nat
  BY NatAssumption DEF PoolInv
<1>2. \A s \in InUse : s \in Stream /\ s # Nil
  BY <1>1 DEF InUse, Allocated, TypeOK, Stream, Nil
<1>3. ASSUME NEW s \in InUse PROVE key[s] \in Key
  <2>1. PICK d \in Dumper : target[d] = s
    BY HandedOut DEF InUse
  <2> QED  BY <1>1, <1>2, <2>1 DEF RefsAreUsed
<1>4. \A p \in Capturers : cpc[p] = "create" => pkt[p].key \in Key
  BY <1>1 DEF RefsAreUsed, Packet
<1> QED  BY <1>1, <1>2, <1>3, <1>4 DEF TypeOK

\* newStream puts one stream to use that was not.
LEMMA NewStreamTakes ==
    ASSUME PoolInv, NEW p \in Capturers, NewStream(p)
    PROVE  \E s \in Stream \ InUse :
              /\ InUse' = InUse \cup {s}
              /\ key' = [key EXCEPT ![s] = pkt[p].key]
              /\ streams' = [streams EXCEPT ![pkt[p].key] = s]
<1> DEFINE grow == free = <<>>
           pool == IF grow THEN Grown ELSE free
           s    == pool[Len(pool)]
<1>1. /\ grow => allocated + nextAlloc <= MaxStreams
      /\ allocated' = (IF grow THEN allocated + nextAlloc ELSE allocated)
      /\ free' = SubSeq(pool, 1, Len(pool) - 1)
      /\ key' = [key EXCEPT ![s] = pkt[p].key]
      /\ streams' = [streams EXCEPT ![pkt[p].key] = s]
  BY DEF NewStream, Reset
<1>2. /\ TypeOK /\ FreeOnce /\ allocated \in Nat /\ nextAlloc \in Nat \ {0} /\ MaxStreams \in Nat
      /\ free \in Seq(Stream) /\ allocated <= MaxStreams
  BY NatAssumption DEF PoolInv, TypeOK
<1>3. /\ pool \in Seq(Stream) /\ pool # <<>> /\ IsInjective(pool)
      /\ Allocated \subseteq Allocated' /\ InFree \subseteq Allocated
      /\ Range(pool) = InFree \cup (Allocated' \ Allocated)
  <2>1. CASE ~grow
    BY <1>1, <1>2, <2>1 DEF InFree, Allocated, FreeOnce
  <2>2. CASE grow
    <3>1. /\ Grown \in Seq(Stream) /\ Grown # <<>> /\ IsInjective(Grown)
          /\ Range(Grown) = (allocated + 1)..(allocated + nextAlloc)
      BY <1>1, <1>2, <2>2, GrownIsFresh
    <3>2. InFree = {}
      BY <2>2 DEF InFree, Range
    <3> QED  BY <1>1, <1>2, <2>2, <3>1, <3>2 DEF Allocated
  <2> QED  BY <2>1, <2>2
<1>4. InFree' = Range(pool) \ {s} /\ s \in Stream /\ s \in Range(pool)
  BY <1>1, <1>3, FrontOfInjective DEF InFree
<1> HIDE DEF s, pool, grow
<1>5. s \notin InUse /\ InUse' = InUse \cup {s}
  BY <1>3, <1>4 DEF InUse
<1> QED  BY <1>1, <1>4, <1>5

LEMMA LoneNewStream ==
    ASSUME \A p, q \in Capturers : p = q, LoneInv, NEW p \in Capturers, NewStream(p)
    PROVE  FoundUnderKey' /\ StillUnknown'
<1> DEFINE k == pkt[p].key
<1>1. cpc[p] = "create" /\ cpc' = [cpc EXCEPT ![p] = "check"]
  BY DEF NewStream
<1>2. PICK s \in Stream \ InUse : /\ InUse' = InUse \cup {s}
                                  /\ key' = [key EXCEPT ![s] = k]
                                  /\ streams' = [streams EXCEPT ![k] = s]
  BY NewStreamTakes DEF LoneInv
<1>3. /\ streams \in [Key -> Stream \cup {Nil}] /\ key \in [Stream -> Key \cup {NoKey}]
      /\ \A t \in InUse : t \in Stream /\ t # Nil /\ key[t] \in Key
      /\ k \in Key
  BY <1>1, UsedTypes DEF LoneInv
<1>4. streams[k] = Nil /\ streams[Reverse(k)] = Nil
  BY <1>1 DEF LoneInv, StillUnknown, Lookup
<1> HIDE DEF k
<1>5. ASSUME NEW t \in InUse'
      PROVE  streams'[key'[t]] = t /\ streams'[Reverse(key'[t])] = Nil
  <2>1. CASE t = s
    <3>1. key'[t] = k /\ Reverse(k) # k /\ Reverse(k) \in Key
      BY <1>2, <1>3, <2>1, ReverseIsOther
    <3> QED  BY <1>2, <1>3, <1>4, <2>1, <3>1
  <2>2. CASE t # s
    <3>1. t \in InUse /\ key'[t] = key[t] /\ key[t] \in Key
          /\ streams[key[t]] = t /\ t # Nil /\ streams[Reverse(key[t])] = Nil
      BY <1>2, <1>3, <1>5, <2>2 DEF LoneInv, FoundUnderKey
    <3>2. key[t] # k /\ Reverse(key[t]) # k /\ Reverse(key[t]) \in Key
      BY <1>4, <3>1, ReverseIsOther
    <3> QED  BY <1>2, <1>3, <3>1, <3>2
  <2> QED  BY <2>1, <2>2
<1>6. StillUnknown'
  <2>1. \A q \in Capturers : q = p
    OBVIOUS
  <2>2. \A q \in Capturers : cpc'[q] # "create"
    <3>1. cpc \in [Capturers -> {"idle", "create", "check", "send"}]
      BY ChannelTypes DEF LoneInv
    <3> QED  BY <1>1, <2>1, <3>1
  <2> QED  BY <2>2 DEF StillUnknown
<1> QED  BY <1>5, <1>6 DEF FoundUnderKey

LEMMA LoneCapture ==
    ASSUME LoneInv, NEW p \in Capturers, Capture(p)
    PROVE  FoundUnderKey' /\ StillUnknown'
<1>1. UNCHANGED <<streams, free, allocated, key>>
  BY DEF Capture, poolVars
<1>2. FoundUnderKey'
  BY <1>1 DEF LoneInv, FoundUnderKey, InUse, InFree, Allocated
<1>3. PICK k \in Key, kind \in {"syn", "data", "end"} :
        \/ cpc' = [cpc EXCEPT ![p] = "check"] /\ pkt' = [pkt EXCEPT ![p] = [key |-> k, kind |-> kind, ts |-> now]]
        \/ /\ Lookup(k) = Nil /\ cpc' = [cpc EXCEPT ![p] = "create"]
           /\ pkt' = [pkt EXCEPT ![p] = [key |-> k, kind |-> kind, ts |-> now]]
        \/ UNCHANGED <<cpc, pkt>>
  BY DEF Capture, capVars
<1>4. /\ cpc \in [Capturers -> {"idle", "create", "check", "send"}]
      /\ pkt \in [Capturers -> Packet \cup {NoPacket}]
  BY DEF LoneInv, PoolInv, TypeOK
<1>5. \A q \in Capturers : cpc'[q] = "create" => Lookup(pkt'[q].key) = Nil
  BY <1>3, <1>4 DEF LoneInv, StillUnknown
<1> QED  BY <1>1, <1>2, <1>5 DEF StillUnknown, Lookup

LEMMA LoneCloseRemove ==
    ASSUME LoneInv, NEW d \in Dumper, CloseRemove(d)
    PROVE  FoundUnderKey' /\ StillUnknown'
<1> DEFINE s == target[d]
<1>1. /\ dpc[d] = "remove" /\ UNCHANGED <<allocated, key, cpc, pkt>> /\ free' = Append(free, s)
      /\ streams' = [streams EXCEPT ![key[s]] = Nil]
  BY DEF CloseRemove, capVars
<1>2. s \in Stream /\ s \in Allocated /\ s \notin InFree /\ key[s] \in Key
  BY <1>1, DumpTypes DEF LoneInv, PoolInv, RemoverOwns
<1>3. free \in Seq(Stream) /\ IsInjective(free)
  BY DEF LoneInv, PoolInv, TypeOK, FreeOnce
<1>4. InUse' = InUse \ {s}
  <2>1. InFree' = InFree \cup {s}
    BY <1>1, <1>2, <1>3, AppendToInjective DEF InFree
  <2> QED  BY <1>1, <2>1 DEF InUse, Allocated
<1>5. /\ streams \in [Key -> Stream \cup {Nil}]
      /\ \A t \in InUse : t \in Stream /\ t # Nil /\ key[t] \in Key
      /\ \A p \in Capturers : cpc[p] = "create" => pkt[p].key \in Key
  BY UsedTypes DEF LoneInv
<1>6. s \in InUse
  BY <1>2 DEF InUse
<1> HIDE DEF s
<1>7. \A t \in InUse' : streams'[key[t]] = t /\ streams'[Reverse(key[t])] = Nil
  <2> SUFFICES ASSUME NEW t \in InUse' PROVE streams'[key[t]] = t /\ streams'[Reverse(key[t])] = Nil
    OBVIOUS
  <2>1. t \in InUse /\ t # s /\ key[t] \in Key /\ Reverse(key[t]) \in Key
    BY <1>4, <1>5, ReverseIsOther
  <2>2. streams[key[t]] = t /\ streams[key[s]] = s /\ streams[Reverse(key[t])] = Nil
    BY <1>6, <2>1 DEF LoneInv, FoundUnderKey
  <2>3. key[t] # key[s]
    BY <2>1, <2>2
  <2> QED  BY <1>1, <1>5, <2>1, <2>2, <2>3
<1>8. \A k \in Key : Lookup(k) = Nil => Lookup(k)' = Nil
  <2> SUFFICES ASSUME NEW k \in Key, Lookup(k) = Nil
               PROVE  streams'[k] = Nil /\ streams'[Reverse(k)] = Nil
    BY DEF Lookup
  <2>1. streams[k] = Nil /\ streams[Reverse(k)] = Nil /\ Reverse(k) \in Key
    BY ReverseIsOther DEF Lookup
  <2> QED  BY <1>1, <1>5, <2>1
<1> QED  BY <1>1, <1>5, <1>7, <1>8 DEF LoneInv, FoundUnderKey, StillUnknown, Lookup

LEMMA LoneStep ==
    ASSUME \A p, q \in Capturers : p = q, LoneInv, [Next]_vars, PoolInv'
    PROVE  LoneInv'
<1>1. ASSUME UNCHANGED <<streams, free, allocated, key, pkt>>,
             \A p \in Capturers : cpc'[p] = "create" => cpc[p] = "create"
      PROVE  LoneInv'
  BY <1>1 DEF LoneInv, FoundUnderKey, StillUnknown, InUse, InFree, Allocated, Lookup
<1>2. ASSUME NEW p \in Capturers, CaptureStep(p) PROVE LoneInv'
  <2>1. CASE Capture(p)
    BY <2>1, LoneCapture DEF LoneInv
  <2>2. CASE NewStream(p)
    BY <2>2, LoneNewStream DEF LoneInv
  <2>3. CASE HandleCheck(p) \/ Send(p)
    <3>1. /\ cpc \in [Capturers -> {"idle", "create", "check", "send"}]
          /\ pkt \in [Capturers -> Packet \cup {NoPacket}]
          /\ UNCHANGED <<streams, free, allocated, key>>
      BY <2>3 DEF LoneInv, PoolInv, TypeOK, HandleCheck, Send, poolVars
    <3>2. \A q \in Capturers : cpc'[q] = "create" => cpc[q] = "create" /\ pkt'[q] = pkt[q]
      BY <2>3, <3>1 DEF HandleCheck, Send
    <3> QED  BY <3>1, <3>2 DEF LoneInv, FoundUnderKey, StillUnknown, InUse, InFree, Allocated, Lookup
  <2> QED  BY <1>2, <2>1, <2>2, <2>3 DEF CaptureStep
<1>3. ASSUME NEW d \in Dumper, DumpStep(d) PROVE LoneInv'
  <2>1. CASE CloseRemove(d)
    BY <2>1, LoneCloseRemove DEF LoneInv
  <2>2. CASE ~CloseRemove(d)
    <3>1. UNCHANGED <<streams, free, allocated, key, pkt, cpc>>
      BY <1>3, <2>2 DEF DumpStep, Loop, Receive, Tick, DumpData, StatLoad, StatStore, CloseEnter,
         Drain, Discard, poolVars, capVars
    <3> QED  BY <1>1, <3>1
  <2> QED  BY <2>1, <2>2
<1>4. CASE Clock \/ TrafficOver \/ UNCHANGED vars
  BY <1>1, <1>4 DEF Clock, TrafficOver, vars, poolVars, capVars
<1> QED  BY <1>2, <1>3, <1>4 DEF Next

\* With one interface, whatever closes and re-uses streams meanwhile, an open
\* stream is the only one of its connection and is found under its key
\* (streampool.go:52: newStream does not look again).
THEOREM LoneCapturerOneStream ==
    ASSUME \A p, q \in Capturers : p = q
    PROVE  Spec => []OneStreamPerConnection
<1>1. Init => FoundUnderKey /\ StillUnknown
  <2> SUFFICES ASSUME Init PROVE FoundUnderKey /\ StillUnknown
    OBVIOUS
  <2>1. allocated = 0 /\ \A p \in Capturers : cpc[p] = "idle"
    BY DEF Init
  <2>2. InUse = {}
    BY <2>1 DEF InUse, Allocated
  <2> QED  BY <2>1, <2>2 DEF FoundUnderKey, StillUnknown
<1>2. LoneInv /\ [Next]_vars /\ PoolInv' => LoneInv'
  BY LoneStep
<1>3. PoolInv /\ FoundUnderKey /\ StillUnknown => LoneInv
  BY DEF LoneInv
<1>4. LoneInv => OneStreamPerConnection
  BY DEF LoneInv, FoundUnderKey, OneStreamPerConnection, Open, InUse
<1> QED  BY <1>1, <1>2, <1>3, <1>4, PoolInvariant, PTL DEF Spec
=============================================================================
