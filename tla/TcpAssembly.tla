----------------------------- MODULE TcpAssembly -----------------------------
(***************************************************************************)
(* The concurrent core of Tcppass: capture goroutines (one per network     *)
(* interface) feeding packets to the streams of one shared StreamPool, and *)
(* the dump goroutines (one started by every stream.reset) that consume a  *)
(* stream's channel, close the stream on FIN/RST or on timeout and give it *)
(* back to the pool, from which it is reused.                              *)
(*                                                                         *)
(* Granularity: a section under a mutex is one action.  The unlocked code   *)
(* of a dump goroutine is cut where another goroutine changes what happens *)
(* next: at every test of closed, at the channel, between the write of     *)
(* waitClose and the read of its reverse, and between the load and the     *)
(* store of a counter.  pool.mu is never held across an action; stream.mu  *)
(* is held from CloseEnter to CloseRemove.                                 *)
(***************************************************************************)
EXTENDS Integers, Sequences, FiniteSets, Functions

CONSTANTS
    Capturers,      \* capture goroutines, one per interface
    Flows,          \* address/port pairs seen on the wire
    ChanCap,        \* capacity of stream.data (10 in the code)
    InitialAlloc,   \* initialAllocSize (8192 in the code)
    Timeout,        \* idle time after which the ticker closes a stream
    NoPacket,       \* a dump goroutine holds no packet
    MaxStreams,     \* bound: stream objects ever allocated
    MaxConns,       \* bound: calls of newStream
    MaxPackets,     \* bound: packets captured
    MaxTime,        \* bound: the clock
    LastCapture     \* bound: no packet is captured after this time

ASSUME CapturersAssumption == IsFiniteSet(Capturers) /\ Capturers # {}
ASSUME NatAssumption ==
    /\ ChanCap \in Nat \ {0} /\ InitialAlloc \in Nat \ {0}
    /\ {Timeout, MaxStreams, MaxConns, MaxPackets, MaxTime, LastCapture} \subseteq Nat

Key        == Flows \X {0, 1}           \* a flow in one of its directions
Reverse(k) == <<k[1], 1 - k[2]>>
NoKey      == <<>>                      \* key of a zero-valued stream
Side       == {"c2s", "s2c"}            \* the two conns of a stream
Other(d)   == IF d = "c2s" THEN "s2c" ELSE "c2s"
Time       == 0..MaxTime
\* "syn": SYN without ACK, FIN, RST; "end": FIN or RST; "data": the others.
Packet     == [key : Key, kind : {"syn", "data", "end"}, ts : Time]

Stream     == 1..MaxStreams             \* stream objects, 0 is nil
Nil        == 0
Dumper     == 1..MaxConns               \* dump goroutines, by newStream call

VARIABLES
    streams, free, allocated, nextAlloc, newConnectionCount,  \* StreamPool
    key, connMap, data, lastSeen, closed, mu,                 \* stream
    waitClose, connClosed, Packets,                           \* its conns
    cpc, pkt, ref,                                \* capture goroutines
    dpc, target, hand, side, finish, loaded,      \* dump goroutines
    now, captured                                 \* clock and bound

poolVars == <<streams, free, allocated, nextAlloc, newConnectionCount>>
connVars == <<waitClose, connClosed, Packets>>
capVars  == <<cpc, pkt, ref>>
dumpVars == <<dpc, target, hand, side, finish, loaded>>
envVars  == <<now, captured>>
vars == <<poolVars, key, connMap, data, lastSeen, closed, mu, connVars,
          capVars, dumpVars, envVars>>

Allocated == 1..allocated
InFree    == Range(free)

Init ==
    /\ streams = [k \in Key |-> Nil]
    /\ free = <<>>
    /\ allocated = 0
    /\ nextAlloc = InitialAlloc
    /\ newConnectionCount = 0
    /\ key = [s \in Stream |-> NoKey]
    /\ connMap = [s \in Stream |-> {}]
    /\ data = [s \in Stream |-> <<>>]
    /\ lastSeen = [s \in Stream |-> 0]
    /\ closed = [s \in Stream |-> FALSE]
    /\ mu = [s \in Stream |-> Nil]
    /\ waitClose = [s \in Stream |-> {}]
    /\ connClosed = [s \in Stream |-> FALSE]
    /\ Packets = [s \in Stream |-> [d \in Side |-> 0]]
    /\ cpc = [p \in Capturers |-> "idle"]
    /\ pkt = [p \in Capturers |-> NoPacket]
    /\ ref = [p \in Capturers |-> Nil]
    /\ dpc = [d \in Dumper |-> "off"]
    /\ target = [d \in Dumper |-> Nil]
    /\ hand = [d \in Dumper |-> NoPacket]
    /\ side = [d \in Dumper |-> "c2s"]
    /\ finish = [d \in Dumper |-> FALSE]
    /\ loaded = [d \in Dumper |-> 0]
    /\ now = 0
    /\ captured = 0

-----------------------------------------------------------------------------
(* Capture goroutines: handle1 -> Assemble -> getStream -> stream.handle.   *)

\* Assemble lets only a packet with SYN and without ACK, FIN, RST make a stream.
MayCreate(kind) == kind = "syn"

\* Mutant: getStream without its second lookup.
LookupForward(k) == streams[k]

Lookup(k) == IF streams[k] # Nil THEN streams[k] ELSE streams[Reverse(k)]

\* The bound MaxConns: no SYN is captured whose newStream would exceed it.
RoomForConn ==
    newConnectionCount + Cardinality({q \in Capturers : cpc[q] = "create"}) < MaxConns

\* handle1 takes a packet and getStream looks its key up, both ways round,
\* under the read lock.  Only a SYN that finds nothing makes a stream.
Capture(p) ==
    /\ cpc[p] = "idle"
    /\ captured < MaxPackets /\ now <= LastCapture
    /\ captured' = captured + 1
    /\ \E k \in Key, kind \in {"syn", "data", "end"} :
         LET s == Lookup(k) IN
         \/ /\ s # Nil
            /\ cpc' = [cpc EXCEPT ![p] = "check"]
            /\ ref' = [ref EXCEPT ![p] = s]
            /\ pkt' = [pkt EXCEPT ![p] = [key |-> k, kind |-> kind, ts |-> now]]
         \/ /\ s = Nil /\ MayCreate(kind) /\ RoomForConn
            /\ cpc' = [cpc EXCEPT ![p] = "create"]
            /\ pkt' = [pkt EXCEPT ![p] = [key |-> k, kind |-> kind, ts |-> now]]
            /\ UNCHANGED ref
         \/ /\ s = Nil /\ ~MayCreate(kind)
            /\ UNCHANGED capVars
    /\ UNCHANGED <<poolVars, key, connMap, data, lastSeen, closed, mu, connVars, dumpVars, now>>

\* Mutant: the dump goroutine is started only where the channel is made.
ResetOnce(s, k, ts, d) ==
    /\ key' = [key EXCEPT ![s] = k]
    /\ connMap' = [connMap EXCEPT ![s] = @ \cup {k, Reverse(k)}]
    /\ waitClose' = [waitClose EXCEPT ![s] = {}]
    /\ connClosed' = [connClosed EXCEPT ![s] = FALSE]
    /\ Packets' = [Packets EXCEPT ![s] = [sd \in Side |-> 0]]
    /\ lastSeen' = [lastSeen EXCEPT ![s] = ts]
    /\ closed' = [closed EXCEPT ![s] = FALSE]
    /\ dpc' = IF key[s] = NoKey THEN [dpc EXCEPT ![d] = "loop"] ELSE dpc
    /\ target' = [target EXCEPT ![d] = s]

\* stream.reset, except for the pool: every field of the object and of its
\* two conns is set for the connection k, and a dump goroutine is started.
Reset(s, k, ts, d) ==
    /\ key' = [key EXCEPT ![s] = k]
    /\ connMap' = [connMap EXCEPT ![s] = @ \cup {k, Reverse(k)}]
    /\ waitClose' = [waitClose EXCEPT ![s] = {}]
    /\ connClosed' = [connClosed EXCEPT ![s] = FALSE]
    /\ Packets' = [Packets EXCEPT ![s] = [sd \in Side |-> 0]]
    /\ lastSeen' = [lastSeen EXCEPT ![s] = ts]
    /\ closed' = [closed EXCEPT ![s] = FALSE]
    /\ dpc' = [dpc EXCEPT ![d] = "loop"]
    /\ target' = [target EXCEPT ![d] = s]

\* Mutant: the batch starts one object late.
GrownShifted == free \o [i \in 1..nextAlloc |-> allocated + i + 1]

\* grow: the free list after a batch of nextAlloc new objects joined it.
Grown == free \o [i \in 1..nextAlloc |-> allocated + i]

\* newStream, under the write lock: it does not look the key up again.
NewStream(p) ==
    /\ cpc[p] = "create"
    /\ LET grow == free = <<>>
           pool == IF grow THEN Grown ELSE free
           s    == pool[Len(pool)]
           n    == newConnectionCount + 1
       IN /\ grow => allocated + nextAlloc <= MaxStreams
          /\ n <= MaxConns
          /\ newConnectionCount' = n
          /\ allocated' = IF grow THEN allocated + nextAlloc ELSE allocated
          /\ nextAlloc' = IF grow THEN 2 * nextAlloc ELSE nextAlloc
          /\ free' = SubSeq(pool, 1, Len(pool) - 1)
          /\ Reset(s, pkt[p].key, pkt[p].ts, n)
          /\ streams' = [streams EXCEPT ![pkt[p].key] = s]
          /\ ref' = [ref EXCEPT ![p] = s]
    /\ cpc' = [cpc EXCEPT ![p] = "check"]
    /\ UNCHANGED <<data, mu, pkt, hand, side, finish, loaded, envVars>>

\* stream.handle reads closed under stream.mu and drops the packet if set.
HandleCheck(p) ==
    /\ cpc[p] = "check" /\ mu[ref[p]] = Nil
    /\ IF closed[ref[p]]
       THEN /\ cpc' = [cpc EXCEPT ![p] = "idle"]
            /\ pkt' = [pkt EXCEPT ![p] = NoPacket]
            /\ ref' = [ref EXCEPT ![p] = Nil]
       ELSE /\ cpc' = [cpc EXCEPT ![p] = "send"]
            /\ UNCHANGED <<pkt, ref>>
    /\ UNCHANGED <<poolVars, key, connMap, data, lastSeen, closed, mu, connVars, dumpVars, envVars>>

\* The send on the channel, after the lock was released; blocks when full.
Send(p) ==
    /\ cpc[p] = "send" /\ Len(data[ref[p]]) < ChanCap
    /\ data' = [data EXCEPT ![ref[p]] = Append(@, pkt[p])]
    /\ cpc' = [cpc EXCEPT ![p] = "idle"]
    /\ pkt' = [pkt EXCEPT ![p] = NoPacket]
    /\ ref' = [ref EXCEPT ![p] = Nil]
    /\ UNCHANGED <<poolVars, key, connMap, lastSeen, closed, mu, connVars, dumpVars, envVars>>

-----------------------------------------------------------------------------
(* Dump goroutines: stream.dump -> conn.handle -> conn.stat, conn.close.    *)

Goto(d, l) == dpc' = [dpc EXCEPT ![d] = l]

\* for !s.closed
Loop(d) ==
    /\ dpc[d] = "loop"
    /\ Goto(d, IF closed[target[d]] THEN "drain" ELSE "select")
    /\ UNCHANGED <<poolVars, key, connMap, data, lastSeen, closed, mu, connVars, capVars,
                   target, hand, side, finish, loaded, envVars>>

\* case data := <-s.data
Receive(d) ==
    /\ dpc[d] = "select" /\ data[target[d]] # <<>>
    /\ hand' = [hand EXCEPT ![d] = Head(data[target[d]])]
    /\ data' = [data EXCEPT ![target[d]] = Tail(@)]
    /\ Goto(d, "got")
    /\ UNCHANGED <<poolVars, key, connMap, lastSeen, closed, mu, connVars, capVars,
                   target, side, finish, loaded, envVars>>

\* Mutant: the comparison the other way round.
TickEarly(d) ==
    /\ dpc[d] = "select"
    /\ Goto(d, IF lastSeen[target[d]] > now - Timeout THEN "close" ELSE "loop")
    /\ UNCHANGED <<poolVars, key, connMap, data, lastSeen, closed, mu, connVars, capVars,
                   target, hand, side, finish, loaded, envVars>>

\* case <-ticker.C: the select may choose it although a packet waits too.
Tick(d) ==
    /\ dpc[d] = "select"
    /\ Goto(d, IF lastSeen[target[d]] < now - Timeout THEN "close" ELSE "loop")
    /\ UNCHANGED <<poolVars, key, connMap, data, lastSeen, closed, mu, connVars, capVars,
                   target, hand, side, finish, loaded, envVars>>

\* if ok && !s.closed, getConn, lastSeen, and conn.handle up to waitClose.
DumpData(d) ==
    /\ dpc[d] = "got"
    /\ LET s     == target[d]
           m     == hand[d]
           sd    == IF m.key = key[s] THEN "c2s" ELSE "s2c"
           found == ~closed[s] /\ m.key \in connMap[s]
           live  == found /\ ~connClosed[s]
       IN /\ lastSeen' = IF found /\ lastSeen[s] < m.ts
                         THEN [lastSeen EXCEPT ![s] = m.ts] ELSE lastSeen
          /\ waitClose' = IF live /\ m.kind = "end"
                          THEN [waitClose EXCEPT ![s] = @ \cup {sd}] ELSE waitClose
          /\ side' = IF live THEN [side EXCEPT ![d] = sd] ELSE side
          /\ hand' = IF live THEN hand ELSE [hand EXCEPT ![d] = NoPacket]
          /\ Goto(d, IF live THEN "stat" ELSE "loop")
    /\ UNCHANGED <<poolVars, key, connMap, data, closed, mu, connClosed, Packets, capVars,
                   target, finish, loaded, envVars>>

\* reverse.waitClose decides finish; unless the conn was closed meanwhile,
\* c.Packets += 1 begins with a load ...
StatLoad(d) ==
    /\ dpc[d] = "stat"
    /\ hand' = [hand EXCEPT ![d] = NoPacket]
    /\ \/ /\ connClosed[target[d]]
          /\ Goto(d, "loop")
          /\ UNCHANGED <<finish, loaded>>
       \/ /\ ~connClosed[target[d]]
          /\ finish' = [finish EXCEPT ![d] = hand[d].kind = "end"
                                             /\ Other(side[d]) \in waitClose[target[d]]]
          /\ loaded' = [loaded EXCEPT ![d] = Packets[target[d]][side[d]]]
          /\ Goto(d, "store")
    /\ UNCHANGED <<poolVars, key, connMap, data, lastSeen, closed, mu, connVars, capVars,
                   target, side, envVars>>

\* ... and a store; then conn.close marks both conns if this is the finish.
StatStore(d) ==
    /\ dpc[d] = "store"
    /\ Packets' = [Packets EXCEPT ![target[d]][side[d]] = loaded[d] + 1]
    /\ connClosed' = IF finish[d] THEN [connClosed EXCEPT ![target[d]] = TRUE] ELSE connClosed
    /\ Goto(d, IF finish[d] THEN "close" ELSE "loop")
    /\ finish' = [finish EXCEPT ![d] = FALSE]
    /\ loaded' = [loaded EXCEPT ![d] = 0]
    /\ side' = [side EXCEPT ![d] = "c2s"]
    /\ UNCHANGED <<poolVars, key, connMap, data, lastSeen, closed, mu, waitClose, capVars,
                   target, hand, envVars>>

\* Mutants: close without its test of closed; close that does not set it.
CloseUnchecked(d) ==
    /\ dpc[d] = "close" /\ mu[target[d]] = Nil
    /\ closed' = [closed EXCEPT ![target[d]] = TRUE]
    /\ connMap' = [connMap EXCEPT ![target[d]] =
                       @ \ {key[target[d]], Reverse(key[target[d]])}]
    /\ mu' = [mu EXCEPT ![target[d]] = d]
    /\ Goto(d, "remove")
    /\ UNCHANGED <<poolVars, key, data, lastSeen, connVars, capVars,
                   target, hand, side, finish, loaded, envVars>>
CloseUnmarked(d) ==
    /\ dpc[d] = "close" /\ mu[target[d]] = Nil
    /\ connMap' = [connMap EXCEPT ![target[d]] =
                       @ \ {key[target[d]], Reverse(key[target[d]])}]
    /\ mu' = [mu EXCEPT ![target[d]] = d]
    /\ Goto(d, "remove")
    /\ UNCHANGED <<poolVars, key, data, lastSeen, closed, connVars, capVars,
                   target, hand, side, finish, loaded, envVars>>

\* stream.close takes stream.mu; the first to come closes and keeps it.
CloseEnter(d) ==
    /\ dpc[d] = "close" /\ mu[target[d]] = Nil
    /\ IF closed[target[d]]
       THEN Goto(d, "loop") /\ UNCHANGED <<closed, connMap, mu>>
       ELSE /\ closed' = [closed EXCEPT ![target[d]] = TRUE]
            /\ connMap' = [connMap EXCEPT ![target[d]] =
                               @ \ {key[target[d]], Reverse(key[target[d]])}]
            /\ mu' = [mu EXCEPT ![target[d]] = d]
            /\ Goto(d, "remove")
    /\ UNCHANGED <<poolVars, key, data, lastSeen, connVars, capVars,
                   target, hand, side, finish, loaded, envVars>>

\* Mutants: remove without the delete; remove that returns only the stream
\* the map points to.
RemoveUnmapped(d) ==
    /\ dpc[d] = "remove"
    /\ free' = Append(free, target[d])
    /\ mu' = [mu EXCEPT ![target[d]] = Nil]
    /\ Goto(d, "loop")
    /\ UNCHANGED <<streams, allocated, nextAlloc, newConnectionCount, key, connMap, data,
                   lastSeen, closed, connVars, capVars, target, hand, side, finish, loaded,
                   envVars>>
RemoveMapped(d) ==
    /\ dpc[d] = "remove"
    /\ LET k == key[target[d]] IN
         IF streams[k] = target[d]
         THEN /\ streams' = [streams EXCEPT ![k] = Nil]
              /\ free' = Append(free, target[d])
         ELSE UNCHANGED <<streams, free>>
    /\ mu' = [mu EXCEPT ![target[d]] = Nil]
    /\ Goto(d, "loop")
    /\ UNCHANGED <<allocated, nextAlloc, newConnectionCount, key, connMap, data, lastSeen,
                   closed, connVars, capVars, target, hand, side, finish, loaded, envVars>>

\* pool.remove, under pool.mu, and the release of stream.mu.
CloseRemove(d) ==
    /\ dpc[d] = "remove"
    /\ streams' = [streams EXCEPT ![key[target[d]]] = Nil]
    /\ free' = Append(free, target[d])
    /\ mu' = [mu EXCEPT ![target[d]] = Nil]
    /\ Goto(d, "loop")
    /\ UNCHANGED <<allocated, nextAlloc, newConnectionCount, key, connMap, data, lastSeen,
                   closed, connVars, capVars, target, hand, side, finish, loaded, envVars>>

\* Mutant: dump returns without emptying the channel.
DrainNothing(d) ==
    /\ dpc[d] = "drain"
    /\ Goto(d, "done")
    /\ UNCHANGED <<poolVars, key, connMap, data, lastSeen, closed, mu, connVars, capVars,
                   target, hand, side, finish, loaded, envVars>>

\* for len(s.data) > 0
Drain(d) ==
    /\ dpc[d] = "drain"
    /\ Goto(d, IF data[target[d]] # <<>> THEN "discard" ELSE "done")
    /\ UNCHANGED <<poolVars, key, connMap, data, lastSeen, closed, mu, connVars, capVars,
                   target, hand, side, finish, loaded, envVars>>

\* <-s.data; blocks if another goroutine emptied the channel meanwhile.
Discard(d) ==
    /\ dpc[d] = "discard" /\ data[target[d]] # <<>>
    /\ data' = [data EXCEPT ![target[d]] = Tail(@)]
    /\ Goto(d, "drain")
    /\ UNCHANGED <<poolVars, key, connMap, lastSeen, closed, mu, connVars, capVars,
                   target, hand, side, finish, loaded, envVars>>

-----------------------------------------------------------------------------
Clock ==
    /\ now < MaxTime
    /\ now' = now + 1
    /\ UNCHANGED <<poolVars, key, connMap, data, lastSeen, closed, mu, connVars, capVars,
                   dumpVars, captured>>

\* Only for the bounded model: the traffic is over and every capture
\* goroutine waits for a packet.  Any other halt is a deadlock.
TrafficOver ==
    /\ captured = MaxPackets \/ now > LastCapture
    /\ \A p \in Capturers : cpc[p] = "idle"
    /\ UNCHANGED vars

CaptureStep(p) == Capture(p) \/ NewStream(p) \/ HandleCheck(p) \/ Send(p)
DumpStep(d) ==
    \/ Loop(d) \/ Receive(d) \/ Tick(d)
    \/ DumpData(d) \/ StatLoad(d) \/ StatStore(d)
    \/ CloseEnter(d) \/ CloseRemove(d)
    \/ Drain(d) \/ Discard(d)

Next ==
    \/ \E p \in Capturers : CaptureStep(p)
    \/ \E d \in Dumper : DumpStep(d)
    \/ Clock
    \/ TrafficOver

Spec == Init /\ [][Next]_vars
-----------------------------------------------------------------------------
(* Fairness.  A goroutine that can run runs (weak).  A select that finds    *)
(* a case ready again and again takes it in the end, as it picks at random  *)
(* among the ready ones, and a send that the channel has room for again and *)
(* again is made, as a channel queues its senders (strong).  Nothing is     *)
(* assumed of the traffic.                                                  *)
Fairness ==
    /\ WF_vars(Clock)
    /\ \A p \in Capturers :
         WF_vars(NewStream(p)) /\ WF_vars(HandleCheck(p)) /\ SF_vars(Send(p))
    /\ \A d \in Dumper :
         WF_vars(DumpStep(d)) /\ SF_vars(Receive(d)) /\ SF_vars(Tick(d))

FairSpec == Spec /\ Fairness

-----------------------------------------------------------------------------
TypeOK ==
    /\ streams \in [Key -> Stream \cup {Nil}]
    /\ free \in Seq(Stream)
    /\ allocated \in 0..MaxStreams
    /\ nextAlloc \in Nat \ {0}
    /\ newConnectionCount \in 0..MaxConns
    /\ key \in [Stream -> Key \cup {NoKey}]
    /\ connMap \in [Stream -> SUBSET Key]
    /\ data \in [Stream -> Seq(Packet)]
    /\ lastSeen \in [Stream -> Time]
    /\ closed \in [Stream -> BOOLEAN]
    /\ mu \in [Stream -> Dumper \cup {Nil}]
    /\ waitClose \in [Stream -> SUBSET Side]
    /\ connClosed \in [Stream -> BOOLEAN]
    /\ Packets \in [Stream -> [Side -> Nat]]
    /\ cpc \in [Capturers -> {"idle", "create", "check", "send"}]
    /\ pkt \in [Capturers -> Packet \cup {NoPacket}]
    /\ ref \in [Capturers -> Stream \cup {Nil}]
    /\ dpc \in [Dumper -> {"off", "loop", "select", "got", "stat", "store",
                            "close", "remove", "drain", "discard", "done"}]
    /\ target \in [Dumper -> Stream \cup {Nil}]
    /\ hand \in [Dumper -> Packet \cup {NoPacket}]
    /\ side \in [Dumper -> Side]
    /\ finish \in [Dumper -> BOOLEAN]
    /\ loaded \in [Dumper -> Nat]
    /\ now \in Time
    /\ captured \in 0..MaxPackets

\* An open stream serves a connection: it is neither closed nor free.
Open(s) == s \in Allocated /\ s \notin InFree /\ ~closed[s]

\* A lookup never returns a stream that is in the free list, nor one that
\* serves another connection: newStream, close and reuse race with getStream
\* but the map and the free list stay consistent.
MapPointsToOwners ==
    \A k \in Key : streams[k] # Nil =>
        key[streams[k]] = k /\ streams[k] \in Allocated \ InFree

\* No stream is twice in the free list, so newStream never gives one object
\* to two connections, however many goroutines close it.
FreeOnce == IsInjective(free) /\ InFree \subseteq Allocated

\* Every allocated stream that is not free and not open is about to be put
\* back by exactly one dump goroutine: close loses no stream object.
ClosedIsReturned ==
    \A s \in Allocated \ InFree : closed[s] =>
        \E d \in Dumper : /\ target[d] = s /\ dpc[d] = "remove"
                          /\ \A e \in Dumper \ {d} : target[e] = s => dpc[e] # "remove"

\* A goroutine still holding a stream that was returned finds it closed, so
\* that it cannot close and return it a second time.
FreeIsClosed ==
    \A d \in Dumper : target[d] \in InFree => closed[target[d]]

\* An open stream has a dump goroutine that will look at its channel and
\* its ticker again: the one its reset started cannot have left the loop.
OpenHasDumper ==
    \A s \in Allocated \ InFree : ~closed[s] =>
        \E d \in Dumper : target[d] = s /\ dpc[d] \notin {"off", "drain", "discard", "done"}

\* stream.mu is held exactly by the goroutine between the two halves of
\* close, and what it is about to return is closed and not yet free.
RemoverOwns ==
    /\ \A d \in Dumper : dpc[d] = "remove" =>
         /\ mu[target[d]] = d /\ closed[target[d]] /\ target[d] \notin InFree
    /\ \A s \in Stream : mu[s] # Nil => dpc[mu[s]] = "remove" /\ target[mu[s]] = s

\* Every goroutine works on a stream that was handed out, and holds a packet
\* where its code does.
RefsAreUsed ==
    /\ \A p \in Capturers :
         /\ cpc[p] # "idle" => pkt[p] \in Packet
         /\ cpc[p] \in {"check", "send"} => ref[p] \in Allocated
    /\ \A d \in Dumper :
         /\ dpc[d] = "off" <=> d > newConnectionCount
         /\ dpc[d] = "off" => target[d] = Nil
         /\ dpc[d] # "off" => target[d] \in Allocated /\ key[target[d]] \in Key
         /\ dpc[d] \in {"got", "stat"} => hand[d] \in Packet

\* The inductive invariant of the pool: no interleaving of captures, closes
\* and re-uses makes map, free list, locks and goroutines disagree.
PoolInv ==
    /\ TypeOK /\ RefsAreUsed /\ RemoverOwns
    /\ MapPointsToOwners /\ FreeOnce /\ FreeIsClosed /\ ClosedIsReturned
    /\ OpenHasDumper

\* A capture goroutine about to send on a full channel has a live receiver.
\* It needs a capacity of at least one packet per capture goroutine.
FullChannelHasReceiver ==
    \A p \in Capturers : cpc[p] = "send" /\ Len(data[ref[p]]) = ChanCap =>
        \E d \in Dumper : target[d] = ref[p] /\ dpc[d] \notin {"off", "done"}

\* With one capture goroutine, a connection has one open stream, found under
\* its key: no SYN is dispatched between a failed lookup and newStream.
OneStreamPerConnection ==
    \A s \in Stream : Open(s) => streams[key[s]] = s /\ streams[Reverse(key[s])] = Nil

\* conn.go:85: a stream closes when both directions have received FIN or RST;
\* otherwise only the ticker closes it, after Timeout without a packet.
BothEndsBeforeClose ==
    [][\A s \in Stream : ~closed[s] /\ closed'[s] =>
          waitClose[s] = Side \/ lastSeen[s] < now - Timeout]_vars

-----------------------------------------------------------------------------
(* The pool keeps the promise of StreamLifecycle.                           *)
lifeOf == [s \in Stream |->
              IF s \notin Allocated THEN "none"
              ELSE IF s \in InFree THEN "free"
              ELSE IF closed[s] THEN "closing" ELSE "open"]

Lifecycle == INSTANCE StreamLifecycle WITH life <- lifeOf
LifecycleSpec == Lifecycle!Spec

-----------------------------------------------------------------------------
\* A stream that is not closed by FIN or RST is closed by its ticker: none
\* stays open for ever once its traffic stops.
StreamEventuallyCloses == \A s \in Stream : Open(s) ~> ~Open(s)

\* A capture goroutine is never stuck in handle: a dump goroutine makes room.
SendCompletes == \A p \in Capturers : cpc[p] = "send" ~> cpc[p] = "idle"
=============================================================================
