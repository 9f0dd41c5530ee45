---------------------------- MODULE TcpSequence -----------------------------
(* The arithmetic of tcp.Sequence: numbers that wrap at uint32Max, driven by *)
(* a sender whose sequence number advances segment by segment, from any      *)
(* initial number, at most a quarter of the space ahead of what the receiver *)
(* acknowledged.                                                             *)
EXTENDS Integers

CONSTANTS
    uint32Max,   \* the largest sequence number (2^32 - 1 in the code)
    MaxSegment   \* bound: bytes in one segment

ASSUME MaxAssumption == uint32Max \in Nat /\ uint32Max >= 8
ASSUME SegmentAssumption == MaxSegment \in Nat /\ MaxSegment <= uint32Max

VARIABLES
    first,   \* the sequence number of the start of the window
    next,    \* the sequence number of the next byte
    sent     \* the bytes sent since the start of the window

sequenceVars == <<first, next, sent>>

Sequence == 0..uint32Max
Window   == uint32Max \div 4

\* Mutant: the second rollover is not handled.
DifferenceOneWay(s, t) ==
    IF s > uint32Max - Window /\ t < Window THEN t + uint32Max - s ELSE t - s

Difference(s, t) ==
    IF s > uint32Max - Window /\ t < Window THEN t + uint32Max - s
    ELSE IF t > uint32Max - Window /\ s < Window THEN t - (s + uint32Max)
    ELSE t - s

\* Mutant: the mask taken for the modulus.
AddModulo(s, n) == (s + n) % uint32Max

\* (s + n) & uint32Max
Add(s, n) == (s + n) % (uint32Max + 1)

SequenceInit == first \in Sequence /\ next = first /\ sent = 0

\* The sender's next segment of n bytes.
Segment(n) ==
    /\ sent + n <= Window
    /\ next' = Add(next, n)
    /\ sent' = sent + n
    /\ UNCHANGED first

\* The receiver acknowledges n more bytes: the window moves.
Acknowledge(n) ==
    /\ n <= sent
    /\ first' = Add(first, n)
    /\ sent' = sent - n
    /\ UNCHANGED next

SequenceNext == \E n \in 1..MaxSegment : Segment(n) \/ Acknowledge(n)

SequenceSpec == SequenceInit /\ [][SequenceNext]_sequenceVars
-----------------------------------------------------------------------------
SequenceTypeOK == first \in Sequence /\ next \in Sequence /\ sent \in 0..Window

\* Add wraps: a sequence number stays a sequence number and is the window's
\* start plus the bytes sent, modulo 2^32, however often it was advanced.
AddCounts ==
    \/ next = first + sent
    \/ next = first + sent - (uint32Max + 1)

\* Difference never orders two numbers of one window the wrong way round,
\* across a rollover included, in whichever order they are given: it is the
\* bytes between them or one less (it adds 2^32 - 1 where the numbers wrap at
\* 2^32, tcp.go:26).
DifferenceOrders ==
    /\ Difference(first, next) \in {sent, sent - 1}
    /\ Difference(next, first) = - Difference(first, next)
=============================================================================
