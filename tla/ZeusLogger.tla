----------------------------- MODULE ZeusLogger ------------------------------
(***************************************************************************)
(* log.ZeusLogger: goroutines log messages through the adapters of one     *)
(* logger, themselves or, after Async, through a channel that startLogger  *)
(* reads.  Adapters are added and deleted under a lock that writers do not *)
(* take: a writer goes through the outputs as they were when it began.     *)
(* Close drains the channel beside startLogger and destroys the adapters.  *)
(*                                                                         *)
(* An adapter is what FileLog models; here it is the sequence of messages  *)
(* it took, and refuses them once destroyed.  The text of a message is     *)
(* left out.                                                               *)
(***************************************************************************)
EXTENDS Integers, Sequences, FiniteSets

CONSTANTS
    Senders,    \* goroutines that log
    Adapters,   \* adapters of one name each
    Kept,       \* those set from the start and not deleted
    Levels,     \* levels messages have; LevelFatal is 0
    Loglevel,   \* the logger's level, set before the goroutines start
    ChanLen,    \* channelLen of NewLogger
    MaxMsgs     \* bound: messages of all senders

ASSUME SendersAssumption ==
    /\ IsFiniteSet(Senders) /\ {"startLogger", "Close"} \cap Senders = {}
    /\ Kept \subseteq Adapters /\ IsFiniteSet(Adapters)
ASSUME LevelsAssumption == Levels \subseteq Nat /\ Loglevel \in Nat
ASSUME BoundAssumption == ChanLen \in Nat \ {0} /\ MaxMsgs \in Nat

LevelFatal == 0
Goroutine == Senders \cup {"startLogger", "Close"}
Message   == Senders \X (1..MaxMsgs) \X Levels
NoMessage == <<>>

VARIABLES
    asynchronous, outputs, msgChan,
    lpc,        \* where each goroutine is
    hand, rest, \* the message it writes, and the outputs it has still to go to
    exited,     \* os.Exit(2)
    destroyed,
    written,    \* what each adapter took
    logged,     \* history: the messages not dropped, numbered for each sender
    before      \* history: what was in the channel when Close was called

logVars == <<asynchronous, outputs>>
vars == <<logVars, msgChan, lpc, hand, rest, exited, destroyed, written, logged, before>>

AnyOrder(S) == {q \in [1..Cardinality(S) -> S] : \A i, j \in DOMAIN q : q[i] = q[j] => i = j}

Init ==
    /\ asynchronous \in BOOLEAN
    /\ outputs \in AnyOrder(Kept)
    /\ msgChan = <<>>
    /\ lpc = [g \in Goroutine |-> "idle"]
    /\ hand = [g \in Goroutine |-> NoMessage] /\ rest = [g \in Goroutine |-> <<>>]
    /\ exited = FALSE
    /\ destroyed = {}
    /\ written = [a \in Adapters |-> <<>>]
    /\ logged = {} /\ before = {}

Goto(g, at) == lpc' = [lpc EXCEPT ![g] = at]

\* writeToLoggers begins.
TakesUp(g, m) ==
    /\ hand' = [hand EXCEPT ![g] = m]
    /\ rest' = [rest EXCEPT ![g] = outputs]

-----------------------------------------------------------------------------
Count(s) == Cardinality({m \in logged : m[1] = s})

\* Fatalf to Trace, and writeMsg.  A message above the logger's level is dropped.
Log(s, lv) ==
    /\ ~exited /\ lpc[s] = "idle" /\ Cardinality(logged) < MaxMsgs
    /\ lv <= Loglevel
    /\ LET m == <<s, Count(s) + 1, lv>> IN
       /\ logged' = logged \cup {m}
       /\ IF asynchronous
          THEN Goto(s, "send") /\ hand' = [hand EXCEPT ![s] = m] /\ UNCHANGED rest
          ELSE Goto(s, "write") /\ TakesUp(s, m)
    /\ UNCHANGED <<logVars, msgChan, exited, destroyed, written, before>>

\* Fatalf goes on to os.Exit, the others return.
Send(s) ==
    /\ ~exited /\ lpc[s] = "send" /\ Len(msgChan) < ChanLen
    /\ msgChan' = Append(msgChan, hand[s])
    /\ IF hand[s][3] = LevelFatal
       THEN Goto(s, "sent") /\ UNCHANGED hand
       ELSE Goto(s, "idle") /\ hand' = [hand EXCEPT ![s] = NoMessage]
    /\ UNCHANGED <<logVars, rest, exited, destroyed, written, logged, before>>

\* l.WriteMsg of the next adapter; it fails if the adapter is destroyed.
Write(g) ==
    /\ ~exited /\ lpc[g] = "write" /\ rest[g] # <<>>
    /\ LET a == Head(rest[g]) IN
       written' = IF a \in destroyed THEN written ELSE [written EXCEPT ![a] = Append(@, hand[g])]
    /\ rest' = [rest EXCEPT ![g] = Tail(@)]
    /\ UNCHANGED <<logVars, msgChan, lpc, hand, exited, destroyed, logged, before>>

\* Mutant: Fatalf ends the process without the message.
ReturnEarly(s) ==
    /\ ~exited /\ \/ lpc[s] = "sent"
                  \/ lpc[s] = "write" /\ (rest[s] = <<>> \/ hand[s][3] = LevelFatal)
    /\ exited' = (hand[s][3] = LevelFatal)
    /\ hand' = [hand EXCEPT ![s] = NoMessage]
    /\ Goto(s, "idle")
    /\ UNCHANGED <<logVars, msgChan, rest, destroyed, written, logged, before>>

\* writeMsg returns; after it Fatalf and Fatal end the process.
Return(s) ==
    /\ ~exited /\ (lpc[s] = "sent" \/ (lpc[s] = "write" /\ rest[s] = <<>>))
    /\ exited' = (hand[s][3] = LevelFatal)
    /\ hand' = [hand EXCEPT ![s] = NoMessage]
    /\ Goto(s, "idle")
    /\ UNCHANGED <<logVars, msgChan, rest, destroyed, written, logged, before>>

\* Mutants: the latest message is taken first; the message stays in the channel.
ReceiveLast(g, from) ==
    /\ ~exited /\ lpc[g] = from /\ msgChan # <<>>
    /\ TakesUp(g, msgChan[Len(msgChan)])
    /\ msgChan' = SubSeq(msgChan, 1, Len(msgChan) - 1)
    /\ Goto(g, "write")
    /\ UNCHANGED <<logVars, exited, destroyed, written, logged, before>>

ReceiveKeeps(g, from) ==
    /\ ~exited /\ lpc[g] = from /\ msgChan # <<>>
    /\ TakesUp(g, Head(msgChan))
    /\ UNCHANGED msgChan
    /\ Goto(g, "write")
    /\ UNCHANGED <<logVars, exited, destroyed, written, logged, before>>

\* A receive from msgChan, which waits while it is empty.
Receive(g, from) ==
    /\ ~exited /\ lpc[g] = from /\ msgChan # <<>>
    /\ TakesUp(g, Head(msgChan))
    /\ msgChan' = Tail(msgChan)
    /\ Goto(g, "write")
    /\ UNCHANGED <<logVars, exited, destroyed, written, logged, before>>

Written(g, to) ==
    /\ ~exited /\ lpc[g] = "write" /\ rest[g] = <<>>
    /\ hand' = [hand EXCEPT ![g] = NoMessage]
    /\ Goto(g, to)
    /\ UNCHANGED <<logVars, msgChan, rest, exited, destroyed, written, logged, before>>

\* Mutant: startLogger ends after a message.
StartLoggerOnce ==
    asynchronous /\ (Receive("startLogger", "idle") \/ Written("startLogger", "ended"))

StartLogger == asynchronous /\ (Receive("startLogger", "idle") \/ Written("startLogger", "idle"))

-----------------------------------------------------------------------------
\* Mutant: the new adapter is the only one.
SetLoggerOnly(a) ==
    /\ ~exited /\ a \notin destroyed /\ \A i \in DOMAIN outputs : outputs[i] # a
    /\ outputs' = <<a>>
    /\ UNCHANGED <<asynchronous, msgChan, lpc, hand, rest, exited, destroyed, written, logged, before>>

\* SetLogger and DelLogger, each under the lock.  A name is in outputs once.
SetLogger(a) ==
    /\ ~exited /\ a \notin destroyed /\ \A i \in DOMAIN outputs : outputs[i] # a
    /\ outputs' = Append(outputs, a)
    /\ UNCHANGED <<asynchronous, msgChan, lpc, hand, rest, exited, destroyed, written, logged, before>>

DelLogger(a) ==
    /\ ~exited
    /\ \E i \in DOMAIN outputs :
           /\ outputs[i] = a
           /\ outputs' = SubSeq(outputs, 1, i - 1) \o SubSeq(outputs, i + 1, Len(outputs))
    /\ destroyed' = destroyed \cup {a}
    /\ UNCHANGED <<asynchronous, msgChan, lpc, hand, rest, exited, written, logged, before>>

\* Close: of an asynchronous logger, once.
CloseBegin ==
    /\ ~exited /\ asynchronous /\ lpc["Close"] = "idle"
    /\ before' = {msgChan[i] : i \in DOMAIN msgChan}
    /\ Goto("Close", "test")
    /\ UNCHANGED <<logVars, msgChan, hand, rest, exited, destroyed, written, logged>>

\* Mutant: the channel is not drained.
TestNothing ==
    /\ ~exited /\ lpc["Close"] = "test"
    /\ Goto("Close", "destroy") /\ rest' = [rest EXCEPT !["Close"] = outputs]
    /\ UNCHANGED <<logVars, msgChan, hand, exited, destroyed, written, logged, before>>

\* len(msgChan) > 0, tested before the receive that startLogger may be ahead of.
CloseTest ==
    /\ ~exited /\ lpc["Close"] = "test"
    /\ IF msgChan # <<>>
       THEN Goto("Close", "take") /\ UNCHANGED rest
       ELSE Goto("Close", "destroy") /\ rest' = [rest EXCEPT !["Close"] = outputs]
    /\ UNCHANGED <<logVars, msgChan, hand, exited, destroyed, written, logged, before>>

CloseDestroy ==
    /\ ~exited /\ lpc["Close"] = "destroy"
    /\ IF rest["Close"] = <<>>
       THEN Goto("Close", "closed") /\ UNCHANGED <<rest, destroyed>>
       ELSE /\ destroyed' = destroyed \cup {Head(rest["Close"])}
            /\ rest' = [rest EXCEPT !["Close"] = Tail(@)]
            /\ UNCHANGED lpc
    /\ UNCHANGED <<logVars, msgChan, hand, exited, written, logged, before>>

Close == CloseBegin \/ CloseTest \/ Receive("Close", "take") \/ Written("Close", "test") \/ CloseDestroy

Next ==
    \/ \E s \in Senders : \/ Send(s) \/ Return(s)
                          \/ \E lv \in Levels : Log(s, lv)
    \/ \E g \in Goroutine : Write(g)
    \/ StartLogger \/ Close
    \/ \E a \in Adapters \ Kept : SetLogger(a) \/ DelLogger(a)

\* The goroutines run, adapters return, and a full channel takes the messages
\* of the senders that wait in their order.
Fairness ==
    /\ \A s \in Senders : WF_vars(Return(s)) /\ SF_vars(Send(s))
    /\ \A g \in Goroutine : WF_vars(Write(g))
    /\ WF_vars(StartLogger)

Spec == Init /\ [][Next]_vars /\ Fairness
-----------------------------------------------------------------------------
Took(a) == {written[a][i] : i \in DOMAIN written[a]}

\* No adapter gets a message twice, though startLogger and Close both take
\* messages from the channel and adapters come and go.
WrittenOnce ==
    \A a \in Adapters : Cardinality(Took(a)) = Len(written[a])

\* The messages of one goroutine are in every adapter in the order they were
\* logged, unless Close takes messages beside startLogger.
OrderKept ==
    lpc["Close"] = "idle" =>
        \A a \in Adapters : \A i, j \in DOMAIN written[a] :
            i < j /\ written[a][i][1] = written[a][j][1] => written[a][i][2] < written[a][j][2]

\* A process that ended by Fatalf, as dump.DumpPPLUDP does, has written why to
\* every adapter; an asynchronous logger may still have it in its channel.
FatalIsWritten ==
    exited /\ ~asynchronous =>
        \E s \in Senders : \A a \in Kept : <<s, Count(s), LevelFatal>> \in Took(a)

\* Of the messages that were in the channel when Close was called, at most one
\* is not in every adapter when Close has destroyed them: one that startLogger
\* had taken and came too late with.
CloseLosesOne ==
    lpc["Close"] = "closed" =>
        Cardinality({m \in before : \E a \in Kept : m \notin Took(a)}) <= 1

\* The messages a goroutine or the channel still holds.
Pending == {hand[g] : g \in Goroutine} \cup {msgChan[i] : i \in DOMAIN msgChan}

\* Unless the logger is closed every message that was logged is in every
\* adapter that stays, or still on its way there.
LoggedIsKept ==
    lpc["Close"] = "idle" =>
        \A m \in logged : m \in Pending \/ \A a \in Kept : m \in Took(a)

\* And it gets there: the logger falls behind for a time only.
CatchesUp == []<>(Pending = {NoMessage} \/ exited \/ lpc["Close"] # "idle")
=============================================================================
