-------------------------- MODULE ZeusLoggerProofs --------------------------
(***************************************************************************)
(* Theorems about the logger, for any number of goroutines, adapters and   *)
(* messages and any capacity of the channel.                               *)
(***************************************************************************)
EXTENDS ZeusLogger, FiniteSetTheorems, SequenceTheorems, TLAPS

\* The messages of each sender are in q in the order of their numbers.
Older(m, n) == m[1] = n[1] => m[2] < n[2]
Sorted(q)   == \A i, j \in DOMAIN q : i < j => Older(q[i], q[j])

Msg == Senders \X Nat \X Nat

-----------------------------------------------------------------------------
(* The invariant of the logger, part by part.                               *)

LogTypes ==
    /\ asynchronous \in BOOLEAN /\ exited \in BOOLEAN
    /\ logged \subseteq Msg /\ IsFiniteSet(logged)
    /\ msgChan \in Seq(Msg) /\ (~asynchronous => msgChan = <<>>)
    /\ hand \in [Goroutine -> Msg \cup {NoMessage}] /\ rest \in [Goroutine -> Seq(Adapters)]
    /\ written \in [Adapters -> Seq(Msg)]

\* Who may be where: senders write themselves, or startLogger and Close do.
Places ==
    /\ lpc \in [Goroutine -> {"idle", "send", "sent", "write", "test", "take", "destroy", "closed"}]
    /\ \A s \in Senders : lpc[s] \in {"idle"} \cup IF asynchronous THEN {"send", "sent"} ELSE {"write"}
    /\ lpc["startLogger"] \in {"idle"} \cup IF asynchronous THEN {"write"} ELSE {}
    /\ lpc["Close"] \in {"idle"} \cup
           IF asynchronous THEN {"test", "take", "write", "destroy", "closed"} ELSE {}

\* An adapter is among the outputs once, and those that stay always.
OutputsInv ==
    /\ outputs \in Seq(Adapters) /\ IsInjective(outputs) /\ Kept \subseteq Range(outputs)
    /\ lpc["Close"] \notin {"destroy", "closed"} => Kept \cap destroyed = {}

\* Messages are numbered, and a sender's latest is the one it is busy with.
Numbered ==
    /\ \A m, n \in logged : m[1] = n[1] /\ m[2] = n[2] => m = n
    /\ \A m \in logged : m[2] <= Count(m[1])
    /\ \A s \in Senders : lpc[s] # "idle" =>
           hand[s] \in logged /\ hand[s][1] = s /\ hand[s][2] = Count(s)

Holds(g) == lpc[g] \in {"send", "write"}
Queued   == Range(msgChan)
Todo(g)  == Range(rest[g])

\* A message is in one place: a goroutine's hand, a place of the channel or,
\* of each adapter, a place of what it took.
OnePlace ==
    /\ \A g \in Goroutine : Holds(g) => hand[g] \in logged \ Queued
    /\ \A g, h \in Goroutine : g # h /\ Holds(g) /\ Holds(h) => hand[g] # hand[h]
    /\ IsInjective(msgChan) /\ Queued \subseteq logged
    /\ \A a \in Adapters :
         /\ IsInjective(written[a]) /\ Took(a) \subseteq logged /\ Took(a) \cap Queued = {}
         /\ \A g \in Goroutine :
              /\ lpc[g] = "send" => hand[g] \notin Took(a)
              /\ lpc[g] = "write" /\ a \in Todo(g) => hand[g] \notin Took(a)
    /\ \A g \in Goroutine : lpc[g] = "write" => IsInjective(rest[g])

\* What is not everywhere yet is still held or queued, until Close destroys.
Complete(m) == \A a \in Kept : m \in Took(a)
Closing     == lpc["Close"] \in {"destroy", "closed"}
Carried(m)  == m \in Queued \/ \E g \in Goroutine : Holds(g) /\ hand[g] = m
OnItsWay ==
    /\ ~Closing => \A g \in Goroutine : lpc[g] = "write" =>
           \A a \in Kept : a \in Todo(g) \/ hand[g] \in Took(a)
    /\ lpc["Close"] = "idle" => \A m \in logged : Carried(m) \/ Complete(m)

\* Of what was queued when Close began only startLogger's message can be late.
Drained ==
    /\ lpc["Close"] \in {"test", "take", "write"} =>
         \A m \in before :
           \/ m \in Queued \/ Complete(m)
           \/ lpc["startLogger"] = "write" /\ hand["startLogger"] = m
           \/ lpc["Close"] = "write" /\ hand["Close"] = m
    /\ Closing => \E late \in logged \cup {NoMessage} : \A m \in before : m = late \/ Complete(m)

\* What is further on is older.
InOrder ==
    lpc["Close"] = "idle" =>
      /\ Sorted(msgChan)
      /\ \A a \in Adapters :
           /\ Sorted(written[a])
           /\ \A m \in Took(a) :
                /\ \A n \in Queued : Older(m, n)
                /\ \A g \in Goroutine : lpc[g] = "write" /\ a \in Todo(g) => Older(m, hand[g])
      /\ lpc["startLogger"] = "write" => \A n \in Queued : Older(hand["startLogger"], n)

LogInv ==
    /\ LogTypes /\ Places /\ OutputsInv /\ Numbered /\ OnePlace
    /\ OnItsWay /\ Drained /\ InOrder /\ FatalIsWritten

-----------------------------------------------------------------------------
(* Sequences.                                                               *)

LEMMA AppendIs ==
    ASSUME NEW S, NEW q \in Seq(S), NEW e \in S
    PROVE  /\ Append(q, e) \in Seq(S)
           /\ Range(Append(q, e)) = Range(q) \cup {e}
           /\ IsInjective(q) /\ e \notin Range(q) => IsInjective(Append(q, e))
           /\ Sorted(q) /\ (\A m \in Range(q) : Older(m, e)) => Sorted(Append(q, e))
<1> DEFINE n == Len(q)
           r == Append(q, e)
<1>1. n \in Nat /\ DOMAIN q = 1..n /\ r \in Seq(S) /\ DOMAIN r = 1..(n + 1)
      /\ r[n + 1] = e /\ \A i \in 1..n : r[i] = q[i]
  OBVIOUS
<1> HIDE DEF n, r
<1>2. \A i \in DOMAIN r : i \in DOMAIN q \/ i = n + 1
  BY <1>1
<1>3. n + 1 \in DOMAIN r /\ n + 1 \notin DOMAIN q /\ \A i \in DOMAIN q : i \in DOMAIN r /\ r[i] = q[i]
  BY <1>1
<1>4. Range(r) = Range(q) \cup {e}
  BY <1>1, <1>2, <1>3 DEF Range
<1>5. IsInjective(q) /\ e \notin Range(q) => IsInjective(r)
  BY <1>1, <1>2, <1>3 DEF Range, IsInjective
<1>6. ASSUME Sorted(q), \A m \in Range(q) : Older(m, e) PROVE Sorted(r)
  <2> SUFFICES ASSUME NEW i \in DOMAIN r, NEW j \in DOMAIN r, i < j PROVE Older(r[i], r[j])
    BY DEF Sorted
  <2>1. i \in DOMAIN q
    BY <1>1
  <2>2. CASE j \in DOMAIN q
    BY <1>3, <1>6, <2>1, <2>2 DEF Sorted
  <2>3. CASE j = n + 1
    BY <1>1, <1>3, <1>6, <2>1, <2>3 DEF Range
  <2> QED  BY <1>2, <2>2, <2>3
<1> QED  BY <1>1, <1>4, <1>5, <1>6 DEF r

LEMMA TailIs ==
    ASSUME NEW S, NEW q \in Seq(S), q # <<>>
    PROVE  /\ Tail(q) \in Seq(S) /\ Head(q) \in S
           /\ Range(q) = Range(Tail(q)) \cup {Head(q)}
           /\ IsInjective(q) => IsInjective(Tail(q)) /\ Head(q) \notin Range(Tail(q))
           /\ Sorted(q) => Sorted(Tail(q)) /\ \A m \in Range(Tail(q)) : Older(Head(q), m)
<1> DEFINE n == Len(q)
           r == Tail(q)
<1>1. /\ n \in Nat /\ n >= 1 /\ DOMAIN q = 1..n /\ r \in Seq(S) /\ DOMAIN r = 1..(n - 1)
      /\ Head(q) = q[1] /\ q[1] \in S /\ \A i \in 1..(n - 1) : r[i] = q[i + 1]
  OBVIOUS
<1> HIDE DEF n, r
<1>2. \A i \in DOMAIN q : i = 1 \/ (i - 1 \in DOMAIN r /\ r[i - 1] = q[i])
  BY <1>1
<1>3. 1 \in DOMAIN q /\ \A i \in DOMAIN r : i + 1 \in DOMAIN q /\ i + 1 # 1 /\ 1 < i + 1 /\ r[i] = q[i + 1]
  BY <1>1
<1>4. \A i, j \in DOMAIN r : (i + 1 = j + 1 => i = j) /\ (i < j => i + 1 < j + 1)
  BY <1>1
<1>5. Range(q) = Range(r) \cup {Head(q)}
  BY <1>1, <1>2, <1>3 DEF Range
<1>6. IsInjective(q) => IsInjective(r) /\ Head(q) \notin Range(r)
  BY <1>1, <1>3, <1>4 DEF Range, IsInjective
<1>7. Sorted(q) => Sorted(r)
  BY <1>3, <1>4 DEF Sorted
<1>8. Sorted(q) => \A m \in Range(r) : Older(Head(q), m)
  BY <1>1, <1>3 DEF Range, Sorted
<1> QED  BY <1>1, <1>5, <1>6, <1>7, <1>8 DEF r

LEMMA EmptyIs == Range(<<>>) = {} /\ IsInjective(<<>>) /\ Sorted(<<>>)
BY DEF Range, IsInjective, Sorted

\* What DelLogger leaves: all but the element at i.
LEMMA RemovedIs ==
    ASSUME NEW S, NEW q \in Seq(S), NEW i \in DOMAIN q, IsInjective(q)
    PROVE  LET r == SubSeq(q, 1, i - 1) \o SubSeq(q, i + 1, Len(q))
           IN  r \in Seq(S) /\ IsInjective(r) /\ Range(r) = Range(q) \ {q[i]}
<1> DEFINE n == Len(q)
           r == SubSeq(q, 1, i - 1) \o SubSeq(q, i + 1, n)
<1>1. n \in Nat /\ DOMAIN q = 1..n /\ i \in 1..n
  OBVIOUS
<1>2. /\ r \in Seq(S) /\ DOMAIN r = 1..(n - 1)
      /\ \A j \in 1..(n - 1) : r[j] = IF j < i THEN q[j] ELSE q[j + 1]
  <2> DEFINE u == SubSeq(q, 1, i - 1)  w == SubSeq(q, i + 1, n)
  <2>1. u \in Seq(S) /\ Len(u) = i - 1 /\ \A j \in 1..(i - 1) : u[j] = q[j]
    BY <1>1
  <2>2. w \in Seq(S) /\ Len(w) = n - i /\ \A j \in 1..(n - i) : w[j] = q[i + j]
    BY <1>1
  <2> HIDE DEF u, w, n
  <2>3. u \o w \in Seq(S) /\ Len(u \o w) = n - 1
        /\ \A j \in 1..(n - 1) : (u \o w)[j] = IF j < i THEN q[j] ELSE q[j + 1]
    <3>1. /\ u \o w \in Seq(S) /\ Len(u \o w) = Len(u) + Len(w)
          /\ \A j \in 1..(Len(u) + Len(w)) : (u \o w)[j] = IF j <= Len(u) THEN u[j] ELSE w[j - Len(u)]
      BY <2>1, <2>2, ConcatProperties
    <3>2. Len(u) = i - 1 /\ Len(u) + Len(w) = n - 1
      BY <1>1, <2>1, <2>2
    <3>3. ASSUME NEW j \in 1..(n - 1), j < i PROVE (u \o w)[j] = q[j]
      <4>1. j \in 1..(i - 1) /\ j <= i - 1
        BY <1>1, <3>3
      <4> QED  BY <2>1, <3>1, <3>2, <4>1
    <3>4. ASSUME NEW j \in 1..(n - 1), ~(j < i) PROVE (u \o w)[j] = q[j + 1]
      <4>1. j - (i - 1) \in 1..(n - i) /\ ~(j <= i - 1) /\ i + (j - (i - 1)) = j + 1
        BY <1>1, <3>4
      <4> QED  BY <2>2, <3>1, <3>2, <4>1
    <3> QED  BY <3>1, <3>2, <3>3, <3>4
  <2>4. DOMAIN (u \o w) = 1..(n - 1)
    BY <2>3
  <2>5. r = u \o w
    BY DEF r, u, w, n
  <2> HIDE DEF r
  <2> QED  BY <2>3, <2>4, <2>5
<1> HIDE DEF n, r
<1>3. \A j \in DOMAIN q : j # i => (j < i /\ j \in DOMAIN r /\ r[j] = q[j])
                                   \/ (j - 1 \in DOMAIN r /\ r[j - 1] = q[j])
  BY <1>1, <1>2
<1>4. \A j \in DOMAIN r : \E k \in DOMAIN q : k # i /\ r[j] = q[k]
  <2> SUFFICES ASSUME NEW j \in DOMAIN r PROVE \E k \in DOMAIN q : k # i /\ r[j] = q[k]
    OBVIOUS
  <2>1. CASE j < i
    BY <1>1, <1>2, <2>1
  <2>2. CASE ~(j < i)
    <3>1. j + 1 \in DOMAIN q /\ j + 1 # i /\ r[j] = q[j + 1]
      BY <1>1, <1>2, <2>2
    <3> QED  BY <3>1
  <2> QED  BY <2>1, <2>2
<1>5. Range(r) = Range(q) \ {q[i]}
  <2>1. \A e : e \in Range(r) => e \in Range(q) /\ e # q[i]
    BY <1>4 DEF Range, IsInjective
  <2>2. \A e : e \in Range(q) /\ e # q[i] => e \in Range(r)
    <3>1. \A j \in DOMAIN q : q[j] # q[i] => \E k \in DOMAIN r : r[k] = q[j]
      BY <1>3
    <3> QED  BY <3>1 DEF Range
  <2> QED  BY <2>1, <2>2
<1>6. IsInjective(r)
  <2> SUFFICES ASSUME NEW j \in DOMAIN r, NEW k \in DOMAIN r, r[j] = r[k] PROVE j = k
    BY DEF IsInjective
  <2> DEFINE p(l) == IF l < i THEN l ELSE l + 1
  <2>1. p(j) \in DOMAIN q /\ p(k) \in DOMAIN q /\ r[j] = q[p(j)] /\ r[k] = q[p(k)]
    BY <1>1, <1>2
  <2>2. p(j) = p(k)
    BY <2>1 DEF IsInjective
  <2> QED  BY <1>1, <1>2, <2>2
<1> QED  BY <1>2, <1>5, <1>6 DEF r, n

-----------------------------------------------------------------------------
(* The steps.                                                               *)

\* startLogger and Close take a message from the channel, and are done with it.
Takes(g) ==
    \/ g = "startLogger" /\ asynchronous /\ Receive(g, "idle")
    \/ g = "Close" /\ Receive(g, "take")

Finishes(g) ==
    \/ g = "startLogger" /\ asynchronous /\ Written(g, "idle")
    \/ g = "Close" /\ Written(g, "test")

Readers == {"startLogger", "Close"}

LEMMA StepIs ==
    ASSUME Next
    PROVE  \/ \E s \in Senders, lv \in Levels : Log(s, lv)
           \/ \E s \in Senders : Send(s) \/ Return(s)
           \/ \E g \in Goroutine : Write(g)
           \/ \E g \in Readers : Takes(g) \/ Finishes(g)
           \/ \E a \in Adapters \ Kept : SetLogger(a) \/ DelLogger(a)
           \/ CloseBegin \/ CloseTest \/ CloseDestroy
BY DEF Next, StartLogger, Close, Takes, Finishes, Readers

LEMMA WhoIs ==
    /\ \A s \in Senders : s \in Goroutine /\ s \notin Readers
    /\ \A g \in Goroutine : g \in Senders \/ g \in Readers
    /\ Readers \subseteq Goroutine /\ "startLogger" # "Close"
BY SendersAssumption DEF Goroutine, Readers

LEMMA MsgIs ==
    ASSUME NEW m \in Msg
    PROVE  /\ m[1] \in Senders /\ m[2] \in Nat /\ m[3] \in Nat
           /\ m = <<m[1], m[2], m[3]>>
BY DEF Msg

LEMMA PlacesStep ==
    ASSUME LogTypes, Places, Next
    PROVE  Places'
<1> USE DEF Places
<1>1. ASSUME NEW s \in Senders, NEW lv \in Levels, Log(s, lv) PROVE Places'
  BY <1>1, WhoIs DEF Log, Goto, Readers, logVars
<1>2. ASSUME NEW s \in Senders, Send(s) \/ Return(s) PROVE Places'
  BY <1>2, WhoIs DEF Send, Return, Goto, Readers, logVars
<1>3. ASSUME NEW g \in Readers, Takes(g) \/ Finishes(g) PROVE Places'
  <2>1. asynchronous
    BY <1>3 DEF Takes, Finishes, Receive, Written
  <2>2. /\ asynchronous' = asynchronous /\ lpc' = [lpc EXCEPT ![g] = lpc'[g]]
        /\ lpc'[g] \in {"write", "idle", "test"} /\ (g = "startLogger" => lpc'[g] # "test")
    BY <1>3, WhoIs DEF Takes, Finishes, Receive, Written, Goto, Readers, logVars
  <2> QED  BY <2>1, <2>2, WhoIs DEF Readers
<1>4. CASE CloseBegin \/ CloseTest \/ CloseDestroy
  <2>1. asynchronous
    BY <1>4 DEF CloseBegin, CloseTest, CloseDestroy
  <2>2. /\ asynchronous' = asynchronous
        /\ UNCHANGED lpc \/ \E at \in {"test", "take", "destroy", "closed"} : Goto("Close", at)
    BY <1>4 DEF CloseBegin, CloseTest, CloseDestroy, logVars
  <2> QED  BY <2>1, <2>2, WhoIs DEF Goto, Readers
<1>5. ASSUME UNCHANGED <<asynchronous, lpc>> PROVE Places'
  BY <1>5
<1>6. ASSUME NEW g \in Goroutine, Write(g) PROVE Places'
  BY <1>5, <1>6 DEF Write, logVars
<1>7. ASSUME NEW a \in Adapters \ Kept, SetLogger(a) \/ DelLogger(a) PROVE Places'
  BY <1>5, <1>7 DEF SetLogger, DelLogger
<1> QED  BY StepIs, <1>1, <1>2, <1>3, <1>4, <1>6, <1>7

LEMMA OutputsStep ==
    ASSUME LogTypes, Places, OutputsInv, Next
    PROVE  OutputsInv'
<1> USE DEF OutputsInv
<1>1. ASSUME NEW a \in Adapters \ Kept, SetLogger(a) PROVE OutputsInv'
  <2>1. a \notin Range(outputs) /\ outputs' = Append(outputs, a) /\ UNCHANGED <<lpc, destroyed>>
    BY <1>1 DEF SetLogger, Range
  <2>2. outputs' \in Seq(Adapters) /\ IsInjective(outputs') /\ Range(outputs') = Range(outputs) \cup {a}
    BY <2>1, AppendIs
  <2> QED  BY <2>1, <2>2
<1>2. ASSUME NEW a \in Adapters \ Kept, DelLogger(a) PROVE OutputsInv'
  <2>1. PICK i \in DOMAIN outputs :
            outputs[i] = a /\ outputs' = SubSeq(outputs, 1, i - 1) \o SubSeq(outputs, i + 1, Len(outputs))
    BY <1>2 DEF DelLogger
  <2>2. outputs' \in Seq(Adapters) /\ IsInjective(outputs') /\ Range(outputs') = Range(outputs) \ {a}
    BY <2>1, RemovedIs
  <2>3. destroyed' = destroyed \cup {a} /\ UNCHANGED lpc
    BY <1>2 DEF DelLogger
  <2> QED  BY <2>2, <2>3
<1>3. CASE CloseDestroy
  BY <1>3 DEF CloseDestroy, Goto, Places, logVars, Goroutine
<1>4. ASSUME UNCHANGED <<outputs, destroyed>>, lpc'["Close"] \notin {"destroy", "closed"} =>
             lpc["Close"] \notin {"destroy", "closed"}
      PROVE  OutputsInv'
  BY <1>4
<1>5. ASSUME NEW s \in Senders, NEW lv \in Levels, Log(s, lv) PROVE OutputsInv'
  BY <1>4, <1>5, WhoIs DEF Log, Goto, Places, Readers, logVars
<1>6. ASSUME NEW s \in Senders, Send(s) \/ Return(s) PROVE OutputsInv'
  BY <1>4, <1>6, WhoIs DEF Send, Return, Goto, Places, Readers, logVars
<1>7. ASSUME NEW g \in Goroutine, Write(g) PROVE OutputsInv'
  BY <1>4, <1>7 DEF Write, logVars
<1>8. ASSUME NEW g \in Readers, Takes(g) \/ Finishes(g) PROVE OutputsInv'
  BY <1>4, <1>8, WhoIs DEF Takes, Finishes, Receive, Written, Goto, Places, Readers, logVars
<1>9. CASE CloseBegin \/ CloseTest
  BY <1>4, <1>9 DEF CloseBegin, CloseTest, Goto, Places, logVars, Goroutine
<1> QED  BY StepIs, <1>1, <1>2, <1>3, <1>5, <1>6, <1>7, <1>8, <1>9

LEMMA CountIs ==
    ASSUME LogTypes, NEW s \in Senders
    PROVE  Count(s) \in Nat
<1>1. {m \in logged : m[1] = s} \in SUBSET logged
  OBVIOUS
<1>2. IsFiniteSet({m \in logged : m[1] = s})
  BY <1>1, FS_Subset DEF LogTypes
<1> QED  BY <1>2, FS_CardinalityType DEF Count

\* A new message has the next number of its sender.
LEMMA CountGrows ==
    ASSUME LogTypes, Numbered, NEW s \in Senders, NEW lv \in Nat,
           logged' = logged \cup {<<s, Count(s) + 1, lv>>}
    PROVE  /\ <<s, Count(s) + 1, lv>> \in Msg \ logged
           /\ Count(s)' = Count(s) + 1
           /\ \A r \in Senders : r # s => Count(r)' = Count(r)
<1> DEFINE m == <<s, Count(s) + 1, lv>>
           Of(r) == {n \in logged : n[1] = r}
<1>1. Count(s) \in Nat
  BY CountIs
<1>2. m \in Msg /\ m[1] = s /\ m[2] = Count(s) + 1
  BY <1>1 DEF Msg
<1>3. m \notin logged
  BY <1>1, <1>2 DEF Numbered
<1>4. \A r \in Senders : IsFiniteSet(Of(r))
  <2>1. \A r \in Senders : Of(r) \in SUBSET logged
    OBVIOUS
  <2> QED  BY <2>1, FS_Subset DEF LogTypes
<1> HIDE DEF m
<1>5. logged' = logged \cup {m}
  BY DEF m
<1>6. {n \in logged' : n[1] = s} = Of(s) \cup {m} /\ m \notin Of(s)
  BY <1>2, <1>3, <1>5
<1>7. \A r \in Senders : r # s => {n \in logged' : n[1] = r} = Of(r)
  BY <1>2, <1>5
<1> HIDE DEF Of
<1>8. Cardinality(Of(s) \cup {m}) = Cardinality(Of(s)) + 1
  BY <1>4, <1>6, FS_AddElement
<1>9. \A r \in Senders : Count(r) = Cardinality(Of(r)) /\ Count(r)' = Cardinality({n \in logged' : n[1] = r})
  BY DEF Count, Of
<1>10. Count(s)' = Count(s) + 1 /\ \A r \in Senders : r # s => Count(r)' = Count(r)
  BY <1>6, <1>7, <1>8, <1>9
<1> QED  BY <1>2, <1>3, <1>10 DEF m

\* What a goroutine holds was logged; a sender holds its latest message.
LEMMA HandIs ==
    ASSUME LogInv, NEW g \in Goroutine
    PROVE  /\ Holds(g) => hand[g] \in logged /\ hand[g] \in Msg
           /\ g \in Senders /\ lpc[g] # "idle" => hand[g] \in logged /\ hand[g] \in Msg
BY DEF LogInv, OnePlace, LogTypes, Numbered

\* The sequences of the state and what they hold.
LEMMA SeqsAre ==
    ASSUME LogInv
    PROVE  /\ msgChan \in Seq(Msg) /\ Queued \subseteq logged /\ logged \subseteq Msg
           /\ \A g \in Goroutine : rest[g] \in Seq(Adapters)
           /\ \A a \in Adapters : written[a] \in Seq(Msg) /\ Took(a) = Range(written[a]) /\ Took(a) \subseteq logged
BY DEF LogInv, LogTypes, OnePlace, Took, Range

LEMMA TypesStep ==
    ASSUME LogInv, Next
    PROVE  LogTypes'
<1>0. LogTypes /\ Places /\ OutputsInv
  BY DEF LogInv
<1> USE DEF LogTypes
<1>1. ASSUME NEW s \in Senders, NEW lv \in Levels, Log(s, lv) PROVE LogTypes'
  <2> DEFINE m == <<s, Count(s) + 1, lv>>
  <2>1. m \in Msg
    <3>1. Count(s) \in Nat
      BY <1>0, CountIs
    <3> QED  BY <3>1, LevelsAssumption DEF Msg
  <2>2. /\ logged' = logged \cup {m} /\ UNCHANGED <<asynchronous, exited, msgChan, written>>
        /\ hand' = [hand EXCEPT ![s] = m]
        /\ UNCHANGED rest \/ rest' = [rest EXCEPT ![s] = outputs]
    BY <1>1 DEF Log, TakesUp, logVars
  <2> HIDE DEF m
  <2>3. IsFiniteSet(logged')
    BY <1>0, <2>2, FS_AddElement
  <2> QED  BY <1>0, <2>1, <2>2, <2>3, WhoIs DEF OutputsInv
<1>2. ASSUME NEW s \in Senders, Send(s) PROVE LogTypes'
  <2>1. /\ msgChan' = Append(msgChan, hand[s]) /\ UNCHANGED <<asynchronous, exited, logged, rest, written>>
        /\ UNCHANGED hand \/ hand' = [hand EXCEPT ![s] = NoMessage]
    BY <1>2 DEF Send, logVars
  <2>2. hand[s] \in Msg /\ asynchronous
    BY <1>0, <1>2, HandIs, WhoIs DEF Send, Places
  <2>3. msgChan' \in Seq(Msg)
    BY <1>0, <2>1, <2>2
  <2> QED  BY <1>0, <2>1, <2>2, <2>3, WhoIs
<1>3. ASSUME NEW s \in Senders, Return(s) PROVE LogTypes'
  <2>1. /\ UNCHANGED <<asynchronous, msgChan, logged, rest, written>> /\ exited' \in BOOLEAN
        /\ hand' = [hand EXCEPT ![s] = NoMessage]
    BY <1>3 DEF Return, logVars
  <2> QED  BY <1>0, <2>1, WhoIs
<1>4. ASSUME NEW g \in Goroutine, Write(g) PROVE LogTypes'
  <2>1. hand[g] \in Msg /\ rest[g] \in Seq(Adapters) /\ rest[g] # <<>>
    BY <1>4, HandIs, SeqsAre DEF Write, Holds
  <2>2. Tail(rest[g]) \in Seq(Adapters) /\ Head(rest[g]) \in Adapters
    BY <2>1, TailIs
  <2>3. /\ UNCHANGED <<asynchronous, exited, msgChan, hand, logged>>
        /\ rest' = [rest EXCEPT ![g] = Tail(rest[g])]
        /\ \/ UNCHANGED written
           \/ written' = [written EXCEPT ![Head(rest[g])] = Append(written[Head(rest[g])], hand[g])]
    BY <1>4 DEF Write, logVars
  <2>4. Append(written[Head(rest[g])], hand[g]) \in Seq(Msg)
    BY <1>0, <2>1, <2>2
  <2> QED  BY <1>0, <2>2, <2>3, <2>4
<1>5. ASSUME NEW g \in Readers, Takes(g) PROVE LogTypes'
  <2>1. /\ msgChan # <<>> /\ UNCHANGED <<asynchronous, exited, written, logged>> /\ msgChan' = Tail(msgChan)
        /\ hand' = [hand EXCEPT ![g] = Head(msgChan)] /\ rest' = [rest EXCEPT ![g] = outputs]
    BY <1>5 DEF Takes, Receive, TakesUp, logVars
  <2>2. Tail(msgChan) \in Seq(Msg) /\ Head(msgChan) \in Msg
    BY <1>0, <2>1, TailIs
  <2> QED  BY <1>0, <2>1, <2>2, WhoIs DEF OutputsInv
<1>6. ASSUME NEW g \in Readers, Finishes(g) PROVE LogTypes'
  BY <1>0, <1>6, WhoIs DEF Finishes, Written, logVars
<1>7. ASSUME NEW a \in Adapters \ Kept, SetLogger(a) \/ DelLogger(a) PROVE LogTypes'
  BY <1>0, <1>7 DEF SetLogger, DelLogger
<1>8. CASE CloseBegin
  BY <1>0, <1>8 DEF CloseBegin, logVars
<1>9. CASE CloseTest
  BY <1>0, <1>9, WhoIs DEF CloseTest, logVars, OutputsInv
<1>10. CASE CloseDestroy
  <2>1. rest["Close"] \in Seq(Adapters)
    BY SeqsAre DEF Goroutine
  <2>2. rest["Close"] # <<>> => Tail(rest["Close"]) \in Seq(Adapters)
    BY <2>1
  <2> QED  BY <1>0, <1>10, <2>2 DEF CloseDestroy, logVars
<1> QED  BY StepIs, <1>1, <1>2, <1>3, <1>4, <1>5, <1>6, <1>7, <1>8, <1>9, <1>10

LEMMA NumberedStep ==
    ASSUME LogInv, Next
    PROVE  Numbered'
<1>0. LogTypes /\ Places /\ Numbered
  BY DEF LogInv
<1>1. ASSUME NEW s \in Senders, NEW lv \in Levels, Log(s, lv) PROVE Numbered'
  <2> DEFINE m == <<s, Count(s) + 1, lv>>
  <2>1. /\ logged' = logged \cup {m} /\ hand' = [hand EXCEPT ![s] = m]
        /\ \E at \in {"send", "write"} : lpc' = [lpc EXCEPT ![s] = at]
    BY <1>1 DEF Log, TakesUp, Goto
  <2>2. lv \in Nat
    BY LevelsAssumption
  <2>3. /\ m \in Msg \ logged /\ Count(s) \in Nat /\ Count(s)' = Count(s) + 1
        /\ \A r \in Senders : r # s => Count(r)' = Count(r)
    BY <1>0, <2>1, <2>2, CountGrows, CountIs
  <2>4. m[1] = s /\ m[2] = Count(s) + 1
    OBVIOUS
  <2> HIDE DEF m
  <2>5. \A n \in logged : n[1] \in Senders /\ n[2] \in Nat /\ n[2] <= Count(n[1])
    BY <1>0, MsgIs DEF LogTypes, Numbered
  <2>6. \A n \in logged' : n[2] <= Count(n[1])'
    <3> SUFFICES ASSUME NEW n \in logged' PROVE n[2] <= Count(n[1])'
      OBVIOUS
    <3>1. CASE n = m
      BY <2>3, <2>4, <3>1
    <3>2. CASE n \in logged /\ n[1] = s
      BY <2>3, <2>5, <3>2
    <3>3. CASE n \in logged /\ n[1] # s
      BY <2>3, <2>5, <3>3
    <3> QED  BY <2>1, <3>1, <3>2, <3>3
  <2>7. \A n \in logged : n[1] = s => n[2] # m[2]
    BY <2>3, <2>4, <2>5
  <2>8. \A n, o \in logged' : n[1] = o[1] /\ n[2] = o[2] => n = o
    BY <1>0, <2>1, <2>4, <2>7 DEF Numbered
  <2>9. \A r \in Senders : lpc'[r] # "idle" => hand'[r] \in logged' /\ hand'[r][1] = r /\ hand'[r][2] = Count(r)'
    <3> SUFFICES ASSUME NEW r \in Senders, lpc'[r] # "idle"
                 PROVE  hand'[r] \in logged' /\ hand'[r][1] = r /\ hand'[r][2] = Count(r)'
      OBVIOUS
    <3>1. CASE r = s
      BY <1>0, <2>1, <2>3, <2>4, <3>1, WhoIs DEF LogTypes
    <3>2. CASE r # s
      BY <1>0, <2>1, <2>3, <3>2, WhoIs DEF LogTypes, Places, Numbered
    <3> QED  BY <3>1, <3>2
  <2> QED  BY <2>6, <2>8, <2>9 DEF Numbered
<1>2. ASSUME logged' = logged,
             \A r \in Senders : lpc'[r] # "idle" => lpc[r] # "idle" /\ hand'[r] = hand[r]
      PROVE  Numbered'
  <2>1. \A r \in Senders : Count(r)' = Count(r)
    BY <1>2 DEF Count
  <2>2. \A m \in logged : m[1] \in Senders
    BY <1>0, MsgIs DEF LogTypes
  <2> QED  BY <1>0, <1>2, <2>1, <2>2 DEF Numbered
<1>3. ASSUME NEW s \in Senders, Send(s) \/ Return(s) PROVE Numbered'
  <2>1. /\ logged' = logged /\ lpc[s] # "idle"
        /\ hand' = [hand EXCEPT ![s] = hand'[s]] /\ lpc' = [lpc EXCEPT ![s] = lpc'[s]]
        /\ lpc'[s] = "idle" \/ hand'[s] = hand[s]
    BY <1>0, <1>3, WhoIs DEF Send, Return, Goto, LogTypes, Places
  <2> QED  BY <1>0, <1>2, <2>1, WhoIs DEF LogTypes, Places
<1>4. ASSUME NEW g \in Goroutine, Write(g) PROVE Numbered'
  BY <1>2, <1>4 DEF Write
<1>5. ASSUME NEW g \in Readers, Takes(g) \/ Finishes(g) PROVE Numbered'
  <2>1. /\ logged' = logged
        /\ hand' = [hand EXCEPT ![g] = hand'[g]] /\ lpc' = [lpc EXCEPT ![g] = lpc'[g]]
    BY <1>0, <1>5, WhoIs DEF Takes, Finishes, Receive, TakesUp, Written, Goto, LogTypes, Places
  <2> QED  BY <1>0, <1>2, <2>1, WhoIs DEF LogTypes, Places
<1>6. ASSUME NEW a \in Adapters \ Kept, SetLogger(a) \/ DelLogger(a) PROVE Numbered'
  BY <1>2, <1>6 DEF SetLogger, DelLogger
<1>7. CASE CloseBegin \/ CloseTest \/ CloseDestroy
  <2>1. logged' = logged /\ hand' = hand /\ (UNCHANGED lpc \/ \E at : lpc' = [lpc EXCEPT !["Close"] = at])
    BY <1>7 DEF CloseBegin, CloseTest, CloseDestroy, Goto
  <2>2. \A r \in Senders : lpc'[r] = lpc[r]
    BY <1>0, <2>1, WhoIs DEF Places, Readers
  <2> QED  BY <1>2, <2>1, <2>2
<1> QED  BY StepIs, <1>1, <1>3, <1>4, <1>5, <1>6, <1>7

LEMMA FatalStep ==
    ASSUME LogInv, Next
    PROVE  FatalIsWritten'
<1>0. LogTypes /\ Places /\ Numbered /\ OnItsWay
  BY DEF LogInv
<1>1. ASSUME NEW s \in Senders, Return(s), exited', ~asynchronous' PROVE FatalIsWritten'
  <2>1. /\ ~asynchronous /\ lpc[s] = "write" /\ rest[s] = <<>> /\ hand[s][3] = LevelFatal
        /\ UNCHANGED <<logged, written>>
    BY <1>0, <1>1 DEF Return, Places, logVars, LogTypes
  <2>2. s \in Goroutine /\ lpc["Close"] = "idle"
    BY <1>0, <2>1, WhoIs DEF Places
  <2>3. hand[s] = <<s, Count(s), LevelFatal>>
    <3>1. hand[s] \in Msg /\ hand[s][1] = s /\ hand[s][2] = Count(s)
      BY <1>0, <2>1, HandIs, <2>2 DEF Numbered
    <3> QED  BY <2>1, <3>1, MsgIs
  <2>4. \A a \in Kept : hand[s] \in Took(a)
    BY <1>0, <2>1, <2>2 DEF OnItsWay, Closing, Todo, Range
  <2>5. Count(s)' = Count(s) /\ \A a \in Kept : Took(a)' = Took(a)
    BY <2>1 DEF Count, Took
  <2>6. \A a \in Kept : <<s, Count(s)', LevelFatal>> \in Took(a)'
    BY <2>3, <2>4, <2>5
  <2> QED  BY <2>6 DEF FatalIsWritten
<1>2. ~(\E s \in Senders : Return(s)) => exited' = exited /\ ~exited
  BY StepIs DEF Log, Send, Write, Takes, Finishes, Receive, Written, SetLogger, DelLogger,
                CloseBegin, CloseTest, CloseDestroy
<1> QED  BY <1>1, <1>2 DEF FatalIsWritten

\* A message that is new is nowhere.
LEMMA NewIsNowhere ==
    ASSUME LogInv, NEW m, m \notin logged
    PROVE  /\ m \notin Queued /\ \A a \in Adapters : m \notin Took(a)
           /\ \A g \in Goroutine : Holds(g) => hand[g] # m
BY DEF LogInv, OnePlace

\* What each step does to the places of the messages.
LEMMA OnePlaceStep ==
    ASSUME LogInv, Next
    PROVE  OnePlace'
<1>0. LogTypes /\ Places /\ OutputsInv /\ OnePlace
  BY DEF LogInv
<1> USE DEF OnePlace
<1>1. ASSUME NEW s \in Senders, NEW lv \in Levels, Log(s, lv) PROVE OnePlace'
  <2> DEFINE m == <<s, Count(s) + 1, lv>>
  <2>1. /\ logged' = logged \cup {m} /\ UNCHANGED <<msgChan, written>>
        /\ hand' = [hand EXCEPT ![s] = m]
        /\ \/ lpc' = [lpc EXCEPT ![s] = "send"] /\ UNCHANGED rest
           \/ lpc' = [lpc EXCEPT ![s] = "write"] /\ rest' = [rest EXCEPT ![s] = outputs]
    BY <1>1 DEF Log, TakesUp, Goto
  <2>2. m \notin logged
    <3>1. lv \in Nat
      BY LevelsAssumption
    <3> QED  BY <2>1, <3>1, CountGrows DEF LogInv
  <2> HIDE DEF m
  <2>3. /\ m \notin Queued /\ \A a \in Adapters : m \notin Took(a)
        /\ \A g \in Goroutine : Holds(g) => hand[g] # m
    BY <2>2, NewIsNowhere
  <2>4. Queued' = Queued /\ \A a \in Adapters : Took(a)' = Took(a)
    BY <2>1 DEF Queued, Took
  <2>5. \A g \in Goroutine : g # s => lpc'[g] = lpc[g] /\ hand'[g] = hand[g] /\ rest'[g] = rest[g]
    BY <1>0, <2>1 DEF LogTypes, Places
  <2>6. /\ s \in Goroutine /\ hand'[s] = m /\ lpc'[s] \in {"send", "write"}
        /\ lpc'[s] = "write" => rest'[s] = outputs
    BY <1>0, <2>1, WhoIs DEF LogTypes, Places
  <2>7. \A g \in Goroutine : g # s => (Holds(g)' <=> Holds(g)) /\ Todo(g)' = Todo(g)
    BY <2>5 DEF Holds, Todo
  <2>8. \A g \in Goroutine : Holds(g)' => hand'[g] \in logged' \ Queued'
    BY <1>0, <2>1, <2>3, <2>4, <2>5, <2>6, <2>7
  <2>9. \A g, h \in Goroutine : g # h /\ Holds(g)' /\ Holds(h)' => hand'[g] # hand'[h]
    BY <1>0, <2>3, <2>5, <2>6, <2>7
  <2>10. \A a \in Adapters, g \in Goroutine :
              /\ lpc'[g] = "send" => hand'[g] \notin Took(a)
              /\ lpc'[g] = "write" /\ a \in Todo(g)' => hand'[g] \notin Took(a)
    BY <1>0, <2>3, <2>5, <2>6, <2>7
  <2>11. \A g \in Goroutine : lpc'[g] = "write" => IsInjective(rest'[g])
    BY <1>0, <2>5, <2>6 DEF OutputsInv
  <2> QED  BY <1>0, <2>1, <2>4, <2>8, <2>9, <2>10, <2>11
<1>2. ASSUME UNCHANGED <<logged, msgChan, written>>,
             \A g \in Goroutine : lpc'[g] \in {"send", "write"} =>
                 lpc'[g] = lpc[g] /\ hand'[g] = hand[g] /\ rest'[g] = rest[g]
      PROVE  OnePlace'
  <2>1. Queued' = Queued /\ \A a \in Adapters : Took(a)' = Took(a)
    BY <1>2 DEF Queued, Took
  <2>2. \A g \in Goroutine : Holds(g)' => Holds(g) /\ hand'[g] = hand[g]
    BY <1>2 DEF Holds
  <2>3. \A g \in Goroutine : lpc'[g] = "write" => Todo(g)' = Todo(g)
    BY <1>2 DEF Todo
  <2> QED  BY <1>0, <1>2, <2>1, <2>2, <2>3
<1>3. ASSUME NEW s \in Senders, Send(s) PROVE OnePlace'
  <2> DEFINE m == hand[s]
  <2>1. /\ lpc[s] = "send" /\ msgChan' = Append(msgChan, m) /\ UNCHANGED <<logged, written, rest>>
        /\ \E at \in {"sent", "idle"} : lpc' = [lpc EXCEPT ![s] = at]
        /\ \A g \in Goroutine : g # s => hand'[g] = hand[g]
    BY <1>0, <1>3 DEF Send, Goto, LogTypes
  <2>2. /\ s \in Goroutine /\ Holds(s) /\ m \in Msg /\ m \in logged \ Queued
        /\ \A a \in Adapters : m \notin Took(a)
        /\ \A g \in Goroutine : g # s /\ Holds(g) => hand[g] # m
    BY <1>0, <2>1, WhoIs, HandIs DEF Holds
  <2>3. ~Holds(s)' /\ lpc'[s] # "send" /\ lpc'[s] # "write" /\ \A g \in Goroutine : g # s => lpc'[g] = lpc[g]
    BY <1>0, <2>1, <2>2 DEF Places, Holds
  <2> HIDE DEF m
  <2>4. IsInjective(msgChan') /\ Queued' = Queued \cup {m}
    BY <1>0, <2>1, <2>2, AppendIs DEF LogTypes, Queued
  <2>5. \A a \in Adapters : Took(a)' = Took(a)
    BY <2>1 DEF Took
  <2>6. \A g \in Goroutine : g # s => (Holds(g)' <=> Holds(g)) /\ Todo(g)' = Todo(g)
    BY <2>1, <2>3 DEF Holds, Todo
  <2>7. \A g \in Goroutine : Holds(g)' => g # s /\ Holds(g) /\ hand'[g] = hand[g]
    BY <2>1, <2>3, <2>6
  <2>8. Queued' \subseteq logged' /\ \A a \in Adapters : Took(a)' \cap Queued' = {}
    BY <1>0, <2>1, <2>2, <2>4, <2>5
  <2>9. \A g \in Goroutine : Holds(g)' => hand'[g] \in logged' \ Queued'
    BY <1>0, <2>1, <2>2, <2>4, <2>7
  <2>10. \A a \in Adapters, g \in Goroutine :
              /\ lpc'[g] = "send" => hand'[g] \notin Took(a)'
              /\ lpc'[g] = "write" /\ a \in Todo(g)' => hand'[g] \notin Took(a)'
    BY <1>0, <2>1, <2>3, <2>5, <2>6
  <2>11. \A g, h \in Goroutine : g # h /\ Holds(g)' /\ Holds(h)' => hand'[g] # hand'[h]
    BY <1>0, <2>7
  <2>12. \A g \in Goroutine : lpc'[g] = "write" => IsInjective(rest'[g])
    BY <1>0, <2>1, <2>3
  <2>13. \A a \in Adapters : IsInjective(written'[a]) /\ Took(a)' \subseteq logged'
    BY <1>0, <2>1, <2>5
  <2> QED  BY <2>4, <2>8, <2>9, <2>10, <2>11, <2>12, <2>13
<1>4. ASSUME NEW s \in Senders, Return(s) PROVE OnePlace'
  <2>1. /\ UNCHANGED <<logged, msgChan, written, rest>>
        /\ hand' = [hand EXCEPT ![s] = NoMessage] /\ lpc' = [lpc EXCEPT ![s] = "idle"]
    BY <1>4 DEF Return, Goto
  <2>2. \A g \in Goroutine : lpc'[g] \in {"send", "write"} => lpc'[g] = lpc[g] /\ hand'[g] = hand[g]
    BY <1>0, <2>1 DEF LogTypes, Places
  <2> QED  BY <1>2, <2>1, <2>2
<1>5. ASSUME NEW g \in Goroutine, Write(g) PROVE OnePlace'
  <2>0. lpc[g] = "write" /\ rest[g] # <<>>
    BY <1>5 DEF Write
  <2>a. PICK a \in Adapters : a = Head(rest[g])
    BY <2>0, SeqsAre, TailIs
  <2>m. PICK m \in Msg : m = hand[g]
    BY <2>0, HandIs DEF Holds
  <2>1. /\ lpc[g] = "write" /\ rest[g] # <<>> /\ UNCHANGED <<msgChan, lpc, hand, logged>>
        /\ rest' = [rest EXCEPT ![g] = Tail(rest[g])]
        /\ written' = IF a \in destroyed THEN written ELSE [written EXCEPT ![a] = Append(written[a], m)]
    BY <1>5, <2>a, <2>m DEF Write
  <2>2. /\ Todo(g) = Range(Tail(rest[g])) \cup {a}
        /\ IsInjective(Tail(rest[g])) /\ a \notin Range(Tail(rest[g]))
    BY <1>0, <2>1, <2>a, SeqsAre, TailIs DEF Todo
  <2>3. /\ m \in logged \ Queued /\ m \in Msg /\ m \notin Took(a)
        /\ \A h \in Goroutine : h # g /\ Holds(h) => hand[h] # m
    BY <1>0, <2>1, <2>2, <2>m, HandIs DEF Holds
  <2>4. rest'[g] = Tail(rest[g]) /\ \A h \in Goroutine : h # g => rest'[h] = rest[h]
    BY <1>0, <2>1 DEF LogTypes
  <2>5. \A h \in Goroutine : (Holds(h)' <=> Holds(h)) /\ Todo(h)' \subseteq Todo(h)
    BY <2>1, <2>2, <2>4 DEF Holds, Todo
  <2>6. a \notin Todo(g)'
    BY <2>2, <2>4 DEF Todo
  <2>7. Queued' = Queued
    BY <2>1 DEF Queued
  <2>8. \A b \in Adapters : b # a => written'[b] = written[b] /\ Took(b)' = Took(b)
    BY <1>0, <2>1 DEF LogTypes, Took
  <2>9. IsInjective(written'[a]) /\ Took(a)' \subseteq Took(a) \cup {m}
    <3>1. CASE a \in destroyed
      <4>1. written' = written
        BY <2>1, <3>1
      <4>2. Took(a)' = Took(a) /\ IsInjective(written[a])
        BY <1>0, <4>1 DEF Took
      <4> QED  BY <4>1, <4>2
    <3>2. CASE a \notin destroyed
      <4>1. written'[a] = Append(written[a], m) /\ written[a] \in Seq(Msg) /\ Took(a) = Range(written[a])
        BY <1>0, <2>1, <2>2, <3>2, SeqsAre DEF LogTypes
      <4>2. Took(a)' = Range(written'[a])
        BY DEF Took, Range
      <4> QED  BY <1>0, <2>2, <2>3, <4>1, <4>2, AppendIs
    <3> QED  BY <3>1, <3>2
  <2>10. \A b \in Adapters : IsInjective(written'[b]) /\ Took(b)' \subseteq logged' /\ Took(b)' \cap Queued' = {}
    <3>1. \A b \in Adapters : b # a =>
              IsInjective(written'[b]) /\ Took(b)' \subseteq logged' /\ Took(b)' \cap Queued' = {}
      BY <1>0, <2>1, <2>7, <2>8
    <3>2. Took(a)' \subseteq logged' /\ Took(a)' \cap Queued' = {}
      BY <1>0, <2>1, <2>3, <2>7, <2>9
    <3> QED  BY <2>9, <3>1, <3>2
  <2>11. \A b \in Adapters, h \in Goroutine :
              /\ lpc'[h] = "send" => hand'[h] \notin Took(b)'
              /\ lpc'[h] = "write" /\ b \in Todo(h)' => hand'[h] \notin Took(b)'
    <3> SUFFICES ASSUME NEW b \in Adapters, NEW h \in Goroutine
                 PROVE  /\ lpc'[h] = "send" => hand'[h] \notin Took(b)'
                        /\ lpc'[h] = "write" /\ b \in Todo(h)' => hand'[h] \notin Took(b)'
      OBVIOUS
    <3>1. CASE b # a
      BY <1>0, <2>1, <2>5, <2>8, <3>1
    <3>2. CASE b = a /\ h = g
      BY <2>1, <2>6, <3>2
    <3>3. CASE b = a /\ h # g
      <4>1. Holds(h) => hand'[h] # m
        BY <2>1, <2>3, <3>3
      <4>2. /\ lpc[h] = "send" => hand[h] \notin Took(a)
            /\ lpc[h] = "write" /\ a \in Todo(h)' => hand[h] \notin Took(a)
        BY <1>0, <2>5
      <4> QED  BY <2>1, <2>9, <3>3, <4>1, <4>2 DEF Holds
    <3> QED  BY <3>1, <3>2, <3>3
  <2>12. \A h \in Goroutine : lpc'[h] = "write" => IsInjective(rest'[h])
    BY <1>0, <2>1, <2>2, <2>4
  <2> QED  BY <1>0, <2>1, <2>5, <2>7, <2>10, <2>11, <2>12
<1>6. ASSUME NEW g \in Readers, Takes(g) PROVE OnePlace'
  <2> DEFINE m == Head(msgChan)
  <2>1. /\ lpc[g] \in {"idle", "take"} /\ msgChan # <<>> /\ msgChan' = Tail(msgChan)
        /\ hand' = [hand EXCEPT ![g] = m] /\ rest' = [rest EXCEPT ![g] = outputs]
        /\ lpc' = [lpc EXCEPT ![g] = "write"] /\ UNCHANGED <<logged, written>>
    BY <1>6 DEF Takes, Receive, TakesUp, Goto
  <2>2. /\ Queued = Range(msgChan') \cup {m} /\ m \notin Range(msgChan') /\ IsInjective(msgChan')
    BY <1>0, <2>1, TailIs DEF LogTypes, Queued
  <2> HIDE DEF m
  <2>3. Queued' = Range(msgChan')
    BY DEF Queued
  <2>4. m \in logged /\ \A a \in Adapters : m \notin Took(a) /\ Took(a)' = Took(a)
    BY <1>0, <2>1, <2>2 DEF Took
  <2>5. \A h \in Goroutine : h # g => lpc'[h] = lpc[h] /\ hand'[h] = hand[h] /\ rest'[h] = rest[h]
    BY <1>0, <2>1 DEF LogTypes, Places
  <2>6. g \in Goroutine /\ hand'[g] = m /\ lpc'[g] = "write" /\ rest'[g] = outputs
    BY <1>0, <2>1, WhoIs DEF LogTypes, Places
  <2>7. \A h \in Goroutine : h # g => (Holds(h)' <=> Holds(h)) /\ Todo(h)' = Todo(h)
    BY <2>5 DEF Holds, Todo
  <2>8. \A h \in Goroutine : Holds(h) => hand[h] # m
    BY <1>0, <2>2
  <2>9. \A h \in Goroutine : Holds(h)' => hand'[h] \in logged' \ Queued'
    BY <1>0, <2>1, <2>2, <2>3, <2>4, <2>5, <2>6, <2>7
  <2>10. \A h, k \in Goroutine : h # k /\ Holds(h)' /\ Holds(k)' => hand'[h] # hand'[k]
    BY <1>0, <2>5, <2>6, <2>7, <2>8
  <2>11. \A a \in Adapters, h \in Goroutine :
              /\ lpc'[h] = "send" => hand'[h] \notin Took(a)'
              /\ lpc'[h] = "write" /\ a \in Todo(h)' => hand'[h] \notin Took(a)'
    BY <1>0, <2>4, <2>5, <2>6, <2>7
  <2>12. \A h \in Goroutine : lpc'[h] = "write" => IsInjective(rest'[h])
    BY <1>0, <2>5, <2>6 DEF OutputsInv
  <2> QED  BY <1>0, <2>1, <2>2, <2>3, <2>4, <2>9, <2>10, <2>11, <2>12
<1>7. ASSUME NEW g \in Readers, Finishes(g) PROVE OnePlace'
  <2>1. /\ UNCHANGED <<logged, msgChan, written, rest>>
        /\ hand' = [hand EXCEPT ![g] = NoMessage]
        /\ \E at \in {"idle", "test"} : lpc' = [lpc EXCEPT ![g] = at]
    BY <1>7 DEF Finishes, Written, Goto
  <2>2. \A h \in Goroutine : lpc'[h] \in {"send", "write"} => lpc'[h] = lpc[h] /\ hand'[h] = hand[h]
    BY <1>0, <2>1 DEF LogTypes, Places
  <2> QED  BY <1>2, <2>1, <2>2
<1>8. ASSUME NEW a \in Adapters \ Kept, SetLogger(a) \/ DelLogger(a) PROVE OnePlace'
  BY <1>2, <1>8 DEF SetLogger, DelLogger
<1>9. CASE CloseBegin \/ CloseTest \/ CloseDestroy
  <2>1. /\ UNCHANGED <<logged, msgChan, written, hand>>
        /\ UNCHANGED rest \/ \E q : rest' = [rest EXCEPT !["Close"] = q]
        /\ UNCHANGED lpc \/ \E at \in {"test", "take", "destroy", "closed"} : lpc' = [lpc EXCEPT !["Close"] = at]
        /\ lpc["Close"] \notin {"send", "write"}
    BY <1>9 DEF CloseBegin, CloseTest, CloseDestroy, Goto
  <2>2. \A h \in Goroutine : h # "Close" => lpc'[h] = lpc[h] /\ rest'[h] = rest[h]
    BY <1>0, <2>1 DEF LogTypes, Places
  <2>3. lpc'["Close"] \notin {"send", "write"}
    BY <1>0, <2>1 DEF Places, Goroutine
  <2> QED  BY <1>2, <2>1, <2>2, <2>3
<1> QED  BY StepIs, <1>1, <1>3, <1>4, <1>5, <1>6, <1>7, <1>8, <1>9

-----------------------------------------------------------------------------
(* What the steps do, in the terms of the parts that follow.                *)

LEMMA WriteIs ==
    ASSUME LogInv, NEW g \in Goroutine, Write(g)
    PROVE  /\ UNCHANGED <<msgChan, lpc, hand, logged, before>> /\ lpc[g] = "write"
           /\ \E a \in Adapters :
                /\ Todo(g) = Todo(g)' \cup {a} /\ a \notin Todo(g)'
                /\ \A h \in Goroutine : h # g => Todo(h)' = Todo(h)
                /\ \A b \in Adapters : b # a => Took(b)' = Took(b) /\ written'[b] = written[b]
                /\ \/ a \in destroyed /\ Took(a)' = Took(a) /\ written'[a] = written[a]
                   \/ /\ Took(a)' = Took(a) \cup {hand[g]}
                      /\ written'[a] = Append(written[a], hand[g])
<1>0. LogTypes /\ OnePlace
  BY DEF LogInv
<1>1. lpc[g] = "write" /\ rest[g] # <<>> /\ UNCHANGED <<msgChan, lpc, hand, logged, before>>
  BY DEF Write
<1>2. PICK a \in Adapters : a = Head(rest[g])
  BY <1>1, SeqsAre, TailIs
<1>3. /\ rest' = [rest EXCEPT ![g] = Tail(rest[g])]
      /\ written' = IF a \in destroyed THEN written ELSE [written EXCEPT ![a] = Append(written[a], hand[g])]
  BY <1>2 DEF Write
<1>4. /\ Todo(g) = Range(Tail(rest[g])) \cup {a} /\ a \notin Range(Tail(rest[g]))
  BY <1>0, <1>1, <1>2, SeqsAre, TailIs DEF Todo, OnePlace
<1>5. rest'[g] = Tail(rest[g]) /\ \A h \in Goroutine : h # g => rest'[h] = rest[h]
  BY <1>0, <1>3 DEF LogTypes
<1>6. /\ Todo(g) = Todo(g)' \cup {a} /\ a \notin Todo(g)'
      /\ \A h \in Goroutine : h # g => Todo(h)' = Todo(h)
  BY <1>4, <1>5 DEF Todo
<1>7. \A b \in Adapters : b # a => Took(b)' = Took(b) /\ written'[b] = written[b]
  BY <1>0, <1>3 DEF LogTypes, Took
<1>8. CASE a \in destroyed
  <2>1. written' = written
    BY <1>3, <1>8
  <2>2. Took(a)' = Took(a) /\ written'[a] = written[a]
    BY <2>1 DEF Took
  <2> QED  BY <1>1, <1>6, <1>7, <1>8, <2>2
<1>9. CASE a \notin destroyed
  <2>1. /\ written'[a] = Append(written[a], hand[g]) /\ written[a] \in Seq(Msg)
        /\ Took(a) = Range(written[a]) /\ hand[g] \in Msg
    BY <1>0, <1>1, <1>3, <1>9, SeqsAre, HandIs DEF LogTypes, Holds
  <2>2. Took(a)' = Range(written'[a])
    BY DEF Took, Range
  <2>3. Took(a)' = Took(a) \cup {hand[g]}
    BY <2>1, <2>2, AppendIs
  <2> QED  BY <1>1, <1>6, <1>7, <2>1, <2>3
<1> QED  BY <1>8, <1>9

\* All other steps leave what the adapters took alone.
LEMMA OthersTake ==
    ASSUME Next, ~\E g \in Goroutine : Write(g)
    PROVE  written' = written /\ \A a : Took(a)' = Took(a)
<1>1. written' = written
  BY StepIs DEF Log, Send, Return, Takes, Finishes, Receive, Written, SetLogger, DelLogger,
                CloseBegin, CloseTest, CloseDestroy
<1> QED  BY <1>1 DEF Took

LEMMA TookGrows ==
    ASSUME LogInv, Next
    PROVE  /\ \A a \in Adapters : Took(a) \subseteq Took(a)'
           /\ \A m : Complete(m) => Complete(m)'
<1>1. \A a \in Adapters : Took(a) \subseteq Took(a)'
  <2>1. CASE \E g \in Goroutine : Write(g)
    <3>1. PICK g \in Goroutine : Write(g)
      BY <2>1
    <3>2. PICK a \in Adapters :
              /\ \A b \in Adapters : b # a => Took(b)' = Took(b)
              /\ Took(a)' = Took(a) \/ Took(a)' = Took(a) \cup {hand[g]}
      BY <3>1, WriteIs
    <3> QED  BY <3>2
  <2>2. CASE ~\E g \in Goroutine : Write(g)
    BY <2>2, OthersTake
  <2> QED  BY <2>1, <2>2
<1> QED  BY <1>1, SendersAssumption DEF Complete

LEMMA LogIs ==
    ASSUME LogInv, NEW s \in Senders, NEW lv \in Levels, Log(s, lv)
    PROVE  \E m \in Msg \ logged :
             /\ logged' = logged \cup {m} /\ UNCHANGED <<msgChan, before>> /\ hand'[s] = m
             /\ lpc[s] = "idle" /\ m[1] = s /\ m[2] = Count(s) + 1
             /\ \A g \in Goroutine : g # s => lpc'[g] = lpc[g] /\ hand'[g] = hand[g] /\ rest'[g] = rest[g]
             /\ \/ asynchronous /\ lpc'[s] = "send"
                \/ ~asynchronous /\ lpc'[s] = "write" /\ rest'[s] = outputs
<1>0. LogTypes /\ Places /\ Numbered /\ s \in Goroutine
  BY WhoIs DEF LogInv
<1> DEFINE m == <<s, Count(s) + 1, lv>>
<1>1. /\ logged' = logged \cup {m} /\ UNCHANGED <<msgChan, before>> /\ lpc[s] = "idle"
      /\ hand' = [hand EXCEPT ![s] = m]
      /\ \/ asynchronous /\ lpc' = [lpc EXCEPT ![s] = "send"] /\ UNCHANGED rest
         \/ ~asynchronous /\ lpc' = [lpc EXCEPT ![s] = "write"] /\ rest' = [rest EXCEPT ![s] = outputs]
  BY DEF Log, TakesUp, Goto
<1>2. m \in Msg \ logged /\ m[1] = s /\ m[2] = Count(s) + 1
  <2>1. lv \in Nat
    BY LevelsAssumption
  <2> QED  BY <1>0, <1>1, <2>1, CountGrows
<1> HIDE DEF m
<1>3. \A g \in Goroutine : g # s => lpc'[g] = lpc[g] /\ hand'[g] = hand[g] /\ rest'[g] = rest[g]
  BY <1>0, <1>1 DEF LogTypes, Places
<1>4. hand'[s] = m
  BY <1>0, <1>1 DEF LogTypes
<1>5. \/ asynchronous /\ lpc'[s] = "send"
      \/ ~asynchronous /\ lpc'[s] = "write" /\ rest'[s] = outputs
  BY <1>0, <1>1 DEF LogTypes, Places
<1> QED  BY <1>1, <1>2, <1>3, <1>4, <1>5

LEMMA SendIs ==
    ASSUME LogInv, NEW s \in Senders, Send(s)
    PROVE  /\ UNCHANGED <<logged, before, rest>> /\ asynchronous /\ lpc[s] = "send" /\ lpc'[s] \in {"sent", "idle"}
           /\ msgChan' = Append(msgChan, hand[s]) /\ Queued' = Queued \cup {hand[s]}
           /\ \A g \in Goroutine : g # s => lpc'[g] = lpc[g] /\ hand'[g] = hand[g]
<1>0. LogTypes /\ Places /\ s \in Goroutine
  BY WhoIs DEF LogInv
<1>1. /\ UNCHANGED <<logged, before, rest>> /\ lpc[s] = "send" /\ msgChan' = Append(msgChan, hand[s])
      /\ \E at \in {"sent", "idle"} : lpc' = [lpc EXCEPT ![s] = at]
      /\ UNCHANGED hand \/ hand' = [hand EXCEPT ![s] = NoMessage]
  BY DEF Send, Goto
<1>2. Range(msgChan') = Range(msgChan) \cup {hand[s]}
  <2>1. hand[s] \in Msg
    BY <1>0, <1>1, HandIs
  <2> QED  BY <1>0, <1>1, <2>1, AppendIs DEF LogTypes
<1>3. /\ lpc'[s] \in {"sent", "idle"}
      /\ \A g \in Goroutine : g # s => lpc'[g] = lpc[g] /\ hand'[g] = hand[g]
  BY <1>0, <1>1 DEF LogTypes, Places
<1> QED  BY <1>0, <1>1, <1>2, <1>3 DEF Queued, Places

LEMMA TakesIs ==
    ASSUME LogInv, NEW g \in Readers, Takes(g)
    PROVE  /\ UNCHANGED <<logged, before>> /\ asynchronous /\ lpc[g] \in {"idle", "take"}
           /\ lpc["Close"] # "idle" \/ g = "startLogger"
           /\ msgChan # <<>> /\ msgChan' = Tail(msgChan) /\ hand'[g] = Head(msgChan)
           /\ Queued = Queued' \cup {Head(msgChan)}
           /\ lpc'[g] = "write" /\ rest'[g] = outputs
           /\ \A h \in Goroutine : h # g => lpc'[h] = lpc[h] /\ hand'[h] = hand[h] /\ rest'[h] = rest[h]
<1>0. LogTypes /\ Places /\ g \in Goroutine
  BY WhoIs DEF LogInv
<1>1. /\ UNCHANGED <<logged, before>> /\ lpc[g] \in {"idle", "take"} /\ asynchronous
      /\ lpc["Close"] # "idle" \/ g = "startLogger"
      /\ msgChan # <<>> /\ msgChan' = Tail(msgChan)
      /\ hand' = [hand EXCEPT ![g] = Head(msgChan)] /\ rest' = [rest EXCEPT ![g] = outputs]
      /\ lpc' = [lpc EXCEPT ![g] = "write"]
  BY <1>0 DEF Takes, Receive, TakesUp, Goto, Places
<1>2. Range(msgChan) = Range(msgChan') \cup {Head(msgChan)}
  BY <1>0, <1>1, TailIs DEF LogTypes
<1>3. hand'[g] = Head(msgChan) /\ lpc'[g] = "write" /\ rest'[g] = outputs
  BY <1>0, <1>1 DEF LogTypes, Places
<1>4. \A h \in Goroutine : h # g => lpc'[h] = lpc[h] /\ hand'[h] = hand[h] /\ rest'[h] = rest[h]
  BY <1>0, <1>1 DEF LogTypes, Places
<1> QED  BY <1>1, <1>2, <1>3, <1>4 DEF Queued

\* Return and Written: a goroutine is done with its message.
LEMMA DoneIs ==
    ASSUME LogInv, NEW g \in Goroutine,
           (g \in Senders /\ Return(g)) \/ (g \in Readers /\ Finishes(g))
    PROVE  /\ UNCHANGED <<logged, before, msgChan, rest>>
           /\ lpc'[g] = IF g = "Close" THEN "test" ELSE "idle"
           /\ lpc[g] = "sent" \/ (lpc[g] = "write" /\ Todo(g) = {})
           /\ \A h \in Goroutine : h # g => lpc'[h] = lpc[h] /\ hand'[h] = hand[h]
<1>0. LogTypes /\ Places
  BY DEF LogInv
<1>1. /\ UNCHANGED <<logged, before, msgChan, rest>> /\ hand' = [hand EXCEPT ![g] = NoMessage]
      /\ lpc' = [lpc EXCEPT ![g] = IF g = "Close" THEN "test" ELSE "idle"]
      /\ lpc[g] = "sent" \/ (lpc[g] = "write" /\ rest[g] = <<>>)
  BY WhoIs DEF Return, Finishes, Written, Goto, Readers
<1>2. \A h \in Goroutine : h # g => lpc'[h] = lpc[h] /\ hand'[h] = hand[h]
  BY <1>0, <1>1 DEF LogTypes, Places
<1>3. lpc'[g] = IF g = "Close" THEN "test" ELSE "idle"
  BY <1>0, <1>1 DEF Places
<1>4. rest[g] = <<>> => Todo(g) = {}
  BY EmptyIs DEF Todo
<1> QED  BY <1>1, <1>2, <1>3, <1>4

\* SetLogger, DelLogger and Close's own steps move no message.
LEMMA RestIs ==
    ASSUME LogInv,
           \/ \E a \in Adapters \ Kept : SetLogger(a) \/ DelLogger(a)
           \/ CloseBegin \/ CloseTest \/ CloseDestroy
    PROVE  /\ UNCHANGED <<logged, msgChan, hand>>
           /\ \A h \in Goroutine : h # "Close" => lpc'[h] = lpc[h] /\ rest'[h] = rest[h]
           /\ lpc["Close"] \in {"write", "send"} \/ lpc'["Close"] \in {"write", "send"} => UNCHANGED lpc /\ UNCHANGED rest
<1>0. LogTypes /\ Places
  BY DEF LogInv
<1>1. UNCHANGED <<logged, msgChan, hand>>
  BY DEF SetLogger, DelLogger, CloseBegin, CloseTest, CloseDestroy
<1>2. CASE \E a \in Adapters \ Kept : SetLogger(a) \/ DelLogger(a)
  BY <1>1, <1>2 DEF SetLogger, DelLogger
<1>3. CASE CloseBegin \/ CloseTest \/ CloseDestroy
  <2>1. /\ UNCHANGED rest \/ \E q : rest' = [rest EXCEPT !["Close"] = q]
        /\ UNCHANGED lpc \/ \E at \in {"test", "take", "destroy", "closed"} : lpc' = [lpc EXCEPT !["Close"] = at]
        /\ lpc["Close"] \notin {"send", "write"}
    BY <1>3 DEF CloseBegin, CloseTest, CloseDestroy, Goto
  <2>2. lpc'["Close"] \notin {"send", "write"}
    BY <1>0, <2>1 DEF Places, Goroutine
  <2> QED  BY <1>0, <1>1, <2>1, <2>2 DEF LogTypes, Places
<1> QED  BY <1>2, <1>3

\* A queued message stays or is taken; a held one stays, is sent or is written
\* wherever it was to go.
LEMMA QueuedMoves ==
    ASSUME LogInv, Next, NEW m \in Queued
    PROVE  m \in Queued' \/ \E g \in Readers : lpc'[g] = "write" /\ hand'[g] = m
<1>1. ASSUME NEW s \in Senders, NEW lv \in Levels, Log(s, lv) PROVE Queued' = Queued
  BY <1>1, LogIs DEF Queued
<1>2. ASSUME NEW s \in Senders, Send(s) PROVE m \in Queued'
  BY <1>2, SendIs
<1>3. ASSUME NEW s \in Senders, Return(s) PROVE Queued' = Queued
  BY <1>3, DoneIs, WhoIs DEF Queued
<1>4. ASSUME NEW g \in Goroutine, Write(g) PROVE Queued' = Queued
  BY <1>4, WriteIs DEF Queued
<1>5. ASSUME NEW g \in Readers, Takes(g) PROVE m \in Queued' \/ (lpc'[g] = "write" /\ hand'[g] = m)
  BY <1>5, TakesIs
<1>6. ASSUME NEW g \in Readers, Finishes(g) PROVE Queued' = Queued
  BY <1>6, DoneIs, WhoIs DEF Queued
<1>7. ASSUME \/ \E a \in Adapters \ Kept : SetLogger(a) \/ DelLogger(a)
             \/ CloseBegin \/ CloseTest \/ CloseDestroy
      PROVE  Queued' = Queued
  BY <1>7, RestIs DEF Queued
<1> QED  BY StepIs, <1>1, <1>2, <1>3, <1>4, <1>5, <1>6, <1>7

LEMMA HeldMoves ==
    ASSUME LogInv, Next, NEW g \in Goroutine, Holds(g)
    PROVE  \/ lpc'[g] = lpc[g] /\ hand'[g] = hand[g]
           \/ lpc[g] = "send" /\ hand[g] \in Queued'
           \/ lpc[g] = "write" /\ Todo(g) = {}
<1>1. lpc[g] \in {"send", "write"}
  BY DEF Holds
<1>2. ASSUME NEW s \in Senders, NEW lv \in Levels, Log(s, lv) PROVE lpc'[g] = lpc[g] /\ hand'[g] = hand[g]
  BY <1>1, <1>2, LogIs
<1>3. ASSUME NEW s \in Senders, Send(s)
      PROVE  \/ lpc'[g] = lpc[g] /\ hand'[g] = hand[g]
             \/ lpc[g] = "send" /\ hand[g] \in Queued'
  BY <1>3, SendIs
<1>4. ASSUME NEW h \in Goroutine, (h \in Senders /\ Return(h)) \/ (h \in Readers /\ Finishes(h))
      PROVE  \/ lpc'[g] = lpc[g] /\ hand'[g] = hand[g]
             \/ lpc[g] = "write" /\ Todo(g) = {}
  <2>1. /\ lpc[h] = "sent" \/ (lpc[h] = "write" /\ Todo(h) = {})
        /\ g # h => lpc'[g] = lpc[g] /\ hand'[g] = hand[g]
    BY <1>4, DoneIs
  <2> QED  BY <1>1, <2>1
<1>5. ASSUME NEW h \in Goroutine, Write(h) PROVE lpc'[g] = lpc[g] /\ hand'[g] = hand[g]
  BY <1>5, WriteIs
<1>6. ASSUME NEW h \in Readers, Takes(h) PROVE lpc'[g] = lpc[g] /\ hand'[g] = hand[g]
  BY <1>1, <1>6, TakesIs
<1>7. ASSUME \/ \E a \in Adapters \ Kept : SetLogger(a) \/ DelLogger(a)
             \/ CloseBegin \/ CloseTest \/ CloseDestroy
      PROVE  lpc'[g] = lpc[g] /\ hand'[g] = hand[g]
  BY <1>1, <1>7, RestIs
<1> QED  BY StepIs, WhoIs, <1>2, <1>3, <1>4, <1>5, <1>6, <1>7

\* Close begins once, and destroys when it has seen the channel empty.
LEMMA CloseIs ==
    ASSUME LogInv, Next
    PROVE  /\ Closing => Closing'
           /\ CloseBegin => lpc'["Close"] = "test"
           /\ ~CloseBegin => before' = before /\ (lpc'["Close"] = "idle" <=> lpc["Close"] = "idle")
           /\ Closing' /\ ~Closing => CloseTest /\ Queued = {} /\ lpc["Close"] = "test"
<1>0. Places /\ LogTypes /\ "Close" \in Readers /\ "Close" \in Goroutine /\ "Close" \notin Senders
  BY WhoIs DEF LogInv, Readers
<1> DEFINE Quiet == before' = before /\ lpc'["Close"] = lpc["Close"]
<1>1. ASSUME NEW s \in Senders, NEW lv \in Levels, Log(s, lv) PROVE Quiet
  BY <1>0, <1>1, LogIs
<1>2. ASSUME NEW s \in Senders, Send(s) PROVE Quiet
  BY <1>0, <1>2, SendIs
<1>3. ASSUME NEW s \in Senders, Return(s) PROVE Quiet
  BY <1>0, <1>3, DoneIs, WhoIs
<1>4. ASSUME NEW g \in Goroutine, Write(g) PROVE Quiet
  BY <1>0, <1>4, WriteIs
<1>5. ASSUME NEW a \in Adapters \ Kept, SetLogger(a) \/ DelLogger(a) PROVE Quiet
  BY <1>5 DEF SetLogger, DelLogger
<1>6. ASSUME NEW g \in Readers, g # "Close", Takes(g) \/ Finishes(g) PROVE Quiet
  BY <1>0, <1>6, TakesIs, DoneIs, WhoIs
<1>7. CASE Takes("Close") \/ Finishes("Close")
  <2>1. before' = before /\ lpc["Close"] \in {"take", "write"} /\ lpc'["Close"] \in {"write", "test"}
    BY <1>0, <1>7 DEF Takes, Finishes, Receive, Written, Goto, Places
  <2>2. ~CloseBegin
    BY <2>1 DEF CloseBegin
  <2> QED  BY <2>1, <2>2 DEF Closing
<1>8. CASE CloseBegin
  <2>1. lpc["Close"] = "idle" /\ lpc'["Close"] = "test"
    BY <1>0, <1>8 DEF CloseBegin, Goto, Places
  <2> QED  BY <1>8, <2>1 DEF Closing
<1>9. CASE CloseTest
  <2>1. before' = before /\ lpc["Close"] = "test" /\ lpc'["Close"] \in {"take", "destroy"}
        /\ (lpc'["Close"] = "destroy" => msgChan = <<>>)
    BY <1>0, <1>9 DEF CloseTest, Goto, Places
  <2>2. ~CloseBegin
    BY <2>1 DEF CloseBegin
  <2> QED  BY <1>9, <2>1, <2>2, EmptyIs DEF Closing, Queued
<1>10. CASE CloseDestroy
  <2>1. before' = before /\ lpc["Close"] = "destroy" /\ lpc'["Close"] \in {"destroy", "closed"}
    BY <1>0, <1>10 DEF CloseDestroy, Goto, Places
  <2>2. ~CloseBegin
    BY <2>1 DEF CloseBegin
  <2> QED  BY <2>1, <2>2 DEF Closing
<1>11. CASE Quiet /\ ~CloseBegin
  BY <1>11 DEF Closing
<1> HIDE DEF Quiet
<1> QED  BY StepIs, <1>1, <1>2, <1>3, <1>4, <1>5, <1>6, <1>7, <1>8, <1>9, <1>10, <1>11

LEMMA OnItsWayStep ==
    ASSUME LogInv, Next
    PROVE  OnItsWay'
<1>0. LogTypes /\ Places /\ OutputsInv /\ OnItsWay
  BY DEF LogInv
<1>1. ASSUME ~Closing', NEW g \in Goroutine, lpc'[g] = "write", NEW a \in Kept
      PROVE  a \in Todo(g)' \/ hand'[g] \in Took(a)'
  <2>1. /\ ~Closing /\ a \in Adapters /\ Took(a) \subseteq Took(a)' /\ a \in Range(outputs) /\ a \notin destroyed
        /\ lpc[g] = "write" => a \in Todo(g) \/ hand[g] \in Took(a)
    BY <1>0, <1>1, CloseIs, TookGrows, SendersAssumption DEF OnItsWay, OutputsInv, Closing
  <2>2. ASSUME lpc[g] = "write", hand'[g] = hand[g], Todo(g)' = Todo(g) PROVE a \in Todo(g)' \/ hand'[g] \in Took(a)'
    BY <2>1, <2>2
  <2>3. ASSUME rest'[g] = rest[g] PROVE Todo(g)' = Todo(g)
    BY <2>3 DEF Todo
  <2>4. ASSUME rest'[g] = outputs PROVE a \in Todo(g)'
    BY <2>1, <2>4 DEF Todo
  <2>5. ASSUME NEW s \in Senders, NEW lv \in Levels, Log(s, lv) PROVE a \in Todo(g)' \/ hand'[g] \in Took(a)'
    BY <1>1, <2>2, <2>3, <2>4, <2>5, LogIs
  <2>6. ASSUME NEW s \in Senders, Send(s) PROVE a \in Todo(g)' \/ hand'[g] \in Took(a)'
    BY <1>1, <2>2, <2>3, <2>6, SendIs
  <2>7. ASSUME NEW h \in Goroutine, (h \in Senders /\ Return(h)) \/ (h \in Readers /\ Finishes(h))
        PROVE  a \in Todo(g)' \/ hand'[g] \in Took(a)'
    BY <1>1, <2>2, <2>3, <2>7, DoneIs
  <2>8. ASSUME NEW h \in Goroutine, Write(h) PROVE a \in Todo(g)' \/ hand'[g] \in Took(a)'
    <3>1. CASE h # g
      BY <1>1, <2>2, <2>8, <3>1, WriteIs
    <3>2. CASE h = g
      <4>1. PICK b \in Adapters :
                /\ Todo(g) = Todo(g)' \cup {b} /\ (b \in destroyed \/ Took(b)' = Took(b) \cup {hand[g]})
                /\ lpc[g] = "write" /\ hand'[g] = hand[g]
        BY <2>8, <3>2, WriteIs
      <4> QED  BY <2>1, <4>1
    <3> QED  BY <3>1, <3>2
  <2>9. ASSUME NEW h \in Readers, Takes(h) PROVE a \in Todo(g)' \/ hand'[g] \in Took(a)'
    BY <1>1, <2>2, <2>3, <2>4, <2>9, TakesIs
  <2>10. ASSUME \/ \E b \in Adapters \ Kept : SetLogger(b) \/ DelLogger(b)
                \/ CloseBegin \/ CloseTest \/ CloseDestroy
         PROVE  a \in Todo(g)' \/ hand'[g] \in Took(a)'
    BY <1>1, <2>2, <2>3, <2>10, RestIs
  <2> QED  BY StepIs, WhoIs, <2>5, <2>6, <2>7, <2>8, <2>9, <2>10
<1>2. ASSUME lpc'["Close"] = "idle", NEW m \in logged' PROVE Carried(m)' \/ Complete(m)'
  <2>1. lpc["Close"] = "idle"
    BY <1>2, CloseIs
  <2>2. CASE m \in logged
    <3>1. Complete(m) => Complete(m)'
      BY TookGrows
    <3>2. ASSUME m \in Queued PROVE Carried(m)'
      BY <3>2, QueuedMoves, WhoIs DEF Carried, Holds
    <3>3. ASSUME NEW g \in Goroutine, Holds(g), hand[g] = m PROVE Carried(m)' \/ Complete(m)
      <4>1. CASE lpc'[g] = lpc[g] /\ hand'[g] = hand[g]
        BY <3>3, <4>1 DEF Carried, Holds
      <4>2. CASE hand[g] \in Queued'
        BY <3>3, <4>2 DEF Carried
      <4>3. CASE lpc[g] = "write" /\ Todo(g) = {}
        BY <1>0, <2>1, <3>3, <4>3 DEF OnItsWay, Closing, Complete
      <4> QED  BY <3>3, <4>1, <4>2, <4>3, HeldMoves
    <3> QED  BY <1>0, <2>1, <2>2, <3>1, <3>2, <3>3 DEF OnItsWay, Carried
  <2>3. CASE m \notin logged
    <3>1. PICK s \in Senders, lv \in Levels : Log(s, lv)
      BY <1>2, <2>3, StepIs DEF Send, Return, Write, Takes, Finishes, Receive, Written,
           SetLogger, DelLogger, CloseBegin, CloseTest, CloseDestroy
    <3>2. hand'[s] = m /\ lpc'[s] \in {"send", "write"}
      BY <1>2, <2>3, <3>1, LogIs
    <3> QED  BY <3>2, WhoIs DEF Carried, Holds
  <2> QED  BY <2>2, <2>3
<1> QED  BY <1>1, <1>2 DEF OnItsWay

LEMMA DrainedStep ==
    ASSUME LogInv, Next
    PROVE  Drained'
<1>0. LogTypes /\ Places /\ OnItsWay /\ Drained
  BY DEF LogInv
<1>1. ASSUME lpc'["Close"] \in {"test", "take", "write"}, NEW m \in before'
      PROVE  \/ m \in Queued' \/ Complete(m)'
             \/ lpc'["startLogger"] = "write" /\ hand'["startLogger"] = m
             \/ lpc'["Close"] = "write" /\ hand'["Close"] = m
  <2>1. CASE CloseBegin
    <3>1. before' = Queued /\ Queued' = Queued
      BY <2>1 DEF CloseBegin, Queued, Range
    <3> QED  BY <1>1, <3>1
  <2>2. CASE ~CloseBegin
    <3>1. /\ m \in before /\ ~Closing /\ lpc["Close"] \in {"test", "take", "write"}
          /\ Complete(m) => Complete(m)'
      BY <1>0, <1>1, <2>2, CloseIs, TookGrows DEF Closing, Places, Goroutine
    <3>2. CASE m \in Queued
      BY <3>2, QueuedMoves DEF Readers
    <3>3. ASSUME NEW g \in Readers, lpc[g] = "write", hand[g] = m
          PROVE  Complete(m) \/ (lpc'[g] = "write" /\ hand'[g] = m)
      <4>1. g \in Goroutine /\ Holds(g)
        BY <3>3, WhoIs DEF Holds
      <4>2. Todo(g) = {} => Complete(m)
        BY <1>0, <3>1, <3>3, <4>1 DEF OnItsWay, Complete
      <4> QED  BY <3>3, <4>1, <4>2, HeldMoves
    <3> QED  BY <1>0, <3>1, <3>2, <3>3 DEF Drained, Readers
  <2> QED  BY <2>1, <2>2
<1>2. ASSUME Closing'
      PROVE  \E late \in logged' \cup {NoMessage} : \A m \in before' : m = late \/ Complete(m)'
  <2>1. ~CloseBegin /\ before' = before /\ logged \subseteq logged' /\ \A m : Complete(m) => Complete(m)'
    <3>1. logged \subseteq logged'
      BY StepIs DEF Log, Send, Return, Write, Takes, Finishes, Receive, Written,
           SetLogger, DelLogger, CloseBegin, CloseTest, CloseDestroy
    <3> QED  BY <1>2, <3>1, CloseIs, TookGrows DEF Closing
  <2>2. CASE Closing
    BY <1>0, <2>1, <2>2 DEF Drained
  <2>3. CASE ~Closing
    <3>1. lpc["Close"] = "test" /\ Queued = {}
      BY <1>2, <2>3, CloseIs
    <3>2. \A m \in before : Complete(m) \/ (lpc["startLogger"] = "write" /\ hand["startLogger"] = m)
      BY <1>0, <3>1 DEF Drained
    <3>3. lpc["startLogger"] = "write" => hand["startLogger"] \in logged
      BY HandIs DEF Holds, Goroutine
    <3>4. CASE lpc["startLogger"] = "write"
      BY <2>1, <3>2, <3>3, <3>4
    <3>5. CASE lpc["startLogger"] # "write"
      BY <2>1, <3>2, <3>5
    <3> QED  BY <3>4, <3>5
  <2> QED  BY <2>2, <2>3
<1> QED  BY <1>1, <1>2 DEF Drained

\* What a sender is busy with is the latest of its messages.
LEMMA LatestIs ==
    ASSUME LogInv, NEW s \in Senders, lpc[s] # "idle", NEW m \in logged, m # hand[s]
    PROVE  Older(m, hand[s])
<1>1. hand[s] \in logged /\ hand[s][1] = s /\ hand[s][2] = Count(s) /\ m[2] <= Count(m[1])
      /\ (m[1] = s => m[2] # Count(s))
  BY DEF LogInv, Numbered
<1>2. m[2] \in Nat /\ Count(s) \in Nat
  BY MsgIs, CountIs DEF LogInv, LogTypes
<1> QED  BY <1>1, <1>2 DEF Older

\* While Close is idle one goroutine writes at a time, or senders write each
\* its own messages and the channel is not used.
LEMMA WritersAre ==
    ASSUME LogInv, lpc["Close"] = "idle", NEW g \in Goroutine, lpc[g] = "write"
    PROVE  \/ asynchronous /\ g = "startLogger"
           \/ ~asynchronous /\ g \in Senders /\ Queued = {} /\ lpc["startLogger"] # "write"
BY WhoIs, EmptyIs DEF LogInv, LogTypes, Places, Readers, Queued

LEMMA InOrderStep ==
    ASSUME LogInv, Next
    PROVE  InOrder'
<1>0. LogTypes /\ Places /\ OnePlace /\ InOrder /\ Numbered
  BY DEF LogInv
<1> SUFFICES ASSUME lpc'["Close"] = "idle" PROVE InOrder'
  BY DEF InOrder
<1>1. lpc["Close"] = "idle"
  BY CloseIs
<1>2. /\ Sorted(msgChan)
      /\ \A a \in Adapters :
           /\ Sorted(written[a])
           /\ \A m \in Took(a) : \A n \in Queued : Older(m, n)
           /\ \A m \in Took(a), g \in Goroutine : lpc[g] = "write" /\ a \in Todo(g) => Older(m, hand[g])
      /\ lpc["startLogger"] = "write" => \A n \in Queued : Older(hand["startLogger"], n)
  BY <1>0, <1>1 DEF InOrder
<1>3. "startLogger" \in Goroutine /\ "startLogger" \notin Senders /\ "Close" \notin Senders /\ "Close" \in Goroutine
  BY WhoIs DEF Readers
<1>4. ASSUME NEW s \in Senders, NEW lv \in Levels, Log(s, lv) PROVE InOrder'
  <2>1. PICK m \in Msg \ logged :
             /\ logged' = logged \cup {m} /\ UNCHANGED <<msgChan, before>> /\ hand'[s] = m
             /\ lpc[s] = "idle" /\ m[1] = s /\ m[2] = Count(s) + 1
             /\ \A g \in Goroutine : g # s => lpc'[g] = lpc[g] /\ hand'[g] = hand[g] /\ rest'[g] = rest[g]
    BY <1>4, LogIs
  <2>2. written' = written /\ Queued' = Queued /\ \A a : Took(a)' = Took(a)
    BY <1>4, <2>1 DEF Log, Took, Queued
  <2>3. \A n \in logged : Older(n, m)
    <3> SUFFICES ASSUME NEW n \in logged, n[1] = s PROVE n[2] < Count(s) + 1
      BY <2>1 DEF Older
    <3>1. n[2] \in Nat /\ Count(s) \in Nat /\ n[2] <= Count(s)
      BY <1>0, MsgIs, CountIs DEF LogTypes, Numbered
    <3> QED  BY <3>1
  <2>4. \A a \in Adapters : Took(a) \subseteq logged
    BY <1>0 DEF OnePlace
  <2>5. \A g \in Goroutine : g # s => Todo(g)' = Todo(g)
    BY <2>1 DEF Todo
  <2>6. \A a \in Adapters : \A n \in Took(a)', g \in Goroutine :
            lpc'[g] = "write" /\ a \in Todo(g)' => Older(n, hand'[g])
    BY <1>2, <2>1, <2>2, <2>3, <2>4, <2>5
  <2>7. lpc'["startLogger"] = "write" => \A n \in Queued' : Older(hand'["startLogger"], n)
    BY <1>2, <1>3, <2>1, <2>2
  <2> QED  BY <1>2, <2>1, <2>2, <2>6, <2>7 DEF InOrder
<1>5. ASSUME NEW s \in Senders, Send(s) PROVE InOrder'
  <2> DEFINE m == hand[s]
  <2>1. /\ lpc[s] = "send" /\ lpc'[s] \in {"sent", "idle"} /\ rest' = rest
        /\ msgChan' = Append(msgChan, m) /\ Queued' = Queued \cup {m}
        /\ \A g \in Goroutine : g # s => lpc'[g] = lpc[g] /\ hand'[g] = hand[g]
    BY <1>5, SendIs
  <2>2. written' = written /\ \A a : Took(a)' = Took(a)
    BY <1>5 DEF Send, Took
  <2>3. /\ s \in Goroutine /\ Holds(s) /\ m \in Msg /\ m \notin Queued
        /\ \A a \in Adapters : m \notin Took(a) /\ Took(a) \subseteq logged
        /\ Queued \subseteq logged
        /\ lpc["startLogger"] = "write" => hand["startLogger"] \in logged \ {m}
    BY <1>0, <1>3, <2>1, WhoIs, HandIs DEF OnePlace, Holds
  <2>4. \A n \in logged : n # m => Older(n, m)
    BY <2>1, LatestIs
  <2> HIDE DEF m
  <2>5. Sorted(msgChan')
    BY <1>0, <1>2, <2>1, <2>3, <2>4, AppendIs DEF LogTypes, Queued
  <2>6. \A g \in Goroutine : lpc'[g] = "write" => lpc[g] = "write" /\ hand'[g] = hand[g] /\ Todo(g)' = Todo(g)
    BY <2>1 DEF Todo
  <2>7. \A a \in Adapters : \A n \in Took(a)', g \in Goroutine :
            lpc'[g] = "write" /\ a \in Todo(g)' => Older(n, hand'[g])
    BY <1>2, <2>2, <2>6
  <2>8. \A a \in Adapters : \A n \in Took(a)' : \A k \in Queued' : Older(n, k)
    BY <1>2, <2>1, <2>2, <2>3, <2>4
  <2>9. lpc'["startLogger"] = "write" => \A n \in Queued' : Older(hand'["startLogger"], n)
    BY <1>2, <1>3, <2>1, <2>3, <2>4, <2>6
  <2> QED  BY <1>2, <2>2, <2>5, <2>7, <2>8, <2>9 DEF InOrder
<1>6. ASSUME msgChan' = msgChan, written' = written,
             \A g \in Goroutine : lpc'[g] = "write" =>
                 lpc[g] = "write" /\ hand'[g] = hand[g] /\ rest'[g] = rest[g]
      PROVE  InOrder'
  <2>1. Queued' = Queued /\ \A a : Took(a)' = Took(a)
    BY <1>6 DEF Queued, Took
  <2>2. \A g \in Goroutine : lpc'[g] = "write" => Todo(g)' = Todo(g)
    BY <1>6 DEF Todo
  <2>3. \A a \in Adapters : \A n \in Took(a)', g \in Goroutine :
            lpc'[g] = "write" /\ a \in Todo(g)' => Older(n, hand'[g])
    BY <1>2, <1>6, <2>1, <2>2
  <2>4. lpc'["startLogger"] = "write" => \A n \in Queued' : Older(hand'["startLogger"], n)
    BY <1>2, <1>3, <1>6, <2>1
  <2> QED  BY <1>2, <1>6, <2>1, <2>3, <2>4 DEF InOrder
<1>7. ASSUME NEW g \in Goroutine, (g \in Senders /\ Return(g)) \/ (g \in Readers /\ Finishes(g)) PROVE InOrder'
  <2>1. /\ UNCHANGED <<msgChan, rest>> /\ lpc'[g] # "write"
        /\ \A h \in Goroutine : h # g => lpc'[h] = lpc[h] /\ hand'[h] = hand[h]
    BY <1>7, DoneIs
  <2>2. written' = written
    BY <1>7 DEF Return, Finishes, Written
  <2> QED  BY <1>6, <2>1, <2>2
<1>8. ASSUME \/ \E a \in Adapters \ Kept : SetLogger(a) \/ DelLogger(a)
             \/ CloseBegin \/ CloseTest \/ CloseDestroy
      PROVE  InOrder'
  <2>1. written' = written
    BY <1>8 DEF SetLogger, DelLogger, CloseBegin, CloseTest, CloseDestroy
  <2> QED  BY <1>6, <1>8, <2>1, RestIs
<1>9. ASSUME NEW g \in Readers, Takes(g) PROVE InOrder'
  <2> DEFINE m == Head(msgChan)
  <2>1. /\ g = "startLogger" /\ asynchronous
        /\ msgChan # <<>> /\ msgChan' = Tail(msgChan) /\ hand'[g] = m /\ Queued = Queued' \cup {m}
        /\ \A h \in Goroutine : h # g => lpc'[h] = lpc[h] /\ hand'[h] = hand[h] /\ rest'[h] = rest[h]
    BY <1>1, <1>9, TakesIs
  <2>2. written' = written /\ \A a : Took(a)' = Took(a)
    BY <1>9 DEF Takes, Receive, Took
  <2>3. Sorted(msgChan') /\ \A n \in Queued' : Older(m, n)
    BY <1>0, <1>2, <2>1, TailIs DEF LogTypes, Queued
  <2> HIDE DEF m
  <2>4. \A h \in Goroutine : h # g => lpc'[h] # "write"
    BY <1>0, <2>1, WhoIs DEF Places, Readers
  <2>5. \A a \in Adapters : \A n \in Took(a)', h \in Goroutine : lpc'[h] = "write" => Older(n, hand'[h])
    BY <1>2, <2>1, <2>2, <2>4
  <2>6. \A a \in Adapters : \A n \in Took(a)' : \A k \in Queued' : Older(n, k)
    BY <1>2, <2>1, <2>2
  <2> QED  BY <1>2, <2>1, <2>2, <2>3, <2>5, <2>6 DEF InOrder
<1>10. ASSUME NEW g \in Goroutine, Write(g) PROVE InOrder'
  <2>0. UNCHANGED <<msgChan, lpc, hand, logged>> /\ lpc[g] = "write"
    BY <1>10, WriteIs
  <2>1. PICK a \in Adapters :
                /\ Todo(g) = Todo(g)' \cup {a} /\ a \notin Todo(g)'
                /\ \A h \in Goroutine : h # g => Todo(h)' = Todo(h)
                /\ \A b \in Adapters : b # a => Took(b)' = Took(b) /\ written'[b] = written[b]
                /\ \/ a \in destroyed /\ Took(a)' = Took(a) /\ written'[a] = written[a]
                   \/ /\ Took(a)' = Took(a) \cup {hand[g]}
                      /\ written'[a] = Append(written[a], hand[g])
    BY <1>10, WriteIs
  <2>m. PICK m \in Msg : m = hand[g]
    BY <2>0, HandIs DEF Holds
  <2>2. /\ \A n \in Took(a) : Older(n, m)
        /\ written[a] \in Seq(Msg) /\ Took(a) = Range(written[a])
    BY <1>2, <2>0, <2>1, <2>m, SeqsAre
  <2>3. Queued' = Queued
    BY <2>0 DEF Queued
  <2>4. \A b \in Adapters : Sorted(written'[b])
    <3>1. Sorted(Append(written[a], m))
      BY <1>2, <2>2, AppendIs
    <3> QED  BY <1>2, <2>1, <2>m, <3>1
  <2>5. \A n \in Queued : Older(m, n)
    BY <1>1, <1>2, <2>0, <2>m, WritersAre
  <2>6. \A b \in Adapters : \A n \in Took(b)' : \A k \in Queued' : Older(n, k)
    BY <1>2, <2>1, <2>3, <2>5, <2>m
  <2>7. \A h \in Goroutine : h # g /\ lpc[h] = "write" => Older(m, hand[h])
    <3> SUFFICES ASSUME NEW h \in Goroutine, h # g, lpc[h] = "write" PROVE m[1] # hand[h][1]
      BY DEF Older
    <3>1. g \in Senders /\ h \in Senders
      BY <1>1, <2>0, WritersAre
    <3> QED  BY <1>0, <2>0, <2>m, <3>1 DEF Numbered
  <2>8. \A b \in Adapters : \A n \in Took(b)', h \in Goroutine :
            lpc'[h] = "write" /\ b \in Todo(h)' => Older(n, hand'[h])
    <3> SUFFICES ASSUME NEW b \in Adapters, NEW n \in Took(b)', NEW h \in Goroutine,
                        lpc[h] = "write", b \in Todo(h)'
                 PROVE  Older(n, hand[h])
      BY <2>0
    <3>1. b \in Todo(h) /\ ~(b = a /\ h = g)
      BY <2>1
    <3>2. n \in Took(b) \/ (b = a /\ n = m)
      BY <2>1, <2>m
    <3> QED  BY <1>2, <2>7, <3>1, <3>2
  <2>9. lpc'["startLogger"] = "write" => \A n \in Queued' : Older(hand'["startLogger"], n)
    BY <1>2, <2>0, <2>3
  <2>10. Sorted(msgChan')
    BY <1>2, <2>0
  <2> QED  BY <2>4, <2>6, <2>8, <2>9, <2>10 DEF InOrder
<1> QED  BY StepIs, WhoIs, <1>4, <1>5, <1>7, <1>8, <1>9, <1>10

\* The adapters set at the start are those of Kept, each once.
LEMMA AnyOrderIs ==
    ASSUME NEW S, IsFiniteSet(S), NEW q \in AnyOrder(S)
    PROVE  q \in Seq(S) /\ IsInjective(q) /\ Range(q) = S
<1>1. Cardinality(S) \in Nat
  BY FS_CardinalityType
<1>2. q \in [1..Cardinality(S) -> S] /\ IsInjective(q)
  BY DEF AnyOrder, IsInjective
<1>3. IsFiniteSet(1..Cardinality(S)) /\ Cardinality(1..Cardinality(S)) = Cardinality(S)
  BY <1>1, FS_Interval
<1>4. q \in Surjection(1..Cardinality(S), S)
  <2>1. q \in Injection(1..Cardinality(S), S)
    BY <1>2 DEF Injection
  <2> QED  BY <1>3, <2>1, FS_Injection
<1>5. Range(q) = S
  BY <1>2, <1>4 DEF Range, Surjection
<1> QED  BY <1>1, <1>2, <1>5

LEMMA LogInit ==
    ASSUME Init
    PROVE  LogInv
<1> USE DEF Init
<1>1. /\ outputs \in Seq(Adapters) /\ IsInjective(outputs) /\ Range(outputs) = Kept
  <2>1. IsFiniteSet(Kept)
    BY SendersAssumption, FS_Subset
  <2>2. outputs \in Seq(Kept) /\ IsInjective(outputs) /\ Range(outputs) = Kept
    BY <2>1, AnyOrderIs
  <2> QED  BY <2>2, SendersAssumption
<1>2. LogTypes
  <2>1. [a \in Adapters |-> <<>>] \in [Adapters -> Seq(Msg)] /\ [g \in Goroutine |-> <<>>] \in [Goroutine -> Seq(Adapters)]
    OBVIOUS
  <2>2. [g \in Goroutine |-> NoMessage] \in [Goroutine -> Msg \cup {NoMessage}]
    OBVIOUS
  <2>3. <<>> \in Seq(Msg) /\ IsFiniteSet({})
    BY FS_EmptySet
  <2> HIDE DEF NoMessage
  <2>4. written \in [Adapters -> Seq(Msg)] /\ rest \in [Goroutine -> Seq(Adapters)]
    BY <2>1 DEF Init
  <2>5. hand \in [Goroutine -> Msg \cup {NoMessage}]
    BY <2>2 DEF Init
  <2>6. asynchronous \in BOOLEAN /\ exited \in BOOLEAN /\ logged = {} /\ msgChan = <<>>
    BY DEF Init
  <2> QED  BY <2>3, <2>4, <2>5, <2>6 DEF LogTypes
<1>3. Places
  BY WhoIs DEF Places, Readers
<1>4. OutputsInv
  BY <1>1 DEF OutputsInv
<1>5. Numbered
  BY WhoIs DEF Numbered
<1>6. /\ Queued = {} /\ \A a \in Adapters : written[a] = <<>> /\ Took(a) = {}
      /\ \A g \in Goroutine : lpc[g] = "idle" /\ ~Holds(g)
  BY EmptyIs DEF Queued, Took, Holds
<1>7. OnePlace
  BY <1>6, EmptyIs DEF OnePlace
<1>8. OnItsWay
  BY <1>6 DEF OnItsWay
<1>9. Drained
  BY <1>3, <1>6 DEF Drained, Closing, Goroutine
<1>10. InOrder
  BY <1>6, EmptyIs DEF InOrder, Goroutine
<1>11. FatalIsWritten
  BY DEF FatalIsWritten
<1> QED  BY <1>2, <1>3, <1>4, <1>5, <1>7, <1>8, <1>9, <1>10, <1>11 DEF LogInv

LEMMA LogStep ==
    ASSUME LogInv, [Next]_vars
    PROVE  LogInv'
<1>1. CASE Next
  <2>1. LogTypes' /\ Places' /\ OutputsInv' /\ Numbered'
    BY <1>1, TypesStep, PlacesStep, OutputsStep, NumberedStep DEF LogInv
  <2>2. OnePlace' /\ OnItsWay' /\ Drained' /\ InOrder' /\ FatalIsWritten'
    BY <1>1, OnePlaceStep, OnItsWayStep, DrainedStep, InOrderStep, FatalStep
  <2> QED  BY <2>1, <2>2 DEF LogInv
<1>2. CASE UNCHANGED vars
  <2> USE <1>2 DEF vars, logVars
  <2>1. \A g \in Goroutine : (Holds(g)' <=> Holds(g)) /\ Todo(g)' = Todo(g)
    BY DEF Holds, Todo
  <2>2. Queued' = Queued /\ \A a : Took(a)' = Took(a)
    BY DEF Queued, Took
  <2>3. \A m : (Complete(m)' <=> Complete(m)) /\ (Carried(m)' <=> Carried(m))
    BY <2>1, <2>2 DEF Complete, Carried
  <2>4. \A s : Count(s)' = Count(s)
    BY DEF Count
  <2>5. Closing' <=> Closing
    BY DEF Closing
  <2>6. LogTypes' /\ Places' /\ OutputsInv' /\ Numbered'
    BY <2>4 DEF LogInv, LogTypes, Places, OutputsInv, Numbered
  <2>7. OnePlace'
    BY <2>1, <2>2 DEF LogInv, OnePlace
  <2>8. OnItsWay' /\ Drained'
    BY <2>1, <2>2, <2>3, <2>5 DEF LogInv, OnItsWay, Drained
  <2>9. InOrder' /\ FatalIsWritten'
    BY <2>1, <2>2, <2>4 DEF LogInv, InOrder, FatalIsWritten
  <2> QED  BY <2>6, <2>7, <2>8, <2>9 DEF LogInv
<1> QED  BY <1>1, <1>2

\* A message of the logger is at every time in one place on its way to the
\* adapters, whatever goroutines log, adapters come and go, and Close does.
THEOREM LoggerInvariant == Spec => []LogInv
<1>1. Init => LogInv
  BY LogInit
<1>2. LogInv /\ [Next]_vars => LogInv'
  BY LogStep
<1> QED  BY <1>1, <1>2, PTL DEF Spec

-----------------------------------------------------------------------------
(* What the runs check.                                                     *)

\* writeToLoggers: no adapter is given a message twice, though startLogger and
\* Close both read the channel and the outputs change under the writers.
THEOREM EachMessageOnce == Spec => []WrittenOnce
<1>1. ASSUME LogInv PROVE WrittenOnce
  <2> SUFFICES ASSUME NEW a \in Adapters PROVE Cardinality(Took(a)) = Len(written[a])
    BY DEF WrittenOnce
  <2> DEFINE q == written[a]
             n == Len(q)
  <2>1. q \in Seq(Msg) /\ IsInjective(q) /\ Took(a) = Range(q)
    BY <1>1, SeqsAre DEF LogInv, OnePlace
  <2> HIDE DEF q
  <2>2. n \in Nat /\ q \in [1..n -> Range(q)] /\ DOMAIN q = 1..n
    BY <2>1 DEF Range
  <2> HIDE DEF n
  <2>3. q \in Injection(1..n, Range(q)) /\ q \in Surjection(1..n, Range(q))
    BY <2>1, <2>2 DEF Injection, Surjection, Range
  <2>4. IsFiniteSet(1..n) /\ Cardinality(1..n) = n
    BY <2>2, FS_Interval
  <2>5. Cardinality(Range(q)) = n
    BY <2>3, <2>4, FS_Surjection
  <2> QED  BY <2>1, <2>5 DEF q, n
<1> QED  BY <1>1, LoggerInvariant, PTL

\* Until Close reads the channel too, the messages of one goroutine reach every
\* adapter in the order of its calls, asynchronous or not.
THEOREM OrderIsKept == Spec => []OrderKept
<1>1. ASSUME LogInv PROVE OrderKept
  BY <1>1 DEF LogInv, InOrder, OrderKept, Sorted, Older
<1> QED  BY <1>1, LoggerInvariant, PTL

\* Fatalf: a process it ends has written the reason to every adapter that
\* stays, if the logger is not asynchronous.
THEOREM FatalReachesAdapters == Spec => []FatalIsWritten
<1>1. LogInv => FatalIsWritten
  BY DEF LogInv
<1> QED  BY <1>1, LoggerInvariant, PTL

\* Close: of the messages in the channel when it is called at most one, the one
\* startLogger was writing, has not reached the adapters when they are gone.
THEOREM CloseLosesAtMostOne == Spec => []CloseLosesOne
<1>1. ASSUME LogInv PROVE CloseLosesOne
  <2> SUFFICES ASSUME lpc["Close"] = "closed"
               PROVE  Cardinality({m \in before : \E a \in Kept : m \notin Took(a)}) <= 1
    BY DEF CloseLosesOne
  <2> DEFINE Lost == {m \in before : \E a \in Kept : m \notin Took(a)}
  <2>1. PICK late \in logged \cup {NoMessage} : \A m \in before : m = late \/ Complete(m)
    BY <1>1 DEF LogInv, Drained, Closing
  <2>2. Lost \in SUBSET {late}
    BY <2>1 DEF Complete
  <2> HIDE DEF Lost
  <2>3. Cardinality(Lost) <= 1
    <3>1. IsFiniteSet({late}) /\ Cardinality({late}) = 1
      BY FS_Singleton
    <3>2. IsFiniteSet(Lost) /\ Cardinality(Lost) <= Cardinality({late})
      BY <2>2, <3>1, FS_Subset
    <3> QED  BY <3>1, <3>2, FS_CardinalityType
  <2> QED  BY <2>3 DEF Lost
<1> QED  BY <1>1, LoggerInvariant, PTL

\* writeMsg: what was logged and not dropped is held by a goroutine, is in the
\* channel or is in every adapter that stays, until Close is called.
THEOREM NothingIsDropped == Spec => []LoggedIsKept
<1>1. ASSUME LogInv PROVE LoggedIsKept
  <2> SUFFICES ASSUME lpc["Close"] = "idle", NEW m \in logged
               PROVE  m \in Pending \/ \A a \in Kept : m \in Took(a)
    BY DEF LoggedIsKept
  <2>1. Carried(m) => m \in Pending
    BY DEF Carried, Pending, Queued, Range
  <2> QED  BY <1>1, <2>1 DEF LogInv, OnItsWay, Complete
<1> QED  BY <1>1, LoggerInvariant, PTL
=============================================================================
