------------------------------ MODULE PieceDump ------------------------------
(***************************************************************************)
(* dump.DumpPPLUDP and DumpMap: capture goroutines count the piece         *)
(* requests and responses they see in two maps of the package, which have  *)
(* no lock, and one that comes to the end of its packets logs both maps    *)
(* and ends the process.                                                   *)
(*                                                                         *)
(* A key stands for peer, hash, piece and block: a response has the key of *)
(* the request it answers.  Reading a count and storing the next one are   *)
(* two steps.  Where two goroutines may be in one map at a time and one of *)
(* them stores, the Go runtime may end the process (Collide); if it does   *)
(* not, the steps are interleaved.                                         *)
(***************************************************************************)
EXTENDS Integers, Sequences, FiniteSets

CONSTANTS
    Capturers,   \* the goroutines of handle1, one per interface
    PieceKey     \* bound: keys of piece requests and responses

ASSUME CapturersAssumption == IsFiniteSet(Capturers) /\ IsFiniteSet(PieceKey)

VARIABLES
    pplMap,      \* PPLreqmap and PPLrespmap; 0: no such key
    dpc, todo,   \* where each goroutine is, and the counts it has to store
    fetched,     \* the v it read
    unvisited,   \* the keys its range loop has still to come to
    outputs,     \* adapters of the Dumper's logger, all for one file
    process,     \* running, or how it ended
    seen,        \* history: what each goroutine saw
    lines        \* history: what it logged, and in how many copies

dumpVars == <<pplMap, dpc, todo, fetched, unvisited, outputs, process, seen, lines>>

Maps    == {"req", "resp"}
Keys(m) == {k \in PieceKey : pplMap[m][k] > 0}
Running == process = "running"

DumpInit ==
    /\ pplMap = [m \in Maps |-> [k \in PieceKey |-> 0]]
    /\ dpc = [g \in Capturers |-> "start"] /\ todo = [g \in Capturers |-> <<>>]
    /\ fetched = [g \in Capturers |-> 0]
    /\ unvisited = [g \in Capturers |-> {}]
    /\ outputs = 0
    /\ process = "running"
    /\ seen = [g \in Capturers |-> [m \in Maps |-> [k \in PieceKey |-> 0]]]
    /\ lines = [g \in Capturers |-> {}]

-----------------------------------------------------------------------------
\* Dumper.SetFile: every capture goroutine adds an adapter for ppl.log.
SetFile(g) ==
    /\ Running /\ dpc[g] = "start"
    /\ outputs' = outputs + 1
    /\ dpc' = [dpc EXCEPT ![g] = "packets"]
    /\ UNCHANGED <<pplMap, todo, fetched, unvisited, process, seen, lines>>

\* DumpPPLUDP: a request for the blocks ks, or a response with one.  A request
\* for none is legal and changes nothing, like a packet that is neither.
DumpPPLUDP(g, m, ks) ==
    /\ Running /\ dpc[g] = "packets"
    /\ todo' = [todo EXCEPT ![g] = [i \in DOMAIN ks |-> <<m, ks[i]>>]]
    /\ dpc' = [dpc EXCEPT ![g] = IF ks = <<>> THEN "packets" ELSE "fetch"]
    /\ seen' = [seen EXCEPT ![g][m] =
           [k \in PieceKey |-> @[k] + Cardinality({i \in DOMAIN ks : ks[i] = k})]]
    /\ UNCHANGED <<pplMap, fetched, unvisited, outputs, process, lines>>

\* A length or a size that does not fit: log.Fatalf.
DumpInvalid(g) ==
    /\ Running /\ dpc[g] = "packets"
    /\ process' = "fatal"
    /\ UNCHANGED <<pplMap, dpc, todo, fetched, unvisited, outputs, seen, lines>>

Fetch(g) ==
    /\ Running /\ dpc[g] = "fetch"
    /\ LET c == Head(todo[g]) IN fetched' = [fetched EXCEPT ![g] = pplMap[c[1]][c[2]]]
    /\ dpc' = [dpc EXCEPT ![g] = "store"]
    /\ UNCHANGED <<pplMap, todo, unvisited, outputs, process, seen, lines>>

\* Mutant: a key that is there already stays as it is.
StoreFirst(g) ==
    /\ Running /\ dpc[g] = "store"
    /\ LET c == Head(todo[g]) IN pplMap' = [pplMap EXCEPT ![c[1]][c[2]] = IF fetched[g] = 0 THEN 1 ELSE @]
    /\ todo' = [todo EXCEPT ![g] = Tail(@)]
    /\ fetched' = [fetched EXCEPT ![g] = 0]
    /\ dpc' = [dpc EXCEPT ![g] = IF Len(todo[g]) = 1 THEN "packets" ELSE "fetch"]
    /\ UNCHANGED <<unvisited, outputs, process, seen, lines>>

Store(g) ==
    /\ Running /\ dpc[g] = "store"
    /\ LET c == Head(todo[g]) IN pplMap' = [pplMap EXCEPT ![c[1]][c[2]] = fetched[g] + 1]
    /\ todo' = [todo EXCEPT ![g] = Tail(@)]
    /\ fetched' = [fetched EXCEPT ![g] = 0]
    /\ dpc' = [dpc EXCEPT ![g] = IF Len(todo[g]) = 1 THEN "packets" ELSE "fetch"]
    /\ UNCHANGED <<unvisited, outputs, process, seen, lines>>

-----------------------------------------------------------------------------
\* handle1 after the last packet: DumpMap begins with the requests.
EndOfPackets(g) ==
    /\ Running /\ dpc[g] = "packets"
    /\ dpc' = [dpc EXCEPT ![g] = "requests"]
    /\ unvisited' = [unvisited EXCEPT ![g] = Keys("req")]
    /\ UNCHANGED <<pplMap, todo, fetched, outputs, process, seen, lines>>

Line(g, m, k, resp) ==
    lines' = [lines EXCEPT ![g] =
        @ \cup {[map |-> m, key |-> k, count |-> pplMap[m][k], resp |-> resp, copies |-> outputs]}]

\* Mutant: the response is not deleted.
LogRequestKeeps(g, k) ==
    /\ Running /\ dpc[g] = "requests" /\ k \in Keys("req")
    /\ unvisited' = [unvisited EXCEPT ![g] = @ \ {k}]
    /\ Line(g, "req", k, pplMap["resp"][k])
    /\ UNCHANGED <<pplMap, dpc, todo, fetched, outputs, process, seen>>

\* A key of PPLreqmap with the response to it, which is deleted.  A key that
\* was added after the loop began may be visited or not.
LogRequest(g, k) ==
    /\ Running /\ dpc[g] = "requests" /\ k \in Keys("req")
    /\ \A l \in lines[g] : l.map = "req" => l.key # k
    /\ unvisited' = [unvisited EXCEPT ![g] = @ \ {k}]
    /\ Line(g, "req", k, pplMap["resp"][k])
    /\ pplMap' = [pplMap EXCEPT !["resp"][k] = 0]
    /\ UNCHANGED <<dpc, todo, fetched, outputs, process, seen>>

\* The rows of the responses that no request was seen for.
LogSeparator(g) ==
    /\ Running /\ dpc[g] = "requests" /\ unvisited[g] \cap Keys("req") = {}
    /\ dpc' = [dpc EXCEPT ![g] = "responses"]
    /\ unvisited' = [unvisited EXCEPT ![g] = Keys("resp")]
    /\ UNCHANGED <<pplMap, todo, fetched, outputs, process, seen, lines>>

LogResponse(g, k) ==
    /\ Running /\ dpc[g] = "responses" /\ k \in Keys("resp")
    /\ \A l \in lines[g] : l.map = "resp" => l.key # k
    /\ unvisited' = [unvisited EXCEPT ![g] = @ \ {k}]
    /\ Line(g, "resp", k, 0)
    /\ UNCHANGED <<pplMap, dpc, todo, fetched, outputs, process, seen>>

\* os.Exit(0)
Exit(g) ==
    /\ Running /\ dpc[g] = "responses" /\ unvisited[g] \cap Keys("resp") = {}
    /\ process' = "done"
    /\ dpc' = [dpc EXCEPT ![g] = "exited"]
    /\ UNCHANGED <<pplMap, todo, fetched, unvisited, outputs, seen, lines>>

\* The map a goroutine is about to use; the runtime may find two in one.
Uses(g) ==
    CASE dpc[g] \in {"fetch", "store"} -> {Head(todo[g])[1]}
      [] dpc[g] = "requests"  -> Maps
      [] dpc[g] = "responses" -> {"resp"}
      [] OTHER -> {}

Stores(g) == IF dpc[g] = "store" THEN Uses(g) ELSE IF dpc[g] = "requests" THEN {"resp"} ELSE {}

Collide(g, h) ==
    /\ Running /\ g # h /\ Stores(g) \cap Uses(h) # {}
    /\ process' = "aborted"
    /\ UNCHANGED <<pplMap, dpc, todo, fetched, unvisited, outputs, seen, lines>>

DumpStep(g) ==
    \/ SetFile(g) \/ Fetch(g) \/ Store(g)
    \/ LogSeparator(g) \/ Exit(g)
    \/ \E k \in PieceKey : LogRequest(g, k) \/ LogResponse(g, k)
    \/ \E h \in Capturers : Collide(g, h)
-----------------------------------------------------------------------------
\* The goroutines that saw k, and how often they did; those still storing it.
SeenBy(m, k)  == {g \in Capturers : seen[g][m][k] > 0}
Pending(m, k) == {g \in Capturers : \E i \in DOMAIN todo[g] : todo[g][i] = <<m, k>>}
Reporting     == {g \in Capturers : dpc[g] \in {"requests", "responses", "exited"}}

\* A key that one goroutine alone sees is counted exactly, whatever the others
\* do in the maps; one that several see is in the map, at most with the count
\* of all of them (the racing stores may lose some, dump.go:142).
CountsSeen ==
    \A m \in Maps, k \in PieceKey :
        Pending(m, k) = {} /\ (m = "req" \/ Reporting = {}) =>
            /\ SeenBy(m, k) = {} => pplMap[m][k] = 0
            /\ \A g \in SeenBy(m, k) :
                 /\ pplMap[m][k] >= 1
                 /\ SeenBy(m, k) = {g} => pplMap[m][k] = seen[g][m][k]

\* When a goroutine that captures alone has come to its end, the report has
\* every request once with its count, the response to it beside it, and every
\* other response once; in one copy.
ReportComplete ==
    \A g \in Capturers :
        process = "done" /\ dpc[g] = "exited" /\ (\A h \in Capturers \ {g} : dpc[h] = "start") =>
            lines[g] =
                {[map |-> "req", key |-> k, count |-> seen[g]["req"][k],
                  resp |-> seen[g]["resp"][k], copies |-> 1] :
                    k \in {j \in PieceKey : seen[g]["req"][j] > 0}} \cup
                {[map |-> "resp", key |-> k, count |-> seen[g]["resp"][k], resp |-> 0, copies |-> 1] :
                    k \in {j \in PieceKey : seen[g]["req"][j] = 0 /\ seen[g]["resp"][j] > 0}}
=============================================================================
