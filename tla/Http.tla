-------------------------------- MODULE Http ---------------------------------
(***************************************************************************)
(* What the DPI engine recognises in the payload of a packet: the first    *)
(* line of an HTTP request or response, as dpi and httpassembly parse it.  *)
(* A payload is [words, uriOk]: the words of its first line, between       *)
(* single spaces, and what url.ParseRequestURI says of the second.  A word is a sequence of the pieces that are told apart: a      *)
(* method, a number, ".", "HTTP/" or any other text.  Header lines are     *)
(* read without an error to report and left out.                           *)
(***************************************************************************)
EXTENDS Integers, Sequences

Strings == INSTANCE SequencesExt

Big == 1000000

\* strconv.Atoi of a word's pieces, if they are a number.
Numbers == [n \in {"0", "1", "2", "200", "404", "-1", "1000001"} |->
               CASE n = "0" -> 0 [] n = "1" -> 1 [] n = "2" -> 2 [] n = "200" -> 200
                 [] n = "404" -> 404 [] n = "-1" -> -1 [] OTHER -> Big + 1]
Digits  == [n \in DOMAIN Numbers |->
               CASE n \in {"0", "1", "2"} -> 1 [] n = "-1" -> 2 [] n = "1000001" -> 7 [] OTHER -> 3]
IsNumber(pieces) == Len(pieces) = 1 /\ pieces[1] \in DOMAIN Numbers
Atoi(pieces)     == Numbers[pieces[1]]

NotOk == [ok |-> FALSE]

\* ParseHTTPVersion: "HTTP/", a number, the first ".", a number.
ParseHTTPVersion(vers) ==
    LET dot   == Strings!SelectInSeq(vers, LAMBDA p : p = ".")
        major == SubSeq(vers, 2, dot - 1)
        minor == SubSeq(vers, dot + 1, Len(vers))
    IN  IF /\ vers # <<>> /\ vers[1] = "HTTP/" /\ dot # 0
           /\ IsNumber(major) /\ Atoi(major) \in 0..Big
           /\ IsNumber(minor) /\ Atoi(minor) \in 0..Big
        THEN [ok |-> TRUE, major |-> Atoi(major), minor |-> Atoi(minor)]
        ELSE NotOk

\* parseRequestLine: the method, the URI, and all that follows the second
\* space, which is no version if it has a space in it.
ParseRequestLine(words) ==
    IF Len(words) < 3 THEN NotOk
    ELSE [ok |-> TRUE, method |-> words[1], uri |-> words[2],
          proto |-> IF Len(words) = 3 THEN words[3] ELSE <<"other">>]

\* httpassembly.Request
Request(p) ==
    LET line == ParseRequestLine(p.words) IN
    IF line.ok /\ ParseHTTPVersion(line.proto).ok /\ p.uriOk
    THEN [ok |-> TRUE, method |-> line.method]
    ELSE NotOk

\* httpassembly.Response: the status has three characters, "-12" being
\* refused as negative.
Response(p) ==
    IF /\ Len(p.words) >= 2
       /\ IsNumber(p.words[2]) /\ Digits[p.words[2][1]] = 3 /\ Atoi(p.words[2]) >= 0
       /\ ParseHTTPVersion(p.words[1]).ok
    THEN [ok |-> TRUE, status |-> Atoi(p.words[2])]
    ELSE NotOk

\* The first four bytes; "GET" and "PUT" need the space after them.  (A
\* payload of no more than four bytes, which Decoder skips, has one word.)
Starts(words, method) ==
    /\ Len(words) > 1 /\ words[1] # <<>> /\ words[1][1] = method
    /\ method \in {"GET", "PUT"} => Len(words[1]) = 1

\* DPIDecoder with its one adapter: which of its callbacks is made.
DPIDecoder(p) ==
    CASE /\ \E m \in {"HEAD", "GET", "PUT", "POST", "DELETE"} : Starts(p.words, m)
         /\ Request(p).ok -> "request"
      [] Starts(p.words, "HTTP/") /\ Response(p).ok -> "response"
      [] OTHER -> "none"
=============================================================================
