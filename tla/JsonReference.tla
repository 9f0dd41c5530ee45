----------------------------- MODULE JsonReference -----------------------------
(***************************************************************************)
(* The grammar of JSON (RFC 7159) read by a recursive recogniser, for      *)
(* texts without comments: what checkValid has to accept.                  *)
(***************************************************************************)
EXTENDS JsonText

(***************************************************************************)
(* The grammar, as data: a symbol is a byte or the name of a rule, a rule  *)
(* the set of its productions.  Ends gives the positions at which a symbol *)
(* that starts at position i may end; Open when the text is over first.    *)
(***************************************************************************)
OneOf(bytes) == {<<b>> : b \in bytes}

Rules ==
    [Text    |-> {<<"Ws", "Value", "Ws">>},
     Ws      |-> {<<>>, <<"space", "Ws">>, <<"newline", "Ws">>},
     Value   |-> {<<"{", "Ws", "Members">>, <<"[", "Ws", "Elements">>, <<"String">>, <<"Number">>,
                  <<"t", "r", "u", "e">>, <<"f", "a", "l", "s", "e">>, <<"n", "u", "l", "l">>},
     Members  |-> {<<"}">>, <<"Member", "MoreMembers">>},
     MoreMembers |-> {<<"}">>, <<",", "Ws", "Member", "MoreMembers">>},
     Member   |-> {<<"String", "Ws", ":", "Ws", "Value", "Ws">>},
     Elements |-> {<<"]">>, <<"Value", "Ws", "MoreElements">>},
     MoreElements |-> {<<"]">>, <<",", "Ws", "Value", "Ws", "MoreElements">>},
     String   |-> {<<"quote", "Chars">>},
     Chars    |-> {<<"quote">>, <<"Char", "Chars">>},
     Char     |-> {<<"backslash", "Escaped">>} \cup
                  OneOf(AllBytes \ {"quote", "backslash", "newline", "control"}),
     Escaped  |-> {<<"u", "HexDigit", "HexDigit", "HexDigit", "HexDigit">>} \cup OneOf(Escape),
     HexDigit |-> OneOf(Hex),
     Number   |-> {<<"Int", "Frac", "Exp">>, <<"-", "Int", "Frac", "Exp">>},
     Int      |-> {<<"0">>} \cup {<<d, "Digits">> : d \in Digit1},
     Digits   |-> {<<>>, <<"OneDigit", "Digits">>},
     OneDigit |-> OneOf(Digit),
     Frac     |-> {<<>>, <<".", "OneDigit", "Digits">>},
     Exp      |-> {<<>>} \cup {<<"e">> \o sign \o <<"OneDigit", "Digits">> :
                               sign \in {<<>>, <<"+">>, <<"-">>}}]

Open == 0

RECURSIVE Ends(_, _), AllEnd(_, _)
Ends(symbol, i) ==
    IF symbol \in DOMAIN Rules THEN UNION {AllEnd(p, i) : p \in Rules[symbol]}
    ELSE IF i > Len(text) THEN {Open}
    ELSE IF text[i] = symbol THEN {i + 1} ELSE {}
AllEnd(symbols, i) ==
    IF symbols = <<>> THEN {i}
    ELSE UNION {IF j = Open THEN {Open} ELSE AllEnd(Tail(symbols), j) :
                j \in Ends(Head(symbols), i)}

-----------------------------------------------------------------------------
\* On a text without comments the scanner is exactly the grammar: it stops at
\* the first byte after which no JSON text can follow, never before one, and
\* at the end it accepts just the JSON texts (step and eof, scanner.go:20).
AcceptsJson ==
    "/" \notin Seqs!ToSet(text) /\ (unread = <<>> \/ op = "Error") =>
        LET ends == Ends("Text", 1) IN
        /\ ~ended => (scan.err = "nil" <=> Open \in ends)
        /\ ended  => (op = "End" <=> Len(text) + 1 \in ends)
===============================================================================
