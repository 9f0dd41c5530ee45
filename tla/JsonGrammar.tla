------------------------------ MODULE JsonGrammar ------------------------------
(***************************************************************************)
(* What the scanner of common/json promises: a text is read byte by byte   *)
(* and rejected at the first byte after which no text of the grammar can   *)
(* go on; at its end it is accepted if it is complete.                     *)
(*                                                                         *)
(* The grammar is JSON's with the comments of common/json.  Rules(c) has   *)
(* for each symbol the words (symbols, the next one last, as on the stack  *)
(* pending) that may follow c when it is the first byte of the symbol.     *)
(* (No symbol stands for nothing but by being one of Nullable; a literal's *)
(* letters stand for themselves.)                                          *)
(***************************************************************************)
EXTENDS Integers, Sequences

CONSTANTS Byte, Space, Digit1, Digit, Hex, Escape   \* bytes and classes of bytes

VARIABLES pending,   \* the symbols that are to come, the next one last
          verdict    \* "open", "rejected", "accepted"

vars == <<pending, verdict>>

\* The word that may follow c, if it is one of the bytes.
On(c, bytes, word) == IF c \in bytes THEN {word} ELSE {}
Is(c, byte)        == On(c, {byte}, <<>>)
Skips(c, symbol)   == On(c, Space, <<symbol>>)
Comment(c, symbol) == On(c, {"/"}, <<symbol, "Slash">>)

\* A value and what comes after it.
Begins(c, after) ==
    On(c, {"{"}, after \o <<"FirstMember">>) \cup On(c, {"["}, after \o <<"FirstElement">>) \cup
    On(c, {"quote"}, after \o <<"Chars">>) \cup On(c, {"-"}, after \o <<"Int">>) \cup
    On(c, {"0"}, after \o <<"Fraction">>) \cup On(c, Digit1, after \o <<"Fraction", "Digits">>) \cup
    On(c, {"t"}, after \o <<"e", "u", "r">>) \cup On(c, {"f"}, after \o <<"e", "s", "l", "a">>) \cup
    On(c, {"n"}, after \o <<"l", "l", "u">>)
Key(c)      == On(c, {"quote"}, <<"MoreMembers", "Value", "Colon", "Chars">>)
Exponent(c) == On(c, {"e"}, <<"Digits", "Signed">>)

\* After a comment in front of an array's element the array may also end.
Rules(c) ==
    [Trailing     |-> Skips(c, "Trailing"),
     Value        |-> Skips(c, "Value") \cup Comment(c, "Value") \cup Begins(c, <<>>),
     FirstElement |-> Skips(c, "FirstElement") \cup Comment(c, "FirstElement") \cup Is(c, "]") \cup
                      Begins(c, <<"MoreElements">>),
     NextElement  |-> Skips(c, "NextElement") \cup Comment(c, "FirstElement") \cup
                      Begins(c, <<"MoreElements">>),
     MoreElements |-> Skips(c, "MoreElements") \cup Comment(c, "MoreElements") \cup Is(c, "]") \cup
                      On(c, {","}, <<"NextElement">>),
     FirstMember  |-> Skips(c, "FirstMember") \cup Comment(c, "NextMember") \cup Is(c, "}") \cup
                      Key(c),
     NextMember   |-> Skips(c, "NextMember") \cup Comment(c, "NextMember") \cup Key(c),
     MoreMembers  |-> Skips(c, "MoreMembers") \cup Comment(c, "MoreMembers") \cup Is(c, "}") \cup
                      On(c, {","}, <<"NextMember">>),
     Colon    |-> Skips(c, "Colon") \cup Is(c, ":"),
     Slash    |-> On(c, {"/"}, <<"Line">>),
     Line     |-> Is(c, "newline") \cup On(c, Byte \ {"newline"}, <<"Line">>),
     Chars    |-> Is(c, "quote") \cup On(c, {"backslash"}, <<"Chars", "Escaped">>) \cup
                  On(c, Byte \ {"quote", "backslash", "newline", "control"}, <<"Chars">>),
     Escaped  |-> On(c, Escape, <<>>) \cup On(c, {"u"}, <<"Hex", "Hex", "Hex", "Hex">>),
     Hex      |-> On(c, Hex, <<>>),
     Int      |-> On(c, {"0"}, <<"Fraction">>) \cup On(c, Digit1, <<"Fraction", "Digits">>),
     Fraction |-> On(c, {"."}, <<"Exponent", "Digits", "Digit">>) \cup Exponent(c),
     Exponent |-> Exponent(c),
     Signed   |-> On(c, {"+", "-"}, <<"Digit">>) \cup On(c, Digit, <<>>),
     Digit    |-> On(c, Digit, <<>>),
     Digits   |-> On(c, Digit, <<"Digits">>),
     r |-> Is(c, "r"), u |-> Is(c, "u"), e |-> Is(c, "e"),
     a |-> Is(c, "a"), l |-> Is(c, "l"), s |-> Is(c, "s")]

Nullable == {"Trailing", "Fraction", "Exponent", "Digits"}

\* What may be pending after c: it begins a symbol above which all may be empty.
Empty(p, i) == \A j \in i..Len(p) : p[j] \in Nullable
Residuals(p, c) ==
    UNION {{SubSeq(p, 1, i - 1) \o word : word \in Rules(c)[p[i]]} :
           i \in {k \in DOMAIN p : Empty(p, k + 1)}}

Init == pending = <<"Trailing", "Value">> /\ verdict = "open"

\* The grammar leaves no choice.
Reads(c) ==
    /\ verdict = "open" /\ Residuals(pending, c) = {pending'}
    /\ UNCHANGED verdict

Stops(v) == verdict = "open" /\ verdict' = v /\ pending' = <<>>

Rejects(c) == Residuals(pending, c) = {} /\ Stops("rejected")

Ends == Stops(IF Empty(pending, 1) THEN "accepted" ELSE "rejected")

Next == Ends \/ \E c \in Byte : Reads(c) \/ Rejects(c)

Spec == Init /\ [][Next]_vars
=============================================================================
