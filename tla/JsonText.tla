------------------------------- MODULE JsonText -------------------------------
(***************************************************************************)
(* checkValid of common/json: the scanner fed a text byte by byte, as the  *)
(* configuration is before it is decoded, and the grammar it implements.   *)
(***************************************************************************)
EXTENDS JsonScanner

CONSTANT MaxLength   \* bound: how many words a text has, by the set of words (sequences
                     \* of bytes) it is made of

Alphabets == DOMAIN MaxLength

ASSUME LengthAssumption ==
    \A a \in Alphabets : a \subseteq Seq(STRING) \ {<<>>} /\ MaxLength[a] \in Nat

AllBytes == UNION {Seqs!ToSet(w) : w \in UNION Alphabets}

\* The field err of a scanner is the byte in question, or one of these.
ASSUME BytesAssumption == {"nil", "eof"} \cap AllBytes = {}

VARIABLES alphabet, words, unread, text, scan, op, ended

vars == <<alphabet, words, unread, text, scan, op, ended>>

Init == /\ alphabet \in Alphabets
        /\ words = 0
        /\ unread = <<>>
        /\ text = <<>>
        /\ scan = NewScanner
        /\ op = "Continue"
        /\ ended = FALSE

\* The next byte of a word of the text; the loop is left at the first error.
Feed(word) ==
    /\ op # "Error" /\ ~ended
    /\ LET next == Step([scan EXCEPT !.bytes = @ + 1], Head(word))
       IN  scan' = next.scan /\ op' = next.op
    /\ text' = Append(text, Head(word))
    /\ unread' = Tail(word)
    /\ UNCHANGED <<alphabet, ended>>

\* The text ends.
End ==
    /\ op # "Error" /\ ~ended /\ unread = <<>>
    /\ scan' = Eof(scan).scan
    /\ op' = Eof(scan).op
    /\ ended' = TRUE
    /\ UNCHANGED <<alphabet, words, unread, text>>

Next ==
    \/ unread # <<>> /\ Feed(unread) /\ UNCHANGED words
    \/ /\ unread = <<>> /\ words < MaxLength[alphabet]
       /\ \E word \in alphabet : Feed(word)
       /\ words' = words + 1
    \/ End

Spec == Init /\ [][Next]_vars

-----------------------------------------------------------------------------
\* An error of the text names a byte that stands where its offset says, also
\* when it is found one byte late, after the slash of a comment that is none
\* (bytes--, scanner.go:279).  At the end of the text no byte is to blame.
ErrorNamesItsByte ==
    scan.err # "nil" /\ ~ended =>
        scan.offset \in DOMAIN text /\ text[scan.offset] = scan.err

-----------------------------------------------------------------------------
(***************************************************************************)
(* The symbols of the grammar that are to come, by the scanner's state and *)
(* its stack, each level of which has a symbol to close it.                *)
(***************************************************************************)
More == [ObjectKey |-> "MoreMembers", ObjectValue |-> "MoreMembers", ArrayValue |-> "MoreElements"]

TopIs(stack, level) == stack # <<>> /\ stack[Len(stack)] = level

\* What follows when the values of all levels but the first n are over.
Opened(stack, n) ==
    [i \in 1..n + 1 |-> IF i = 1 THEN "Trailing" ELSE More[stack[i - 1]]]
AllOpened(stack) == Opened(stack, Len(stack))
Outside(stack)   == Opened(stack, Len(stack) - 1)

AtValue(stack, element) ==
    IF TopIs(stack, "ArrayValue") THEN Append(Outside(stack), element)
    ELSE Append(AllOpened(stack), "Value")
AtMember(stack, member) == Append(Outside(stack), member)
AtEndValue(stack) ==
    IF TopIs(stack, "ObjectKey") THEN Outside(stack) \o <<"MoreMembers", "Value", "Colon">>
    ELSE AllOpened(stack)

InTheLiteral ==
    [t |-> <<"e", "u", "r">>, tr |-> <<"e", "u">>, tru |-> <<"e">>,
     f |-> <<"e", "s", "l", "a">>, fa |-> <<"e", "s", "l">>, fal |-> <<"e", "s">>, fals |-> <<"e">>,
     n |-> <<"l", "l", "u">>, nu |-> <<"l", "l">>, nul |-> <<"l">>,
     Neg |-> <<"Int">>, State0 |-> <<"Fraction">>, State1 |-> <<"Fraction", "Digits">>,
     Dot |-> <<"Exponent", "Digits", "Digit">>, Dot0 |-> <<"Exponent", "Digits">>,
     E |-> <<"Digits", "Signed">>, ESign |-> <<"Digits", "Digit">>, E0 |-> <<"Digits">>,
     InString |-> <<"Chars">>, InStringEsc |-> <<"Chars", "Escaped">>,
     InStringEscU   |-> <<"Chars", "Hex", "Hex", "Hex", "Hex">>,
     InStringEscU1  |-> <<"Chars", "Hex", "Hex", "Hex">>,
     InStringEscU12 |-> <<"Chars", "Hex", "Hex">>, InStringEscU123 |-> <<"Chars", "Hex">>]

\* At any other step than one of an error.
AtStep(stack) ==
    [BeginValue |-> AtValue(stack, "NextElement"), BeginValueOrEmpty |-> AtValue(stack, "FirstElement"),
     BeginString |-> AtMember(stack, "NextMember"), BeginStringOrEmpty |-> AtMember(stack, "FirstMember"),
     EndValue |-> AtEndValue(stack), EndTop |-> <<"Trailing">>,
     MaybeCommentAtBeginValue  |-> Append(AtValue(stack, "FirstElement"), "Slash"),
     InCommentAtBeginValue     |-> Append(AtValue(stack, "FirstElement"), "Line"),
     MaybeCommentAtBeginString |-> Append(AtMember(stack, "NextMember"), "Slash"),
     InCommentAtBeginString    |-> Append(AtMember(stack, "NextMember"), "Line"),
     MaybeCommentAtEndValue    |-> Append(AtEndValue(stack), "Slash"),
     InCommentAtEndValue       |-> Append(AtEndValue(stack), "Line")]
ToCome(step, stack) ==
    IF step \in DOMAIN InTheLiteral THEN AtEndValue(stack) \o InTheLiteral[step]
    ELSE AtStep(stack)[step]

verdictOf == CASE scan.err # "nil" -> "rejected"
               [] scan.err = "nil" /\ ended -> "accepted"
               [] OTHER -> "open"
pendingOf == IF verdictOf = "open" THEN ToCome(scan.step, scan.parseState) ELSE <<>>

Grammar == INSTANCE JsonGrammar WITH Byte <- AllBytes, pending <- pendingOf, verdict <- verdictOf

\* checkValid reads exactly the texts of the grammar, comments included: it
\* goes on as long as the text can, stops at the first byte after which it
\* cannot, and at the end accepts what is complete (scanner.go:20).
GrammarSpec == Grammar!Spec
=============================================================================
