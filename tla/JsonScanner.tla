----------------------------- MODULE JsonScanner -----------------------------
(***************************************************************************)
(* The scanner of common/json: encoding/json's state machine with comments *)
(* from // to the end of the line.  A scanner is a record; Step gives the  *)
(* scanner after one byte and the opcode it returned.  Bytes are the       *)
(* strings below; "quote", "backslash", "space", "newline" stand for       *)
(* themselves, "x" for any other byte a string may hold, "control" for a   *)
(* control byte that is no space.                                          *)
(***************************************************************************)
EXTENDS Integers, Sequences

Seqs == INSTANCE SequencesExt

Space  == {"space", "newline"}
Digit1 == {"1", "2"}                          \* '1' to '9'
Digit  == {"0"} \cup Digit1
Hex    == Digit \cup {"a", "b", "e", "f"}
Escape == {"b", "f", "n", "r", "t", "backslash", "/", "quote"}

\* reset, of a new scanner
NewScanner == [step |-> "BeginValue", endTop |-> FALSE, parseState |-> <<>>,
               err |-> "nil", offset |-> 0, bytes |-> 0,
               redo |-> FALSE, redoCode |-> "", redoState |-> ""]

Top(s)     == s.parseState[Len(s.parseState)]
Go(s, t)   == [s EXCEPT !.step = t]
Push(s, p) == [s EXCEPT !.parseState = Append(@, p)]
SetTop(s, p) == [s EXCEPT !.parseState[Len(s.parseState)] = p]

Returns(s, op) == [scan |-> s, op |-> op]
Continue(s)    == Returns(s, "Continue")
Skip(s)        == Returns(s, "SkipSpace")

\* scanner.error: c is the byte the message names.
Error(s, c) == Returns([s EXCEPT !.step = "Error", !.err = c, !.offset = s.bytes], "Error")

\* undo: the next step returns op again, whatever its byte; and that step.
Undo(s, op) == [s EXCEPT !.redo = TRUE, !.redoCode = op, !.redoState = s.step, !.step = "Redo"]
Redo(s)     == Returns([s EXCEPT !.redo = FALSE, !.step = s.redoState], s.redoCode)

Pop(s) ==
    LET t == [s EXCEPT !.parseState = Seqs!Front(@), !.redo = FALSE] IN
    IF t.parseState = <<>> THEN Go([t EXCEPT !.endTop = TRUE], "EndTop") ELSE Go(t, "EndValue")

EndTop(s, c) == Returns(IF c \in Space THEN s ELSE Error(s, c).scan, "End")

EndValue(s, c) ==
    CASE s.parseState = <<>> -> EndTop(Go([s EXCEPT !.endTop = TRUE], "EndTop"), c)
      [] s.parseState # <<>> /\ c \in Space -> Skip(Go(s, "EndValue"))
      [] s.parseState # <<>> /\ c \notin Space ->
         CASE Top(s) = "ObjectKey" /\ c = ":" ->
                Returns(Go(SetTop(s, "ObjectValue"), "BeginValue"), "ObjectKey")
           [] Top(s) = "ObjectValue" /\ c = "," ->
                Returns(Go(SetTop(s, "ObjectKey"), "BeginString"), "ObjectValue")
           [] Top(s) = "ObjectValue" /\ c = "}" -> Returns(Pop(s), "EndObject")
           [] Top(s) = "ArrayValue" /\ c = ","  -> Returns(Go(s, "BeginValue"), "ArrayValue")
           [] Top(s) = "ArrayValue" /\ c = "]"  -> Returns(Pop(s), "EndArray")
           [] Top(s) # "ObjectKey" /\ c = "/"   -> Skip(Go(s, "MaybeCommentAtEndValue"))
           [] OTHER -> Error(s, c)

BeginValue(s, c) ==
    LET Literal(t) == Returns(Go(s, t), "BeginLiteral") IN
    CASE c \in Space  -> Skip(s)
      [] c = "{"      -> Returns(Push(Go(s, "BeginStringOrEmpty"), "ObjectKey"), "BeginObject")
      [] c = "["      -> Returns(Push(Go(s, "BeginValueOrEmpty"), "ArrayValue"), "BeginArray")
      [] c = "quote"  -> Literal("InString")
      [] c = "-"      -> Literal("Neg")
      [] c = "0"      -> Literal("State0")
      [] c \in Digit1 -> Literal("State1")
      [] c \in {"t", "f", "n"} -> Literal(c)
      [] c = "/"      -> Skip(Go(s, "MaybeCommentAtBeginValue"))
      [] OTHER        -> Error(s, c)

BeginValueOrEmpty(s, c) == IF c = "]" THEN EndValue(s, c) ELSE BeginValue(s, c)

BeginString(s, c) ==
    CASE c \in Space -> Skip(s)
      [] c = "/"     -> Skip(Go(s, "MaybeCommentAtBeginString"))
      [] c = "quote" -> Returns(Go(s, "InString"), "BeginLiteral")
      [] OTHER       -> Error(s, c)

BeginStringOrEmpty(s, c) ==
    IF c = "}" THEN EndValue(SetTop(s, "ObjectValue"), c) ELSE BeginString(s, c)

-----------------------------------------------------------------------------
\* Where a comment leads back to.  The states of a comment after an array
\* element differ from those after a key:value pair in their message only.
AfterComment == [MaybeCommentAtBeginValue  |-> "InCommentAtBeginValue",
                 MaybeCommentAtBeginString |-> "InCommentAtBeginString",
                 MaybeCommentAtEndValue    |-> "InCommentAtEndValue"]

\* Mutant: after a comment in front of a key the object may end.
AfterLineEmpty == [InCommentAtBeginValue  |-> "BeginValueOrEmpty",
                   InCommentAtBeginString |-> "BeginStringOrEmpty",
                   InCommentAtEndValue    |-> "EndValue"]
AfterLine    == [InCommentAtBeginValue  |-> "BeginValueOrEmpty",
                 InCommentAtBeginString |-> "BeginString",
                 InCommentAtEndValue    |-> "EndValue"]

\* Mutant: the error is not moved back to the slash.
MaybeCommentLate(s, c) ==
    IF c = "/" THEN Skip(Go(s, AfterComment[s.step])) ELSE Error(s, "/")

\* A single slash is an error, found one byte late.
MaybeComment(s, c) ==
    IF c = "/" THEN Skip(Go(s, AfterComment[s.step]))
    ELSE Error([s EXCEPT !.bytes = @ - 1], "/")

InComment(s, c) == Skip(IF c = "newline" THEN Go(s, AfterLine[s.step]) ELSE s)

-----------------------------------------------------------------------------
\* The bytes that continue a literal: each state's sets of <<bytes, next state>>;
\* and the states of a number, which may end before any other byte.
Letter(c, t) == {<<{c}, t>>}
Literals ==
    [t |-> Letter("r", "tr"), tr |-> Letter("u", "tru"), tru |-> Letter("e", "EndValue"),
     f |-> Letter("a", "fa"), fa |-> Letter("l", "fal"), fal |-> Letter("s", "fals"),
     fals |-> Letter("e", "EndValue"),
     n |-> Letter("u", "nu"), nu |-> Letter("l", "nul"), nul |-> Letter("l", "EndValue"),
     Neg    |-> {<<{"0"}, "State0">>, <<Digit1, "State1">>},
     State0 |-> {<<{"."}, "Dot">>, <<{"e"}, "E">>},
     State1 |-> {<<Digit, "State1">>, <<{"."}, "Dot">>, <<{"e"}, "E">>},
     Dot    |-> {<<Digit, "Dot0">>},
     Dot0   |-> {<<Digit, "Dot0">>, <<{"e"}, "E">>},
     E      |-> {<<{"+", "-"}, "ESign">>, <<Digit, "E0">>},
     ESign  |-> {<<Digit, "E0">>},
     E0     |-> {<<Digit, "E0">>},
     InStringEsc     |-> {<<Escape, "InString">>, <<{"u"}, "InStringEscU">>},
     InStringEscU    |-> {<<Hex, "InStringEscU1">>},
     InStringEscU1   |-> {<<Hex, "InStringEscU12">>},
     InStringEscU12  |-> {<<Hex, "InStringEscU123">>},
     InStringEscU123 |-> {<<Hex, "InString">>}]
Numbers == {"State0", "State1", "Dot0", "E0"}

InString(s, c) ==
    CASE c = "quote"     -> Continue(Go(s, "EndValue"))
      [] c = "backslash" -> Continue(Go(s, "InStringEsc"))
      [] c \in {"newline", "control"} -> Error(s, c)
      [] OTHER           -> Continue(s)

\* Any other byte is an error, or the first one after a number.
InLiteral(s, c) ==
    LET next == {e \in Literals[s.step] : c \in e[1]}
    IN  CASE next # {} -> Continue(Go(s, (CHOOSE e \in next : TRUE)[2]))
          [] next = {} /\ s.step \in Numbers -> EndValue(s, c)
          [] OTHER -> Error(s, c)

\* s.step(s, c)
Step(s, c) ==
    CASE s.step = "BeginValue"         -> BeginValue(s, c)
      [] s.step = "BeginValueOrEmpty"  -> BeginValueOrEmpty(s, c)
      [] s.step = "BeginString"        -> BeginString(s, c)
      [] s.step = "BeginStringOrEmpty" -> BeginStringOrEmpty(s, c)
      [] s.step = "EndValue"           -> EndValue(s, c)
      [] s.step = "EndTop"             -> EndTop(s, c)
      [] s.step = "InString"           -> InString(s, c)
      [] s.step = "Error"              -> Returns(s, "Error")
      [] s.step = "Redo"               -> Redo(s)
      [] s.step \in DOMAIN AfterComment -> MaybeComment(s, c)
      [] s.step \in DOMAIN AfterLine    -> InComment(s, c)
      [] OTHER                          -> InLiteral(s, c)

\* Mutant: the end of the text does not end a number.
EofEarly(s) ==
    CASE s.err # "nil"               -> Returns(s, "Error")
      [] s.err = "nil" /\ s.endTop  -> Returns(s, "End")
      [] OTHER -> Returns([s EXCEPT !.err = "eof", !.offset = s.bytes], "Error")

\* scanner.eof: a space, t the scanner after it, may end a number.
AtEof(s, t) ==
    CASE s.err # "nil"           -> Returns(s, "Error")
      [] s.err = "nil" /\ s.endTop -> Returns(s, "End")
      [] s.err = "nil" /\ ~s.endTop /\ t.endTop -> Returns(t, "End")
      [] OTHER -> Returns(IF t.err = "nil" THEN [t EXCEPT !.err = "eof", !.offset = t.bytes]
                          ELSE t, "Error")

Eof(s) == AtEof(s, Step(s, "space").scan)
=============================================================================
