------------------------------ MODULE JsonDecode ------------------------------
(***************************************************************************)
(* Unmarshal of common/json: the text, once checked (JsonText), is decoded *)
(* into a Go value of some type.  The decoder reads the text through the   *)
(* scanner, with one byte of look-ahead that it takes back (undo), and     *)
(* skips what no part of the value takes behind the scanner's back.        *)
(*                                                                         *)
(* A type is a record: [kind |-> "Any"] for interface{}, Bool, Int, String; *)
(* Ptr, Slice and Map with elem; Array with elem and len; Struct with      *)
(* fields, a sequence of [name, type]; Invalid is the zero reflect.Value.  *)
(* Left out: float fields, Unmarshalers, the string tag option and pointers *)
(* to pointers, which no value the program decodes has.                    *)
(***************************************************************************)
EXTENDS JsonReference, TLC

CONSTANT Targets   \* the types decoded into, by the alphabet of the text

ASSUME TargetsAssumption == \A a \in Alphabets : \A T \in Targets[a] : "kind" \in DOMAIN T

VARIABLES target,  \* the type of the value the text was decoded into
          result   \* [d |-> the decoder, v |-> that value]

decodeVars == <<vars, target, result>>

Invalid == [kind |-> "Invalid"]
Null    == [word |-> "null"]

\* An array or slice is its cells and the number in use: a slice keeps the
\* cells beyond its length.  A pointer is the sequence of what it points to.
RECURSIVE Zero(_)
Zero(T) ==
    CASE T.kind = "Bool"   -> [word |-> "false"]
      [] T.kind = "Int"    -> [number |-> 0]
      [] T.kind = "String" -> [string |-> <<>>]
      [] T.kind = "Ptr"    -> [pointer |-> <<>>]
      [] T.kind = "Slice"  -> [len |-> 0, cells |-> <<>>]
      [] T.kind = "Array"  -> [len |-> T.len, cells |-> [i \in 1..T.len |-> Zero(T.elem)]]
      [] T.kind = "Map"    -> [object |-> <<>>]
      [] T.kind = "Struct" -> [object |-> [key \in {f.name : f \in Seqs!ToSet(T.fields)} |->
              Zero((CHOOSE f \in Seqs!ToSet(T.fields) : f.name = key).type)]]
      [] OTHER             -> Null

-----------------------------------------------------------------------------
(* The decoder: off bytes of text are read; err is what it panicked with.  *)

NewDecoder == [off |-> 0, scan |-> [NewScanner EXCEPT !.bytes = scan.bytes],
               saved |-> FALSE, err |-> "nil"]

Got(d, v)    == [d |-> d, v |-> v]
Abort(d, e)  == [d EXCEPT !.err = e]
Save(d)      == [d EXCEPT !.saved = TRUE]
Phase(d, v)  == Got(Abort(d, "phase"), v)

\* The next byte, or the end of the text, given to the scanner.
Scanned(d, off, step) == [d |-> [d EXCEPT !.off = off, !.scan = step.scan], op |-> step.op]
Read(d) == IF d.off >= Len(text) THEN Scanned(d, Len(text) + 1, Eof(d.scan))
           ELSE Scanned(d, d.off + 1, Step(d.scan, text[d.off + 1]))

RECURSIVE ScanWhile(_, _)
Until(r, code)     == IF r.op = code THEN ScanWhile(r.d, code) ELSE r
ScanWhile(d, code) == Until(Read(d), code)

Token(d) == ScanWhile(d, "SkipSpace")

\* The byte just read, taken back; undo panics if one was taken back before.
Back(r) == IF r.d.scan.redo THEN Abort(r.d, "misuse")
           ELSE [r.d EXCEPT !.off = @ - 1, !.scan = Undo(@, r.op)]

\* The bytes of a literal, from the one before off to the one before r's last.
Item(d, r) == SubSeq(text, d.off, r.d.off - 1)

FeedAll(s, bytes) == Seqs!FoldLeft(LAMBDA t, c : Step(t, c).scan, s, bytes)

\* nextValue: the position of the byte after the value that starts at i, or 0
\* if there is none.  The value ends before the byte that shows its end.
RECURSIVE ValueEnd(_, _, _)
ValueEnd(data, i, s) ==
    IF i > Len(data) THEN IF Eof(s).op = "Error" THEN 0 ELSE i
    ELSE LET next == Step(s, data[i]) IN
         CASE next.op = "Error" -> 0
           [] next.op = "End"   -> i
           [] OTHER             -> ValueEnd(data, i + 1, next.scan)

NextValue(data, i) == ValueEnd(data, i, NewScanner)

MoveTo(d, end) == IF end = 0 THEN Abort(d, "syntax") ELSE [d EXCEPT !.off = end - 1]
AfterValue(d)  == MoveTo(d, NextValue(text, d.off + 1))

\* next, after d.off--: over an array or object whose first byte was scanned;
\* the scanner is given the closing byte.
SkipOpened(d) ==
    [AfterValue([d EXCEPT !.off = @ - 1]) EXCEPT !.scan =
        Step(@, IF text[d.off] = "{" THEN "}" ELSE "]").scan]

\* An empty string in place of a value, and more if it was taken for a key.
EmptyString(s) == FeedAll(s, <<"quote", "quote">>)
EndOfKey(s)    == IF s.parseState # <<>> /\ Top(s) = "ObjectKey"
                  THEN FeedAll(s, <<":", "quote", "quote", "}">>) ELSE s

\* Mutant: the look-ahead is not rewound.
SkipOnward(d) == [AfterValue(d) EXCEPT !.scan = EndOfKey(EmptyString(d.scan))]

\* value of an invalid target: over a value, behind the scanner's back.
SkipValue(d) ==
    LET rewound == IF d.scan.redo THEN [d.scan EXCEPT !.redo = FALSE, !.step = "BeginValue"]
                   ELSE d.scan
    IN  [AfterValue(d) EXCEPT !.scan = EndOfKey(EmptyString(rewound))]

-----------------------------------------------------------------------------
(* Literals.                                                                *)

\* unquoteBytes: a string is a sequence of bytes, of escapes and of \u codes.
\* (Surrogate pairs and malformed UTF-8 are left out.)
Unescaped == [b |-> "backspace", f |-> "formfeed", n |-> "newline", r |-> "return", t |-> "tab"]

RECURSIVE Unquoted(_)
Unquoted(s) ==
    LET After(n, c) == LET rest == Unquoted(SubSeq(s, n + 1, Len(s)))
                       IN  [rest EXCEPT !.string = c \o @]
        bad == [ok |-> FALSE, string |-> <<>>]
    IN  CASE s = <<>> -> [ok |-> TRUE, string |-> <<>>]
          [] s # <<>> /\ s[1] \in {"quote", "newline", "control"} -> bad
          [] s # <<>> /\ s[1] \notin {"quote", "newline", "control", "backslash"} ->
               After(1, <<s[1]>>)
          [] s # <<>> /\ s[1] = "backslash" ->
               CASE Len(s) = 1 -> bad
                 [] Len(s) > 1 /\ s[2] \in {"quote", "backslash", "/"} -> After(2, <<s[2]>>)
                 [] Len(s) > 1 /\ s[2] \in DOMAIN Unescaped -> After(2, <<Unescaped[s[2]]>>)
                 [] Len(s) > 5 /\ s[2] = "u" /\ Seqs!ToSet(SubSeq(s, 3, 6)) \subseteq Hex ->
                      After(6, SubSeq(s, 3, 6))
                 [] OTHER -> bad

\* unquote of a literal with its quotes.
Unquote(item) ==
    IF Len(item) < 2 \/ item[1] # "quote" \/ item[Len(item)] # "quote"
    THEN [ok |-> FALSE, string |-> <<>>]
    ELSE Unquoted(SubSeq(item, 2, Len(item) - 1))

\* ParseInt of the digits that stand for all.
DigitValue == ("0" :> 0) @@ ("1" :> 1) @@ ("2" :> 2)
Unsigned(item) == IF item[1] = "-" THEN Tail(item) ELSE item
IsInt(item)    == Seqs!ToSet(Unsigned(item)) \subseteq Digit
ParseInt(item) ==
    LET n == Seqs!FoldLeft(LAMBDA m, c : 10 * m + DigitValue[c], 0, Unsigned(item))
    IN  IF item[1] = "-" THEN -n ELSE n

\* literalStore without Unmarshalers; d.saved is an UnmarshalTypeError.
RECURSIVE LiteralStore(_, _, _, _)
LiteralStore(d, item, T, v) ==
    LET first == item[1]
        s     == Unquote(item)
    IN  CASE T.kind = "Ptr" /\ first = "n" -> Got(d, [pointer |-> <<>>])
          [] T.kind = "Ptr" /\ first # "n" ->
               LET r == LiteralStore(d, item, T.elem, IF v.pointer = <<>> THEN Zero(T.elem)
                                                      ELSE v.pointer[1])
               IN  Got(r.d, [pointer |-> <<r.v>>])
          [] T.kind # "Ptr" /\ first = "n" ->
               Got(d, IF T.kind \in {"Any", "Slice", "Map"} THEN Zero(T) ELSE v)
          [] T.kind # "Ptr" /\ first \in {"t", "f"} ->
               IF T.kind \in {"Any", "Bool"} THEN Got(d, [word |-> IF first = "t" THEN "true" ELSE "false"])
               ELSE Got(Save(d), v)
          [] T.kind # "Ptr" /\ first = "quote" ->
               CASE ~s.ok -> Phase(d, v)
                 [] s.ok /\ T.kind \in {"Any", "String"} -> Got(d, [string |-> s.string])
                 [] OTHER -> Got(Save(d), v)
          [] OTHER ->
               CASE first \notin Digit \cup {"-"} -> Phase(d, v)
                 [] first \in Digit \cup {"-"} /\ T.kind \in {"Any", "Int"} /\ IsInt(item) ->
                      Got(d, [number |-> ParseInt(item)])
                 [] T.kind = "Int" /\ ~IsInt(item) -> Got(Save(d), v)
                 [] T.kind = "Any" /\ ~IsInt(item) -> Got(d, [float |-> item])
                 [] OTHER -> Got(Abort(d, "type"), v)

LiteralRead(d, r, T, v) == LiteralStore(Back(r), Item(d, r), T, v)
Literal(d, T, v) == LiteralRead(d, ScanWhile(d, "Continue"), T, v)

-----------------------------------------------------------------------------
(* Fields: the name itself, or the first that differs in case only.        *)

Upper == [a |-> "A", b |-> "B"]
Fold(key) == [i \in DOMAIN key |-> IF key[i] \in DOMAIN Upper THEN Upper[key[i]] ELSE key[i]]

NoField == [name |-> <<>>, type |-> Invalid]
Field(T, key) ==
    LET exact  == {i \in DOMAIN T.fields : T.fields[i].name = key}
        folded == {i \in DOMAIN T.fields : Fold(T.fields[i].name) = Fold(key)}
        First(set) == T.fields[CHOOSE i \in set : \A j \in set : i <= j]
    IN  CASE exact # {} -> First(exact)
          [] exact = {} /\ folded # {} -> First(folded)
          [] OTHER -> NoField

\* indirect, for an array or object: a nil pointer gets something to point to.
Pointee(T, v) == IF v.pointer = <<>> THEN Zero(T.elem) ELSE v.pointer[1]

\* The slice with room for the cell of index i.
Grow(T, v, i) ==
    LET cap   == Len(v.cells)
        more  == IF cap + cap \div 2 < 4 THEN 4 ELSE cap + cap \div 2
        cells == IF i < cap THEN v.cells
                 ELSE [j \in 1..more |-> IF j <= v.len THEN v.cells[j] ELSE Zero(T.elem)]
    IN  IF T.kind = "Array" THEN v
        ELSE [len |-> IF i < v.len THEN v.len ELSE i + 1, cells |-> cells]

\* The array is over after i elements.
Trim(T, v, i) ==
    CASE T.kind = "Array" -> [v EXCEPT !.cells = [j \in DOMAIN @ |->
                                 IF j <= i THEN @[j] ELSE Zero(T.elem)]]
      [] T.kind = "Slice" /\ i > 0 -> [v EXCEPT !.len = i]
      [] OTHER -> Zero(T)

\* Mutant: the elements of a map share one variable that is not cleared.
MapElemKept(T, v) ==
    IF DOMAIN v.object = {} THEN Zero(T.elem) ELSE v.object[CHOOSE key \in DOMAIN v.object : TRUE]

\* The variable an element of a map is decoded into.
MapElem(T, v) == Zero(T.elem)

-----------------------------------------------------------------------------
RECURSIVE Value(_, _, _), Array(_, _, _), Elements(_, _, _, _), Object(_, _, _), Members(_, _, _)

\* value: the first byte, r, tells what it is.
Begun(r, T, v) ==
    CASE r.op = "BeginArray"   -> Array(r.d, T, v)
      [] r.op = "BeginObject"  -> Object(r.d, T, v)
      [] r.op = "BeginLiteral" -> Literal(r.d, T, v)
      [] OTHER                 -> Phase(r.d, v)

Value(d, T, v) ==
    CASE d.err # "nil" -> Got(d, v)
      [] d.err = "nil" /\ T = Invalid -> Got(SkipValue(d), v)
      [] OTHER -> Begun(Token(d), T, v)

Mismatched(d, v) == Got(SkipOpened(Save(d)), v)
PointerTo(r)     == Got(r.d, [pointer |-> <<r.v>>])

\* arrayInterface and objectInterface have the loops of array and object: into
\* a new slice, or map, of interface{}, which is stored when it is complete.
AnySlice == [kind |-> "Slice", elem |-> [kind |-> "Any"]]
AnyMap   == [kind |-> "Map", elem |-> [kind |-> "Any"]]
ArrayInterface(r, v) ==
    Got(r.d, IF r.d.err # "nil" THEN v ELSE [array |-> SubSeq(r.v.cells, 1, r.v.len)])
ObjectInterface(r, v) == Got(r.d, IF r.d.err # "nil" THEN v ELSE r.v)

\* array
Array(d, T, v) ==
    CASE T.kind = "Ptr" -> PointerTo(Array(d, T.elem, Pointee(T, v)))
      [] T.kind \in {"Slice", "Array"} -> Elements(d, T, v, 0)
      [] T.kind = "Any" -> ArrayInterface(Elements(d, AnySlice, Zero(AnySlice), 0), v)
      [] OTHER -> Mismatched(d, v)

\* The loop of array, at its element i: the byte after an element, ...
AfterElement(r, T, v, i) ==
    CASE r.op = "EndArray"   -> Got(r.d, Trim(T, v, i + 1))
      [] r.op = "ArrayValue" -> Elements(r.d, T, v, i + 1)
      [] OTHER               -> Phase(r.d, v)

\* ... the element, e, which is stored if there is a place for it, ...
Stored(e, T, v, i) ==
    LET w == IF i < v.len THEN [v EXCEPT !.cells[i + 1] = e.v] ELSE v IN
    IF e.d.err # "nil" THEN Got(e.d, w) ELSE AfterElement(Token(e.d), T, w, i)

\* ... and the byte before it.
Element(r, T, v, i) ==
    LET w    == Grow(T, v, i)
        fits == i < w.len
    IN  IF r.op = "EndArray" THEN Got(r.d, Trim(T, v, i))
        ELSE Stored(Value(Back(r), IF fits THEN T.elem ELSE Invalid,
                                   IF fits THEN w.cells[i + 1] ELSE Null), T, w, i)

Elements(d, T, v, i) == Element(Token(d), T, v, i)

\* object
Object(d, T, v) ==
    CASE T.kind = "Ptr" -> PointerTo(Object(d, T.elem, Pointee(T, v)))
      [] T.kind \in {"Struct", "Map"} -> Members(d, T, v)
      [] T.kind = "Any" -> ObjectInterface(Members(d, AnyMap, Zero(AnyMap)), v)
      [] OTHER -> Mismatched(d, v)

\* The loop of object: the byte after a member, ...
AfterMember(r, T, v) ==
    CASE r.op = "EndObject"   -> Got(r.d, v)
      [] r.op = "ObjectValue" -> Members(r.d, T, v)
      [] OTHER                -> Phase(r.d, v)

\* ... its value, e: a map gets it once it is decoded, a struct is decoded into, ...
Put(e, T, v, name) ==
    LET lost == IF T.kind = "Map" THEN e.d.err # "nil" ELSE name = <<>>
        w    == IF lost THEN v ELSE [object |-> (name :> e.v) @@ v.object]
    IN  IF e.d.err # "nil" THEN Got(e.d, w) ELSE AfterMember(Token(e.d), T, w)

\* ... the colon before that, ...
Member(key, colon, T, v) ==
    LET field == Field(T, key.string) IN
    CASE ~key.ok \/ colon.op # "ObjectKey" -> Phase(colon.d, v)
      [] key.ok /\ colon.op = "ObjectKey" /\ T.kind = "Map" ->
           Put(Value(colon.d, T.elem, MapElem(T, v)), T, v, key.string)
      [] OTHER ->
           Put(Value(colon.d, field.type, IF field = NoField THEN Null ELSE v.object[field.name]),
               T, v, field.name)

\* ... the key, up to the byte after it, and the quote it begins with.
MemberKey(quote, r, T, v) ==
    Member(Unquote(Item(quote.d, r)), IF r.op = "SkipSpace" THEN Token(r.d) ELSE r, T, v)
KeyOrEnd(r, T, v) ==
    CASE r.op = "EndObject"    -> Got(r.d, v)
      [] r.op = "BeginLiteral" -> MemberKey(r, ScanWhile(r.d, "Continue"), T, v)
      [] OTHER                 -> Phase(r.d, v)

Members(d, T, v) == KeyOrEnd(Token(d), T, v)

-----------------------------------------------------------------------------
NoResult == <<>>

DecodeInit == Init /\ target = Invalid /\ result = NoResult

\* Unmarshal of a text that checkValid accepts, into a zero value.
Unmarshal(T) ==
    /\ ended /\ op = "End" /\ result = NoResult
    /\ target' = T
    /\ result' = Value(NewDecoder, T, Zero(T))
    /\ UNCHANGED vars

Check == Next /\ UNCHANGED <<target, result>>

DecodeNext == Check \/ \E T \in Targets[alphabet] : Unmarshal(T)

DecodeSpec == DecodeInit /\ [][DecodeNext]_decodeVars

-----------------------------------------------------------------------------
(***************************************************************************)
(* What a text means, read off its significant bytes without a scanner:    *)
(* Tree gives the value that starts at i, the position after it and        *)
(* whether its objects have no key twice.  An array may end after a comma, *)
(* as the scanner lets it after a comment.  Strings stand for themselves:  *)
(* it is for texts without escapes.                                        *)
(***************************************************************************)
Plain == SelectSeq(text, LAMBDA c : c \notin {"space", "newline", "/"})

Past(i, set) == CHOOSE j \in i..Len(Plain) + 1 :
                   /\ j > Len(Plain) \/ Plain[j] \notin set
                   /\ \A k \in i..j - 1 : Plain[k] \in set

Closing(i) == CHOOSE j \in i + 1..Len(Plain) :
                 Plain[j] = "quote" /\ \A k \in i + 1..j - 1 : Plain[k] # "quote"
Quoted(i) == SubSeq(Plain, i + 1, Closing(i) - 1)

Node(value, next, unique) == [value |-> value, next |-> next, unique |-> unique]

RECURSIVE Tree(_), TreeElements(_, _), TreeMembers(_, _)
Tree(i) ==
    LET c == Plain[i] IN
    CASE c = "[" -> TreeElements(i + 1, Node([array |-> <<>>], 0, TRUE))
      [] c = "{" -> TreeMembers(i + 1, Node([object |-> <<>>], 0, TRUE))
      [] c = "quote" -> Node([string |-> Quoted(i)], Closing(i) + 1, TRUE)
      [] c = "t" -> Node([word |-> "true"], i + 4, TRUE)
      [] c = "n" -> Node([word |-> "null"], i + 4, TRUE)
      [] OTHER -> LET j == Past(i, Digit \cup {"-"}) IN
                  Node([number |-> ParseInt(SubSeq(Plain, i, j - 1))], j, TRUE)
TreeElements(i, node) ==
    IF Plain[i] = "]" THEN [node EXCEPT !.next = i + 1]
    ELSE LET e == Tree(i) IN
         TreeElements(Past(e.next, {","}),
                      Node([array |-> Append(node.value.array, e.value)], 0,
                           node.unique /\ e.unique))
TreeMembers(i, node) ==
    IF Plain[i] = "}" THEN [node EXCEPT !.next = i + 1]
    ELSE LET key == Quoted(i)
             e   == Tree(Closing(i) + 2)
             new == \A other \in DOMAIN node.value.object : Fold(other) # Fold(key)
         IN  TreeMembers(Past(e.next, {","}),
                         Node([object |-> (key :> e.value) @@ node.value.object], 0,
                              node.unique /\ e.unique /\ new))

Has(tree, label) == label \in DOMAIN tree

\* What a value of type T has to be after a text of that tree, and how a value
\* looks from outside.
RECURSIVE Meaning(_, _), View(_, _)
View(T, v) ==
    CASE T.kind = "Ptr" -> IF v.pointer = <<>> THEN Null ELSE View(T.elem, v.pointer[1])
      [] T.kind \in {"Slice", "Array"} ->
           [array |-> [i \in 1..v.len |-> View(T.elem, v.cells[i])]]
      [] T.kind = "Map" -> [object |-> [k \in DOMAIN v.object |-> View(T.elem, v.object[k])]]
      [] T.kind = "Struct" -> [object |-> [k \in DOMAIN v.object |->
                                 View(Field(T, k).type, v.object[k])]]
      [] OTHER -> v
Meaning(T, tree) ==
    LET zero  == View(T, Zero(T))
        Of(k) == {key \in DOMAIN tree.object : Fold(key) = Fold(k)}
    IN  CASE T.kind = "Any" -> tree
          [] T.kind # "Any" /\ tree = Null -> zero
          [] T.kind = "Ptr" /\ tree # Null -> Meaning(T.elem, tree)
          [] T.kind = "Bool" /\ Has(tree, "word") -> tree
          [] T.kind = "Int" /\ Has(tree, "number") -> tree
          [] T.kind = "String" /\ Has(tree, "string") -> tree
          [] T.kind = "Slice" /\ Has(tree, "array") ->
               [array |-> [i \in DOMAIN tree.array |-> Meaning(T.elem, tree.array[i])]]
          [] T.kind = "Array" /\ Has(tree, "array") ->
               [array |-> [i \in 1..T.len |->
                  Meaning(T.elem, IF i > Len(tree.array) THEN Null ELSE tree.array[i])]]
          [] T.kind = "Map" /\ Has(tree, "object") ->
               [object |-> [k \in DOMAIN tree.object |-> Meaning(T.elem, tree.object[k])]]
          [] T.kind = "Struct" /\ Has(tree, "object") ->
               [object |-> [k \in DOMAIN zero.object |->
                  Meaning(Field(T, k).type, IF Of(k) = {} THEN Null
                                            ELSE tree.object[CHOOSE key \in Of(k) : TRUE])]]
          [] OTHER -> zero

\* What of a tree T cannot take: a number is fatal, anything else noted; and
\* whether an array stands beyond the end of an array of fixed length.
RECURSIVE Clashes(_, _)
Clashes(T, tree) ==
    CASE T.kind \in {"Any", "Invalid"} \/ tree = Null -> {}
      [] T.kind = "Ptr" /\ tree # Null -> Clashes(T.elem, tree)
      [] T.kind \in {"Slice", "Array"} /\ Has(tree, "array") ->
           UNION {IF T.kind = "Array" /\ i > T.len
                  THEN IF Has(tree.array[i], "array") THEN {"overrun"} ELSE {}
                  ELSE Clashes(T.elem, tree.array[i]) : i \in DOMAIN tree.array}
      [] T.kind = "Map" /\ Has(tree, "object") ->
           UNION {Clashes(T.elem, tree.object[k]) : k \in DOMAIN tree.object}
      [] T.kind = "Struct" /\ Has(tree, "object") ->
           UNION {Clashes(Field(T, k).type, tree.object[k]) : k \in DOMAIN tree.object}
      [] T.kind = "Bool" /\ Has(tree, "word") -> {}
      [] T.kind = "Int" /\ Has(tree, "number") -> {}
      [] T.kind = "String" /\ Has(tree, "string") -> {}
      [] OTHER -> IF Has(tree, "number") THEN {"fatal"} ELSE {"noted"}

Decoded == result # NoResult

\* The decoder, which follows the text through the scanner, never finds itself
\* out of step with it (errPhase, "errors that should not happen unless there
\* is a bug", decode.go:180), and at the end the scanner has closed all it
\* opened: whatever it skips (value, next: decode.go:207, 250), whatever it
\* takes back.  One text does it: a nested array beyond the end of an array of
\* fixed length leaves the scanner one array too deep.
DecoderInSync ==
    Decoded =>
        LET node == Tree(1)
            safe == node.unique /\ "overrun" \notin Clashes(target, node.value)
        IN  /\ result.d.err \notin {"misuse", "syntax"}
            /\ safe =>
                  /\ result.d.err # "phase"
                  /\ result.d.err = "nil" => result.d.scan.parseState = <<>>

\* An object that has no key twice is decoded to what it says, for every type:
\* of what the type cannot take, a number ends the decoding, anything else is
\* skipped and reported at the end (literalStore, decode.go:627), and nothing
\* of an element or field shows in another one (array, object).
DecodesValue ==
    Decoded /\ "backslash" \notin Seqs!ToSet(text) =>
        LET node    == Tree(1)
            clashes == Clashes(target, node.value)
        IN  node.unique /\ "overrun" \notin clashes =>
              IF "fatal" \in clashes THEN result.d.err = "type"
              ELSE /\ result.d.err = "nil"
                   /\ result.d.saved <=> "noted" \in clashes
                   /\ View(target, result.v) = Meaning(target, node.value)
=============================================================================
