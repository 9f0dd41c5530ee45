------------------------------ MODULE JsonProofs ------------------------------
(***************************************************************************)
(* Theorems about the scanner of common/json and what is shown of its      *)
(* errors, for texts of any length and nesting over any bytes: the scanner *)
(* implements the grammar, an error names the byte at its offset, and the  *)
(* caret stands where it should.                                           *)
(*                                                                         *)
(* Live(s) is the invariant of a scanner without an error: its stack fits  *)
(* its step (Fits).  Each state's function is shown to be a step of the    *)
(* grammar by what Grammar!Residuals are for the symbols to come: those of *)
(* the scanner it returns (Goes), or none if it returns an error (Fails,   *)
(* FailsLate).  StepGoes and EofIs combine them for a byte and for the end *)
(* of the text, TextInv is the invariant of the text as a whole.           *)
(***************************************************************************)
EXTENDS ErrorPlace, WellFoundedInduction, SequenceTheorems, TLAPS

\* The symbols of the grammar, the levels of a stack, and its stacks: only the
\* level on top may wait for a key's value.
Symbol  == {"Trailing", "Value", "FirstElement", "NextElement", "MoreElements", "FirstMember",
            "NextMember", "MoreMembers", "Colon", "Slash", "Line", "Chars", "Escaped", "Hex",
            "Int", "Fraction", "Exponent", "Signed", "Digit", "Digits",
            "r", "u", "e", "a", "l", "s"}
Levels  == {"ObjectKey", "ObjectValue", "ArrayValue"}
Stack(st) == /\ st \in Seq(Levels)
             /\ \A i \in 1..Len(st) - 1 : st[i] # "ObjectKey"

\* Each level of the stack has a symbol.
LEMMA MoreIs ==
    /\ \A level \in Levels : level # "ObjectKey" => More[level] \in Symbol
    /\ More["ObjectValue"] = "MoreMembers" /\ More["ArrayValue"] = "MoreElements"
<1>1. More["ObjectValue"] = "MoreMembers" /\ More["ArrayValue"] = "MoreElements"
  BY DEF More
<1>2. \A level \in Levels : level = "ObjectKey" \/ level = "ObjectValue" \/ level = "ArrayValue"
  BY DEF Levels
<1>3. "MoreMembers" \in Symbol /\ "MoreElements" \in Symbol
  BY DEF Symbol
<1> QED  BY <1>1, <1>2, <1>3, Zenon

\* The levels below the n-th leave one symbol each and the trailing space.
LEMMA OpenedIs ==
    ASSUME NEW st, Stack(st), NEW n \in Nat, n <= Len(st),
           n = Len(st) => \A i \in 1..n : st[i] # "ObjectKey"
    PROVE  Opened(st, n) \in Seq(Symbol) /\ Len(Opened(st, n)) = n + 1
<1>1. \A i \in 1..n : st[i] \in Levels /\ st[i] # "ObjectKey"
  BY DEF Stack
<1>2. \A i \in 1..n + 1 : i # 1 => i - 1 \in 1..n
  OBVIOUS
<1>3. \A i \in 1..n + 1 : (IF i = 1 THEN "Trailing" ELSE More[st[i - 1]]) \in Symbol
  <2>1. \A i \in 1..n : More[st[i]] \in Symbol
    BY <1>1, MoreIs
  <2>2. \A i \in 1..n + 1 : i # 1 => More[st[i - 1]] \in Symbol
    BY <1>2, <2>1
  <2>3. "Trailing" \in Symbol
    BY DEF Symbol
  <2> QED  BY <2>2, <2>3
<1> QED  BY <1>3 DEF Opened

\* One level more is one symbol more.
LEMMA OpenedNext ==
    ASSUME NEW st, Stack(st), NEW n \in Nat, n < Len(st), st[n + 1] # "ObjectKey"
    PROVE  Opened(st, n + 1) = Append(Opened(st, n), More[st[n + 1]])
<1> DEFINE p == Opened(st, n)
           q == Opened(st, n + 1)
           x == More[st[n + 1]]
<1>1. p \in Seq(Symbol) /\ Len(p) = n + 1
  BY OpenedIs DEF Stack
<1>2. \A i \in 1..n + 1 : st[i] \in Levels /\ st[i] # "ObjectKey"
  BY DEF Stack
<1>3. q \in Seq(Symbol) /\ Len(q) = n + 2
  BY OpenedIs, <1>2 DEF Stack
<1>4. x \in Symbol
  BY <1>2, MoreIs
<1>5. \A i \in 1..n + 1 : q[i] = p[i]
  BY DEF Opened
<1>6. q[n + 2] = x
  BY DEF Opened
<1> HIDE DEF p, q, x
<1>7. /\ Append(p, x) \in Seq(Symbol) /\ Len(Append(p, x)) = n + 2 /\ Append(p, x)[n + 2] = x
      /\ \A i \in 1..n + 1 : Append(p, x)[i] = p[i]
  BY <1>1, <1>4
<1>8. \A i \in 1..n + 2 : q[i] = Append(p, x)[i]
  BY <1>5, <1>6, <1>7
<1>9. q = Append(p, x)
  BY <1>3, <1>7, <1>8, SeqEqual
<1> QED  BY <1>9 DEF p, q, x

\* Levels above the n-th do not matter.
LEMMA OpenedSame ==
    ASSUME NEW s, NEW t, NEW n \in Nat, \A i \in 1..n : s[i] = t[i]
    PROVE  Opened(s, n) = Opened(t, n)
<1>1. \A i \in 1..n + 1 : i # 1 => s[i - 1] = t[i - 1]
  OBVIOUS
<1> QED  BY <1>1 DEF Opened

\* Outside of all levels only space may come.
LEMMA NothingOpened == Opened(<<>>, 0) = <<"Trailing">>
BY DEF Opened


\* The symbols to come, of a stack and of what the scanner makes of it.
LEMMA StackIs ==
    ASSUME NEW st, Stack(st)
    PROVE  /\ st = <<>> => AllOpened(st) = <<"Trailing">>
           /\ st # <<>> => Outside(st) \in Seq(Symbol) /\ st[Len(st)] \in Levels
           /\ ~TopIs(st, "ObjectKey") => AllOpened(st) \in Seq(Symbol)
           /\ TopIs(st, "ObjectValue") => AllOpened(st) = Append(Outside(st), "MoreMembers")
           /\ TopIs(st, "ArrayValue") => AllOpened(st) = Append(Outside(st), "MoreElements")
<1>1. Len(st) \in Nat /\ (st # <<>> => Len(st) - 1 \in Nat /\ st[Len(st)] \in Levels)
  BY DEF Stack
<1>2. st = <<>> => AllOpened(st) = <<"Trailing">>
  BY NothingOpened DEF AllOpened
<1>3. st # <<>> => Outside(st) \in Seq(Symbol)
  BY <1>1, OpenedIs DEF Outside, Stack
<1>4. ~TopIs(st, "ObjectKey") => AllOpened(st) \in Seq(Symbol)
  <2>1. ~TopIs(st, "ObjectKey") => \A i \in 1..Len(st) : st[i] # "ObjectKey"
    BY DEF Stack, TopIs
  <2> QED  BY <1>1, <2>1, OpenedIs DEF AllOpened
<1>5. ASSUME st # <<>>, st[Len(st)] # "ObjectKey"
      PROVE  AllOpened(st) = Append(Outside(st), More[st[Len(st)]])
  <2>1. (Len(st) - 1) + 1 = Len(st)
    BY <1>1
  <2> QED  BY <1>1, <1>5, <2>1, OpenedNext DEF AllOpened, Outside
<1> QED  BY <1>1, <1>2, <1>3, <1>4, <1>5, MoreIs DEF TopIs

\* Another level on the stack.
LEMMA Pushes ==
    ASSUME NEW st, Stack(st), ~TopIs(st, "ObjectKey"), NEW level \in Levels
    PROVE  /\ Stack(Append(st, level)) /\ TopIs(Append(st, level), level)
           /\ Outside(Append(st, level)) = AllOpened(st)
<1> DEFINE t == Append(st, level)
<1>1. /\ st \in Seq(Levels) /\ t \in Seq(Levels) /\ Len(t) = Len(st) + 1 /\ Len(st) \in Nat
      /\ t[Len(t)] = level /\ \A i \in 1..Len(st) : t[i] = st[i]
  BY DEF Stack
<1>2. \A i \in 1..Len(st) : st[i] # "ObjectKey"
  BY <1>1 DEF Stack, TopIs
<1> HIDE DEF t
<1>3. Stack(t) /\ t # <<>>
  BY <1>1, <1>2 DEF Stack
<1>4. Opened(t, Len(st)) = Opened(st, Len(st))
  BY <1>1, OpenedSame
<1>5. Len(t) - 1 = Len(st)
  BY <1>1
<1> QED  BY <1>1, <1>3, <1>4, <1>5 DEF t, TopIs, Outside, AllOpened

\* Another level in place of the top one.
LEMMA SetsTop ==
    ASSUME NEW st, Stack(st), st # <<>>, NEW level \in Levels
    PROVE  LET t == [st EXCEPT ![Len(st)] = level]
           IN  /\ Stack(t) /\ TopIs(t, level)
               /\ Outside(t) = Outside(st)
<1> DEFINE t == [st EXCEPT ![Len(st)] = level]
<1>1. /\ st \in Seq(Levels) /\ t \in Seq(Levels) /\ Len(t) = Len(st) /\ Len(st) \in Nat \ {0}
      /\ t[Len(st)] = level /\ \A i \in 1..Len(st) - 1 : t[i] = st[i]
  BY DEF Stack
<1>2. \A i \in 1..Len(st) - 1 : st[i] # "ObjectKey"
  BY DEF Stack
<1> HIDE DEF t
<1>3. Stack(t) /\ t # <<>>
  BY <1>1, <1>2 DEF Stack
<1>4. Opened(t, Len(st) - 1) = Opened(st, Len(st) - 1)
  BY <1>1, OpenedSame
<1>5. Stack(t) /\ TopIs(t, level) /\ Outside(t) = Outside(st)
  BY <1>1, <1>3, <1>4 DEF TopIs, Outside
<1> QED  BY <1>5 DEF t

\* The top level closed.
LEMMA Pops ==
    ASSUME NEW st, Stack(st), st # <<>>
    PROVE  /\ Stack(Seqs!Front(st)) /\ ~TopIs(Seqs!Front(st), "ObjectKey")
           /\ AllOpened(Seqs!Front(st)) = Outside(st)
<1> DEFINE t == Seqs!Front(st)
<1>1. /\ st \in Seq(Levels) /\ t \in Seq(Levels) /\ Len(t) = Len(st) - 1 /\ Len(st) \in Nat \ {0}
      /\ \A i \in 1..Len(t) : t[i] = st[i]
  <2>1. st \in Seq(Levels) /\ Len(st) \in Nat \ {0}
    BY DEF Stack
  <2>2. t = SubSeq(st, 1, Len(st) - 1)
    BY DEF Seqs!Front
  <2>3. \A i \in 1..Len(st) - 1 : st[i] \in Levels
    BY <2>1
  <2> HIDE DEF t
  <2>4. t \in Seq(Levels) /\ Len(t) = Len(st) - 1
    <3>1. Len(st) - 1 \in Int /\ 1 \in Int
      BY <2>1
    <3>2. /\ SubSeq(st, 1, Len(st) - 1) \in Seq(Levels)
          /\ Len(SubSeq(st, 1, Len(st) - 1)) =
               IF 1 <= Len(st) - 1 THEN (Len(st) - 1) - 1 + 1 ELSE 0
      BY <2>3, <3>1, SubSeqProperties
    <3>3. t \in Seq(Levels)
      BY <2>2, <3>2, Zenon
    <3>4. Len(t) = IF 1 <= Len(st) - 1 THEN (Len(st) - 1) - 1 + 1 ELSE 0
      BY <2>2, <3>2, Zenon
    <3>5. \A k \in Nat \ {0} : (IF 1 <= k - 1 THEN (k - 1) - 1 + 1 ELSE 0) = k - 1
      OBVIOUS
    <3> QED  BY <2>1, <3>3, <3>4, <3>5, Zenon
  <2>5. \A i \in 1..Len(st) - 1 : t[i] = st[i]
    BY <2>1, <2>2
  <2> QED  BY <2>1, <2>4, <2>5
<1>2. \A i \in 1..Len(t) : st[i] # "ObjectKey"
  BY <1>1 DEF Stack
<1> HIDE DEF t
<1>3. Stack(t) /\ ~TopIs(t, "ObjectKey")
  BY <1>1, <1>2 DEF Stack, TopIs
<1>4. Opened(t, Len(t)) = Opened(st, Len(t))
  BY <1>1, OpenedSame
<1> QED  BY <1>1, <1>3, <1>4 DEF t, Outside, AllOpened

\* A sequence without its last element, and that element.
LEMMA AppendIs ==
    ASSUME NEW S, NEW q \in Seq(S), NEW X \in S
    PROVE  /\ Append(q, X) \in Seq(S) /\ Len(Append(q, X)) = Len(q) + 1
           /\ Append(q, X)[Len(q) + 1] = X
           /\ \A i \in 1..Len(q) : Append(q, X)[i] = q[i]
           /\ \A i \in 1..Len(q) : SubSeq(Append(q, X), 1, i - 1) = SubSeq(q, 1, i - 1)
           /\ SubSeq(Append(q, X), 1, Len(q)) = q
OBVIOUS

\* What may be pending is decided by the top symbol and, where it may be empty, by those below.
LEMMA ResidualsTop ==
    ASSUME NEW S, NEW q \in Seq(S), NEW X \in S, NEW c
    PROVE  Grammar!Residuals(Append(q, X), c) =
             {q \o word : word \in Grammar!Rules(c)[X]} \cup
             (IF X \in Grammar!Nullable THEN Grammar!Residuals(q, c) ELSE {})
<1> DEFINE p == Append(q, X)
           n == Len(q)
           At(r, i) == {SubSeq(r, 1, i - 1) \o word : word \in Grammar!Rules(c)[r[i]]}
<1>1. /\ n \in Nat /\ DOMAIN q = 1..n /\ DOMAIN p = 1..(n + 1) /\ Len(p) = n + 1 /\ p[n + 1] = X
      /\ \A i \in 1..n : p[i] = q[i] /\ SubSeq(p, 1, i - 1) = SubSeq(q, 1, i - 1)
      /\ SubSeq(p, 1, n) = q
  BY AppendIs
<1> HIDE DEF p, n
<1>2. \A i \in 1..n : At(p, i) = At(q, i)
  BY <1>1
<1>3. At(p, n + 1) = {q \o word : word \in Grammar!Rules(c)[X]}
  <2>1. (n + 1) - 1 = n
    BY <1>1
  <2> QED  BY <1>1, <2>1
<1>4. Grammar!Empty(p, n + 2)
  BY <1>1 DEF Grammar!Empty
<1>5. \A i \in 1..n : Grammar!Empty(p, i + 1) <=> X \in Grammar!Nullable /\ Grammar!Empty(q, i + 1)
  BY <1>1 DEF Grammar!Empty, n
<1>6. Grammar!Residuals(p, c) = UNION {At(p, i) : i \in {k \in 1..(n + 1) : Grammar!Empty(p, k + 1)}}
  BY <1>1 DEF Grammar!Residuals
<1>7. Grammar!Residuals(q, c) = UNION {At(q, i) : i \in {k \in 1..n : Grammar!Empty(q, k + 1)}}
  BY <1>1 DEF Grammar!Residuals
<1> HIDE DEF At
<1>8. \A y : y \in Grammar!Residuals(p, c) <=>
          \/ y \in At(p, n + 1)
          \/ \E i \in 1..n : Grammar!Empty(p, i + 1) /\ y \in At(p, i)
  <2>1. (n + 1) + 1 = n + 2 /\ \A i : i \in 1..(n + 1) <=> i \in 1..n \/ i = n + 1
    BY <1>1
  <2> QED  BY <1>4, <1>6, <2>1
<1>9. \A y : y \in Grammar!Residuals(q, c) <=> \E i \in 1..n : Grammar!Empty(q, i + 1) /\ y \in At(q, i)
  BY <1>7
<1> QED  BY <1>2, <1>3, <1>5, <1>8, <1>9 DEF p

\* Symbols may be empty together if each may.
LEMMA EmptyTop ==
    ASSUME NEW S, NEW q \in Seq(S), NEW X \in S
    PROVE  Grammar!Empty(Append(q, X), 1) <=> X \in Grammar!Nullable /\ Grammar!Empty(q, 1)
BY AppendIs DEF Grammar!Empty

\* Where nothing is pending nothing can follow.
LEMMA ResidualsOfNone ==
    ASSUME NEW c
    PROVE  Grammar!Residuals(<<>>, c) = {}
BY DEF Grammar!Residuals

\* X is no symbol that may be empty.
LEMMA ReadsSymbol ==
    ASSUME NEW S, NEW q \in Seq(S), NEW X \in S, NEW c
    PROVE  /\ X \notin Grammar!Nullable =>
                /\ Grammar!Rules(c)[X] = {} => Grammar!Residuals(Append(q, X), c) = {}
                /\ \A word : Grammar!Rules(c)[X] = {word} =>
                                Grammar!Residuals(Append(q, X), c) = {q \o word}
           /\ X \in Grammar!Nullable =>
                /\ Grammar!Rules(c)[X] = {} =>
                     Grammar!Residuals(Append(q, X), c) = Grammar!Residuals(q, c)
                /\ \A word : Grammar!Rules(c)[X] = {word} /\ Grammar!Residuals(q, c) = {} =>
                                Grammar!Residuals(Append(q, X), c) = {q \o word}
<1> DEFINE R == Grammar!Rules(c)[X]
<1>1. Grammar!Residuals(Append(q, X), c) = {q \o word : word \in R} \cup
             (IF X \in Grammar!Nullable THEN Grammar!Residuals(q, c) ELSE {})
  BY ResidualsTop
<1> HIDE DEF R
<1>2. R = {} => {q \o word : word \in R} = {}
  OBVIOUS
<1>3. \A word : R = {word} => {q \o w : w \in R} = {q \o word}
  OBVIOUS
<1>4. QED  BY <1>1, <1>2, <1>3 DEF R

\* Appending one symbol after another; up to four of them.
LEMMA ConcatenationAppend ==
    ASSUME NEW S, NEW q \in Seq(S), NEW w \in Seq(S), NEW a \in S
    PROVE  q \o Append(w, a) = Append(q \o w, a)
OBVIOUS

LEMMA Concatenation1 ==
    ASSUME NEW S, NEW q \in Seq(S), NEW a \in S
    PROVE  q \o <<>> = q /\ q \o <<a>> = Append(q, a)
OBVIOUS

LEMMA Concatenation2 ==
    ASSUME NEW S, NEW q \in Seq(S), NEW a \in S, NEW b \in S
    PROVE  q \o <<a, b>> = Append(Append(q, a), b)
<1> DEFINE v == <<a>>
           w == <<a, b>>
<1>1. v \in Seq(S) /\ w = Append(v, b)
  OBVIOUS
<1>2. q \o v = Append(q, a)
  BY Concatenation1
<1> HIDE DEF v, w
<1>3. q \o Append(v, b) = Append(q \o v, b)
  BY <1>1, ConcatenationAppend
<1> QED  BY <1>1, <1>2, <1>3 DEF w

LEMMA Concatenation3 ==
    ASSUME NEW S, NEW q \in Seq(S), NEW a \in S, NEW b \in S, NEW d \in S
    PROVE  q \o <<a, b, d>> = Append(Append(Append(q, a), b), d)
<1> DEFINE v == <<a, b>>
           w == <<a, b, d>>
<1>1. v \in Seq(S) /\ w = Append(v, d)
  OBVIOUS
<1>2. q \o v = Append(Append(q, a), b)
  BY Concatenation2
<1> HIDE DEF v, w
<1>3. q \o Append(v, d) = Append(q \o v, d)
  BY <1>1, ConcatenationAppend
<1> QED  BY <1>1, <1>2, <1>3 DEF w

LEMMA Concatenation4 ==
    ASSUME NEW S, NEW q \in Seq(S), NEW a \in S, NEW b \in S, NEW d \in S, NEW e \in S
    PROVE  q \o <<a, b, d, e>> = Append(Append(Append(Append(q, a), b), d), e)
<1> DEFINE v == <<a, b, d>>
           w == <<a, b, d, e>>
<1>1. v \in Seq(S) /\ w = Append(v, e)
  OBVIOUS
<1>2. q \o v = Append(Append(Append(q, a), b), d)
  BY Concatenation3
<1> HIDE DEF v, w
<1>3. q \o Append(v, e) = Append(q \o v, e)
  BY <1>1, ConcatenationAppend
<1> QED  BY <1>1, <1>2, <1>3 DEF w

\* What may follow a byte in each rule of the grammar: values,
LEMMA BeginsFollow ==
    ASSUME NEW c, NEW after
    PROVE  /\ c = "{"      => Grammar!Begins(c, after) = {after \o <<"FirstMember">>}
           /\ c = "["      => Grammar!Begins(c, after) = {after \o <<"FirstElement">>}
           /\ c = "quote"  => Grammar!Begins(c, after) = {after \o <<"Chars">>}
           /\ c = "-"      => Grammar!Begins(c, after) = {after \o <<"Int">>}
           /\ c = "0"      => Grammar!Begins(c, after) = {after \o <<"Fraction">>}
           /\ c \in Digit1 => Grammar!Begins(c, after) = {after \o <<"Fraction", "Digits">>}
           /\ c = "t"      => Grammar!Begins(c, after) = {after \o <<"e", "u", "r">>}
           /\ c = "f"      => Grammar!Begins(c, after) = {after \o <<"e", "s", "l", "a">>}
           /\ c = "n"      => Grammar!Begins(c, after) = {after \o <<"l", "l", "u">>}
           /\ c \notin {"{", "[", "quote", "-", "0", "t", "f", "n"} \cup Digit1 =>
                Grammar!Begins(c, after) = {}
BY DEF Grammar!Begins, Grammar!On, Digit1

\* elements of an array,
LEMMA ElementsFollow ==
    ASSUME NEW c
    PROVE  /\ Grammar!Rules(c)["Value"] =
                Grammar!Skips(c, "Value") \cup Grammar!Comment(c, "Value") \cup Grammar!Begins(c, <<>>)
           /\ Grammar!Rules(c)["FirstElement"] =
                Grammar!Skips(c, "FirstElement") \cup Grammar!Comment(c, "FirstElement") \cup
                Grammar!Is(c, "]") \cup Grammar!Begins(c, <<"MoreElements">>)
           /\ Grammar!Rules(c)["NextElement"] =
                Grammar!Skips(c, "NextElement") \cup Grammar!Comment(c, "FirstElement") \cup
                Grammar!Begins(c, <<"MoreElements">>)
BY DEF Grammar!Rules

\* members of an object,
LEMMA MembersFollow ==
    ASSUME NEW c
    PROVE  /\ c \in Space =>
                /\ Grammar!Rules(c)["Trailing"] = {<<"Trailing">>}
                /\ Grammar!Rules(c)["MoreElements"] = {<<"MoreElements">>}
                /\ Grammar!Rules(c)["FirstMember"] = {<<"FirstMember">>}
                /\ Grammar!Rules(c)["NextMember"] = {<<"NextMember">>}
                /\ Grammar!Rules(c)["MoreMembers"] = {<<"MoreMembers">>}
                /\ Grammar!Rules(c)["Colon"] = {<<"Colon">>}
           /\ c = "/" =>
                /\ Grammar!Rules(c)["MoreElements"] = {<<"MoreElements", "Slash">>}
                /\ Grammar!Rules(c)["FirstMember"] = {<<"NextMember", "Slash">>}
                /\ Grammar!Rules(c)["NextMember"] = {<<"NextMember", "Slash">>}
                /\ Grammar!Rules(c)["MoreMembers"] = {<<"MoreMembers", "Slash">>}
           /\ c = "]" => Grammar!Rules(c)["MoreElements"] = {<<>>}
           /\ c = "," => /\ Grammar!Rules(c)["MoreElements"] = {<<"NextElement">>}
                         /\ Grammar!Rules(c)["MoreMembers"] = {<<"NextMember">>}
           /\ c = "}" => /\ Grammar!Rules(c)["FirstMember"] = {<<>>}
                         /\ Grammar!Rules(c)["MoreMembers"] = {<<>>}
           /\ c = ":" => Grammar!Rules(c)["Colon"] = {<<>>}
           /\ c = "quote" =>
                /\ Grammar!Rules(c)["FirstMember"] = {<<"MoreMembers", "Value", "Colon", "Chars">>}
                /\ Grammar!Rules(c)["NextMember"] = {<<"MoreMembers", "Value", "Colon", "Chars">>}
           /\ c \notin Space => Grammar!Rules(c)["Trailing"] = {}
           /\ c \notin Space \cup {"/", "]", ","} => Grammar!Rules(c)["MoreElements"] = {}
           /\ c \notin Space \cup {"/", "}", ","} => Grammar!Rules(c)["MoreMembers"] = {}
           /\ c \notin Space \cup {"/", "}", "quote"} => Grammar!Rules(c)["FirstMember"] = {}
           /\ c \notin Space \cup {"/", "quote"} => Grammar!Rules(c)["NextMember"] = {}
           /\ c \notin Space \cup {":"} => Grammar!Rules(c)["Colon"] = {}
BY DEF Grammar!Rules, Grammar!On, Grammar!Is, Grammar!Skips, Grammar!Comment, Grammar!Key, Space

\* the first byte of a value,
LEMMA ValuesFollow ==
    ASSUME NEW c
    PROVE  /\ c \in Space =>
                /\ Grammar!Rules(c)["Value"] = {<<"Value">>}
                /\ Grammar!Rules(c)["FirstElement"] = {<<"FirstElement">>}
                /\ Grammar!Rules(c)["NextElement"] = {<<"NextElement">>}
           /\ c = "/" =>
                /\ Grammar!Rules(c)["Value"] = {<<"Value", "Slash">>}
                /\ Grammar!Rules(c)["FirstElement"] = {<<"FirstElement", "Slash">>}
                /\ Grammar!Rules(c)["NextElement"] = {<<"FirstElement", "Slash">>}
           /\ c = "]" => Grammar!Rules(c)["FirstElement"] = {<<>>}
           /\ c \notin Space \cup {"/"} =>
                /\ Grammar!Rules(c)["Value"] = Grammar!Begins(c, <<>>)
                /\ Grammar!Rules(c)["NextElement"] = Grammar!Begins(c, <<"MoreElements">>)
           /\ c \notin Space \cup {"/", "]"} =>
                Grammar!Rules(c)["FirstElement"] = Grammar!Begins(c, <<"MoreElements">>)
<1>1. c \in Space \cup {"/", "]"} => \A after : Grammar!Begins(c, after) = {}
  BY BeginsFollow DEF Space, Digit1
<1>2. /\ Grammar!Skips(c, "Value") = IF c \in Space THEN {<<"Value">>} ELSE {}
      /\ Grammar!Skips(c, "FirstElement") = IF c \in Space THEN {<<"FirstElement">>} ELSE {}
      /\ Grammar!Skips(c, "NextElement") = IF c \in Space THEN {<<"NextElement">>} ELSE {}
      /\ Grammar!Comment(c, "Value") = IF c = "/" THEN {<<"Value", "Slash">>} ELSE {}
      /\ Grammar!Comment(c, "FirstElement") = IF c = "/" THEN {<<"FirstElement", "Slash">>} ELSE {}
      /\ Grammar!Is(c, "]") = IF c = "]" THEN {<<>>} ELSE {}
  BY DEF Grammar!On, Grammar!Is, Grammar!Skips, Grammar!Comment, Space
<1>3. "/" \notin Space /\ "]" \notin Space
  BY DEF Space
<1>4. ASSUME c \in Space
      PROVE  /\ Grammar!Rules(c)["Value"] = {<<"Value">>}
             /\ Grammar!Rules(c)["FirstElement"] = {<<"FirstElement">>}
             /\ Grammar!Rules(c)["NextElement"] = {<<"NextElement">>}
  BY <1>1, <1>2, <1>3, <1>4, ElementsFollow
<1>5. ASSUME c = "/"
      PROVE  /\ Grammar!Rules(c)["Value"] = {<<"Value", "Slash">>}
             /\ Grammar!Rules(c)["FirstElement"] = {<<"FirstElement", "Slash">>}
             /\ Grammar!Rules(c)["NextElement"] = {<<"FirstElement", "Slash">>}
  BY <1>1, <1>2, <1>3, <1>5, ElementsFollow
<1>6. c = "]" => Grammar!Rules(c)["FirstElement"] = {<<>>}
  BY <1>1, <1>2, <1>3, ElementsFollow
<1>7. c \notin Space \cup {"/"} =>
        /\ Grammar!Rules(c)["Value"] = Grammar!Begins(c, <<>>)
        /\ Grammar!Rules(c)["NextElement"] = Grammar!Begins(c, <<"MoreElements">>)
        /\ c # "]" => Grammar!Rules(c)["FirstElement"] = Grammar!Begins(c, <<"MoreElements">>)
  BY <1>2, <1>3, ElementsFollow
<1> QED  BY <1>4, <1>5, <1>6, <1>7

\* the symbols of a literal,
LEMMA LiteralsFollow ==
    ASSUME NEW c
    PROVE  /\ c = "0" => Grammar!Rules(c)["Int"] = {<<"Fraction">>}
           /\ c \in Digit1 => Grammar!Rules(c)["Int"] = {<<"Fraction", "Digits">>}
           /\ c \notin Digit => Grammar!Rules(c)["Int"] = {}
           /\ c = "." => Grammar!Rules(c)["Fraction"] = {<<"Exponent", "Digits", "Digit">>}
           /\ c = "e" => Grammar!Rules(c)["Fraction"] = {<<"Digits", "Signed">>}
           /\ c \notin {".", "e"} => Grammar!Rules(c)["Fraction"] = {}
           /\ c = "e" => Grammar!Rules(c)["Exponent"] = {<<"Digits", "Signed">>}
           /\ c # "e" => Grammar!Rules(c)["Exponent"] = {}
           /\ c \in {"+", "-"} => Grammar!Rules(c)["Signed"] = {<<"Digit">>}
           /\ c \in Digit => Grammar!Rules(c)["Signed"] = {<<>>}
           /\ c \notin Digit \cup {"+", "-"} => Grammar!Rules(c)["Signed"] = {}
           /\ c \in Digit => Grammar!Rules(c)["Digit"] = {<<>>}
           /\ c \notin Digit => Grammar!Rules(c)["Digit"] = {}
           /\ c \in Digit => Grammar!Rules(c)["Digits"] = {<<"Digits">>}
           /\ c \notin Digit => Grammar!Rules(c)["Digits"] = {}
           /\ Grammar!Rules(c)["r"] = IF c = "r" THEN {<<>>} ELSE {}
           /\ Grammar!Rules(c)["u"] = IF c = "u" THEN {<<>>} ELSE {}
           /\ Grammar!Rules(c)["e"] = IF c = "e" THEN {<<>>} ELSE {}
           /\ Grammar!Rules(c)["a"] = IF c = "a" THEN {<<>>} ELSE {}
           /\ Grammar!Rules(c)["l"] = IF c = "l" THEN {<<>>} ELSE {}
           /\ Grammar!Rules(c)["s"] = IF c = "s" THEN {<<>>} ELSE {}
BY DEF Grammar!Rules, Grammar!On, Grammar!Is, Grammar!Exponent, Digit, Digit1

\* and those of a string.
LEMMA CharsFollow ==
    ASSUME NEW c \in AllBytes
    PROVE  /\ c = "/" => Grammar!Rules(c)["Slash"] = {<<"Line">>}
           /\ c # "/" => Grammar!Rules(c)["Slash"] = {}
           /\ c = "newline" => Grammar!Rules(c)["Line"] = {<<>>}
           /\ c # "newline" => Grammar!Rules(c)["Line"] = {<<"Line">>}
           /\ c = "quote" => Grammar!Rules(c)["Chars"] = {<<>>}
           /\ c = "backslash" => Grammar!Rules(c)["Chars"] = {<<"Chars", "Escaped">>}
           /\ c \in {"newline", "control"} => Grammar!Rules(c)["Chars"] = {}
           /\ c \notin {"quote", "backslash", "newline", "control"} =>
                Grammar!Rules(c)["Chars"] = {<<"Chars">>}
           /\ c \in Escape => Grammar!Rules(c)["Escaped"] = {<<>>}
           /\ c = "u" => Grammar!Rules(c)["Escaped"] = {<<"Hex", "Hex", "Hex", "Hex">>}
           /\ c \notin Escape \cup {"u"} => Grammar!Rules(c)["Escaped"] = {}
           /\ c \in Hex => Grammar!Rules(c)["Hex"] = {<<>>}
           /\ c \notin Hex => Grammar!Rules(c)["Hex"] = {}
BY DEF Grammar!Rules, Grammar!On, Grammar!Is, Escape, Hex, Digit, Digit1

\* A record with the fields of a scanner.
IsScanner(s) ==
    s = [step |-> s.step, endTop |-> s.endTop, parseState |-> s.parseState, err |-> s.err,
         offset |-> s.offset, bytes |-> s.bytes,
         redo |-> s.redo, redoCode |-> s.redoCode, redoState |-> s.redoState]

\* What each operation on a scanner changes and leaves alone.
LEMMA GoIs ==
    ASSUME NEW s, IsScanner(s), NEW x
    PROVE  /\ IsScanner(Go(s, x)) /\ Go(s, x).step = x /\ Go(s, x).endTop = s.endTop
           /\ Go(s, x).parseState = s.parseState /\ Go(s, x).err = s.err
           /\ Go(s, x).offset = s.offset /\ Go(s, x).bytes = s.bytes /\ Go(s, x).redo = s.redo
BY DEF IsScanner, Go

LEMMA PushIs ==
    ASSUME NEW s, IsScanner(s), NEW x
    PROVE  /\ IsScanner(Push(s, x)) /\ Push(s, x).step = s.step /\ Push(s, x).endTop = s.endTop
           /\ Push(s, x).parseState = Append(s.parseState, x) /\ Push(s, x).err = s.err
           /\ Push(s, x).bytes = s.bytes
BY DEF IsScanner, Push

LEMMA SetTopIs ==
    ASSUME NEW s, IsScanner(s), NEW x
    PROVE  /\ IsScanner(SetTop(s, x)) /\ SetTop(s, x).step = s.step /\ SetTop(s, x).endTop = s.endTop
           /\ SetTop(s, x).parseState = [s.parseState EXCEPT ![Len(s.parseState)] = x]
           /\ SetTop(s, x).err = s.err /\ SetTop(s, x).bytes = s.bytes
BY DEF IsScanner, SetTop

LEMMA ErrorIs ==
    ASSUME NEW s, IsScanner(s), NEW c
    PROVE  /\ IsScanner(Error(s, c).scan) /\ Error(s, c).scan.step = "Error"
           /\ Error(s, c).scan.err = c
           /\ Error(s, c).scan.offset = s.bytes /\ Error(s, c).scan.bytes = s.bytes
           /\ Error(s, c).op = "Error"
BY DEF IsScanner, Error, Returns

LEMMA PopIs ==
    ASSUME NEW s, IsScanner(s)
    PROVE  LET f == Seqs!Front(s.parseState)
               t == Pop(s)
           IN  /\ IsScanner(t) /\ t.parseState = f /\ t.err = s.err /\ t.bytes = s.bytes
               /\ t.offset = s.offset /\ t.redo = FALSE
               /\ f = <<>> => t.step = "EndTop" /\ t.endTop = TRUE
               /\ f # <<>> => t.step = "EndValue" /\ t.endTop = s.endTop
BY DEF IsScanner, Pop, Go

-----------------------------------------------------------------------------
(* The scanner before an error.                                             *)

MemberSteps == {"BeginString", "BeginStringOrEmpty", "MaybeCommentAtBeginString",
                "InCommentAtBeginString"}
ValueSteps  == {"BeginValue", "BeginValueOrEmpty", "MaybeCommentAtBeginValue",
                "InCommentAtBeginValue", "MaybeCommentAtEndValue", "InCommentAtEndValue"}
PlainSteps  == {"t", "tr", "tru", "f", "fa", "fal", "fals", "n", "nu", "nul", "Neg", "State0",
                "State1", "Dot", "Dot0", "E", "ESign", "E0"}
StringSteps == {"InString", "InStringEsc", "InStringEscU", "InStringEscU1", "InStringEscU12",
                "InStringEscU123"}
Slashes     == {"MaybeCommentAtBeginValue", "MaybeCommentAtBeginString", "MaybeCommentAtEndValue"}
AllSteps    == MemberSteps \cup ValueSteps \cup PlainSteps \cup StringSteps \cup {"EndValue", "EndTop"}

\* The steps a scanner with this stack may be at.
Fits(step, st) ==
    /\ Stack(st) /\ step \in AllSteps
    /\ step \in MemberSteps => TopIs(st, "ObjectKey")
    /\ step \in ValueSteps \cup PlainSteps => ~TopIs(st, "ObjectKey")
    /\ step = "EndTop" => st = <<>>

Live(s) == /\ IsScanner(s) /\ s.err = "nil" /\ Fits(s.step, s.parseState)
           /\ s.endTop = (s.step = "EndTop")

\* What becomes of a scanner after byte c, the b-th, if the symbols p were to come.
Goes(p, b, c, t) ==
    /\ Live(t) /\ t.bytes = b /\ (t.step \in Slashes => c = "/")
    /\ Grammar!Residuals(p, c) = {ToCome(t.step, t.parseState)}
Fails(p, b, c, t) ==
    /\ IsScanner(t) /\ t.step = "Error" /\ t.err = c /\ t.offset = b
    /\ Grammar!Residuals(p, c) = {}

\* The symbols that are to come after a value.
LEMMA AtEndValueIs ==
    ASSUME NEW st, Stack(st)
    PROVE  /\ AtEndValue(st) \in Seq(Symbol)
           /\ st = <<>> => AtEndValue(st) = Append(<<>>, "Trailing")
           /\ TopIs(st, "ObjectKey") =>
                AtEndValue(st) = Append(Append(Append(Outside(st), "MoreMembers"), "Value"), "Colon")
           /\ TopIs(st, "ObjectValue") => AtEndValue(st) = Append(Outside(st), "MoreMembers")
           /\ TopIs(st, "ArrayValue") => AtEndValue(st) = Append(Outside(st), "MoreElements")
           /\ ~TopIs(st, "ObjectKey") => AtEndValue(st) = AllOpened(st)
<1>1. "MoreMembers" \in Symbol /\ "Value" \in Symbol /\ "Colon" \in Symbol
  BY DEF Symbol
<1>2. /\ ~TopIs(st, "ObjectKey") => AtEndValue(st) = AllOpened(st)
      /\ TopIs(st, "ObjectKey") => AtEndValue(st) = Outside(st) \o <<"MoreMembers", "Value", "Colon">>
  BY DEF AtEndValue
<1>3. TopIs(st, "ObjectKey") =>
        /\ AtEndValue(st) = Append(Append(Append(Outside(st), "MoreMembers"), "Value"), "Colon")
        /\ AtEndValue(st) \in Seq(Symbol)
  <2> SUFFICES ASSUME TopIs(st, "ObjectKey")
               PROVE  /\ AtEndValue(st) = Append(Append(Append(Outside(st), "MoreMembers"), "Value"), "Colon")
                      /\ AtEndValue(st) \in Seq(Symbol)
    OBVIOUS
  <2>1. Outside(st) \in Seq(Symbol)
    BY StackIs DEF TopIs
  <2>2. Outside(st) \o <<"MoreMembers", "Value", "Colon">> =
          Append(Append(Append(Outside(st), "MoreMembers"), "Value"), "Colon")
    <3> DEFINE m == "MoreMembers"
               v == "Value"
               n == "Colon"
    <3>1. m \in Symbol /\ v \in Symbol /\ n \in Symbol
      BY <1>1
    <3> HIDE DEF m, v, n
    <3>2. Outside(st) \o <<m, v, n>> = Append(Append(Append(Outside(st), m), v), n)
      BY <2>1, <3>1, Concatenation3
    <3> QED  BY <3>2 DEF m, v, n
  <2>3. Append(Append(Append(Outside(st), "MoreMembers"), "Value"), "Colon") \in Seq(Symbol)
    BY <1>1, <2>1, AppendIs, Zenon
  <2> QED  BY <1>2, <2>2, <2>3, Zenon
<1>4. /\ TopIs(st, "ObjectValue") => ~TopIs(st, "ObjectKey")
      /\ TopIs(st, "ArrayValue") => ~TopIs(st, "ObjectKey")
      /\ st = <<>> => ~TopIs(st, "ObjectKey")
  BY DEF TopIs
<1>5. Append(<<>>, "Trailing") = <<"Trailing">>
  OBVIOUS
<1> QED  BY <1>2, <1>3, <1>4, <1>5, StackIs, Zenon

\* The symbols that are to come, step by step.
LEMMA ToComeIs ==
    ASSUME NEW st
    PROVE  /\ ToCome("BeginValue", st) = AtValue(st, "NextElement")
           /\ ToCome("BeginValueOrEmpty", st) = AtValue(st, "FirstElement")
           /\ ToCome("BeginString", st) = AtMember(st, "NextMember")
           /\ ToCome("BeginStringOrEmpty", st) = AtMember(st, "FirstMember")
           /\ ToCome("EndTop", st) = <<"Trailing">>
           /\ ToCome("EndValue", st) = AtEndValue(st)
           /\ ToCome("MaybeCommentAtBeginValue", st) = Append(AtValue(st, "FirstElement"), "Slash")
           /\ ToCome("InCommentAtBeginValue", st) = Append(AtValue(st, "FirstElement"), "Line")
           /\ ToCome("MaybeCommentAtBeginString", st) = Append(AtMember(st, "NextMember"), "Slash")
           /\ ToCome("InCommentAtBeginString", st) = Append(AtMember(st, "NextMember"), "Line")
           /\ ToCome("MaybeCommentAtEndValue", st) = Append(AtEndValue(st), "Slash")
           /\ ToCome("InCommentAtEndValue", st) = Append(AtEndValue(st), "Line")
           /\ \A x \in PlainSteps \cup StringSteps : ToCome(x, st) = AtEndValue(st) \o InTheLiteral[x]
<1>1. DOMAIN InTheLiteral = PlainSteps \cup StringSteps
  BY DEF InTheLiteral, PlainSteps, StringSteps
<1>2. \A x \in PlainSteps \cup StringSteps : ToCome(x, st) = AtEndValue(st) \o InTheLiteral[x]
  BY <1>1 DEF ToCome
<1>3. \A x \in MemberSteps \cup ValueSteps \cup {"EndValue", "EndTop"} : x \notin PlainSteps \cup StringSteps
  BY DEF MemberSteps, ValueSteps, PlainSteps, StringSteps
<1>4. \A x \in MemberSteps \cup ValueSteps \cup {"EndValue", "EndTop"} : ToCome(x, st) = AtStep(st)[x]
  BY <1>1, <1>3, Zenon DEF ToCome
<1> QED  BY <1>2, <1>4 DEF AtStep, MemberSteps, ValueSteps

\* The symbols that follow in a comment.
LEMMA CommentWord ==
    ASSUME NEW q \in Seq(Symbol), NEW X \in Symbol
    PROVE  q \o <<X, "Slash">> = Append(Append(q, X), "Slash")
<1> DEFINE y == "Slash"
<1>1. y \in Symbol
  BY DEF Symbol
<1> HIDE DEF y
<1>2. q \o <<X, y>> = Append(Append(q, X), y)
  BY <1>1, Concatenation2
<1> QED  BY <1>2 DEF y

\* After the symbols of a key's colon.
LEMMA ColonReads ==
    ASSUME NEW st, Stack(st), TopIs(st, "ObjectKey"), NEW c
    PROVE  /\ c \in Space => Grammar!Residuals(AtEndValue(st), c) = {AtEndValue(st)}
           /\ c = ":" => Grammar!Residuals(AtEndValue(st), c) =
                           {Append(Append(Outside(st), "MoreMembers"), "Value")}
           /\ c \notin Space \cup {":"} => Grammar!Residuals(AtEndValue(st), c) = {}
<1> DEFINE q == Append(Append(Outside(st), "MoreMembers"), "Value")
<1>1. "MoreMembers" \in Symbol /\ "Value" \in Symbol /\ "Colon" \in Symbol
  BY DEF Symbol
<1>2. Outside(st) \in Seq(Symbol)
  BY StackIs DEF TopIs
<1>3. q \in Seq(Symbol) /\ AtEndValue(st) = Append(q, "Colon")
  BY <1>1, <1>2, AppendIs, AtEndValueIs, Zenon
<1> HIDE DEF q
<1>4. "Colon" \notin Grammar!Nullable
  BY DEF Grammar!Nullable
<1>5. q \o <<>> = q /\ q \o <<"Colon">> = Append(q, "Colon")
  BY <1>1, <1>3, Concatenation1
<1>6. /\ Grammar!Rules(c)["Colon"] = {} => Grammar!Residuals(Append(q, "Colon"), c) = {}
      /\ \A word : Grammar!Rules(c)["Colon"] = {word} =>
                     Grammar!Residuals(Append(q, "Colon"), c) = {q \o word}
  BY <1>1, <1>3, <1>4, ReadsSymbol
<1>7. /\ c \in Space => Grammar!Rules(c)["Colon"] = {<<"Colon">>}
      /\ c = ":" => Grammar!Rules(c)["Colon"] = {<<>>}
      /\ c \notin Space \cup {":"} => Grammar!Rules(c)["Colon"] = {}
  BY MembersFollow
<1>8. c \in Space => Grammar!Residuals(AtEndValue(st), c) = {AtEndValue(st)}
  BY <1>3, <1>5, <1>6, <1>7, Zenon
<1>9. c = ":" => Grammar!Residuals(AtEndValue(st), c) = {q}
  BY <1>3, <1>5, <1>6, <1>7, Zenon
<1>10. c \notin Space \cup {":"} => Grammar!Residuals(AtEndValue(st), c) = {}
  BY <1>3, <1>6, <1>7, Zenon
<1> QED  BY <1>8, <1>9, <1>10 DEF q

\* After the value of a key.
LEMMA MoreMembersReads ==
    ASSUME NEW st, Stack(st), TopIs(st, "ObjectValue"), NEW c
    PROVE  /\ c \in Space => Grammar!Residuals(AtEndValue(st), c) = {AtEndValue(st)}
           /\ c = "," => Grammar!Residuals(AtEndValue(st), c) = {Append(Outside(st), "NextMember")}
           /\ c = "}" => Grammar!Residuals(AtEndValue(st), c) = {Outside(st)}
           /\ c = "/" => Grammar!Residuals(AtEndValue(st), c) = {Append(AtEndValue(st), "Slash")}
           /\ c \notin Space \cup {"/", "}", ","} => Grammar!Residuals(AtEndValue(st), c) = {}
<1> DEFINE q == Outside(st)
<1>1. "MoreMembers" \in Symbol /\ "NextMember" \in Symbol
  BY DEF Symbol
<1>2. q \in Seq(Symbol) /\ AtEndValue(st) = Append(q, "MoreMembers")
  BY AtEndValueIs, StackIs DEF TopIs
<1> HIDE DEF q
<1>3. "MoreMembers" \notin Grammar!Nullable
  BY DEF Grammar!Nullable
<1>4. /\ q \o <<>> = q /\ q \o <<"MoreMembers">> = Append(q, "MoreMembers")
      /\ q \o <<"NextMember">> = Append(q, "NextMember")
      /\ q \o <<"MoreMembers", "Slash">> = Append(Append(q, "MoreMembers"), "Slash")
  BY <1>1, <1>2, Concatenation1, CommentWord, Zenon
<1>5. /\ Grammar!Rules(c)["MoreMembers"] = {} => Grammar!Residuals(Append(q, "MoreMembers"), c) = {}
      /\ \A word : Grammar!Rules(c)["MoreMembers"] = {word} =>
                     Grammar!Residuals(Append(q, "MoreMembers"), c) = {q \o word}
  BY <1>1, <1>2, <1>3, ReadsSymbol
<1>6. /\ c \in Space => Grammar!Rules(c)["MoreMembers"] = {<<"MoreMembers">>}
      /\ c = "," => Grammar!Rules(c)["MoreMembers"] = {<<"NextMember">>}
      /\ c = "}" => Grammar!Rules(c)["MoreMembers"] = {<<>>}
      /\ c = "/" => Grammar!Rules(c)["MoreMembers"] = {<<"MoreMembers", "Slash">>}
      /\ c \notin Space \cup {"/", "}", ","} => Grammar!Rules(c)["MoreMembers"] = {}
  BY MembersFollow
<1>7. c \in Space => Grammar!Residuals(AtEndValue(st), c) = {AtEndValue(st)}
  BY <1>2, <1>4, <1>5, <1>6, Zenon
<1>8. c = "," => Grammar!Residuals(AtEndValue(st), c) = {Append(q, "NextMember")}
  BY <1>2, <1>4, <1>5, <1>6, Zenon
<1>9. c = "}" => Grammar!Residuals(AtEndValue(st), c) = {q}
  BY <1>2, <1>4, <1>5, <1>6, Zenon
<1>10. c = "/" => Grammar!Residuals(AtEndValue(st), c) = {Append(AtEndValue(st), "Slash")}
  BY <1>2, <1>4, <1>5, <1>6, Zenon
<1>11. c \notin Space \cup {"/", "}", ","} => Grammar!Residuals(AtEndValue(st), c) = {}
  BY <1>2, <1>5, <1>6, Zenon
<1> QED  BY <1>7, <1>8, <1>9, <1>10, <1>11 DEF q

\* After an element.
LEMMA MoreElementsReads ==
    ASSUME NEW st, Stack(st), TopIs(st, "ArrayValue"), NEW c
    PROVE  /\ c \in Space => Grammar!Residuals(AtEndValue(st), c) = {AtEndValue(st)}
           /\ c = "," => Grammar!Residuals(AtEndValue(st), c) = {Append(Outside(st), "NextElement")}
           /\ c = "]" => Grammar!Residuals(AtEndValue(st), c) = {Outside(st)}
           /\ c = "/" => Grammar!Residuals(AtEndValue(st), c) = {Append(AtEndValue(st), "Slash")}
           /\ c \notin Space \cup {"/", "]", ","} => Grammar!Residuals(AtEndValue(st), c) = {}
<1> DEFINE q == Outside(st)
<1>1. "MoreElements" \in Symbol /\ "NextElement" \in Symbol
  BY DEF Symbol
<1>2. q \in Seq(Symbol) /\ AtEndValue(st) = Append(q, "MoreElements")
  BY AtEndValueIs, StackIs DEF TopIs
<1> HIDE DEF q
<1>3. "MoreElements" \notin Grammar!Nullable
  BY DEF Grammar!Nullable
<1>4. /\ q \o <<>> = q /\ q \o <<"MoreElements">> = Append(q, "MoreElements")
      /\ q \o <<"NextElement">> = Append(q, "NextElement")
      /\ q \o <<"MoreElements", "Slash">> = Append(Append(q, "MoreElements"), "Slash")
  BY <1>1, <1>2, Concatenation1, CommentWord, Zenon
<1>5. /\ Grammar!Rules(c)["MoreElements"] = {} => Grammar!Residuals(Append(q, "MoreElements"), c) = {}
      /\ \A word : Grammar!Rules(c)["MoreElements"] = {word} =>
                     Grammar!Residuals(Append(q, "MoreElements"), c) = {q \o word}
  BY <1>1, <1>2, <1>3, ReadsSymbol
<1>6. /\ c \in Space => Grammar!Rules(c)["MoreElements"] = {<<"MoreElements">>}
      /\ c = "," => Grammar!Rules(c)["MoreElements"] = {<<"NextElement">>}
      /\ c = "]" => Grammar!Rules(c)["MoreElements"] = {<<>>}
      /\ c = "/" => Grammar!Rules(c)["MoreElements"] = {<<"MoreElements", "Slash">>}
      /\ c \notin Space \cup {"/", "]", ","} => Grammar!Rules(c)["MoreElements"] = {}
  BY MembersFollow
<1>7. c \in Space => Grammar!Residuals(AtEndValue(st), c) = {AtEndValue(st)}
  BY <1>2, <1>4, <1>5, <1>6, Zenon
<1>8. c = "," => Grammar!Residuals(AtEndValue(st), c) = {Append(q, "NextElement")}
  BY <1>2, <1>4, <1>5, <1>6, Zenon
<1>9. c = "]" => Grammar!Residuals(AtEndValue(st), c) = {q}
  BY <1>2, <1>4, <1>5, <1>6, Zenon
<1>10. c = "/" => Grammar!Residuals(AtEndValue(st), c) = {Append(AtEndValue(st), "Slash")}
  BY <1>2, <1>4, <1>5, <1>6, Zenon
<1>11. c \notin Space \cup {"/", "]", ","} => Grammar!Residuals(AtEndValue(st), c) = {}
  BY <1>2, <1>5, <1>6, Zenon
<1> QED  BY <1>7, <1>8, <1>9, <1>10, <1>11 DEF q

\* After the text's value.
LEMMA TrailingReads ==
    ASSUME NEW c
    PROVE  /\ c \in Space => Grammar!Residuals(<<"Trailing">>, c) = {<<"Trailing">>}
           /\ c \notin Space => Grammar!Residuals(<<"Trailing">>, c) = {}
<1>1. "Trailing" \in Symbol /\ <<>> \in Seq(Symbol) /\ "Trailing" \in Grammar!Nullable
  BY DEF Symbol, Grammar!Nullable
<1>2. Append(<<>>, "Trailing") = <<"Trailing">> /\ <<>> \o <<"Trailing">> = <<"Trailing">>
  OBVIOUS
<1>3. Grammar!Residuals(<<>>, c) = {}
  BY ResidualsOfNone
<1>4. /\ c \in Space => Grammar!Rules(c)["Trailing"] = {<<"Trailing">>}
      /\ c \notin Space => Grammar!Rules(c)["Trailing"] = {}
  BY MembersFollow
<1>5. /\ Grammar!Rules(c)["Trailing"] = {} =>
           Grammar!Residuals(Append(<<>>, "Trailing"), c) = Grammar!Residuals(<<>>, c)
      /\ \A word : Grammar!Rules(c)["Trailing"] = {word} /\ Grammar!Residuals(<<>>, c) = {} =>
                      Grammar!Residuals(Append(<<>>, "Trailing"), c) = {<<>> \o word}
  BY <1>1, ReadsSymbol, Zenon
<1> QED  BY <1>2, <1>3, <1>4, <1>5, Zenon

-----------------------------------------------------------------------------
(* What the scanner makes of a byte.                                        *)

LEMMA BytesAre == Space \cap {"/", "]", "}", ",", ":", "quote"} = {}
BY DEF Space

\* Which stacks fit a step.
LEMMA FitsAt ==
    ASSUME NEW st, Stack(st)
    PROVE  /\ Fits("EndValue", st)
           /\ st = <<>> => Fits("EndTop", st)
           /\ TopIs(st, "ObjectKey") => \A x \in MemberSteps : Fits(x, st)
           /\ ~TopIs(st, "ObjectKey") => \A x \in ValueSteps \cup PlainSteps : Fits(x, st)
           /\ \A x \in StringSteps : Fits(x, st)
           /\ "EndTop" \notin MemberSteps \cup ValueSteps \cup PlainSteps \cup StringSteps
<1>1. /\ "EndTop" \notin MemberSteps \cup ValueSteps \cup PlainSteps \cup StringSteps
      /\ "EndValue" \notin MemberSteps \cup ValueSteps \cup PlainSteps \cup StringSteps
      /\ "EndValue" # "EndTop"
      /\ \A x \in ValueSteps \cup PlainSteps : x \notin MemberSteps
      /\ \A x \in StringSteps : x \notin MemberSteps \cup ValueSteps \cup PlainSteps
  BY DEF MemberSteps, ValueSteps, PlainSteps, StringSteps
<1>2. Fits("EndValue", st) /\ (st = <<>> => Fits("EndTop", st))
  BY <1>1 DEF Fits, AllSteps
<1>3. TopIs(st, "ObjectKey") => \A x \in MemberSteps : Fits(x, st)
  BY <1>1 DEF Fits, AllSteps
<1>4. ~TopIs(st, "ObjectKey") => \A x \in ValueSteps \cup PlainSteps : Fits(x, st)
  BY <1>1 DEF Fits, AllSteps
<1>5. \A x \in StringSteps : Fits(x, st)
  BY <1>1 DEF Fits, AllSteps
<1> QED  BY <1>1, <1>2, <1>3, <1>4, <1>5

\* A scanner that only moves on, that closes a level, that is at the end of the text.
LEMMA GoGoes ==
    ASSUME NEW s, IsScanner(s), s.err = "nil", s.endTop = FALSE,
           NEW x, x # "EndTop", Fits(x, s.parseState),
           NEW c, x \in Slashes => c = "/",
           NEW p, Grammar!Residuals(p, c) = {ToCome(x, s.parseState)}
    PROVE  Goes(p, s.bytes, c, Go(s, x))
<1> DEFINE u == Go(s, x)
<1>1. /\ IsScanner(u) /\ u.err = "nil" /\ u.endTop = FALSE /\ u.step = x
      /\ u.parseState = s.parseState /\ u.bytes = s.bytes
  BY GoIs
<1> HIDE DEF u
<1>2. Live(u)
  BY <1>1 DEF Live
<1> QED  BY <1>1, <1>2 DEF Goes, u

\* A scanner in error after s.
LEMMA ErrorFails ==
    ASSUME NEW s, IsScanner(s), NEW c, NEW p, Grammar!Residuals(p, c) = {}
    PROVE  Fails(p, s.bytes, c, Error(s, c).scan)
BY ErrorIs DEF Fails

LEMMA PopGoes ==
    ASSUME NEW s, IsScanner(s), s.err = "nil", s.endTop = FALSE, Stack(s.parseState),
           s.parseState # <<>>, NEW c, NEW p, Grammar!Residuals(p, c) = {Outside(s.parseState)}
    PROVE  Goes(p, s.bytes, c, Pop(s))
<1> DEFINE st == s.parseState
           f == Seqs!Front(st)
           t == Pop(s)
<1>1. /\ IsScanner(t) /\ t.parseState = f /\ t.err = s.err /\ t.bytes = s.bytes
      /\ f = <<>> => t.step = "EndTop" /\ t.endTop = TRUE
      /\ f # <<>> => t.step = "EndValue" /\ t.endTop = s.endTop
  BY PopIs
<1>2. Stack(f) /\ ~TopIs(f, "ObjectKey") /\ AllOpened(f) = Outside(st)
  BY Pops
<1> HIDE DEF t, f
<1>3. Live(t)
  BY <1>1, <1>2, FitsAt DEF Live
<1>4. ToCome(t.step, t.parseState) = Outside(st)
  BY <1>1, <1>2, ToComeIs, AtEndValueIs, StackIs
<1>5. t.step \notin Slashes
  BY <1>1 DEF Slashes
<1> QED  BY <1>1, <1>3, <1>4, <1>5 DEF Goes, t

LEMMA EndTopGoes ==
    ASSUME NEW s, IsScanner(s), s.err = "nil", s.endTop = TRUE, s.step = "EndTop",
           s.parseState = <<>>, NEW c
    PROVE  LET t == EndTop(s, c).scan
           IN  Goes(<<"Trailing">>, s.bytes, c, t) \/ Fails(<<"Trailing">>, s.bytes, c, t)
<1>1. CASE c \in Space
  <2>1. EndTop(s, c).scan = s
    BY <1>1 DEF EndTop, Returns
  <2>2. Stack(s.parseState)
    BY DEF Stack
  <2>3. Live(s)
    BY <2>2, FitsAt DEF Live
  <2>4. ToCome(s.step, s.parseState) = <<"Trailing">>
    BY ToComeIs
  <2>5. s.step \notin Slashes
    BY DEF Slashes
  <2> QED  BY <1>1, <2>1, <2>3, <2>4, <2>5, TrailingReads DEF Goes
<1>2. CASE c \notin Space
  <2>1. EndTop(s, c).scan = Error(s, c).scan
    BY <1>2 DEF EndTop, Returns
  <2> QED  BY <1>2, <2>1, TrailingReads, ErrorFails
<1> QED  BY <1>1, <1>2

\* The end of the text is known once the last value is over.
LEMMA EndTopIs ==
    ASSUME NEW s, IsScanner(s), NEW x
    PROVE  LET r == [s EXCEPT !.endTop = x]
           IN  /\ IsScanner(r) /\ r.err = s.err /\ r.endTop = x /\ r.parseState = s.parseState
               /\ r.bytes = s.bytes
BY DEF IsScanner

\* stateEndValue is a step of the grammar.
LEMMA EndValueGoes ==
    ASSUME NEW s, IsScanner(s), s.err = "nil", s.endTop = FALSE, Stack(s.parseState), NEW c
    PROVE  LET t == EndValue(s, c).scan
               p == AtEndValue(s.parseState)
           IN  Goes(p, s.bytes, c, t) \/ Fails(p, s.bytes, c, t)
<1> DEFINE st == s.parseState
           p == AtEndValue(st)
           t == EndValue(s, c).scan
           Done == Goes(p, s.bytes, c, t) \/ Fails(p, s.bytes, c, t)
<1>1. CASE st = <<>>
  <2> DEFINE r == [s EXCEPT !.endTop = TRUE]
             u == Go(r, "EndTop")
  <2>1. EndValue(s, c) = EndTop(u, c)
    BY <1>1 DEF EndValue
  <2>2. IsScanner(r) /\ r.err = "nil" /\ r.endTop = TRUE /\ r.parseState = <<>> /\ r.bytes = s.bytes
    BY <1>1, EndTopIs
  <2> HIDE DEF r
  <2>3. /\ IsScanner(u) /\ u.err = "nil" /\ u.endTop = TRUE /\ u.step = "EndTop"
        /\ u.parseState = <<>> /\ u.bytes = s.bytes
    BY <2>2, GoIs
  <2> HIDE DEF u
  <2>4. p = <<"Trailing">>
    BY <1>1, AtEndValueIs, StackIs DEF TopIs
  <2> QED  BY <2>1, <2>3, <2>4, EndTopGoes
<1>2. CASE st # <<>> /\ c \in Space
  <2>1. t = Go(s, "EndValue")
    BY <1>2 DEF EndValue, Skip, Returns
  <2>2. Grammar!Residuals(p, c) = {p}
    BY <1>2, ColonReads, MoreMembersReads, MoreElementsReads, StackIs DEF TopIs, Levels
  <2>3. Goes(p, s.bytes, c, Go(s, "EndValue"))
    <3>1. "EndValue" # "EndTop" /\ "EndValue" \notin Slashes
      BY DEF Slashes
    <3>2. Fits("EndValue", st) /\ Grammar!Residuals(p, c) = {ToCome("EndValue", st)}
      BY <2>2, FitsAt, ToComeIs, Zenon
    <3> QED  BY <3>1, <3>2, GoGoes, Zenon
  <2> QED  BY <2>1, <2>3, Zenon
<1>3. CASE st # <<>> /\ c \notin Space /\ TopIs(st, "ObjectKey")
  <2>1. CASE c = ":"
    <3> DEFINE u == SetTop(s, "ObjectValue")
    <3>1. t = Go(u, "BeginValue")
      BY <1>3, <2>1 DEF EndValue, Returns, Top, TopIs
    <3>2. /\ IsScanner(u) /\ u.err = "nil" /\ u.endTop = FALSE /\ u.bytes = s.bytes
          /\ u.parseState = [st EXCEPT ![Len(st)] = "ObjectValue"]
      BY SetTopIs
    <3>3. Stack(u.parseState) /\ TopIs(u.parseState, "ObjectValue") /\ Outside(u.parseState) = Outside(st)
      BY <1>3, <3>2, SetsTop DEF Levels
    <3> HIDE DEF u
    <3>4. ~TopIs(u.parseState, "ObjectKey") /\ ~TopIs(u.parseState, "ArrayValue")
      BY <3>3 DEF TopIs
    <3>5. "BeginValue" \in ValueSteps /\ "BeginValue" \notin Slashes /\ "BeginValue" # "EndTop"
      BY DEF ValueSteps, Slashes
    <3>6. Fits("BeginValue", u.parseState)
      BY <3>3, <3>4, <3>5, FitsAt, Zenon
    <3>7. ToCome("BeginValue", u.parseState) = Append(Append(Outside(st), "MoreMembers"), "Value")
      BY <3>3, <3>4, ToComeIs, StackIs DEF AtValue
    <3>8. Grammar!Residuals(p, c) = {ToCome("BeginValue", u.parseState)}
      BY <1>3, <2>1, <3>7, ColonReads
    <3>9. Goes(p, u.bytes, c, Go(u, "BeginValue"))
      BY <3>2, <3>5, <3>6, <3>8, GoGoes, Zenon
    <3> QED  BY <3>1, <3>2, <3>9, Zenon
  <2>2. CASE c # ":"
    <3>1. t = Error(s, c).scan
      BY <1>3, <2>2 DEF EndValue, Top, TopIs
    <3> QED  BY <1>3, <2>2, <3>1, ColonReads, ErrorFails
  <2> QED  BY <2>1, <2>2
<1>4. CASE st # <<>> /\ c \notin Space /\ TopIs(st, "ObjectValue")
  <2> USE <1>4
  <2>1. CASE c = ","
    <3> DEFINE u == SetTop(s, "ObjectKey")
    <3>1. t = Go(u, "BeginString")
      BY <2>1 DEF EndValue, Returns, Top, TopIs
    <3>2. /\ IsScanner(u) /\ u.err = "nil" /\ u.endTop = FALSE /\ u.bytes = s.bytes
          /\ u.parseState = [st EXCEPT ![Len(st)] = "ObjectKey"]
      BY SetTopIs
    <3>3. Stack(u.parseState) /\ TopIs(u.parseState, "ObjectKey") /\ Outside(u.parseState) = Outside(st)
      BY <3>2, SetsTop DEF Levels
    <3> HIDE DEF u
    <3>4. "BeginString" \in MemberSteps /\ "BeginString" \notin Slashes /\ "BeginString" # "EndTop"
      BY DEF MemberSteps, Slashes
    <3>5. Fits("BeginString", u.parseState)
      BY <3>3, <3>4, FitsAt, Zenon
    <3>6. ToCome("BeginString", u.parseState) = Append(Outside(st), "NextMember")
      BY <3>3, ToComeIs DEF AtMember
    <3>7. Grammar!Residuals(p, c) = {ToCome("BeginString", u.parseState)}
      BY <2>1, <3>6, MoreMembersReads
    <3>8. Goes(p, u.bytes, c, Go(u, "BeginString"))
      BY <3>2, <3>4, <3>5, <3>7, GoGoes, Zenon
    <3> QED  BY <3>1, <3>2, <3>8, Zenon
  <2>2. CASE c = "}"
    <3>1. t = Pop(s)
      BY <2>2 DEF EndValue, Returns, Top, TopIs
    <3>2. Grammar!Residuals(p, c) = {Outside(st)}
      BY <2>2, MoreMembersReads
    <3> QED  BY <3>1, <3>2, PopGoes
  <2>3. CASE c = "/"
    <3>1. t = Go(s, "MaybeCommentAtEndValue")
      BY <2>3 DEF EndValue, Skip, Returns, Top, TopIs
    <3>2. "MaybeCommentAtEndValue" \in ValueSteps /\ "MaybeCommentAtEndValue" # "EndTop" /\ ~TopIs(st, "ObjectKey")
      BY DEF ValueSteps, TopIs
    <3>3. Fits("MaybeCommentAtEndValue", st)
      BY <3>2, FitsAt, Zenon
    <3>4. Grammar!Residuals(p, c) = {Append(p, "Slash")}
      BY <2>3, MoreMembersReads
    <3>5. Grammar!Residuals(p, c) = {ToCome("MaybeCommentAtEndValue", st)}
      BY <3>4, ToComeIs, Zenon
    <3>6. Goes(p, s.bytes, c, Go(s, "MaybeCommentAtEndValue"))
      BY <2>3, <3>2, <3>3, <3>5, GoGoes, Zenon
    <3> QED  BY <3>1, <3>6, Zenon
  <2>4. CASE c \notin {"/", "}", ","}
    <3>1. t = Error(s, c).scan
      BY <2>4 DEF EndValue, Top, TopIs
    <3> QED  BY <2>4, <3>1, MoreMembersReads, ErrorFails
  <2> QED  BY <2>1, <2>2, <2>3, <2>4
<1>5. CASE st # <<>> /\ c \notin Space /\ TopIs(st, "ArrayValue")
  <2> USE <1>5
  <2>0. ~TopIs(st, "ObjectKey")
    BY DEF TopIs
  <2>1. CASE c = ","
    <3>1. t = Go(s, "BeginValue")
      BY <2>1 DEF EndValue, Returns, Top, TopIs
    <3>2. "BeginValue" \in ValueSteps /\ "BeginValue" \notin Slashes /\ "BeginValue" # "EndTop"
      BY DEF ValueSteps, Slashes
    <3>3. Fits("BeginValue", st)
      BY <2>0, <3>2, FitsAt, Zenon
    <3>4. AtValue(st, "NextElement") = Append(Outside(st), "NextElement")
      BY DEF AtValue
    <3>5. Grammar!Residuals(p, c) = {Append(Outside(st), "NextElement")}
      BY <2>1, MoreElementsReads
    <3>6. Grammar!Residuals(p, c) = {ToCome("BeginValue", st)}
      BY <3>4, <3>5, ToComeIs, Zenon
    <3>7. Goes(p, s.bytes, c, Go(s, "BeginValue"))
      BY <3>2, <3>3, <3>6, GoGoes, Zenon
    <3> QED  BY <3>1, <3>7, Zenon
  <2>2. CASE c = "]"
    <3>1. t = Pop(s)
      BY <2>2 DEF EndValue, Returns, Top, TopIs
    <3>2. Grammar!Residuals(p, c) = {Outside(st)}
      BY <2>2, MoreElementsReads
    <3> QED  BY <3>1, <3>2, PopGoes
  <2>3. CASE c = "/"
    <3>1. t = Go(s, "MaybeCommentAtEndValue")
      BY <2>3 DEF EndValue, Skip, Returns, Top, TopIs
    <3>2. "MaybeCommentAtEndValue" \in ValueSteps /\ "MaybeCommentAtEndValue" # "EndTop"
      BY DEF ValueSteps
    <3>3. Fits("MaybeCommentAtEndValue", st)
      BY <2>0, <3>2, FitsAt, Zenon
    <3>4. Grammar!Residuals(p, c) = {Append(p, "Slash")}
      BY <2>3, MoreElementsReads
    <3>5. Grammar!Residuals(p, c) = {ToCome("MaybeCommentAtEndValue", st)}
      BY <3>4, ToComeIs, Zenon
    <3>6. Goes(p, s.bytes, c, Go(s, "MaybeCommentAtEndValue"))
      BY <2>3, <3>2, <3>3, <3>5, GoGoes, Zenon
    <3> QED  BY <3>1, <3>6, Zenon
  <2>4. CASE c \notin {"/", "]", ","}
    <3>1. t = Error(s, c).scan
      BY <2>4 DEF EndValue, Top, TopIs
    <3> QED  BY <2>4, <3>1, MoreElementsReads, ErrorFails
  <2> QED  BY <2>1, <2>2, <2>3, <2>4
<1>6. st # <<>> => TopIs(st, "ObjectKey") \/ TopIs(st, "ObjectValue") \/ TopIs(st, "ArrayValue")
  BY StackIs DEF TopIs, Levels
<1> QED  BY <1>1, <1>2, <1>3, <1>4, <1>5, <1>6

\* Where a value may begin: in front of an element, or of the value of a key or of the text.
LEMMA ElementReads ==
    ASSUME NEW st, Stack(st), TopIs(st, "ArrayValue"), NEW X \in {"NextElement", "FirstElement"}, NEW c
    PROVE  LET p == AtValue(st, X)
           IN  /\ c \in Space => Grammar!Residuals(p, c) = {p}
               /\ c = "/" => Grammar!Residuals(p, c) = {Append(AtValue(st, "FirstElement"), "Slash")}
               /\ c = "]" /\ X = "FirstElement" => Grammar!Residuals(p, c) = {Outside(st)}
               /\ c \notin Space \cup {"/"} /\ ~(c = "]" /\ X = "FirstElement") =>
                    /\ Grammar!Begins(c, <<"MoreElements">>) = {} => Grammar!Residuals(p, c) = {}
                    /\ \A word \in Seq(Symbol) :
                         Grammar!Begins(c, <<"MoreElements">>) = {<<"MoreElements">> \o word} =>
                             Grammar!Residuals(p, c) = {AllOpened(st) \o word}
<1> DEFINE q == Outside(st)
           p == AtValue(st, X)
           f == AtValue(st, "FirstElement")
<1>1. X \in Symbol /\ X \notin Grammar!Nullable /\ "FirstElement" \in Symbol
  BY DEF Symbol, Grammar!Nullable
<1>2. q \in Seq(Symbol) /\ p = Append(q, X) /\ f = Append(q, "FirstElement")
  BY StackIs DEF TopIs, AtValue
<1>3. AllOpened(st) = Append(q, "MoreElements")
  BY StackIs
<1> HIDE DEF q, p, f
<1>4. q \o <<>> = q /\ q \o <<X>> = Append(q, X)
  BY <1>1, <1>2, Concatenation1
<1>5. q \o <<"FirstElement", "Slash">> = Append(f, "Slash")
  BY <1>1, <1>2, CommentWord, Zenon
<1>6. \A word \in Seq(Symbol) : q \o (<<"MoreElements">> \o word) = AllOpened(st) \o word
  <2>1. ASSUME NEW m \in Symbol, NEW word \in Seq(Symbol)
        PROVE  q \o (<<m>> \o word) = Append(q, m) \o word
    BY <1>2
  <2>2. "MoreElements" \in Symbol
    BY DEF Symbol
  <2> QED  BY <1>3, <2>1, <2>2, Zenon
<1>7. /\ Grammar!Rules(c)[X] = {} => Grammar!Residuals(p, c) = {}
      /\ \A word : Grammar!Rules(c)[X] = {word} => Grammar!Residuals(p, c) = {q \o word}
  BY <1>1, <1>2, ReadsSymbol
<1>8. /\ c \in Space => Grammar!Rules(c)[X] = {<<X>>}
      /\ c = "/" => Grammar!Rules(c)[X] = {<<"FirstElement", "Slash">>}
      /\ c = "]" /\ X = "FirstElement" => Grammar!Rules(c)[X] = {<<>>}
      /\ c \notin Space \cup {"/"} /\ ~(c = "]" /\ X = "FirstElement") =>
           Grammar!Rules(c)[X] = Grammar!Begins(c, <<"MoreElements">>)
  <2>1. CASE X = "NextElement"
    BY <2>1, ValuesFollow
  <2>2. CASE X = "FirstElement"
    BY <2>2, ValuesFollow
  <2> QED  BY <2>1, <2>2
<1>9. c \in Space => Grammar!Residuals(p, c) = {p}
  BY <1>2, <1>4, <1>7, <1>8, Zenon
<1>10. c = "/" => Grammar!Residuals(p, c) = {Append(f, "Slash")}
  BY <1>5, <1>7, <1>8, Zenon
<1>11. c = "]" /\ X = "FirstElement" => Grammar!Residuals(p, c) = {q}
  BY <1>4, <1>7, <1>8, Zenon
<1>12. c \notin Space \cup {"/"} /\ ~(c = "]" /\ X = "FirstElement") =>
         /\ Grammar!Begins(c, <<"MoreElements">>) = {} => Grammar!Residuals(p, c) = {}
         /\ \A word \in Seq(Symbol) :
              Grammar!Begins(c, <<"MoreElements">>) = {<<"MoreElements">> \o word} =>
                  Grammar!Residuals(p, c) = {AllOpened(st) \o word}
  BY <1>6, <1>7, <1>8, Zenon
<1> QED  BY <1>9, <1>10, <1>11, <1>12 DEF p, q, f

\* A symbol that is not empty and the only one that counts.
LEMMA SingleReads ==
    ASSUME NEW st, Stack(st), ~TopIs(st, "ArrayValue"), ~TopIs(st, "ObjectKey"), NEW X, NEW c
    PROVE  LET p == AtValue(st, X)
           IN  /\ c \in Space => Grammar!Residuals(p, c) = {p}
               /\ c = "/" => Grammar!Residuals(p, c) = {Append(AtValue(st, "FirstElement"), "Slash")}
               /\ c \notin Space \cup {"/"} =>
                    /\ Grammar!Begins(c, <<>>) = {} => Grammar!Residuals(p, c) = {}
                    /\ \A word \in Seq(Symbol) :
                         Grammar!Begins(c, <<>>) = {<<>> \o word} =>
                             Grammar!Residuals(p, c) = {AllOpened(st) \o word}
<1> DEFINE q == AllOpened(st)
           p == AtValue(st, X)
           f == AtValue(st, "FirstElement")
<1>1. "Value" \in Symbol /\ "Value" \notin Grammar!Nullable
  BY DEF Symbol, Grammar!Nullable
<1>2. q \in Seq(Symbol) /\ p = Append(q, "Value") /\ f = Append(q, "Value")
  BY StackIs DEF AtValue
<1> HIDE DEF q, p, f
<1>3. q \o <<"Value">> = Append(q, "Value")
  BY <1>1, <1>2, Concatenation1
<1>4. q \o <<"Value", "Slash">> = Append(f, "Slash")
  BY <1>1, <1>2, CommentWord, Zenon
<1>5. \A word \in Seq(Symbol) : <<>> \o word = word
  OBVIOUS
<1>6. /\ Grammar!Rules(c)["Value"] = {} => Grammar!Residuals(p, c) = {}
      /\ \A word : Grammar!Rules(c)["Value"] = {word} => Grammar!Residuals(p, c) = {q \o word}
  BY <1>1, <1>2, ReadsSymbol
<1>7. /\ c \in Space => Grammar!Rules(c)["Value"] = {<<"Value">>}
      /\ c = "/" => Grammar!Rules(c)["Value"] = {<<"Value", "Slash">>}
      /\ c \notin Space \cup {"/"} => Grammar!Rules(c)["Value"] = Grammar!Begins(c, <<>>)
  BY ValuesFollow
<1>8. c \in Space => Grammar!Residuals(p, c) = {p}
  BY <1>2, <1>3, <1>6, <1>7, Zenon
<1>9. c = "/" => Grammar!Residuals(p, c) = {Append(f, "Slash")}
  BY <1>4, <1>6, <1>7, Zenon
<1>10. c \notin Space \cup {"/"} =>
         /\ Grammar!Begins(c, <<>>) = {} => Grammar!Residuals(p, c) = {}
         /\ \A word \in Seq(Symbol) :
              Grammar!Begins(c, <<>>) = {<<>> \o word} => Grammar!Residuals(p, c) = {q \o word}
  BY <1>5, <1>6, <1>7, Zenon
<1> QED  BY <1>8, <1>9, <1>10 DEF p, q, f

\* Both at once; after is what stands above the value.
LEMMA ValueReads ==
    ASSUME NEW st, Stack(st), ~TopIs(st, "ObjectKey"), NEW X \in {"NextElement", "FirstElement"}, NEW c
    PROVE  LET p == AtValue(st, X)
           IN  /\ c \in Space => Grammar!Residuals(p, c) = {p}
               /\ c = "/" => Grammar!Residuals(p, c) = {Append(AtValue(st, "FirstElement"), "Slash")}
               /\ c \notin Space \cup {"/"} /\ ~(c = "]" /\ X = "FirstElement" /\ TopIs(st, "ArrayValue")) =>
                    /\ (\A after : Grammar!Begins(c, after) = {}) => Grammar!Residuals(p, c) = {}
                    /\ \A word \in Seq(Symbol) :
                         (\A after : Grammar!Begins(c, after) = {after \o word}) =>
                             Grammar!Residuals(p, c) = {AllOpened(st) \o word}
<1>1. CASE TopIs(st, "ArrayValue")
  <2> DEFINE p == AtValue(st, X)
             R == Grammar!Residuals(p, c)
             B(after) == Grammar!Begins(c, after)
  <2>1. /\ c \in Space => R = {p}
        /\ c = "/" => R = {Append(AtValue(st, "FirstElement"), "Slash")}
    BY <1>1, ElementReads, Zenon
  <2>2. c \notin Space \cup {"/"} /\ ~(c = "]" /\ X = "FirstElement" /\ TopIs(st, "ArrayValue")) =>
          /\ B(<<"MoreElements">>) = {} => R = {}
          /\ \A word \in Seq(Symbol) : B(<<"MoreElements">>) = {<<"MoreElements">> \o word} => R = {AllOpened(st) \o word}
    BY <1>1, ElementReads
  <2> HIDE DEF R, B
  <2>3. c \notin Space \cup {"/"} /\ ~(c = "]" /\ X = "FirstElement" /\ TopIs(st, "ArrayValue")) =>
          /\ (\A after : B(after) = {}) => R = {}
          /\ \A word \in Seq(Symbol) :
               (\A after : B(after) = {after \o word}) => R = {AllOpened(st) \o word}
    BY <2>2, Zenon
  <2> QED  BY <2>1, <2>3, Zenon DEF R, B
<1>2. CASE ~TopIs(st, "ArrayValue")
  <2> DEFINE p == AtValue(st, X)
             R == Grammar!Residuals(p, c)
             B(after) == Grammar!Begins(c, after)
  <2>1. /\ c \in Space => R = {p}
        /\ c = "/" => R = {Append(AtValue(st, "FirstElement"), "Slash")}
    BY <1>2, SingleReads, Zenon
  <2>2. c \notin Space \cup {"/"} /\ ~(c = "]" /\ X = "FirstElement" /\ TopIs(st, "ArrayValue")) =>
          /\ B(<<>>) = {} => R = {}
          /\ \A word \in Seq(Symbol) : B(<<>>) = {<<>> \o word} => R = {AllOpened(st) \o word}
    BY <1>2, SingleReads
  <2> HIDE DEF R, B
  <2>3. c \notin Space \cup {"/"} /\ ~(c = "]" /\ X = "FirstElement" /\ TopIs(st, "ArrayValue")) =>
          /\ (\A after : B(after) = {}) => R = {}
          /\ \A word \in Seq(Symbol) :
               (\A after : B(after) = {after \o word}) => R = {AllOpened(st) \o word}
    BY <2>2, Zenon
  <2> QED  BY <2>1, <2>3, Zenon DEF R, B
<1> QED  BY <1>1, <1>2

\* In front of a key.
LEMMA MemberReads ==
    ASSUME NEW st, Stack(st), TopIs(st, "ObjectKey"), NEW X \in {"NextMember", "FirstMember"}, NEW c
    PROVE  /\ c \in Space => Grammar!Residuals(AtMember(st, X), c) = {AtMember(st, X)}
           /\ c = "/" => Grammar!Residuals(AtMember(st, X), c) =
                           {Append(AtMember(st, "NextMember"), "Slash")}
           /\ c = "quote" => Grammar!Residuals(AtMember(st, X), c) = {AtEndValue(st) \o <<"Chars">>}
           /\ c = "}" /\ X = "FirstMember" => Grammar!Residuals(AtMember(st, X), c) = {Outside(st)}
           /\ c \notin Space \cup {"/", "quote"} /\ ~(c = "}" /\ X = "FirstMember") =>
                Grammar!Residuals(AtMember(st, X), c) = {}
<1> DEFINE q == Outside(st)
           p == AtMember(st, X)
           n == AtMember(st, "NextMember")
           e == AtEndValue(st)
<1>1. X \in Symbol /\ X \notin Grammar!Nullable /\ "NextMember" \in Symbol
  BY DEF Symbol, Grammar!Nullable
<1>2. q \in Seq(Symbol) /\ p = Append(q, X) /\ n = Append(q, "NextMember")
  BY StackIs DEF TopIs, AtMember
<1>3. e = Append(Append(Append(q, "MoreMembers"), "Value"), "Colon") /\ e \in Seq(Symbol)
  BY AtEndValueIs
<1> HIDE DEF q, p, n, e
<1>4. q \o <<>> = q /\ q \o <<X>> = Append(q, X)
  BY <1>1, <1>2, Concatenation1
<1>5. q \o <<"NextMember", "Slash">> = Append(n, "Slash")
  BY <1>1, <1>2, CommentWord, Zenon
<1>6. q \o <<"MoreMembers", "Value", "Colon", "Chars">> = e \o <<"Chars">>
  <2> DEFINE a == "MoreMembers"
             b == "Value"
             d == "Colon"
             f == "Chars"
  <2>1. a \in Symbol /\ b \in Symbol /\ d \in Symbol /\ f \in Symbol
    BY DEF Symbol
  <2>2. e = Append(Append(Append(q, a), b), d)
    BY <1>3
  <2> HIDE DEF a, b, d, f
  <2>3. q \o <<a, b, d, f>> = Append(e, f)
    BY <1>2, <2>1, <2>2, Concatenation4
  <2>4. e \o <<f>> = Append(e, f)
    BY <1>3, <2>1, Concatenation1
  <2> QED  BY <2>3, <2>4 DEF a, b, d, f
<1>7. /\ Grammar!Rules(c)[X] = {} => Grammar!Residuals(p, c) = {}
      /\ \A word : Grammar!Rules(c)[X] = {word} => Grammar!Residuals(p, c) = {q \o word}
  BY <1>1, <1>2, ReadsSymbol
<1>8. /\ c \in Space => Grammar!Rules(c)[X] = {<<X>>}
      /\ c = "/" => Grammar!Rules(c)[X] = {<<"NextMember", "Slash">>}
      /\ c = "quote" => Grammar!Rules(c)[X] = {<<"MoreMembers", "Value", "Colon", "Chars">>}
      /\ c = "}" /\ X = "FirstMember" => Grammar!Rules(c)[X] = {<<>>}
      /\ c \notin Space \cup {"/", "quote"} /\ ~(c = "}" /\ X = "FirstMember") =>
           Grammar!Rules(c)[X] = {}
  <2>1. CASE X = "NextMember"
    BY <2>1, MembersFollow
  <2>2. CASE X = "FirstMember"
    BY <2>2, MembersFollow
  <2> QED  BY <2>1, <2>2
<1>9. c \in Space => Grammar!Residuals(p, c) = {p}
  BY <1>2, <1>4, <1>7, <1>8, Zenon
<1>10. c = "/" => Grammar!Residuals(p, c) = {Append(n, "Slash")}
  BY <1>5, <1>7, <1>8, Zenon
<1>11. c = "quote" => Grammar!Residuals(p, c) = {e \o <<"Chars">>}
  BY <1>6, <1>7, <1>8, Zenon
<1>12. c = "}" /\ X = "FirstMember" => Grammar!Residuals(p, c) = {q}
  BY <1>4, <1>7, <1>8, Zenon
<1>13. c \notin Space \cup {"/", "quote"} /\ ~(c = "}" /\ X = "FirstMember") => Grammar!Residuals(p, c) = {}
  BY <1>7, <1>8, Zenon
<1> QED  BY <1>9, <1>10, <1>11, <1>12, <1>13 DEF p, q, n, e

\* The words a literal's first byte leaves to be read.
LEMMA LiteralWords ==
    /\ \A x \in PlainSteps \cup StringSteps : InTheLiteral[x] \in Seq(Symbol)
    /\ InTheLiteral["InString"] = <<"Chars">> /\ InTheLiteral["Neg"] = <<"Int">>
    /\ InTheLiteral["State0"] = <<"Fraction">> /\ InTheLiteral["State1"] = <<"Fraction", "Digits">>
    /\ InTheLiteral["t"] = <<"e", "u", "r">> /\ InTheLiteral["f"] = <<"e", "s", "l", "a">>
    /\ InTheLiteral["n"] = <<"l", "l", "u">>
BY DEF InTheLiteral, PlainSteps, StringSteps, Symbol

\* A literal begins in front of element X.
LEMMA LiteralGoes ==
    ASSUME NEW s, IsScanner(s), s.err = "nil", s.endTop = FALSE, Stack(s.parseState),
           ~TopIs(s.parseState, "ObjectKey"), NEW X \in {"NextElement", "FirstElement"},
           NEW c, c \notin Space \cup {"/", "]"}, NEW x \in PlainSteps \cup {"InString"},
           \A after : Grammar!Begins(c, after) = {after \o InTheLiteral[x]}
    PROVE  Goes(AtValue(s.parseState, X), s.bytes, c, Go(s, x))
<1> DEFINE st == s.parseState
           p == AtValue(st, X)
<1>1. x \in PlainSteps \cup StringSteps /\ x # "EndTop" /\ x \notin Slashes
  BY DEF PlainSteps, StringSteps, Slashes
<1>2. InTheLiteral[x] \in Seq(Symbol)
  BY <1>1, LiteralWords
<1>3. Grammar!Residuals(p, c) = {AllOpened(st) \o InTheLiteral[x]}
  <2>1. c \notin Space \cup {"/"} /\ ~(c = "]" /\ X = "FirstElement" /\ TopIs(st, "ArrayValue"))
    OBVIOUS
  <2>2. \A word \in Seq(Symbol) : (\A after : Grammar!Begins(c, after) = {after \o word}) =>
          Grammar!Residuals(p, c) = {AllOpened(st) \o word}
    BY <2>1, ValueReads
  <2> HIDE DEF p
  <2> QED  BY <1>2, <2>2, Zenon
<1>4. ToCome(x, st) = AllOpened(st) \o InTheLiteral[x]
  <2>1. ToCome(x, st) = AtEndValue(st) \o InTheLiteral[x]
    BY <1>1, ToComeIs, Zenon
  <2>2. AtEndValue(st) = AllOpened(st)
    BY AtEndValueIs, Zenon
  <2> QED  BY <2>1, <2>2, Zenon
<1>5. Fits(x, st)
  BY FitsAt DEF StringSteps
<1>6. Grammar!Residuals(p, c) = {ToCome(x, st)}
  BY <1>3, <1>4
<1> HIDE DEF p
<1>7. Goes(p, s.bytes, c, Go(s, x))
  BY <1>1, <1>5, <1>6, GoGoes
<1> QED  BY <1>7 DEF p

\* A level is opened in front of element X.
LEMMA PushGoes ==
    ASSUME NEW s, IsScanner(s), s.err = "nil", s.endTop = FALSE, Stack(s.parseState),
           ~TopIs(s.parseState, "ObjectKey"), NEW c, NEW p,
           NEW level \in Levels, NEW x,
           \/ level = "ObjectKey" /\ x = "BeginStringOrEmpty"
              /\ Grammar!Residuals(p, c) = {Append(AllOpened(s.parseState), "FirstMember")}
           \/ level = "ArrayValue" /\ x = "BeginValueOrEmpty"
              /\ Grammar!Residuals(p, c) = {Append(AllOpened(s.parseState), "FirstElement")}
    PROVE  Goes(p, s.bytes, c, Push(Go(s, x), level))
<1> DEFINE st == s.parseState
           u == Go(s, x)
           t == Push(u, level)
<1>1. /\ IsScanner(u) /\ u.err = "nil" /\ u.endTop = FALSE /\ u.step = x
      /\ u.parseState = st /\ u.bytes = s.bytes
  BY GoIs
<1> HIDE DEF u
<1>2. /\ IsScanner(t) /\ t.err = "nil" /\ t.endTop = FALSE /\ t.step = x
      /\ t.parseState = Append(st, level) /\ t.bytes = s.bytes
  <2>1. /\ IsScanner(t) /\ t.err = u.err /\ t.endTop = u.endTop /\ t.step = u.step
        /\ t.parseState = Append(u.parseState, level) /\ t.bytes = u.bytes
    BY <1>1, PushIs
  <2> HIDE DEF t
  <2> QED  BY <1>1, <2>1
<1> HIDE DEF t
<1>3. Stack(t.parseState) /\ TopIs(t.parseState, level) /\ Outside(t.parseState) = AllOpened(st)
  BY <1>2, Pushes
<1>4. level = "ArrayValue" => ~TopIs(t.parseState, "ObjectKey")
  BY <1>3 DEF TopIs
<1>5. x # "EndTop" /\ x \notin Slashes
  BY DEF Slashes
<1>6. Fits(x, t.parseState)
  <2>1. CASE level = "ObjectKey" /\ x = "BeginStringOrEmpty"
    <3>1. x \in MemberSteps
      BY <2>1 DEF MemberSteps
    <3> QED  BY <1>3, <2>1, <3>1, FitsAt
  <2>2. CASE level = "ArrayValue" /\ x = "BeginValueOrEmpty"
    <3>1. x \in ValueSteps
      BY <2>2 DEF ValueSteps
    <3> QED  BY <1>3, <1>4, <2>2, <3>1, FitsAt
  <2> QED  BY <2>1, <2>2
<1>7. Live(t)
  BY <1>2, <1>5, <1>6 DEF Live
<1>8. Grammar!Residuals(p, c) = {ToCome(x, t.parseState)}
  <2>1. CASE level = "ObjectKey" /\ x = "BeginStringOrEmpty"
    <3>1. ToCome(x, t.parseState) = Append(AllOpened(st), "FirstMember")
      BY <1>3, <2>1, ToComeIs DEF AtMember
    <3>2. "ObjectKey" # "ArrayValue"
      OBVIOUS
    <3> QED  BY <2>1, <3>1, <3>2, Zenon
  <2>2. CASE level = "ArrayValue" /\ x = "BeginValueOrEmpty"
    <3>1. ToCome(x, t.parseState) = Append(AllOpened(st), "FirstElement")
      BY <1>3, <2>2, ToComeIs DEF AtValue
    <3>2. "ObjectKey" # "ArrayValue"
      OBVIOUS
    <3> QED  BY <2>2, <3>1, <3>2, Zenon
  <2> QED  BY <2>1, <2>2
<1> QED  BY <1>2, <1>5, <1>7, <1>8 DEF Goes, t, u

\* stateBeginValue is a step of the grammar.
LEMMA BeginValueGoes ==
    ASSUME NEW s, IsScanner(s), s.err = "nil", s.endTop = FALSE, Stack(s.parseState),
           ~TopIs(s.parseState, "ObjectKey"), NEW X \in {"NextElement", "FirstElement"}, NEW c,
           s.step = IF X = "NextElement" THEN "BeginValue" ELSE "BeginValueOrEmpty",
           c = "]" => X = "NextElement"
    PROVE  LET t == BeginValue(s, c).scan
               p == AtValue(s.parseState, X)
           IN  Goes(p, s.bytes, c, t) \/ Fails(p, s.bytes, c, t)
<1> DEFINE st == s.parseState
           p == AtValue(st, X)
           t == BeginValue(s, c).scan
<1>0. "/" \notin Space /\ "]" \notin Space /\ Space \cap {"{", "[", "quote", "-", "0", "t", "f", "n"} = {}
      /\ Space \cap Digit1 = {} /\ Digit1 \cap {"{", "[", "quote", "-", "0", "t", "f", "n", "/", "]"} = {}
  BY DEF Space, Digit1
<1>1. CASE c \in Space
  <2>1. t = s
    BY <1>0, <1>1 DEF BeginValue, Skip, Returns
  <2>2. s.step \in ValueSteps /\ s.step # "EndTop" /\ s.step \notin Slashes
    BY DEF ValueSteps, Slashes
  <2>3. Live(s)
    BY <2>2, FitsAt DEF Live
  <2>4. ToCome(s.step, st) = p
    <3>1. CASE X = "NextElement"
      BY <3>1, ToComeIs
    <3>2. CASE X = "FirstElement"
      BY <3>2, ToComeIs
    <3> QED  BY <3>1, <3>2
  <2>5. Grammar!Residuals(p, c) = {p}
    BY <1>1, ValueReads, Zenon
  <2> QED  BY <2>1, <2>2, <2>3, <2>4, <2>5 DEF Goes
<1>2. CASE c = "/"
  <2>1. t = Go(s, "MaybeCommentAtBeginValue")
    BY <1>0, <1>2 DEF BeginValue, Skip, Returns
  <2>2. "MaybeCommentAtBeginValue" \in ValueSteps /\ "MaybeCommentAtBeginValue" # "EndTop"
    BY DEF ValueSteps
  <2>3. Fits("MaybeCommentAtBeginValue", st)
    BY <2>2, FitsAt, Zenon
  <2>4. Grammar!Residuals(p, c) = {ToCome("MaybeCommentAtBeginValue", st)}
    <3>1. Grammar!Residuals(p, c) = {Append(AtValue(st, "FirstElement"), "Slash")}
      BY <1>2, ValueReads
    <3>2. ToCome("MaybeCommentAtBeginValue", st) = Append(AtValue(st, "FirstElement"), "Slash")
      BY ToComeIs, Zenon
    <3> HIDE DEF p
    <3> QED  BY <3>1, <3>2, Zenon
  <2>5. Goes(p, s.bytes, c, Go(s, "MaybeCommentAtBeginValue"))
    BY <1>2, <2>2, <2>3, <2>4, GoGoes, Zenon
  <2> QED  BY <2>1, <2>5, Zenon
<1>3. ASSUME c \notin Space \cup {"/"}
      PROVE  /\ (\A after : Grammar!Begins(c, after) = {}) => Grammar!Residuals(p, c) = {}
             /\ \A word \in Seq(Symbol) : (\A after : Grammar!Begins(c, after) = {after \o word}) =>
                    Grammar!Residuals(p, c) = {AllOpened(st) \o word}
  <2>1. c \notin Space \cup {"/"} /\ ~(c = "]" /\ X = "FirstElement" /\ TopIs(st, "ArrayValue"))
    BY <1>3
  <2> QED  BY <2>1, ValueReads
<1>4. CASE c \in {"{", "["}
  <2> DEFINE level == IF c = "{" THEN "ObjectKey" ELSE "ArrayValue"
             x == IF c = "{" THEN "BeginStringOrEmpty" ELSE "BeginValueOrEmpty"
             m == IF c = "{" THEN "FirstMember" ELSE "FirstElement"
  <2>1. t = Push(Go(s, x), level)
    BY <1>0, <1>4 DEF BeginValue, Returns
  <2>2. \A after : Grammar!Begins(c, after) = {after \o <<m>>}
    BY <1>4, BeginsFollow
  <2>3. m \in Symbol /\ level \in Levels
    BY DEF Symbol, Levels
  <2>4. \/ m = "FirstMember" /\ level = "ObjectKey" /\ x = "BeginStringOrEmpty"
        \/ m = "FirstElement" /\ level = "ArrayValue" /\ x = "BeginValueOrEmpty"
    <3>1. c = "{" => m = "FirstMember" /\ level = "ObjectKey" /\ x = "BeginStringOrEmpty"
      OBVIOUS
    <3>2. c # "{" => m = "FirstElement" /\ level = "ArrayValue" /\ x = "BeginValueOrEmpty"
      OBVIOUS
    <3> HIDE DEF level, x, m
    <3> QED  BY <3>1, <3>2, Zenon
  <2> HIDE DEF level, x, m
  <2>5. <<m>> \in Seq(Symbol) /\ AllOpened(st) \in Seq(Symbol)
    BY <2>3, StackIs
  <2>6. Grammar!Residuals(p, c) = {AllOpened(st) \o <<m>>}
    BY <1>0, <1>3, <1>4, <2>2, <2>5
  <2>7. AllOpened(st) \o <<m>> = Append(AllOpened(st), m)
    BY <2>3, <2>5, Concatenation1
  <2> HIDE DEF p
  <2>8. Goes(p, s.bytes, c, Push(Go(s, x), level))
    BY <2>3, <2>4, <2>6, <2>7, PushGoes
  <2> QED  BY <2>1, <2>8 DEF p
<1>5. CASE c \in {"quote", "-", "0", "t", "f", "n"} \cup Digit1
  <2> DEFINE x == CASE c = "quote"  -> "InString"
                    [] c = "-"      -> "Neg"
                    [] c = "0"      -> "State0"
                    [] c \in Digit1 -> "State1"
                    [] OTHER        -> c
  <2>1. t = Go(s, x)
    BY <1>0, <1>5 DEF BeginValue, Returns
  <2>2. x \in PlainSteps \cup {"InString"}
    BY <1>5 DEF PlainSteps
  <2>3. \A after : Grammar!Begins(c, after) = {after \o InTheLiteral[x]}
    <3>1. CASE c = "quote"
      <4>1. x = "InString"
        BY <1>0, <3>1
      <4>2. \A after : Grammar!Begins(c, after) = {after \o <<"Chars">>}
        BY <3>1, BeginsFollow
      <4> HIDE DEF x
      <4> QED  BY <4>1, <4>2, LiteralWords, Zenon
    <3>2. CASE c = "-"
      <4>1. x = "Neg"
        BY <1>0, <3>2
      <4>2. \A after : Grammar!Begins(c, after) = {after \o <<"Int">>}
        BY <3>2, BeginsFollow
      <4> HIDE DEF x
      <4> QED  BY <4>1, <4>2, LiteralWords, Zenon
    <3>3. CASE c = "0"
      <4>1. x = "State0"
        BY <1>0, <3>3
      <4>2. \A after : Grammar!Begins(c, after) = {after \o <<"Fraction">>}
        BY <3>3, BeginsFollow
      <4> HIDE DEF x
      <4> QED  BY <4>1, <4>2, LiteralWords, Zenon
    <3>4. CASE c \in Digit1
      <4>1. x = "State1"
        BY <1>0, <3>4
      <4>2. \A after : Grammar!Begins(c, after) = {after \o <<"Fraction", "Digits">>}
        BY <3>4, BeginsFollow
      <4> HIDE DEF x
      <4> QED  BY <4>1, <4>2, LiteralWords, Zenon
    <3>5. CASE c = "t"
      <4>1. x = "t"
        BY <1>0, <3>5
      <4>2. \A after : Grammar!Begins(c, after) = {after \o <<"e", "u", "r">>}
        BY <3>5, BeginsFollow
      <4> HIDE DEF x
      <4> QED  BY <4>1, <4>2, LiteralWords, Zenon
    <3>6. CASE c = "f"
      <4>1. x = "f"
        BY <1>0, <3>6
      <4>2. \A after : Grammar!Begins(c, after) = {after \o <<"e", "s", "l", "a">>}
        BY <3>6, BeginsFollow
      <4> HIDE DEF x
      <4> QED  BY <4>1, <4>2, LiteralWords, Zenon
    <3>7. CASE c = "n"
      <4>1. x = "n"
        BY <1>0, <3>7
      <4>2. \A after : Grammar!Begins(c, after) = {after \o <<"l", "l", "u">>}
        BY <3>7, BeginsFollow
      <4> HIDE DEF x
      <4> QED  BY <4>1, <4>2, LiteralWords, Zenon
    <3> QED  BY <1>5, <3>1, <3>2, <3>3, <3>4, <3>5, <3>6, <3>7
  <2>4. c \notin Space \cup {"/", "]"}
    BY <1>0, <1>5
  <2> HIDE DEF x
  <2>5. Goes(p, s.bytes, c, Go(s, x))
    BY <2>2, <2>3, <2>4, LiteralGoes
  <2> QED  BY <2>1, <2>5
<1>6. CASE c \notin Space \cup {"/", "{", "[", "quote", "-", "0", "t", "f", "n"} \cup Digit1
  <2>1. t = Error(s, c).scan
    BY <1>6 DEF BeginValue
  <2>2. \A after : Grammar!Begins(c, after) = {}
    BY <1>6, BeginsFollow
  <2> QED  BY <1>3, <1>6, <2>1, <2>2, ErrorFails
<1> QED  BY <1>1, <1>2, <1>4, <1>5, <1>6

\* A byte that goes on with nothing fails, however the scanner came to it.
LEMMA FailsInstead ==
    ASSUME NEW p, NEW q, NEW b, NEW c, NEW t, Goes(p, b, c, t) \/ Fails(p, b, c, t),
           Grammar!Residuals(p, c) = {}, Grammar!Residuals(q, c) = {}
    PROVE  Fails(q, b, c, t)
BY DEF Goes, Fails

\* stateBeginValueOrEmpty is a step of the grammar.
LEMMA BeginValueOrEmptyGoes ==
    ASSUME NEW s, IsScanner(s), s.err = "nil", s.endTop = FALSE, Stack(s.parseState),
           ~TopIs(s.parseState, "ObjectKey"), s.step = "BeginValueOrEmpty", NEW c
    PROVE  LET t == BeginValueOrEmpty(s, c).scan
               p == AtValue(s.parseState, "FirstElement")
           IN  Goes(p, s.bytes, c, t) \/ Fails(p, s.bytes, c, t)
<1> DEFINE st == s.parseState
           p == AtValue(st, "FirstElement")
           t == BeginValueOrEmpty(s, c).scan
<1>1. CASE c # "]"
  <2>1. t = BeginValue(s, c).scan
    BY <1>1 DEF BeginValueOrEmpty
  <2> QED  BY <1>1, <2>1, BeginValueGoes
<1>2. CASE c = "]" /\ TopIs(st, "ArrayValue")
  <2>1. t = Pop(s)
    BY <1>2, BytesAre DEF BeginValueOrEmpty, EndValue, Returns, Top, TopIs
  <2>2. Grammar!Residuals(p, c) = {Outside(st)}
    BY <1>2, ElementReads
  <2> QED  BY <1>2, <2>1, <2>2, PopGoes DEF TopIs
<1>3. CASE c = "]" /\ ~TopIs(st, "ArrayValue")
  <2>1. t = EndValue(s, c).scan
    BY <1>3 DEF BeginValueOrEmpty
  <2>2. c \notin Space \cup {"/", "}", ","}
    BY <1>3 DEF Space
  <2>3. Grammar!Residuals(AtEndValue(st), c) = {}
    <3>1. CASE st = <<>>
      <4>1. AtEndValue(st) = <<"Trailing">>
        BY <3>1, AtEndValueIs, StackIs DEF TopIs
      <4> QED  BY <2>2, <4>1, TrailingReads
    <3>2. CASE st # <<>>
      <4>1. TopIs(st, "ObjectValue")
        BY <1>3, <3>2, StackIs DEF TopIs, Levels
      <4> QED  BY <2>2, <4>1, MoreMembersReads
    <3> QED  BY <3>1, <3>2
  <2>4. \A after : Grammar!Begins(c, after) = {}
    <3>1. c \notin {"{", "[", "quote", "-", "0", "t", "f", "n"} \cup Digit1
      BY <1>3 DEF Digit1
    <3> QED  BY <3>1, BeginsFollow
  <2>5. Grammar!Residuals(p, c) = {}
    <3>1. c \notin Space \cup {"/"} /\ ~(c = "]" /\ TopIs(st, "ArrayValue"))
      BY <1>3, <2>2
    <3> QED  BY <2>4, <3>1, ValueReads
  <2>6. \/ Goes(AtEndValue(st), s.bytes, c, EndValue(s, c).scan)
        \/ Fails(AtEndValue(st), s.bytes, c, EndValue(s, c).scan)
    BY EndValueGoes
  <2> QED  BY <2>1, <2>3, <2>5, <2>6, FailsInstead
<1> QED  BY <1>1, <1>2, <1>3

\* Space and the quote of a key, in front of a member.
LEMMA MemberReadsSpace ==
    ASSUME NEW st, Stack(st), TopIs(st, "ObjectKey"), NEW X \in {"NextMember", "FirstMember"}, NEW c \in Space
    PROVE  Grammar!Residuals(AtMember(st, X), c) = {AtMember(st, X)}
BY MemberReads, Zenon

LEMMA MemberReadsKey ==
    ASSUME NEW st, Stack(st), TopIs(st, "ObjectKey"), NEW X \in {"NextMember", "FirstMember"}
    PROVE  Grammar!Residuals(AtMember(st, X), "quote") = {AtEndValue(st) \o <<"Chars">>}
BY MemberReads, Zenon

LEMMA MemberReadsSlash ==
    ASSUME NEW st, Stack(st), TopIs(st, "ObjectKey"), NEW X \in {"NextMember", "FirstMember"}
    PROVE  Grammar!Residuals(AtMember(st, X), "/") = {Append(AtMember(st, "NextMember"), "Slash")}
BY MemberReads, Zenon

LEMMA MemberReadsNothing ==
    ASSUME NEW st, Stack(st), TopIs(st, "ObjectKey"), NEW X \in {"NextMember", "FirstMember"},
           NEW c, c \notin Space \cup {"/", "quote"}, ~(c = "}" /\ X = "FirstMember")
    PROVE  Grammar!Residuals(AtMember(st, X), c) = {}
BY MemberReads, Zenon

\* In front of member X.
LEMMA BeginStringGoes ==
    ASSUME NEW s, IsScanner(s), s.err = "nil", s.endTop = FALSE, Stack(s.parseState),
           TopIs(s.parseState, "ObjectKey"), NEW X \in {"NextMember", "FirstMember"}, NEW c,
           s.step = IF X = "NextMember" THEN "BeginString" ELSE "BeginStringOrEmpty",
           c = "}" => X = "NextMember"
    PROVE  LET t == BeginString(s, c).scan
               p == AtMember(s.parseState, X)
           IN  Goes(p, s.bytes, c, t) \/ Fails(p, s.bytes, c, t)
<1> DEFINE st == s.parseState
           p == AtMember(st, X)
           t == BeginString(s, c).scan
           R == Grammar!Residuals(p, c)
<1>0. /\ c \in Space => R = {p}
      /\ c = "/" => R = {Append(AtMember(st, "NextMember"), "Slash")}
      /\ c = "quote" => R = {AtEndValue(st) \o <<"Chars">>}
      /\ c \notin Space \cup {"/", "quote"} /\ ~(c = "}" /\ X = "FirstMember") => R = {}
  <2>1. c \in Space => R = {p}
    BY MemberReadsSpace
  <2>2. c = "/" => R = {Append(AtMember(st, "NextMember"), "Slash")}
    BY MemberReadsSlash
  <2>3. c = "quote" => R = {AtEndValue(st) \o <<"Chars">>}
    BY MemberReadsKey
  <2>4. c \notin Space \cup {"/", "quote"} /\ ~(c = "}" /\ X = "FirstMember") => R = {}
    BY MemberReadsNothing
  <2> QED  BY <2>1, <2>2, <2>3, <2>4, Zenon
<1> HIDE DEF R
<1>1. CASE c \in Space
  <2>1. t = s
    BY <1>1, BytesAre DEF BeginString, Skip, Returns
  <2>2. s.step \in MemberSteps /\ s.step # "EndTop" /\ s.step \notin Slashes
    BY DEF MemberSteps, Slashes
  <2>3. Live(s)
    BY <2>2, FitsAt DEF Live
  <2>4. ToCome(s.step, st) = p
    <3>1. CASE X = "NextMember"
      BY <3>1, ToComeIs
    <3>2. CASE X = "FirstMember"
      BY <3>2, ToComeIs
    <3> QED  BY <3>1, <3>2
  <2>5. Grammar!Residuals(p, c) = {p}
    BY <1>0, <1>1 DEF R
  <2> QED  BY <2>1, <2>2, <2>3, <2>4, <2>5 DEF Goes
<1>2. CASE c = "/"
  <2>1. t = Go(s, "MaybeCommentAtBeginString")
    BY <1>2, BytesAre DEF BeginString, Skip, Returns
  <2>2. "MaybeCommentAtBeginString" \in MemberSteps /\ "MaybeCommentAtBeginString" # "EndTop"
    BY DEF MemberSteps
  <2>3. Fits("MaybeCommentAtBeginString", st)
    BY <2>2, FitsAt, Zenon
  <2>4. Grammar!Residuals(p, c) = {ToCome("MaybeCommentAtBeginString", st)}
    <3>1. Grammar!Residuals(p, c) = {Append(AtMember(st, "NextMember"), "Slash")}
      BY <1>0, <1>2 DEF R
    <3>2. ToCome("MaybeCommentAtBeginString", st) = Append(AtMember(st, "NextMember"), "Slash")
      BY ToComeIs, Zenon
    <3> HIDE DEF p
    <3> QED  BY <3>1, <3>2, Zenon
  <2>5. Goes(p, s.bytes, c, Go(s, "MaybeCommentAtBeginString"))
    BY <1>2, <2>2, <2>3, <2>4, GoGoes, Zenon
  <2> QED  BY <2>1, <2>5, Zenon
<1>3. CASE c = "quote"
  <2>1. t = Go(s, "InString")
    BY <1>3, BytesAre DEF BeginString, Returns
  <2>2. "InString" \in StringSteps /\ "InString" # "EndTop" /\ "InString" \notin Slashes
    BY DEF StringSteps, Slashes
  <2>3. Fits("InString", st)
    BY <2>2, FitsAt, Zenon
  <2>4. Grammar!Residuals(p, c) = {ToCome("InString", st)}
    <3>1. Grammar!Residuals(p, c) = {AtEndValue(st) \o <<"Chars">>}
      BY <1>0, <1>3 DEF R
    <3>2. ToCome("InString", st) = AtEndValue(st) \o InTheLiteral["InString"]
      <4>1. "InString" \in PlainSteps \cup StringSteps
        BY <2>2
      <4> QED  BY <4>1, ToComeIs, Zenon
    <3> HIDE DEF p
    <3> QED  BY <3>1, <3>2, LiteralWords, Zenon
  <2>5. Goes(p, s.bytes, c, Go(s, "InString"))
    BY <2>2, <2>3, <2>4, GoGoes, Zenon
  <2> QED  BY <2>1, <2>5, Zenon
<1>4. CASE c \notin Space \cup {"/", "quote"}
  <2>1. t = Error(s, c).scan
    BY <1>4 DEF BeginString
  <2>2. Grammar!Residuals(p, c) = {}
    BY <1>0, <1>4 DEF R
  <2> QED  BY <2>1, <2>2, ErrorFails
<1> QED  BY <1>1, <1>2, <1>3, <1>4

\* stateBeginStringOrEmpty is a step of the grammar.
LEMMA BeginStringOrEmptyGoes ==
    ASSUME NEW s, IsScanner(s), s.err = "nil", s.endTop = FALSE, Stack(s.parseState),
           TopIs(s.parseState, "ObjectKey"), s.step = "BeginStringOrEmpty", NEW c
    PROVE  LET t == BeginStringOrEmpty(s, c).scan
               p == AtMember(s.parseState, "FirstMember")
           IN  Goes(p, s.bytes, c, t) \/ Fails(p, s.bytes, c, t)
<1> DEFINE st == s.parseState
           p == AtMember(st, "FirstMember")
           t == BeginStringOrEmpty(s, c).scan
<1>1. CASE c # "}"
  <2>1. t = BeginString(s, c).scan
    BY <1>1 DEF BeginStringOrEmpty
  <2> QED  BY <1>1, <2>1, BeginStringGoes
<1>2. CASE c = "}"
  <2> DEFINE u == SetTop(s, "ObjectValue")
  <2>1. t = EndValue(u, c).scan
    BY <1>2 DEF BeginStringOrEmpty
  <2>2. /\ IsScanner(u) /\ u.err = "nil" /\ u.endTop = FALSE /\ u.bytes = s.bytes
        /\ u.parseState = [st EXCEPT ![Len(st)] = "ObjectValue"]
    BY SetTopIs
  <2>3. Stack(u.parseState) /\ TopIs(u.parseState, "ObjectValue") /\ Outside(u.parseState) = Outside(st)
    BY <2>2, SetsTop DEF Levels, TopIs
  <2> HIDE DEF u
  <2>4. EndValue(u, c).scan = Pop(u)
    BY <1>2, <2>3, BytesAre DEF EndValue, Returns, Top, TopIs
  <2>5. Grammar!Residuals(p, c) = {Outside(u.parseState)}
    <3>1. "FirstMember" \in {"NextMember", "FirstMember"}
      OBVIOUS
    <3>2. Grammar!Residuals(p, c) = {Outside(st)}
      BY <1>2, <3>1, MemberReads, Zenon
    <3> QED  BY <2>3, <3>2, Zenon
  <2>6. Goes(p, u.bytes, c, Pop(u))
    BY <2>2, <2>3, <2>5, PopGoes DEF TopIs
  <2> QED  BY <2>1, <2>2, <2>4, <2>6
<1> QED  BY <1>1, <1>2

-----------------------------------------------------------------------------
(* Comments.                                                                *)

Lines == {"InCommentAtBeginValue", "InCommentAtBeginString", "InCommentAtEndValue"}

\* The states of a comment and where they lead.
LEMMA CommentSteps ==
    /\ DOMAIN AfterComment = Slashes /\ DOMAIN AfterLine = Lines
    /\ AfterComment["MaybeCommentAtBeginValue"] = "InCommentAtBeginValue"
    /\ AfterComment["MaybeCommentAtBeginString"] = "InCommentAtBeginString"
    /\ AfterComment["MaybeCommentAtEndValue"] = "InCommentAtEndValue"
    /\ AfterLine["InCommentAtBeginValue"] = "BeginValueOrEmpty"
    /\ AfterLine["InCommentAtBeginString"] = "BeginString"
    /\ AfterLine["InCommentAtEndValue"] = "EndValue"
BY DEF AfterComment, AfterLine, Slashes, Lines

\* Each place where a comment may stand has a state to come back to.
LEMMA PlacesAre ==
    ASSUME NEW st, Stack(st)
    PROVE  /\ ~TopIs(st, "ObjectKey") => AtValue(st, "FirstElement") \in Seq(Symbol)
           /\ TopIs(st, "ObjectKey") => AtMember(st, "NextMember") \in Seq(Symbol)
<1>1. "FirstElement" \in Symbol /\ "Value" \in Symbol /\ "NextMember" \in Symbol
  BY DEF Symbol
<1>2. st # <<>> => Outside(st) \in Seq(Symbol)
  BY StackIs
<1>3. ~TopIs(st, "ObjectKey") => AllOpened(st) \in Seq(Symbol)
  BY StackIs
<1>4. /\ TopIs(st, "ArrayValue") => st # <<>>
      /\ TopIs(st, "ObjectKey") => st # <<>>
  BY DEF TopIs
<1>5. /\ TopIs(st, "ArrayValue") => AtValue(st, "FirstElement") = Append(Outside(st), "FirstElement")
      /\ ~TopIs(st, "ArrayValue") => AtValue(st, "FirstElement") = Append(AllOpened(st), "Value")
      /\ AtMember(st, "NextMember") = Append(Outside(st), "NextMember")
  BY DEF AtValue, AtMember
<1>6. \A q \in Seq(Symbol), X \in Symbol : Append(q, X) \in Seq(Symbol)
  BY AppendIs
<1> QED  BY <1>1, <1>2, <1>3, <1>4, <1>5, <1>6

\* The symbols above which a comment stands.
LEMMA CommentsAre ==
    ASSUME NEW st, NEW x \in Slashes, Fits(x, st)
    PROVE  \E q \in Seq(Symbol) :
             LET line == AfterComment[x]
                 next == AfterLine[line]
             IN  /\ ToCome(x, st) = Append(q, "Slash")
                 /\ ToCome(line, st) = Append(q, "Line") /\ Fits(line, st) /\ line \in Lines
                 /\ ToCome(next, st) = q /\ Fits(next, st)
                 /\ line # "EndTop" /\ next # "EndTop" /\ line \notin Slashes /\ next \notin Slashes
<1>1. Stack(st)
  BY DEF Fits
<1>2. /\ "BeginValueOrEmpty" \in ValueSteps /\ "InCommentAtBeginValue" \in ValueSteps
      /\ "InCommentAtEndValue" \in ValueSteps
      /\ "BeginString" \in MemberSteps /\ "InCommentAtBeginString" \in MemberSteps
  BY DEF ValueSteps, MemberSteps
<1>3. CASE x = "MaybeCommentAtBeginValue"
  <2> DEFINE q == AtValue(st, "FirstElement")
  <2>1. ~TopIs(st, "ObjectKey")
    BY <1>3 DEF Fits, ValueSteps
  <2>2. q \in Seq(Symbol)
    BY <1>1, <2>1, PlacesAre
  <2>3. AfterComment[x] = "InCommentAtBeginValue" /\ AfterLine["InCommentAtBeginValue"] = "BeginValueOrEmpty"
    BY <1>3, CommentSteps
  <2>4. /\ ToCome("MaybeCommentAtBeginValue", st) = Append(q, "Slash")
        /\ ToCome("InCommentAtBeginValue", st) = Append(q, "Line")
        /\ ToCome("BeginValueOrEmpty", st) = q
    BY ToComeIs, Zenon
  <2>5. Fits("InCommentAtBeginValue", st) /\ Fits("BeginValueOrEmpty", st)
    BY <1>1, <1>2, <2>1, FitsAt
  <2>6. /\ "InCommentAtBeginValue" \notin Slashes /\ "BeginValueOrEmpty" \notin Slashes
        /\ "InCommentAtBeginValue" # "EndTop" /\ "BeginValueOrEmpty" # "EndTop"
        /\ "InCommentAtBeginValue" \in Lines
    BY DEF Slashes, Lines
  <2> HIDE DEF q
  <2> QED  BY <1>3, <2>2, <2>3, <2>4, <2>5, <2>6, Zenon
<1>4. CASE x = "MaybeCommentAtBeginString"
  <2> DEFINE q == AtMember(st, "NextMember")
  <2>1. TopIs(st, "ObjectKey")
    BY <1>4 DEF Fits, MemberSteps
  <2>2. q \in Seq(Symbol)
    BY <1>1, <2>1, PlacesAre
  <2>3. AfterComment[x] = "InCommentAtBeginString" /\ AfterLine["InCommentAtBeginString"] = "BeginString"
    BY <1>4, CommentSteps
  <2>4. /\ ToCome("MaybeCommentAtBeginString", st) = Append(q, "Slash")
        /\ ToCome("InCommentAtBeginString", st) = Append(q, "Line")
        /\ ToCome("BeginString", st) = q
    BY ToComeIs, Zenon
  <2>5. Fits("InCommentAtBeginString", st) /\ Fits("BeginString", st)
    BY <1>1, <1>2, <2>1, FitsAt
  <2>6. /\ "InCommentAtBeginString" \notin Slashes /\ "BeginString" \notin Slashes
        /\ "InCommentAtBeginString" # "EndTop" /\ "BeginString" # "EndTop"
        /\ "InCommentAtBeginString" \in Lines
    BY DEF Slashes, Lines
  <2> HIDE DEF q
  <2> QED  BY <1>4, <2>2, <2>3, <2>4, <2>5, <2>6, Zenon
<1>5. CASE x = "MaybeCommentAtEndValue"
  <2> DEFINE q == AtEndValue(st)
  <2>1. ~TopIs(st, "ObjectKey")
    BY <1>5 DEF Fits, ValueSteps
  <2>2. q \in Seq(Symbol)
    BY <1>1, AtEndValueIs
  <2>3. AfterComment[x] = "InCommentAtEndValue" /\ AfterLine["InCommentAtEndValue"] = "EndValue"
    BY <1>5, CommentSteps
  <2>4. /\ ToCome("MaybeCommentAtEndValue", st) = Append(q, "Slash")
        /\ ToCome("InCommentAtEndValue", st) = Append(q, "Line")
        /\ ToCome("EndValue", st) = q
    BY ToComeIs, Zenon
  <2>5. Fits("InCommentAtEndValue", st) /\ Fits("EndValue", st)
    BY <1>1, <1>2, <2>1, FitsAt
  <2>6. /\ "InCommentAtEndValue" \notin Slashes /\ "EndValue" \notin Slashes
        /\ "InCommentAtEndValue" # "EndTop" /\ "EndValue" # "EndTop"
        /\ "InCommentAtEndValue" \in Lines
    BY DEF Slashes, Lines
  <2> HIDE DEF q
  <2> QED  BY <1>5, <2>2, <2>3, <2>4, <2>5, <2>6, Zenon
<1> QED  BY <1>3, <1>4, <1>5 DEF Slashes

\* What comes of a symbol that is not empty.
LEMMA TopReads ==
    ASSUME NEW q \in Seq(Symbol), NEW X \in Symbol, X \notin Grammar!Nullable, NEW c
    PROVE  /\ Grammar!Rules(c)[X] = {} => Grammar!Residuals(Append(q, X), c) = {}
           /\ Grammar!Rules(c)[X] = {<<>>} => Grammar!Residuals(Append(q, X), c) = {q}
           /\ \A Y \in Symbol : Grammar!Rules(c)[X] = {<<Y>>} =>
                Grammar!Residuals(Append(q, X), c) = {Append(q, Y)}
<1>1. /\ Grammar!Rules(c)[X] = {} => Grammar!Residuals(Append(q, X), c) = {}
      /\ \A word : Grammar!Rules(c)[X] = {word} => Grammar!Residuals(Append(q, X), c) = {q \o word}
  BY ReadsSymbol
<1>2. q \o <<>> = q /\ \A Y \in Symbol : q \o <<Y>> = Append(q, Y)
  BY Concatenation1
<1> QED  BY <1>1, <1>2, Zenon

FailsLate(p, b, c, t) ==
    /\ IsScanner(t) /\ t.step = "Error" /\ t.err = "/" /\ t.offset = b - 1
    /\ Grammar!Residuals(p, c) = {}

\* The byte before.
LEMMA BackIs ==
    ASSUME NEW s, IsScanner(s)
    PROVE  LET r == [s EXCEPT !.bytes = @ - 1]
           IN  IsScanner(r) /\ r.bytes = s.bytes - 1
BY DEF IsScanner

\* The states after a first slash: a second one, or an error at the first.
LEMMA MaybeCommentGoes ==
    ASSUME NEW s, IsScanner(s), s.err = "nil", s.endTop = FALSE, s.step \in Slashes,
           Fits(s.step, s.parseState), NEW c \in AllBytes
    PROVE  LET t == MaybeComment(s, c).scan
               p == ToCome(s.step, s.parseState)
           IN  Goes(p, s.bytes, c, t) \/ FailsLate(p, s.bytes, c, t)
<1> DEFINE st == s.parseState
           t == MaybeComment(s, c).scan
           p == ToCome(s.step, st)
           line == AfterComment[s.step]
<1>1. PICK q \in Seq(Symbol) :
        /\ p = Append(q, "Slash") /\ ToCome(line, st) = Append(q, "Line")
        /\ Fits(line, st) /\ line # "EndTop" /\ line \notin Slashes
  BY CommentsAre
<1>2. "Slash" \in Symbol /\ "Line" \in Symbol /\ "Slash" \notin Grammar!Nullable
  BY DEF Symbol, Grammar!Nullable
<1>3. /\ c = "/" => Grammar!Rules(c)["Slash"] = {<<"Line">>}
      /\ c # "/" => Grammar!Rules(c)["Slash"] = {}
  BY CharsFollow
<1>4. CASE c = "/"
  <2>1. t = Go(s, line)
    BY <1>4 DEF MaybeComment, Skip, Returns
  <2>2. Grammar!Residuals(Append(q, "Slash"), c) = {Append(q, "Line")}
    BY <1>2, <1>3, <1>4, TopReads, Zenon
  <2> HIDE DEF p, line
  <2>3. Goes(p, s.bytes, c, Go(s, line))
    BY <1>1, <2>2, GoGoes
  <2> QED  BY <2>1, <2>3 DEF p
<1>5. CASE c # "/"
  <2> DEFINE r == [s EXCEPT !.bytes = @ - 1]
  <2>1. t = Error(r, "/").scan
    BY <1>5 DEF MaybeComment
  <2>2. IsScanner(r) /\ r.bytes = s.bytes - 1
    BY BackIs
  <2>3. Grammar!Residuals(Append(q, "Slash"), c) = {}
    BY <1>2, <1>3, <1>5, TopReads, Zenon
  <2> HIDE DEF r
  <2>4. /\ IsScanner(Error(r, "/").scan) /\ Error(r, "/").scan.step = "Error"
        /\ Error(r, "/").scan.err = "/" /\ Error(r, "/").scan.offset = r.bytes
    BY <2>2, ErrorIs
  <2> HIDE DEF p
  <2> QED  BY <1>1, <2>1, <2>2, <2>3, <2>4 DEF FailsLate, p
<1> QED  BY <1>4, <1>5

\* The states of a comment, up to the end of its line.
LEMMA InCommentGoes ==
    ASSUME NEW s, IsScanner(s), s.err = "nil", s.endTop = FALSE, s.step \in Lines,
           Fits(s.step, s.parseState), NEW c \in AllBytes
    PROVE  Goes(ToCome(s.step, s.parseState), s.bytes, c, InComment(s, c).scan)
<1> DEFINE st == s.parseState
           t == InComment(s, c).scan
           p == ToCome(s.step, st)
           next == AfterLine[s.step]
<1>1. PICK x \in Slashes : AfterComment[x] = s.step /\ Fits(x, st)
  <2>1. Stack(st)
    BY DEF Fits
  <2>2. CASE s.step = "InCommentAtBeginValue"
    <3>1. "MaybeCommentAtBeginValue" \in Slashes /\ "MaybeCommentAtBeginValue" \in ValueSteps
      BY DEF Slashes, ValueSteps
    <3>2. ~TopIs(st, "ObjectKey")
      BY <2>2 DEF Fits, ValueSteps
    <3>3. Fits("MaybeCommentAtBeginValue", st)
      BY <2>1, <3>1, <3>2, FitsAt
    <3> QED  BY <2>2, <3>1, <3>3, CommentSteps
  <2>3. CASE s.step = "InCommentAtBeginString"
    <3>1. "MaybeCommentAtBeginString" \in Slashes /\ "MaybeCommentAtBeginString" \in MemberSteps
      BY DEF Slashes, MemberSteps
    <3>2. TopIs(st, "ObjectKey")
      BY <2>3 DEF Fits, MemberSteps
    <3>3. Fits("MaybeCommentAtBeginString", st)
      BY <2>1, <3>1, <3>2, FitsAt
    <3> QED  BY <2>3, <3>1, <3>3, CommentSteps
  <2>4. CASE s.step = "InCommentAtEndValue"
    <3>1. "MaybeCommentAtEndValue" \in Slashes /\ "MaybeCommentAtEndValue" \in ValueSteps
      BY DEF Slashes, ValueSteps
    <3>2. ~TopIs(st, "ObjectKey")
      BY <2>4 DEF Fits, ValueSteps
    <3>3. Fits("MaybeCommentAtEndValue", st)
      BY <2>1, <3>1, <3>2, FitsAt
    <3> QED  BY <2>4, <3>1, <3>3, CommentSteps
  <2> QED  BY <2>2, <2>3, <2>4 DEF Lines
<1>2. PICK q \in Seq(Symbol) :
        /\ p = Append(q, "Line") /\ ToCome(next, st) = q /\ Fits(next, st)
        /\ s.step # "EndTop" /\ next # "EndTop" /\ s.step \notin Slashes /\ next \notin Slashes
  BY <1>1, CommentsAre
<1>3. "Line" \in Symbol /\ "Line" \notin Grammar!Nullable
  BY DEF Symbol, Grammar!Nullable
<1>4. /\ c = "newline" => Grammar!Rules(c)["Line"] = {<<>>}
      /\ c # "newline" => Grammar!Rules(c)["Line"] = {<<"Line">>}
  BY CharsFollow
<1>5. CASE c = "newline"
  <2>1. t = Go(s, next)
    BY <1>5 DEF InComment, Skip, Returns
  <2>2. Grammar!Residuals(Append(q, "Line"), c) = {q}
    BY <1>3, <1>4, <1>5, TopReads, Zenon
  <2> HIDE DEF p, next
  <2>3. Goes(p, s.bytes, c, Go(s, next))
    BY <1>2, <2>2, GoGoes
  <2> QED  BY <2>1, <2>3 DEF p
<1>6. CASE c # "newline"
  <2>1. t = s
    BY <1>6 DEF InComment, Skip, Returns
  <2>2. Grammar!Residuals(Append(q, "Line"), c) = {Append(q, "Line")}
    BY <1>3, <1>4, <1>6, TopReads, Zenon
  <2>3. Live(s)
    BY <1>2 DEF Live
  <2> QED  BY <1>2, <2>1, <2>2, <2>3 DEF Goes
<1> QED  BY <1>5, <1>6

-----------------------------------------------------------------------------
(* Literals.                                                                *)

InLiterals == PlainSteps \cup StringSteps

After(x, c)  == {e \in Literals[x] : c \in e[1]}
Chosen(x, c) == (CHOOSE e \in After(x, c) : TRUE)[2]

\* The one entry of a table that takes a byte.
LEMMA PairIs ==
    ASSUME NEW a, NEW b
    PROVE  <<a, b>>[1] = a /\ <<a, b>>[2] = b
OBVIOUS

LEMMA OneNext ==
    ASSUME NEW x, NEW c, NEW B, NEW y, Literals[x] = {<<B, y>>}
    PROVE  /\ c \in B => After(x, c) # {} /\ Chosen(x, c) = y
           /\ c \notin B => After(x, c) = {}
<1> DEFINE p == <<B, y>>
<1>1. p[1] = B /\ p[2] = y
  BY PairIs, Zenon
<1>2. Literals[x] = {p}
  OBVIOUS
<1> HIDE DEF p
<1> QED  BY <1>1, <1>2 DEF After, Chosen

LEMMA TwoNext ==
    ASSUME NEW x, NEW c, NEW B, NEW y, NEW D, NEW z,
           Literals[x] = {<<B, y>>, <<D, z>>}, B \cap D = {}
    PROVE  /\ c \in B => After(x, c) # {} /\ Chosen(x, c) = y
           /\ c \in D => After(x, c) # {} /\ Chosen(x, c) = z
           /\ c \notin B \cup D => After(x, c) = {}
<1> DEFINE p == <<B, y>>
           q == <<D, z>>
<1>1. p[1] = B /\ p[2] = y /\ q[1] = D /\ q[2] = z
  BY PairIs, Zenon
<1>2. Literals[x] = {p, q}
  OBVIOUS
<1> HIDE DEF p, q
<1> QED  BY <1>1, <1>2 DEF After, Chosen

LEMMA ThreeNext ==
    ASSUME NEW x, NEW c, NEW B, NEW y, NEW D, NEW z, NEW F, NEW a,
           Literals[x] = {<<B, y>>, <<D, z>>, <<F, a>>}, B \cap D = {}, B \cap F = {}, D \cap F = {}
    PROVE  /\ c \in B => After(x, c) # {} /\ Chosen(x, c) = y
           /\ c \in D => After(x, c) # {} /\ Chosen(x, c) = z
           /\ c \in F => After(x, c) # {} /\ Chosen(x, c) = a
           /\ c \notin B \cup D \cup F => After(x, c) = {}
<1> DEFINE p == <<B, y>>
           q == <<D, z>>
           r == <<F, a>>
<1>1. p[1] = B /\ p[2] = y /\ q[1] = D /\ q[2] = z /\ r[1] = F /\ r[2] = a
  BY PairIs, Zenon
<1>2. Literals[x] = {p, q, r}
  OBVIOUS
<1> HIDE DEF p, q, r
<1> QED  BY <1>1, <1>2 DEF After, Chosen

\* The table of the states of a literal.
LEMMA LiteralsAre ==
    /\ Literals["t"] = {<<{"r"}, "tr">>} /\ Literals["tr"] = {<<{"u"}, "tru">>}
    /\ Literals["tru"] = {<<{"e"}, "EndValue">>}
    /\ Literals["f"] = {<<{"a"}, "fa">>} /\ Literals["fa"] = {<<{"l"}, "fal">>}
    /\ Literals["fal"] = {<<{"s"}, "fals">>} /\ Literals["fals"] = {<<{"e"}, "EndValue">>}
    /\ Literals["n"] = {<<{"u"}, "nu">>} /\ Literals["nu"] = {<<{"l"}, "nul">>}
    /\ Literals["nul"] = {<<{"l"}, "EndValue">>}
    /\ Literals["Neg"] = {<<{"0"}, "State0">>, <<Digit1, "State1">>}
    /\ Literals["State0"] = {<<{"."}, "Dot">>, <<{"e"}, "E">>}
    /\ Literals["State1"] = {<<Digit, "State1">>, <<{"."}, "Dot">>, <<{"e"}, "E">>}
    /\ Literals["Dot"] = {<<Digit, "Dot0">>}
    /\ Literals["Dot0"] = {<<Digit, "Dot0">>, <<{"e"}, "E">>}
    /\ Literals["E"] = {<<{"+", "-"}, "ESign">>, <<Digit, "E0">>}
    /\ Literals["ESign"] = {<<Digit, "E0">>} /\ Literals["E0"] = {<<Digit, "E0">>}
    /\ Literals["InStringEsc"] = {<<Escape, "InString">>, <<{"u"}, "InStringEscU">>}
    /\ Literals["InStringEscU"] = {<<Hex, "InStringEscU1">>}
    /\ Literals["InStringEscU1"] = {<<Hex, "InStringEscU12">>}
    /\ Literals["InStringEscU12"] = {<<Hex, "InStringEscU123">>}
    /\ Literals["InStringEscU123"] = {<<Hex, "InString">>}
BY DEF Literals, Letter

\* Each literal's symbols are one more than those of another state.
LEMMA WordsNest ==
    /\ InTheLiteral["t"] = Append(InTheLiteral["tr"], "r")
    /\ InTheLiteral["tr"] = Append(InTheLiteral["tru"], "u")
    /\ InTheLiteral["tru"] = Append(<<>>, "e")
    /\ InTheLiteral["f"] = Append(InTheLiteral["fa"], "a")
    /\ InTheLiteral["fa"] = Append(InTheLiteral["fal"], "l")
    /\ InTheLiteral["fal"] = Append(InTheLiteral["fals"], "s")
    /\ InTheLiteral["fals"] = Append(<<>>, "e")
    /\ InTheLiteral["n"] = Append(InTheLiteral["nu"], "u")
    /\ InTheLiteral["nu"] = Append(InTheLiteral["nul"], "l")
    /\ InTheLiteral["nul"] = Append(<<>>, "l")
    /\ InTheLiteral["Neg"] = Append(<<>>, "Int")
    /\ InTheLiteral["State0"] = Append(<<>>, "Fraction")
    /\ InTheLiteral["State1"] = Append(InTheLiteral["State0"], "Digits")
    /\ InTheLiteral["Dot"] = Append(InTheLiteral["Dot0"], "Digit")
    /\ InTheLiteral["Dot0"] = Append(Append(<<>>, "Exponent"), "Digits")
    /\ InTheLiteral["E"] = Append(InTheLiteral["E0"], "Signed")
    /\ InTheLiteral["ESign"] = Append(InTheLiteral["E0"], "Digit")
    /\ InTheLiteral["E0"] = Append(<<>>, "Digits")
    /\ InTheLiteral["InString"] = Append(<<>>, "Chars")
    /\ InTheLiteral["InStringEsc"] = Append(InTheLiteral["InString"], "Escaped")
    /\ InTheLiteral["InStringEscU"] = Append(InTheLiteral["InStringEscU1"], "Hex")
    /\ InTheLiteral["InStringEscU1"] = Append(InTheLiteral["InStringEscU12"], "Hex")
    /\ InTheLiteral["InStringEscU12"] = Append(InTheLiteral["InStringEscU123"], "Hex")
    /\ InTheLiteral["InStringEscU123"] = Append(InTheLiteral["InString"], "Hex")
BY DEF InTheLiteral

\* Every letter of a word leaves the rest of it.
LEMMA PendingNests ==
    ASSUME NEW st, Stack(st)
    PROVE  /\ \A x, y \in InLiterals, X \in Symbol :
                InTheLiteral[x] = Append(InTheLiteral[y], X) => ToCome(x, st) = Append(ToCome(y, st), X)
           /\ \A x \in InLiterals, X \in Symbol :
                InTheLiteral[x] = Append(<<>>, X) => ToCome(x, st) = Append(ToCome("EndValue", st), X)
           /\ \A x \in InLiterals : ToCome(x, st) \in Seq(Symbol)
           /\ ToCome("EndValue", st) = AtEndValue(st) /\ AtEndValue(st) \in Seq(Symbol)
<1> DEFINE e == AtEndValue(st)
<1>1. e \in Seq(Symbol) /\ ToCome("EndValue", st) = e
  BY AtEndValueIs, ToComeIs, Zenon
<1>2. \A x \in InLiterals : ToCome(x, st) = e \o InTheLiteral[x] /\ InTheLiteral[x] \in Seq(Symbol)
  BY ToComeIs, LiteralWords, Zenon DEF InLiterals
<1> HIDE DEF e
<1>3. \A w \in Seq(Symbol), X \in Symbol : e \o Append(w, X) = Append(e \o w, X)
  BY <1>1, ConcatenationAppend
<1>4. \A w \in Seq(Symbol) : e \o w \in Seq(Symbol)
  BY <1>1
<1>5. <<>> \in Seq(Symbol) /\ e \o <<>> = e
  BY <1>1
<1>6. ASSUME NEW x \in InLiterals, NEW y \in InLiterals, NEW X \in Symbol,
             InTheLiteral[x] = Append(InTheLiteral[y], X)
      PROVE  ToCome(x, st) = Append(ToCome(y, st), X)
  BY <1>2, <1>3, <1>6, Zenon
<1>7. ASSUME NEW x \in InLiterals, NEW X \in Symbol, InTheLiteral[x] = Append(<<>>, X)
      PROVE  ToCome(x, st) = Append(ToCome("EndValue", st), X)
  BY <1>1, <1>2, <1>3, <1>5, <1>7, Zenon
<1> QED  BY <1>1, <1>2, <1>4, <1>6, <1>7, Zenon DEF e

\* What the grammar makes of c at step x of a literal.
LiteralStep(st, x, c) ==
    \/ \E y \in InLiterals \cup {"EndValue"} :
         /\ After(x, c) # {} /\ Chosen(x, c) = y /\ (y \in PlainSteps => x \in PlainSteps)
         /\ Grammar!Residuals(ToCome(x, st), c) = {ToCome(y, st)}
    \/ /\ After(x, c) = {} /\ x \notin Numbers
       /\ Grammar!Residuals(ToCome(x, st), c) = {}
    \/ /\ After(x, c) = {} /\ x \in Numbers
       /\ Grammar!Residuals(ToCome(x, st), c) = Grammar!Residuals(AtEndValue(st), c)

\* A step that takes one of B and goes on with the rest of its symbols.
LEMMA TakesOne ==
    ASSUME NEW st, Stack(st), NEW x \in InLiterals, x \notin Numbers,
           NEW y \in InLiterals \cup {"EndValue"}, y \in PlainSteps => x \in PlainSteps,
           NEW X \in Symbol, X \notin Grammar!Nullable,
           IF y = "EndValue" THEN InTheLiteral[x] = Append(<<>>, X)
                             ELSE InTheLiteral[x] = Append(InTheLiteral[y], X),
           NEW B, Literals[x] = {<<B, y>>},
           NEW c, c \in B => Grammar!Rules(c)[X] = {<<>>}, c \notin B => Grammar!Rules(c)[X] = {}
    PROVE  LiteralStep(st, x, c)
<1> DEFINE q == ToCome(y, st)
<1>1. q \in Seq(Symbol)
  BY PendingNests, Zenon
<1>2. ToCome(x, st) = Append(q, X)
  <2>1. CASE y = "EndValue"
    BY <2>1, PendingNests, Zenon
  <2>2. CASE y # "EndValue"
    <3>1. y \in InLiterals /\ InTheLiteral[x] = Append(InTheLiteral[y], X)
      BY <2>2
    <3>2. \A w, z \in InLiterals, Y \in Symbol :
            InTheLiteral[w] = Append(InTheLiteral[z], Y) => ToCome(w, st) = Append(ToCome(z, st), Y)
      BY PendingNests, Zenon
    <3> QED  BY <3>1, <3>2
  <2> QED  BY <2>1, <2>2
<1>3. /\ c \in B => After(x, c) # {} /\ Chosen(x, c) = y
      /\ c \notin B => After(x, c) = {}
  BY OneNext, Zenon
<1> HIDE DEF q
<1>4. CASE c \in B
  <2>1. Grammar!Residuals(Append(q, X), c) = {q}
    BY <1>1, <1>4, TopReads, Zenon
  <2> QED  BY <1>2, <1>3, <1>4, <2>1, Zenon DEF LiteralStep, q
<1>5. CASE c \notin B
  <2>1. Grammar!Residuals(Append(q, X), c) = {}
    BY <1>1, <1>5, TopReads, Zenon
  <2> QED  BY <1>2, <1>3, <1>5, <2>1, Zenon DEF LiteralStep
<1> QED  BY <1>4, <1>5

\* The states of a literal are states of the table.
LEMMA LiteralNames ==
    /\ PlainSteps \subseteq InLiterals /\ StringSteps \subseteq InLiterals
    /\ Numbers \subseteq PlainSteps /\ PlainSteps \cap StringSteps = {}
    /\ "EndValue" \notin InLiterals /\ "EndTop" \notin InLiterals /\ InLiterals \cap Slashes = {}
    /\ {"r", "u", "e", "a", "l", "s", "Digit", "Hex"} \subseteq Symbol \ Grammar!Nullable
    /\ {"Chars", "Escaped", "Int", "Signed"} \subseteq Symbol \ Grammar!Nullable
    /\ {"Digits", "Fraction", "Exponent"} \subseteq Symbol \cap Grammar!Nullable
BY DEF PlainSteps, StringSteps, InLiterals, Numbers, Slashes, Symbol, Grammar!Nullable

\* The words true, false and null.
LEMMA WordSteps ==
    ASSUME NEW st, Stack(st), NEW c,
           NEW x \in {"t", "tr", "tru", "f", "fa", "fal", "fals", "n", "nu", "nul"}
    PROVE  LiteralStep(st, x, c)
<1>1. x \in InLiterals /\ x \in PlainSteps /\ x \notin Numbers
  BY DEF InLiterals, PlainSteps, Numbers
<1>2. {"tr", "tru", "fa", "fal", "fals", "nu", "nul"} \subseteq InLiterals \ {"EndValue"}
  BY DEF InLiterals, PlainSteps
<1>3. /\ Grammar!Rules(c)["r"] = IF c \in {"r"} THEN {<<>>} ELSE {}
      /\ Grammar!Rules(c)["u"] = IF c \in {"u"} THEN {<<>>} ELSE {}
      /\ Grammar!Rules(c)["e"] = IF c \in {"e"} THEN {<<>>} ELSE {}
      /\ Grammar!Rules(c)["a"] = IF c \in {"a"} THEN {<<>>} ELSE {}
      /\ Grammar!Rules(c)["l"] = IF c \in {"l"} THEN {<<>>} ELSE {}
      /\ Grammar!Rules(c)["s"] = IF c \in {"s"} THEN {<<>>} ELSE {}
  BY LiteralsFollow
<1>4. ASSUME NEW y \in InLiterals \cup {"EndValue"}, NEW X \in {"r", "u", "e", "a", "l", "s"},
             IF y = "EndValue" THEN InTheLiteral[x] = Append(<<>>, X)
                               ELSE InTheLiteral[x] = Append(InTheLiteral[y], X),
             Literals[x] = {<<{X}, y>>}
      PROVE  LiteralStep(st, x, c)
  <2>1. X \in Symbol /\ X \notin Grammar!Nullable
    BY LiteralNames
  <2>2. c \in {X} => Grammar!Rules(c)[X] = {<<>>}
    BY <1>3
  <2>3. c \notin {X} => Grammar!Rules(c)[X] = {}
    BY <1>3
  <2> QED  BY <1>1, <1>4, <2>1, <2>2, <2>3, TakesOne, Zenon
<1>5. CASE x = "t"
  BY <1>2, <1>4, <1>5, LiteralsAre, WordsNest
<1>6. CASE x = "tr"
  BY <1>2, <1>4, <1>6, LiteralsAre, WordsNest
<1>7. CASE x = "tru"
  BY <1>2, <1>4, <1>7, LiteralsAre, WordsNest
<1>8. CASE x = "f"
  BY <1>2, <1>4, <1>8, LiteralsAre, WordsNest
<1>9. CASE x = "fa"
  BY <1>2, <1>4, <1>9, LiteralsAre, WordsNest
<1>10. CASE x = "fal"
  BY <1>2, <1>4, <1>10, LiteralsAre, WordsNest
<1>11. CASE x = "fals"
  BY <1>2, <1>4, <1>11, LiteralsAre, WordsNest
<1>12. CASE x = "n"
  BY <1>2, <1>4, <1>12, LiteralsAre, WordsNest
<1>13. CASE x = "nu"
  BY <1>2, <1>4, <1>13, LiteralsAre, WordsNest
<1>14. CASE x = "nul"
  BY <1>2, <1>4, <1>14, LiteralsAre, WordsNest
<1> QED  BY <1>5, <1>6, <1>7, <1>8, <1>9, <1>10, <1>11, <1>12, <1>13, <1>14

\* A pair, one after another.
LEMMA TwoAppended ==
    ASSUME NEW S, NEW a \in S, NEW b \in S
    PROVE  Append(Append(<<>>, a), b) = <<a, b>>
<1> DEFINE v == <<a>>
           w == <<a, b>>
<1>1. v = Append(<<>>, a) /\ w = Append(v, b)
  OBVIOUS
<1> HIDE DEF v, w
<1> QED  BY <1>1 DEF w

\* The symbols of a number, and of an escape.
LEMMA NumbersPending ==
    ASSUME NEW st, Stack(st)
    PROVE  LET e == AtEndValue(st)
           IN  /\ e \in Seq(Symbol) /\ \A x \in InLiterals : ToCome(x, st) \in Seq(Symbol)
               /\ ToCome("Neg", st) = Append(e, "Int")
               /\ ToCome("State0", st) = Append(e, "Fraction")
               /\ ToCome("State1", st) = Append(ToCome("State0", st), "Digits")
               /\ ToCome("Dot0", st) = Append(Append(e, "Exponent"), "Digits")
               /\ ToCome("Dot", st) = Append(ToCome("Dot0", st), "Digit")
               /\ ToCome("E0", st) = Append(e, "Digits")
               /\ ToCome("E", st) = Append(ToCome("E0", st), "Signed")
               /\ ToCome("ESign", st) = Append(ToCome("E0", st), "Digit")
<1> DEFINE e == AtEndValue(st)
<1>1. {"Neg", "State0", "State1", "Dot", "Dot0", "E", "ESign", "E0"} \subseteq InLiterals
  BY DEF InLiterals, PlainSteps
<1>2. /\ e \in Seq(Symbol) /\ \A x \in InLiterals : ToCome(x, st) \in Seq(Symbol)
      /\ ToCome("EndValue", st) = e
  BY PendingNests, Zenon
<1>3. {"Int", "Fraction", "Digits", "Exponent", "Digit", "Signed"} \subseteq Symbol
  BY LiteralNames
<1>4. \A x \in InLiterals, X \in Symbol :
        InTheLiteral[x] = Append(<<>>, X) => ToCome(x, st) = Append(e, X)
  BY <1>2, PendingNests, Zenon
<1>5. \A x, y \in InLiterals, X \in Symbol :
        InTheLiteral[x] = Append(InTheLiteral[y], X) => ToCome(x, st) = Append(ToCome(y, st), X)
  BY PendingNests, Zenon
<1>6. /\ InTheLiteral["Neg"] = Append(<<>>, "Int")
      /\ InTheLiteral["State0"] = Append(<<>>, "Fraction")
      /\ InTheLiteral["State1"] = Append(InTheLiteral["State0"], "Digits")
      /\ InTheLiteral["Dot"] = Append(InTheLiteral["Dot0"], "Digit")
      /\ InTheLiteral["Dot0"] = Append(Append(<<>>, "Exponent"), "Digits")
      /\ InTheLiteral["E"] = Append(InTheLiteral["E0"], "Signed")
      /\ InTheLiteral["ESign"] = Append(InTheLiteral["E0"], "Digit")
      /\ InTheLiteral["E0"] = Append(<<>>, "Digits")
  BY WordsNest, Zenon
<1>7. ToCome("Dot0", st) = Append(Append(e, "Exponent"), "Digits")
  <2>1. ToCome("Dot0", st) = e \o Append(Append(<<>>, "Exponent"), "Digits")
    <3>1. "Dot0" \in PlainSteps \cup StringSteps
      BY DEF PlainSteps
    <3> QED  BY <1>6, <3>1, ToComeIs, Zenon
  <2>2. ASSUME NEW p \in Seq(Symbol), NEW X \in Symbol, NEW Y \in Symbol
        PROVE  p \o Append(Append(<<>>, X), Y) = Append(Append(p, X), Y)
    <3>1. Append(Append(<<>>, X), Y) = <<X, Y>>
      BY TwoAppended
    <3>2. p \o <<X, Y>> = Append(Append(p, X), Y)
      BY Concatenation2
    <3> QED  BY <3>1, <3>2, Zenon
  <2>3. "Exponent" \in Symbol /\ "Digits" \in Symbol
    BY <1>3
  <2> HIDE DEF e
  <2> QED  BY <1>2, <2>1, <2>2, <2>3, Zenon
<1> HIDE DEF e
<1>8. /\ ToCome("Neg", st) = Append(e, "Int") /\ ToCome("State0", st) = Append(e, "Fraction")
      /\ ToCome("E0", st) = Append(e, "Digits")
  BY <1>1, <1>3, <1>4, <1>6
<1>9. /\ ToCome("State1", st) = Append(ToCome("State0", st), "Digits")
      /\ ToCome("Dot", st) = Append(ToCome("Dot0", st), "Digit")
      /\ ToCome("E", st) = Append(ToCome("E0", st), "Signed")
      /\ ToCome("ESign", st) = Append(ToCome("E0", st), "Digit")
  <2>1. /\ "State0" \in InLiterals /\ "State1" \in InLiterals /\ "Dot" \in InLiterals
        /\ "Dot0" \in InLiterals /\ "E" \in InLiterals /\ "E0" \in InLiterals /\ "ESign" \in InLiterals
        /\ "Digits" \in Symbol /\ "Digit" \in Symbol /\ "Signed" \in Symbol
    BY <1>1, <1>3
  <2>2. ToCome("State1", st) = Append(ToCome("State0", st), "Digits")
    BY <1>5, <1>6, <2>1, Zenon
  <2>3. ToCome("Dot", st) = Append(ToCome("Dot0", st), "Digit")
    BY <1>5, <1>6, <2>1, Zenon
  <2>4. ToCome("E", st) = Append(ToCome("E0", st), "Signed")
    BY <1>5, <1>6, <2>1, Zenon
  <2>5. ToCome("ESign", st) = Append(ToCome("E0", st), "Digit")
    BY <1>5, <1>6, <2>1, Zenon
  <2> QED  BY <2>2, <2>3, <2>4, <2>5, Zenon
<1> QED  BY <1>2, <1>7, <1>8, <1>9, Zenon DEF e

\* Where a value ended no byte of a number is read.
LEMMA EndReadsNone ==
    ASSUME NEW st, Stack(st), NEW c, c \notin Space \cup {"/", "]", "}", ",", ":"}
    PROVE  Grammar!Residuals(AtEndValue(st), c) = {}
<1>1. CASE st = <<>>
  <2>1. AtEndValue(st) = <<"Trailing">>
    BY <1>1, AtEndValueIs, StackIs DEF TopIs
  <2> QED  BY <2>1, TrailingReads
<1>2. CASE st # <<>>
  <2>1. TopIs(st, "ObjectKey") \/ TopIs(st, "ObjectValue") \/ TopIs(st, "ArrayValue")
    BY <1>2, StackIs DEF TopIs, Levels
  <2> QED  BY <2>1, ColonReads, MoreMembersReads, MoreElementsReads
<1> QED  BY <1>1, <1>2

\* Digits in front of what nothing begins with a digit.
LEMMA DigitsRead ==
    ASSUME NEW q \in Seq(Symbol), NEW c
    PROVE  /\ c \in Digit /\ Grammar!Residuals(q, c) = {} =>
                Grammar!Residuals(Append(q, "Digits"), c) = {Append(q, "Digits")}
           /\ c \notin Digit => Grammar!Residuals(Append(q, "Digits"), c) = Grammar!Residuals(q, c)
<1>1. "Digits" \in Symbol /\ "Digits" \in Grammar!Nullable
  BY LiteralNames
<1>2. /\ c \in Digit => Grammar!Rules(c)["Digits"] = {<<"Digits">>}
      /\ c \notin Digit => Grammar!Rules(c)["Digits"] = {}
  BY LiteralsFollow, Zenon
<1>3. q \o <<"Digits">> = Append(q, "Digits")
  BY <1>1, Concatenation1
<1>4. /\ Grammar!Rules(c)["Digits"] = {} =>
           Grammar!Residuals(Append(q, "Digits"), c) = Grammar!Residuals(q, c)
      /\ \A word : Grammar!Rules(c)["Digits"] = {word} /\ Grammar!Residuals(q, c) = {} =>
                      Grammar!Residuals(Append(q, "Digits"), c) = {q \o word}
  BY <1>1, ReadsSymbol, Zenon
<1> QED  BY <1>2, <1>3, <1>4, Zenon

\* What a number's exponent and fraction take.
LEMMA ExponentReads ==
    ASSUME NEW st, Stack(st), NEW c
    PROVE  LET e == AtEndValue(st)
           IN  /\ c = "e" => Grammar!Residuals(Append(e, "Exponent"), c) = {ToCome("E", st)}
               /\ c # "e" => Grammar!Residuals(Append(e, "Exponent"), c) = Grammar!Residuals(e, c)
<1> DEFINE e == AtEndValue(st)
<1>1. "Exponent" \in Symbol /\ "Exponent" \in Grammar!Nullable /\ "Digits" \in Symbol /\ "Signed" \in Symbol
  BY LiteralNames
<1>2. /\ c = "e" => Grammar!Rules(c)["Exponent"] = {<<"Digits", "Signed">>}
      /\ c # "e" => Grammar!Rules(c)["Exponent"] = {}
  BY LiteralsFollow, Zenon
<1>3. c = "e" => Grammar!Residuals(e, c) = {}
  BY EndReadsNone DEF Space
<1>4. e \in Seq(Symbol) /\ ToCome("E", st) = Append(Append(e, "Digits"), "Signed")
  BY NumbersPending, Zenon
<1> HIDE DEF e
<1>5. e \o <<"Digits", "Signed">> = ToCome("E", st)
  <2> DEFINE a == "Digits"
             b == "Signed"
  <2>1. a \in Symbol /\ b \in Symbol /\ ToCome("E", st) = Append(Append(e, a), b)
    BY <1>1, <1>4
  <2> HIDE DEF a, b
  <2>2. e \o <<a, b>> = Append(Append(e, a), b)
    BY <1>4, <2>1, Concatenation2
  <2> QED  BY <2>1, <2>2 DEF a, b
<1>6. /\ Grammar!Rules(c)["Exponent"] = {} =>
           Grammar!Residuals(Append(e, "Exponent"), c) = Grammar!Residuals(e, c)
      /\ \A word : Grammar!Rules(c)["Exponent"] = {word} /\ Grammar!Residuals(e, c) = {} =>
                      Grammar!Residuals(Append(e, "Exponent"), c) = {e \o word}
  BY <1>1, <1>4, ReadsSymbol, Zenon
<1>7. c = "e" => Grammar!Residuals(Append(e, "Exponent"), c) = {ToCome("E", st)}
  BY <1>2, <1>3, <1>5, <1>6, Zenon
<1>8. c # "e" => Grammar!Residuals(Append(e, "Exponent"), c) = Grammar!Residuals(e, c)
  BY <1>2, <1>6, Zenon
<1> QED  BY <1>7, <1>8 DEF e

LEMMA FractionReads ==
    ASSUME NEW st, Stack(st), NEW c
    PROVE  LET e == AtEndValue(st)
               p == ToCome("State0", st)
           IN  /\ c = "." => Grammar!Residuals(p, c) = {ToCome("Dot", st)}
               /\ c = "e" => Grammar!Residuals(p, c) = {ToCome("E", st)}
               /\ c \notin {".", "e"} => Grammar!Residuals(p, c) = Grammar!Residuals(e, c)
<1> DEFINE e == AtEndValue(st)
           p == ToCome("State0", st)
<1>1. "Fraction" \in Symbol /\ "Fraction" \in Grammar!Nullable /\ "Digits" \in Symbol /\ "Signed" \in Symbol
      /\ "Exponent" \in Symbol /\ "Digit" \in Symbol
  BY LiteralNames
<1>2. /\ c = "." => Grammar!Rules(c)["Fraction"] = {<<"Exponent", "Digits", "Digit">>}
      /\ c = "e" => Grammar!Rules(c)["Fraction"] = {<<"Digits", "Signed">>}
      /\ c \notin {".", "e"} => Grammar!Rules(c)["Fraction"] = {}
  BY LiteralsFollow
<1>3. c \in {".", "e"} => Grammar!Residuals(e, c) = {}
  BY EndReadsNone DEF Space
<1>4. /\ e \in Seq(Symbol) /\ p = Append(e, "Fraction")
      /\ ToCome("E", st) = Append(Append(e, "Digits"), "Signed")
      /\ ToCome("Dot", st) = Append(Append(Append(e, "Exponent"), "Digits"), "Digit")
  BY NumbersPending, Zenon
<1> HIDE DEF e, p
<1>5. e \o <<"Digits", "Signed">> = ToCome("E", st) /\ e \o <<"Exponent", "Digits", "Digit">> = ToCome("Dot", st)
  <2> DEFINE a == "Digits"
             b == "Signed"
             d == "Exponent"
             g == "Digit"
  <2>1. /\ a \in Symbol /\ b \in Symbol /\ d \in Symbol /\ g \in Symbol
        /\ ToCome("E", st) = Append(Append(e, a), b)
        /\ ToCome("Dot", st) = Append(Append(Append(e, d), a), g)
    BY <1>1, <1>4
  <2> HIDE DEF a, b, d, g
  <2>2. e \o <<a, b>> = Append(Append(e, a), b) /\ e \o <<d, a, g>> = Append(Append(Append(e, d), a), g)
    BY <1>4, <2>1, Concatenation2, Concatenation3
  <2> QED  BY <2>1, <2>2 DEF a, b, d, g
<1>6. /\ Grammar!Rules(c)["Fraction"] = {} =>
           Grammar!Residuals(Append(e, "Fraction"), c) = Grammar!Residuals(e, c)
      /\ \A word : Grammar!Rules(c)["Fraction"] = {word} /\ Grammar!Residuals(e, c) = {} =>
                      Grammar!Residuals(Append(e, "Fraction"), c) = {e \o word}
  BY <1>1, <1>4, ReadsSymbol, Zenon
<1>7. c = "." => Grammar!Residuals(p, c) = {ToCome("Dot", st)}
  BY <1>2, <1>3, <1>4, <1>5, <1>6, Zenon
<1>8. c = "e" => Grammar!Residuals(p, c) = {ToCome("E", st)}
  BY <1>2, <1>3, <1>4, <1>5, <1>6, Zenon
<1>9. c \notin {".", "e"} => Grammar!Residuals(p, c) = Grammar!Residuals(e, c)
  BY <1>2, <1>4, <1>6, Zenon
<1> QED  BY <1>7, <1>8, <1>9 DEF e, p

\* The classes of bytes do not overlap where the rules choose.
LEMMA ClassesAre ==
    /\ Digit = {"0"} \cup Digit1 /\ {"0"} \cap Digit1 = {}
    /\ Digit \cap {".", "e", "+", "-"} = {} /\ Digit \cap (Space \cup {"/", "]", "}", ",", ":"}) = {}
    /\ {".", "e"} \cap (Space \cup {"/", "]", "}", ",", ":"}) = {}
    /\ Escape \cap {"u"} = {}
BY DEF Digit, Digit1, Space, Escape

\* Where a number goes on.
LEMMA AfterNumbers ==
    ASSUME NEW c
    PROVE  /\ c \in {"0"} => After("Neg", c) # {} /\ Chosen("Neg", c) = "State0"
           /\ c \in Digit1 => After("Neg", c) # {} /\ Chosen("Neg", c) = "State1"
           /\ c \notin {"0"} \cup Digit1 => After("Neg", c) = {}
           /\ c \in {"."} => After("State0", c) # {} /\ Chosen("State0", c) = "Dot"
           /\ c \in {"e"} => After("State0", c) # {} /\ Chosen("State0", c) = "E"
           /\ c \notin {"."} \cup {"e"} => After("State0", c) = {}
           /\ c \in Digit => After("State1", c) # {} /\ Chosen("State1", c) = "State1"
           /\ c \in {"."} => After("State1", c) # {} /\ Chosen("State1", c) = "Dot"
           /\ c \in {"e"} => After("State1", c) # {} /\ Chosen("State1", c) = "E"
           /\ c \notin Digit \cup {"."} \cup {"e"} => After("State1", c) = {}
           /\ c \in Digit => After("Dot0", c) # {} /\ Chosen("Dot0", c) = "Dot0"
           /\ c \in {"e"} => After("Dot0", c) # {} /\ Chosen("Dot0", c) = "E"
           /\ c \notin Digit \cup {"e"} => After("Dot0", c) = {}
           /\ c \in {"+", "-"} => After("E", c) # {} /\ Chosen("E", c) = "ESign"
           /\ c \in Digit => After("E", c) # {} /\ Chosen("E", c) = "E0"
           /\ c \notin {"+", "-"} \cup Digit => After("E", c) = {}
           /\ c \in Digit => After("E0", c) # {} /\ Chosen("E0", c) = "E0"
           /\ c \notin Digit => After("E0", c) = {}
<1>1. /\ {"0"} \cap Digit1 = {} /\ {"."} \cap {"e"} = {} /\ Digit \cap {"."} = {} /\ Digit \cap {"e"} = {}
      /\ {"+", "-"} \cap Digit = {}
  BY ClassesAre
<1>2. Literals["Neg"] = {<<{"0"}, "State0">>, <<Digit1, "State1">>}
  BY LiteralsAre, Zenon
<1>3. Literals["State0"] = {<<{"."}, "Dot">>, <<{"e"}, "E">>}
  BY LiteralsAre, Zenon
<1>4. Literals["State1"] = {<<Digit, "State1">>, <<{"."}, "Dot">>, <<{"e"}, "E">>}
  BY LiteralsAre, Zenon
<1>5. Literals["Dot0"] = {<<Digit, "Dot0">>, <<{"e"}, "E">>}
  BY LiteralsAre, Zenon
<1>6. Literals["E"] = {<<{"+", "-"}, "ESign">>, <<Digit, "E0">>}
  BY LiteralsAre, Zenon
<1>7. Literals["E0"] = {<<Digit, "E0">>}
  BY LiteralsAre, Zenon
<1>8. /\ c \in {"0"} => After("Neg", c) # {} /\ Chosen("Neg", c) = "State0"
      /\ c \in Digit1 => After("Neg", c) # {} /\ Chosen("Neg", c) = "State1"
      /\ c \notin {"0"} \cup Digit1 => After("Neg", c) = {}
  <2> DEFINE x == "Neg"
             B == {"0"}
             D == Digit1
             y == "State0"
             z == "State1"
  <2>1. Literals[x] = {<<B, y>>, <<D, z>>} /\ B \cap D = {}
    BY <1>1, <1>2
  <2> HIDE DEF x, B, D, y, z
  <2>2. /\ c \in B => After(x, c) # {} /\ Chosen(x, c) = y
        /\ c \in D => After(x, c) # {} /\ Chosen(x, c) = z
        /\ c \notin B \cup D => After(x, c) = {}
    BY <2>1, TwoNext
  <2> QED  BY <2>2, Zenon DEF x, B, D, y, z
<1>9. /\ c \in {"."} => After("State0", c) # {} /\ Chosen("State0", c) = "Dot"
      /\ c \in {"e"} => After("State0", c) # {} /\ Chosen("State0", c) = "E"
      /\ c \notin {"."} \cup {"e"} => After("State0", c) = {}
  <2> DEFINE x == "State0"
             B == {"."}
             D == {"e"}
             y == "Dot"
             z == "E"
  <2>1. Literals[x] = {<<B, y>>, <<D, z>>} /\ B \cap D = {}
    BY <1>1, <1>3
  <2> HIDE DEF x, B, D, y, z
  <2>2. /\ c \in B => After(x, c) # {} /\ Chosen(x, c) = y
        /\ c \in D => After(x, c) # {} /\ Chosen(x, c) = z
        /\ c \notin B \cup D => After(x, c) = {}
    BY <2>1, TwoNext
  <2> QED  BY <2>2, Zenon DEF x, B, D, y, z
<1>10. /\ c \in Digit => After("State1", c) # {} /\ Chosen("State1", c) = "State1"
       /\ c \in {"."} => After("State1", c) # {} /\ Chosen("State1", c) = "Dot"
       /\ c \in {"e"} => After("State1", c) # {} /\ Chosen("State1", c) = "E"
       /\ c \notin Digit \cup {"."} \cup {"e"} => After("State1", c) = {}
  <2> DEFINE x == "State1"
             B == Digit
             D == {"."}
             F == {"e"}
             y == "State1"
             z == "Dot"
             a == "E"
  <2>1. Literals[x] = {<<B, y>>, <<D, z>>, <<F, a>>} /\ B \cap D = {} /\ B \cap F = {} /\ D \cap F = {}
    BY <1>1, <1>4
  <2> HIDE DEF x, B, D, F, y, z, a
  <2>2. /\ c \in B => After(x, c) # {} /\ Chosen(x, c) = y
        /\ c \in D => After(x, c) # {} /\ Chosen(x, c) = z
        /\ c \in F => After(x, c) # {} /\ Chosen(x, c) = a
        /\ c \notin B \cup D \cup F => After(x, c) = {}
    BY <2>1, ThreeNext
  <2> QED  BY <2>2, Zenon DEF x, B, D, F, y, z, a
<1>11. /\ c \in Digit => After("Dot0", c) # {} /\ Chosen("Dot0", c) = "Dot0"
       /\ c \in {"e"} => After("Dot0", c) # {} /\ Chosen("Dot0", c) = "E"
       /\ c \notin Digit \cup {"e"} => After("Dot0", c) = {}
  <2> DEFINE x == "Dot0"
             B == Digit
             D == {"e"}
             y == "Dot0"
             z == "E"
  <2>1. Literals[x] = {<<B, y>>, <<D, z>>} /\ B \cap D = {}
    BY <1>1, <1>5
  <2> HIDE DEF x, B, D, y, z
  <2>2. /\ c \in B => After(x, c) # {} /\ Chosen(x, c) = y
        /\ c \in D => After(x, c) # {} /\ Chosen(x, c) = z
        /\ c \notin B \cup D => After(x, c) = {}
    BY <2>1, TwoNext
  <2> QED  BY <2>2, Zenon DEF x, B, D, y, z
<1>12. /\ c \in {"+", "-"} => After("E", c) # {} /\ Chosen("E", c) = "ESign"
       /\ c \in Digit => After("E", c) # {} /\ Chosen("E", c) = "E0"
       /\ c \notin {"+", "-"} \cup Digit => After("E", c) = {}
  <2> DEFINE x == "E"
             B == {"+", "-"}
             D == Digit
             y == "ESign"
             z == "E0"
  <2>1. Literals[x] = {<<B, y>>, <<D, z>>} /\ B \cap D = {}
    BY <1>1, <1>6
  <2> HIDE DEF x, B, D, y, z
  <2>2. /\ c \in B => After(x, c) # {} /\ Chosen(x, c) = y
        /\ c \in D => After(x, c) # {} /\ Chosen(x, c) = z
        /\ c \notin B \cup D => After(x, c) = {}
    BY <2>1, TwoNext
  <2> QED  BY <2>2, Zenon DEF x, B, D, y, z
<1>13. /\ c \in Digit => After("E0", c) # {} /\ Chosen("E0", c) = "E0"
       /\ c \notin Digit => After("E0", c) = {}
  BY <1>7, OneNext, Zenon
<1> QED  BY <1>8, <1>9, <1>10, <1>11, <1>12, <1>13, Zenon

\* The states of a number are those of the grammar.
LEMMA NumberSteps ==
    ASSUME NEW st, Stack(st), NEW c,
           NEW x \in {"Neg", "State0", "State1", "Dot", "Dot0", "E", "ESign", "E0"}
    PROVE  LiteralStep(st, x, c)
<1> DEFINE e == AtEndValue(st)
           R(p) == Grammar!Residuals(p, c)
           On(y) == /\ After(x, c) # {} /\ Chosen(x, c) = y
                    /\ R(ToCome(x, st)) = {ToCome(y, st)}
<1>1. x \in PlainSteps /\ {"Neg", "State0", "State1", "Dot", "Dot0", "E", "ESign", "E0"} \subseteq InLiterals
  BY DEF PlainSteps, InLiterals
<1>2. /\ e \in Seq(Symbol) /\ \A y \in InLiterals : ToCome(y, st) \in Seq(Symbol)
      /\ ToCome("Neg", st) = Append(e, "Int")
      /\ ToCome("State0", st) = Append(e, "Fraction")
      /\ ToCome("State1", st) = Append(ToCome("State0", st), "Digits")
      /\ ToCome("Dot0", st) = Append(Append(e, "Exponent"), "Digits")
      /\ ToCome("Dot", st) = Append(ToCome("Dot0", st), "Digit")
      /\ ToCome("E0", st) = Append(e, "Digits")
      /\ ToCome("E", st) = Append(ToCome("E0", st), "Signed")
      /\ ToCome("ESign", st) = Append(ToCome("E0", st), "Digit")
  BY NumbersPending, Zenon
<1>3. c \in Digit \cup {".", "e"} => R(e) = {}
  BY EndReadsNone, ClassesAre
<1>4. /\ "Int" \in Symbol /\ "Int" \notin Grammar!Nullable /\ "Signed" \in Symbol /\ "Signed" \notin Grammar!Nullable
      /\ "Digit" \in Symbol /\ "Digit" \notin Grammar!Nullable
      /\ "Fraction" \in Symbol /\ "Digits" \in Symbol /\ "Exponent" \in Symbol
  BY LiteralNames
<1>5. /\ c = "." => R(ToCome("State0", st)) = {ToCome("Dot", st)}
      /\ c = "e" => R(ToCome("State0", st)) = {ToCome("E", st)}
      /\ c \notin {".", "e"} => R(ToCome("State0", st)) = R(e)
  BY FractionReads, Zenon
<1>6. /\ c = "e" => R(Append(e, "Exponent")) = {ToCome("E", st)}
      /\ c # "e" => R(Append(e, "Exponent")) = R(e)
  BY ExponentReads, Zenon
<1>7. \A q \in Seq(Symbol) :
        /\ c \in Digit /\ R(q) = {} => R(Append(q, "Digits")) = {Append(q, "Digits")}
        /\ c \notin Digit => R(Append(q, "Digits")) = R(q)
  BY DigitsRead, Zenon
<1>8. Append(e, "Exponent") \in Seq(Symbol)
  BY <1>2, <1>4, AppendIs, Zenon
<1> HIDE DEF e, R
<1>9. ASSUME NEW y \in InLiterals, On(y)
      PROVE  LiteralStep(st, x, c)
  BY <1>1, <1>9, Zenon DEF LiteralStep, R
<1>10. ASSUME After(x, c) = {}, x \notin Numbers, R(ToCome(x, st)) = {}
       PROVE  LiteralStep(st, x, c)
  BY <1>10, Zenon DEF LiteralStep, R
<1>11. ASSUME After(x, c) = {}, x \in Numbers, R(ToCome(x, st)) = R(e)
       PROVE  LiteralStep(st, x, c)
  BY <1>11, Zenon DEF LiteralStep, R, e
<1>12. CASE x = "Neg"
  <2>1. /\ c \in {"0"} => After(x, c) # {} /\ Chosen(x, c) = "State0"
        /\ c \in Digit1 => After(x, c) # {} /\ Chosen(x, c) = "State1"
        /\ c \notin {"0"} \cup Digit1 => After(x, c) = {}
    BY <1>12, AfterNumbers
  <2>2. /\ c = "0" => Grammar!Rules(c)["Int"] = {<<"Fraction">>}
        /\ c \in Digit1 => Grammar!Rules(c)["Int"] = {<<"Fraction", "Digits">>}
        /\ c \notin Digit => Grammar!Rules(c)["Int"] = {}
    BY LiteralsFollow, Zenon
  <2>3. c = "0" => R(ToCome(x, st)) = {ToCome("State0", st)}
    <3>1. \A Y \in Symbol : Grammar!Rules(c)["Int"] = {<<Y>>} => R(Append(e, "Int")) = {Append(e, Y)}
      BY <1>2, <1>4, TopReads DEF R
    <3>2. c = "0" => R(Append(e, "Int")) = {Append(e, "Fraction")}
      BY <1>4, <2>2, <3>1, Zenon
    <3> QED  BY <1>2, <1>12, <3>2, Zenon
  <2>4. c \in Digit1 => R(ToCome(x, st)) = {ToCome("State1", st)}
    <3>1. \A word : Grammar!Rules(c)["Int"] = {word} => R(Append(e, "Int")) = {e \o word}
      BY <1>2, <1>4, ReadsSymbol, Zenon DEF R
    <3>2. e \o <<"Fraction", "Digits">> = Append(Append(e, "Fraction"), "Digits")
      <4> DEFINE a == "Fraction"
                 b == "Digits"
      <4>1. a \in Symbol /\ b \in Symbol
        BY <1>4
      <4> HIDE DEF a, b
      <4>2. e \o <<a, b>> = Append(Append(e, a), b)
        BY <1>2, <4>1, Concatenation2
      <4> QED  BY <4>2 DEF a, b
    <3>3. c \in Digit1 => R(Append(e, "Int")) = {Append(Append(e, "Fraction"), "Digits")}
      BY <2>2, <3>1, <3>2, Zenon
    <3> QED  BY <1>2, <1>12, <3>3, Zenon
  <2>5. c \notin Digit => R(ToCome(x, st)) = {}
    BY <1>2, <1>4, <1>12, <2>2, TopReads, Zenon DEF R
  <2>6. "State0" \in InLiterals /\ "State1" \in InLiterals /\ x \notin Numbers
    BY <1>1, <1>12 DEF Numbers
  <2>7. CASE c = "0"
    <3>1. On("State0")
      BY <2>1, <2>3, <2>7
    <3> QED  BY <1>9, <2>6, <3>1, Zenon
  <2>8. CASE c \in Digit1
    <3>1. On("State1")
      BY <2>1, <2>4, <2>8
    <3> QED  BY <1>9, <2>6, <3>1, Zenon
  <2>9. CASE c \notin Digit
    BY <1>10, <2>1, <2>5, <2>6, <2>9, ClassesAre
  <2> QED  BY <2>7, <2>8, <2>9, ClassesAre
<1>13. CASE x = "State0"
  <2>1. /\ c \in {"."} => After(x, c) # {} /\ Chosen(x, c) = "Dot"
        /\ c \in {"e"} => After(x, c) # {} /\ Chosen(x, c) = "E"
        /\ c \notin {"."} \cup {"e"} => After(x, c) = {}
    BY <1>13, AfterNumbers
  <2>2. "Dot" \in InLiterals /\ "E" \in InLiterals /\ x \in Numbers
    BY <1>1, <1>13 DEF Numbers
  <2>3. CASE c = "."
    <3>1. On("Dot")
      BY <1>5, <1>13, <2>1, <2>3
    <3> QED  BY <1>9, <2>2, <3>1, Zenon
  <2>4. CASE c = "e"
    <3>1. On("E")
      BY <1>5, <1>13, <2>1, <2>4
    <3> QED  BY <1>9, <2>2, <3>1, Zenon
  <2>5. CASE c \notin {".", "e"}
    BY <1>5, <1>11, <1>13, <2>1, <2>2, <2>5
  <2> QED  BY <2>3, <2>4, <2>5
<1>14. CASE x = "State1"
  <2>1. /\ c \in Digit => After(x, c) # {} /\ Chosen(x, c) = "State1"
        /\ c \in {"."} => After(x, c) # {} /\ Chosen(x, c) = "Dot"
        /\ c \in {"e"} => After(x, c) # {} /\ Chosen(x, c) = "E"
        /\ c \notin Digit \cup {"."} \cup {"e"} => After(x, c) = {}
    BY <1>14, AfterNumbers
  <2>2. "Dot" \in InLiterals /\ "E" \in InLiterals /\ "State0" \in InLiterals /\ x \in InLiterals /\ x \in Numbers
    BY <1>1, <1>14 DEF Numbers
  <2>3. ToCome("State0", st) \in Seq(Symbol)
    BY <1>2, <2>2
  <2>4. /\ c \in Digit /\ R(ToCome("State0", st)) = {} => R(ToCome(x, st)) = {ToCome(x, st)}
        /\ c \notin Digit => R(ToCome(x, st)) = R(ToCome("State0", st))
    BY <1>2, <1>7, <1>14, <2>3, Zenon
  <2>5. CASE c \in Digit
    <3>1. R(ToCome("State0", st)) = {}
      BY <1>3, <1>5, <2>5, ClassesAre
    <3>2. On(x)
      BY <1>14, <2>1, <2>4, <2>5, <3>1
    <3> QED  BY <1>9, <2>2, <3>2, Zenon
  <2>6. CASE c = "."
    <3>1. On("Dot")
      BY <1>5, <2>1, <2>4, <2>6, ClassesAre
    <3> QED  BY <1>9, <2>2, <3>1, Zenon
  <2>7. CASE c = "e"
    <3>1. On("E")
      BY <1>5, <2>1, <2>4, <2>7, ClassesAre
    <3> QED  BY <1>9, <2>2, <3>1, Zenon
  <2>8. CASE c \notin Digit \cup {".", "e"}
    BY <1>5, <1>11, <2>1, <2>2, <2>4, <2>8
  <2> QED  BY <2>5, <2>6, <2>7, <2>8
<1>15. CASE x \in {"Dot", "ESign"}
  <2> DEFINE y == IF x = "Dot" THEN "Dot0" ELSE "E0"
  <2>1. /\ y \in InLiterals /\ y # "EndValue" /\ x \in InLiterals /\ x \notin Numbers
        /\ Literals[x] = {<<Digit, y>>} /\ InTheLiteral[x] = Append(InTheLiteral[y], "Digit")
    <3>1. CASE x = "Dot"
      BY <1>1, <3>1, LiteralsAre, WordsNest DEF Numbers
    <3>2. CASE x = "ESign"
      BY <1>1, <3>2, LiteralsAre, WordsNest DEF Numbers
    <3> QED  BY <1>15, <3>1, <3>2
  <2>2. /\ c \in Digit => Grammar!Rules(c)["Digit"] = {<<>>}
        /\ c \notin Digit => Grammar!Rules(c)["Digit"] = {}
    BY LiteralsFollow, Zenon
  <2> HIDE DEF y
  <2> QED  BY <1>1, <1>4, <2>1, <2>2, TakesOne
<1>16. CASE x = "Dot0"
  <2>1. /\ c \in Digit => After(x, c) # {} /\ Chosen(x, c) = "Dot0"
        /\ c \in {"e"} => After(x, c) # {} /\ Chosen(x, c) = "E"
        /\ c \notin Digit \cup {"e"} => After(x, c) = {}
    BY <1>16, AfterNumbers
  <2>2. "E" \in InLiterals /\ x \in InLiterals /\ x \in Numbers
    BY <1>1, <1>16 DEF Numbers
  <2>3. /\ c \in Digit /\ R(Append(e, "Exponent")) = {} => R(ToCome(x, st)) = {ToCome(x, st)}
        /\ c \notin Digit => R(ToCome(x, st)) = R(Append(e, "Exponent"))
    BY <1>2, <1>7, <1>8, <1>16, Zenon
  <2>4. CASE c \in Digit
    <3>1. R(Append(e, "Exponent")) = {}
      BY <1>3, <1>6, <2>4, ClassesAre
    <3>2. On(x)
      BY <1>16, <2>1, <2>3, <2>4, <3>1
    <3> QED  BY <1>9, <2>2, <3>2, Zenon
  <2>5. CASE c = "e"
    <3>1. On("E")
      BY <1>6, <2>1, <2>3, <2>5, ClassesAre
    <3> QED  BY <1>9, <2>2, <3>1, Zenon
  <2>6. CASE c \notin Digit \cup {"e"}
    BY <1>6, <1>11, <2>1, <2>2, <2>3, <2>6
  <2> QED  BY <2>4, <2>5, <2>6
<1>17. CASE x = "E"
  <2>1. /\ c \in {"+", "-"} => After(x, c) # {} /\ Chosen(x, c) = "ESign"
        /\ c \in Digit => After(x, c) # {} /\ Chosen(x, c) = "E0"
        /\ c \notin {"+", "-"} \cup Digit => After(x, c) = {}
    BY <1>17, AfterNumbers
  <2>2. /\ "ESign" \in InLiterals /\ "E0" \in InLiterals /\ x \notin Numbers
    BY <1>1, <1>17 DEF Numbers
  <2>3. ToCome("E0", st) \in Seq(Symbol)
    BY <1>2, <2>2
  <2>4. /\ c \in {"+", "-"} => Grammar!Rules(c)["Signed"] = {<<"Digit">>}
        /\ c \in Digit => Grammar!Rules(c)["Signed"] = {<<>>}
        /\ c \notin Digit \cup {"+", "-"} => Grammar!Rules(c)["Signed"] = {}
    BY LiteralsFollow
  <2>5. c \in {"+", "-"} => R(ToCome(x, st)) = {ToCome("ESign", st)}
    <3> DEFINE q == ToCome("E0", st)
    <3> HIDE DEF q
    <3>1. \A Y \in Symbol : Grammar!Rules(c)["Signed"] = {<<Y>>} => R(Append(q, "Signed")) = {Append(q, Y)}
      BY <1>4, <2>3, TopReads DEF R, q
    <3>2. c \in {"+", "-"} => R(Append(q, "Signed")) = {Append(q, "Digit")}
      BY <1>4, <2>4, <3>1, Zenon
    <3>3. ToCome(x, st) = Append(q, "Signed") /\ ToCome("ESign", st) = Append(q, "Digit")
      BY <1>2, <1>17 DEF q
    <3> QED  BY <3>2, <3>3, Zenon
  <2>6. c \in Digit => R(ToCome(x, st)) = {ToCome("E0", st)}
    BY <1>2, <1>4, <1>17, <2>3, <2>4, TopReads, Zenon DEF R
  <2>7. c \notin Digit \cup {"+", "-"} => R(ToCome(x, st)) = {}
    BY <1>2, <1>4, <1>17, <2>3, <2>4, TopReads, Zenon DEF R
  <2>8. CASE c \in {"+", "-"}
    <3>1. On("ESign")
      BY <2>1, <2>5, <2>8, Zenon
    <3> QED  BY <1>9, <2>2, <3>1, Zenon
  <2>9. CASE c \in Digit
    <3>1. On("E0")
      BY <2>1, <2>6, <2>9, Zenon
    <3> QED  BY <1>9, <2>2, <3>1, Zenon
  <2>10. CASE c \notin Digit \cup {"+", "-"}
    BY <1>10, <2>1, <2>2, <2>7, <2>10
  <2> QED  BY <2>8, <2>9, <2>10
<1>18. CASE x = "E0"
  <2>1. /\ c \in Digit => After(x, c) # {} /\ Chosen(x, c) = "E0"
        /\ c \notin Digit => After(x, c) = {}
    BY <1>18, AfterNumbers
  <2>2. x \in InLiterals /\ x \in Numbers
    BY <1>1, <1>18 DEF Numbers
  <2>3. /\ c \in Digit /\ R(e) = {} => R(ToCome(x, st)) = {ToCome(x, st)}
        /\ c \notin Digit => R(ToCome(x, st)) = R(e)
    BY <1>2, <1>7, <1>18, Zenon
  <2>4. CASE c \in Digit
    <3>1. On(x)
      BY <1>3, <1>18, <2>1, <2>3, <2>4
    <3> QED  BY <1>9, <2>2, <3>1, Zenon
  <2>5. CASE c \notin Digit
    BY <1>11, <2>1, <2>2, <2>3, <2>5
  <2> QED  BY <2>4, <2>5
<1> QED  BY <1>12, <1>13, <1>14, <1>15, <1>16, <1>17, <1>18

\* An escape in a string.
LEMMA EscapeSteps ==
    ASSUME NEW st, Stack(st), NEW c \in AllBytes, NEW x \in StringSteps \ {"InString"}
    PROVE  LiteralStep(st, x, c)
<1>1. x \in InLiterals /\ x \notin Numbers /\ x \notin PlainSteps
  BY LiteralNames
<1>2. {"InString", "InStringEscU", "InStringEscU1", "InStringEscU12", "InStringEscU123"} \subseteq
        InLiterals \ (PlainSteps \cup {"EndValue"})
  BY DEF InLiterals, StringSteps, PlainSteps
<1>3. "Hex" \in Symbol /\ "Hex" \notin Grammar!Nullable /\ "Escaped" \in Symbol /\ "Escaped" \notin Grammar!Nullable
  BY LiteralNames
<1>4. /\ c \in Hex => Grammar!Rules(c)["Hex"] = {<<>>}
      /\ c \notin Hex => Grammar!Rules(c)["Hex"] = {}
      /\ c \in Escape => Grammar!Rules(c)["Escaped"] = {<<>>}
      /\ c = "u" => Grammar!Rules(c)["Escaped"] = {<<"Hex", "Hex", "Hex", "Hex">>}
      /\ c \notin Escape \cup {"u"} => Grammar!Rules(c)["Escaped"] = {}
  BY CharsFollow
<1>5. ASSUME NEW y \in InLiterals \ (PlainSteps \cup {"EndValue"}), Literals[x] = {<<Hex, y>>},
             InTheLiteral[x] = Append(InTheLiteral[y], "Hex")
      PROVE  LiteralStep(st, x, c)
  <2>1. y \in InLiterals \cup {"EndValue"} /\ y \notin PlainSteps /\ y # "EndValue"
    OBVIOUS
  <2>2. IF y = "EndValue" THEN InTheLiteral[x] = Append(<<>>, "Hex")
                          ELSE InTheLiteral[x] = Append(InTheLiteral[y], "Hex")
    BY <1>5, <2>1
  <2>3. y \in PlainSteps => x \in PlainSteps
    BY <2>1
  <2> QED  BY <1>1, <1>3, <1>4, <1>5, <2>1, <2>2, <2>3, TakesOne, Zenon
<1>6. CASE x = "InStringEscU"
  <2>1. Literals[x] = {<<Hex, "InStringEscU1">>} /\ InTheLiteral[x] = Append(InTheLiteral["InStringEscU1"], "Hex")
    BY <1>6, LiteralsAre, WordsNest, Zenon
  <2> QED  BY <1>2, <1>5, <2>1
<1>7. CASE x = "InStringEscU1"
  <2>1. Literals[x] = {<<Hex, "InStringEscU12">>} /\ InTheLiteral[x] = Append(InTheLiteral["InStringEscU12"], "Hex")
    BY <1>7, LiteralsAre, WordsNest, Zenon
  <2> QED  BY <1>2, <1>5, <2>1
<1>8. CASE x = "InStringEscU12"
  <2>1. Literals[x] = {<<Hex, "InStringEscU123">>} /\ InTheLiteral[x] = Append(InTheLiteral["InStringEscU123"], "Hex")
    BY <1>8, LiteralsAre, WordsNest, Zenon
  <2> QED  BY <1>2, <1>5, <2>1
<1>9. CASE x = "InStringEscU123"
  <2>1. Literals[x] = {<<Hex, "InString">>} /\ InTheLiteral[x] = Append(InTheLiteral["InString"], "Hex")
    BY <1>9, LiteralsAre, WordsNest, Zenon
  <2> QED  BY <1>2, <1>5, <2>1
<1>10. CASE x = "InStringEsc"
  <2> DEFINE q == ToCome("InString", st)
             u == ToCome("InStringEscU", st)
             p == ToCome(x, st)
             R == Grammar!Residuals(p, c)
             b == "InString"
             d == "InStringEscU"
             h == "Hex"
  <2>1. \A y \in InLiterals : ToCome(y, st) \in Seq(Symbol)
    BY PendingNests, Zenon
  <2>2. \A y, z \in InLiterals, X \in Symbol :
          InTheLiteral[y] = Append(InTheLiteral[z], X) => ToCome(y, st) = Append(ToCome(z, st), X)
    BY PendingNests, Zenon
  <2>3. q \in Seq(Symbol) /\ p = Append(q, "Escaped")
    <3>1. "InString" \in InLiterals /\ InTheLiteral[x] = Append(InTheLiteral["InString"], "Escaped")
      BY <1>2, <1>10, WordsNest
    <3> QED  BY <1>1, <1>3, <2>1, <2>2, <3>1, Zenon
  <2>4. u = Append(Append(Append(Append(q, h), h), h), h)
    <3> DEFINE u1 == ToCome("InStringEscU1", st)
               u2 == ToCome("InStringEscU12", st)
               u3 == ToCome("InStringEscU123", st)
    <3>0. /\ "InString" \in InLiterals /\ "InStringEscU" \in InLiterals /\ "InStringEscU1" \in InLiterals
          /\ "InStringEscU12" \in InLiterals /\ "InStringEscU123" \in InLiterals
      BY <1>2
    <3>1. u = Append(u1, "Hex")
      BY <1>3, <2>2, <3>0, WordsNest, Zenon
    <3>2. u1 = Append(u2, "Hex")
      BY <1>3, <2>2, <3>0, WordsNest, Zenon
    <3>3. u2 = Append(u3, "Hex")
      BY <1>3, <2>2, <3>0, WordsNest, Zenon
    <3>4. u3 = Append(q, "Hex")
      BY <1>3, <2>2, <3>0, WordsNest, Zenon
    <3> HIDE DEF q, u, u1, u2, u3
    <3> QED  BY <3>1, <3>2, <3>3, <3>4, Zenon
  <2>5. Literals[x] = {<<Escape, b>>, <<{"u"}, d>>}
    BY <1>10, LiteralsAre, Zenon
  <2>6. /\ b \in InLiterals /\ b \notin PlainSteps /\ d \in InLiterals /\ d \notin PlainSteps /\ h \in Symbol
    BY <1>2, <1>3
  <2>7. /\ c \in Escape => Grammar!Rules(c)["Escaped"] = {<<>>}
        /\ c = "u" => Grammar!Rules(c)["Escaped"] = {<<h, h, h, h>>}
        /\ c \notin Escape \cup {"u"} => Grammar!Rules(c)["Escaped"] = {}
    BY <1>4, Zenon
  <2>8. /\ Grammar!Rules(c)["Escaped"] = {} => R = {}
        /\ \A word : Grammar!Rules(c)["Escaped"] = {word} => R = {q \o word}
    <3> HIDE DEF q, p
    <3>1. /\ Grammar!Rules(c)["Escaped"] = {} => Grammar!Residuals(Append(q, "Escaped"), c) = {}
          /\ \A word : Grammar!Rules(c)["Escaped"] = {word} =>
                         Grammar!Residuals(Append(q, "Escaped"), c) = {q \o word}
      BY <1>3, <2>3, ReadsSymbol
    <3> QED  BY <2>3, <3>1, Zenon
  <2>9. ToCome(b, st) = q /\ ToCome(d, st) = u
    OBVIOUS
  <2> HIDE DEF q, u, p, b, d, h
  <2>10. /\ c \in Escape => After(x, c) # {} /\ Chosen(x, c) = b
         /\ c \in {"u"} => After(x, c) # {} /\ Chosen(x, c) = d
         /\ c \notin Escape \cup {"u"} => After(x, c) = {}
    <3>1. Escape \cap {"u"} = {}
      BY ClassesAre
    <3> QED  BY <2>5, <3>1, TwoNext, Zenon
  <2>11. q \o <<>> = q /\ q \o <<h, h, h, h>> = u
    <3>1. q \o <<h, h, h, h>> = Append(Append(Append(Append(q, h), h), h), h)
      BY <2>3, <2>6, Concatenation4
    <3>2. q \o <<>> = q
      BY <2>3
    <3> QED  BY <2>4, <3>1, <3>2
  <2>12. CASE c \in Escape
    <3>1. R = {q}
      BY <2>7, <2>8, <2>11, <2>12, Zenon
    <3> QED  BY <1>1, <2>6, <2>9, <2>10, <2>12, <3>1, Zenon DEF LiteralStep, p
  <2>13. CASE c = "u"
    <3>1. R = {u}
      BY <2>7, <2>8, <2>11, <2>13, Zenon
    <3>2. c \in {"u"}
      BY <2>13
    <3> QED  BY <1>1, <2>6, <2>9, <2>10, <3>1, <3>2, Zenon DEF LiteralStep, p
  <2>14. CASE c \notin Escape \cup {"u"}
    <3>1. R = {}
      BY <2>7, <2>8, <2>14, Zenon
    <3> QED  BY <1>1, <2>10, <2>14, <3>1, Zenon DEF LiteralStep, p
  <2> QED  BY <2>12, <2>13, <2>14
<1> QED  BY <1>6, <1>7, <1>8, <1>9, <1>10 DEF StringSteps

\* A state of a literal, whichever.
LEMMA LiteralStepIs ==
    ASSUME NEW st, Stack(st), NEW c \in AllBytes, NEW x \in InLiterals \ {"InString"}
    PROVE  LiteralStep(st, x, c)
<1>1. \/ x \in {"t", "tr", "tru", "f", "fa", "fal", "fals", "n", "nu", "nul"}
      \/ x \in {"Neg", "State0", "State1", "Dot", "Dot0", "E", "ESign", "E0"}
      \/ x \in StringSteps \ {"InString"}
  BY DEF InLiterals, PlainSteps
<1> QED  BY <1>1, WordSteps, NumberSteps, EscapeSteps

\* The states of a literal but stateInString are steps of the grammar.
LEMMA InLiteralGoes ==
    ASSUME NEW s, IsScanner(s), s.err = "nil", s.endTop = FALSE, s.step \in InLiterals \ {"InString"},
           Fits(s.step, s.parseState), NEW c \in AllBytes
    PROVE  LET t == InLiteral(s, c).scan
               p == ToCome(s.step, s.parseState)
           IN  Goes(p, s.bytes, c, t) \/ Fails(p, s.bytes, c, t)
<1> DEFINE st == s.parseState
           x == s.step
           p == ToCome(x, st)
           t == InLiteral(s, c).scan
<1>1. Stack(st)
  BY DEF Fits
<1>2. LiteralStep(st, x, c)
  BY <1>1, LiteralStepIs
<1>3. CASE \E y \in InLiterals \cup {"EndValue"} :
             /\ After(x, c) # {} /\ Chosen(x, c) = y /\ (y \in PlainSteps => x \in PlainSteps)
             /\ Grammar!Residuals(p, c) = {ToCome(y, st)}
  <2>1. PICK y \in InLiterals \cup {"EndValue"} :
          /\ After(x, c) # {} /\ Chosen(x, c) = y /\ (y \in PlainSteps => x \in PlainSteps)
          /\ Grammar!Residuals(p, c) = {ToCome(y, st)}
    BY <1>3, Zenon
  <2>2. t = Go(s, Chosen(x, c))
    BY <2>1 DEF InLiteral, Continue, Returns, After, Chosen
  <2>3. y # "EndTop" /\ y \notin Slashes
    BY LiteralNames DEF Slashes
  <2>4. Fits(y, st)
    <3>1. CASE y \in PlainSteps
      <4>1. ~TopIs(st, "ObjectKey")
        BY <2>1, <3>1 DEF Fits
      <4> QED  BY <1>1, <3>1, <4>1, FitsAt
    <3>2. CASE y \notin PlainSteps
      <4>1. y \in StringSteps \/ y = "EndValue"
        BY <3>2 DEF InLiterals
      <4> QED  BY <1>1, <4>1, FitsAt
    <3> QED  BY <3>1, <3>2
  <2> HIDE DEF p, t
  <2>5. Goes(p, s.bytes, c, Go(s, y))
    BY <2>1, <2>3, <2>4, GoGoes
  <2> QED  BY <2>1, <2>2, <2>5 DEF p, t
<1>4. CASE After(x, c) = {} /\ x \notin Numbers /\ Grammar!Residuals(p, c) = {}
  <2>1. t = Error(s, c).scan
    BY <1>4 DEF InLiteral, After
  <2> QED  BY <1>4, <2>1, ErrorFails
<1>5. CASE /\ After(x, c) = {} /\ x \in Numbers
           /\ Grammar!Residuals(p, c) = Grammar!Residuals(AtEndValue(st), c)
  <2>1. t = EndValue(s, c).scan
    BY <1>5 DEF InLiteral, After
  <2> DEFINE q == AtEndValue(st)
  <2>2. \/ Goes(q, s.bytes, c, EndValue(s, c).scan)
        \/ Fails(q, s.bytes, c, EndValue(s, c).scan)
    BY <1>1, EndValueGoes
  <2> HIDE DEF p, t, q
  <2>3. Goes(p, s.bytes, c, t) \/ Fails(p, s.bytes, c, t)
    BY <1>5, <2>1, <2>2 DEF Goes, Fails, q
  <2> QED  BY <2>3 DEF p, t
<1> QED  BY <1>2, <1>3, <1>4, <1>5, Zenon DEF LiteralStep

\* stateInString is a step of the grammar.
LEMMA InStringGoes ==
    ASSUME NEW s, IsScanner(s), s.err = "nil", s.endTop = FALSE, s.step = "InString",
           Fits(s.step, s.parseState), NEW c \in AllBytes
    PROVE  LET t == InString(s, c).scan
               p == ToCome(s.step, s.parseState)
           IN  Goes(p, s.bytes, c, t) \/ Fails(p, s.bytes, c, t)
<1> DEFINE st == s.parseState
           e == AtEndValue(st)
           p == ToCome("InString", st)
           t == InString(s, c).scan
<1>1. Stack(st)
  BY DEF Fits
<1>2. "InString" \in InLiterals /\ "InStringEsc" \in InLiterals /\ "InString" # "EndTop"
  BY DEF InLiterals, StringSteps
<1>3. "Chars" \in Symbol /\ "Chars" \notin Grammar!Nullable /\ "Escaped" \in Symbol
  BY LiteralNames
<1>4. e \in Seq(Symbol) /\ ToCome("EndValue", st) = e /\ p = Append(e, "Chars")
  <2>1. e \in Seq(Symbol) /\ ToCome("EndValue", st) = e
    BY <1>1, PendingNests, Zenon
  <2>2. p = Append(ToCome("EndValue", st), "Chars")
    BY <1>1, <1>2, <1>3, PendingNests, WordsNest, Zenon
  <2> QED  BY <2>1, <2>2, Zenon
<1>5. ToCome("InStringEsc", st) = Append(p, "Escaped")
  BY <1>1, <1>2, <1>3, PendingNests, WordsNest, Zenon
<1>6. /\ c = "quote" => Grammar!Rules(c)["Chars"] = {<<>>}
      /\ c = "backslash" => Grammar!Rules(c)["Chars"] = {<<"Chars", "Escaped">>}
      /\ c \in {"newline", "control"} => Grammar!Rules(c)["Chars"] = {}
      /\ c \notin {"quote", "backslash", "newline", "control"} => Grammar!Rules(c)["Chars"] = {<<"Chars">>}
  BY CharsFollow
<1>7. "EndValue" # "EndTop" /\ "EndValue" \notin Slashes /\ "InStringEsc" # "EndTop"
      /\ "InStringEsc" \notin Slashes /\ "InString" \notin Slashes
      /\ "InStringEsc" \in StringSteps
  BY DEF Slashes, StringSteps
<1>8. Fits("EndValue", st) /\ Fits("InStringEsc", st)
  BY <1>1, <1>7, FitsAt
<1> HIDE DEF e, p
<1>9. CASE c = "quote"
  <2>1. t = Go(s, "EndValue")
    BY <1>9 DEF InString, Continue, Returns
  <2>2. Grammar!Residuals(Append(e, "Chars"), c) = {e}
    BY <1>3, <1>4, <1>6, <1>9, TopReads, Zenon
  <2>3. Goes(p, s.bytes, c, Go(s, "EndValue"))
    BY <1>4, <1>7, <1>8, <2>2, GoGoes
  <2> QED  BY <2>1, <2>3 DEF p
<1>10. CASE c = "backslash"
  <2>1. t = Go(s, "InStringEsc")
    BY <1>10 DEF InString, Continue, Returns
  <2>2. Grammar!Residuals(Append(e, "Chars"), c) = {Append(Append(e, "Chars"), "Escaped")}
    <3> DEFINE a == "Chars"
               b == "Escaped"
    <3>1. a \in Symbol /\ b \in Symbol /\ a \notin Grammar!Nullable /\ Grammar!Rules(c)[a] = {<<a, b>>}
      BY <1>3, <1>6, <1>10
    <3> HIDE DEF a, b
    <3>2. e \o <<a, b>> = Append(Append(e, a), b)
      BY <1>4, <3>1, Concatenation2
    <3>3. \A word : Grammar!Rules(c)[a] = {word} => Grammar!Residuals(Append(e, a), c) = {e \o word}
      BY <1>4, <3>1, ReadsSymbol
    <3>4. Grammar!Residuals(Append(e, a), c) = {Append(Append(e, a), b)}
      BY <3>1, <3>2, <3>3, Zenon
    <3> QED  BY <3>4 DEF a, b
  <2>3. Grammar!Residuals(p, c) = {ToCome("InStringEsc", st)}
    BY <1>4, <1>5, <2>2, Zenon
  <2>4. Goes(p, s.bytes, c, Go(s, "InStringEsc"))
    BY <1>7, <1>8, <2>3, GoGoes
  <2> QED  BY <2>1, <2>4 DEF p
<1>11. CASE c \in {"newline", "control"}
  <2>1. t = Error(s, c).scan
    BY <1>11 DEF InString
  <2>2. Grammar!Residuals(Append(e, "Chars"), c) = {}
    BY <1>3, <1>4, <1>6, <1>11, TopReads, Zenon
  <2>3. Grammar!Residuals(p, c) = {}
    BY <1>4, <2>2, Zenon
  <2> QED  BY <2>1, <2>3, ErrorFails DEF p
<1>12. CASE c \notin {"quote", "backslash", "newline", "control"}
  <2>1. t = s
    BY <1>12 DEF InString, Continue, Returns
  <2>2. Grammar!Residuals(Append(e, "Chars"), c) = {Append(e, "Chars")}
    BY <1>3, <1>4, <1>6, <1>12, TopReads, Zenon
  <2>3. Live(s)
    BY <1>2 DEF Live
  <2> QED  BY <1>4, <1>7, <2>1, <2>2, <2>3 DEF Goes, p
<1> QED  BY <1>9, <1>10, <1>11, <1>12

-----------------------------------------------------------------------------
(* A whole step, and the end of the text.                                   *)

\* Which state's function is called.
LEMMA StepIs ==
    ASSUME NEW s, NEW c
    PROVE  /\ s.step = "BeginValue" => Step(s, c) = BeginValue(s, c)
           /\ s.step = "BeginValueOrEmpty" => Step(s, c) = BeginValueOrEmpty(s, c)
           /\ s.step = "BeginString" => Step(s, c) = BeginString(s, c)
           /\ s.step = "BeginStringOrEmpty" => Step(s, c) = BeginStringOrEmpty(s, c)
           /\ s.step = "EndValue" => Step(s, c) = EndValue(s, c)
           /\ s.step = "EndTop" => Step(s, c) = EndTop(s, c)
           /\ s.step = "InString" => Step(s, c) = InString(s, c)
           /\ s.step = "Error" => Step(s, c).scan = s
           /\ s.step \in Slashes => Step(s, c) = MaybeComment(s, c)
           /\ s.step \in Lines => Step(s, c) = InComment(s, c)
           /\ s.step \in InLiterals \ {"InString"} => Step(s, c) = InLiteral(s, c)
<1> DEFINE named == {"BeginValue", "BeginValueOrEmpty", "BeginString", "BeginStringOrEmpty", "EndValue",
                     "EndTop", "InString", "Error", "Redo"}
<1>1. DOMAIN AfterComment = Slashes /\ DOMAIN AfterLine = Lines
  BY CommentSteps
<1>2. /\ named \cap Slashes = {} /\ named \cap Lines = {} /\ Slashes \cap Lines = {}
      /\ named \cap (InLiterals \ {"InString"}) = {} /\ InLiterals \cap (Slashes \cup Lines) = {}
  BY DEF Slashes, Lines, InLiterals, PlainSteps, StringSteps
<1>3. ASSUME s.step \in named \ {"Redo", "Error"}
      PROVE  /\ s.step = "BeginValue" => Step(s, c) = BeginValue(s, c)
             /\ s.step = "BeginValueOrEmpty" => Step(s, c) = BeginValueOrEmpty(s, c)
             /\ s.step = "BeginString" => Step(s, c) = BeginString(s, c)
             /\ s.step = "BeginStringOrEmpty" => Step(s, c) = BeginStringOrEmpty(s, c)
             /\ s.step = "EndValue" => Step(s, c) = EndValue(s, c)
             /\ s.step = "EndTop" => Step(s, c) = EndTop(s, c)
             /\ s.step = "InString" => Step(s, c) = InString(s, c)
  BY <1>1, <1>2, <1>3 DEF Step
<1>4. s.step = "Error" => Step(s, c) = Returns(s, "Error")
  BY <1>1, <1>2 DEF Step
<1>5. s.step \in Slashes => Step(s, c) = MaybeComment(s, c)
  BY <1>1, <1>2 DEF Step
<1>6. s.step \in Lines => Step(s, c) = InComment(s, c)
  BY <1>1, <1>2 DEF Step
<1>7. s.step \in InLiterals \ {"InString"} => Step(s, c) = InLiteral(s, c)
  BY <1>1, <1>2 DEF Step
<1>8. Returns(s, "Error").scan = s
  BY DEF Returns
<1> QED  BY <1>3, <1>4, <1>5, <1>6, <1>7, <1>8

LEMMA StepsAre ==
    AllSteps = {"BeginValue", "BeginValueOrEmpty", "BeginString", "BeginStringOrEmpty", "EndValue", "EndTop",
                "InString"} \cup Slashes \cup Lines \cup (InLiterals \ {"InString"})
BY DEF AllSteps, MemberSteps, ValueSteps, Slashes, Lines, InLiterals, StringSteps

\* A step of the scanner is a step of the grammar.
LEMMA StepGoes ==
    ASSUME NEW s, Live(s), NEW c \in AllBytes
    PROVE  LET t == Step(s, c).scan
               p == ToCome(s.step, s.parseState)
           IN  \/ Goes(p, s.bytes, c, t) \/ Fails(p, s.bytes, c, t)
               \/ s.step \in Slashes /\ FailsLate(p, s.bytes, c, t)
<1> DEFINE st == s.parseState
           t == Step(s, c).scan
           p == ToCome(s.step, st)
<1>1. IsScanner(s) /\ s.err = "nil" /\ Fits(s.step, st) /\ Stack(st) /\ s.step \in AllSteps
      /\ s.endTop = (s.step = "EndTop")
  BY DEF Live, Fits
<1>2. CASE s.step \in {"BeginValue", "BeginValueOrEmpty"}
  <2>1. ~TopIs(st, "ObjectKey") /\ s.endTop = FALSE
    BY <1>1, <1>2 DEF Fits, ValueSteps
  <2>2. CASE s.step = "BeginValue"
    <3>1. p = AtValue(st, "NextElement") /\ Step(s, c) = BeginValue(s, c)
      BY <2>2, ToComeIs, StepIs
    <3>2. \/ Goes(AtValue(st, "NextElement"), s.bytes, c, BeginValue(s, c).scan)
          \/ Fails(AtValue(st, "NextElement"), s.bytes, c, BeginValue(s, c).scan)
      BY <1>1, <2>1, <2>2, BeginValueGoes
    <3> QED  BY <3>1, <3>2, Zenon
  <2>3. CASE s.step = "BeginValueOrEmpty"
    <3>1. p = AtValue(st, "FirstElement") /\ Step(s, c) = BeginValueOrEmpty(s, c)
      BY <2>3, ToComeIs, StepIs
    <3>2. \/ Goes(AtValue(st, "FirstElement"), s.bytes, c, BeginValueOrEmpty(s, c).scan)
          \/ Fails(AtValue(st, "FirstElement"), s.bytes, c, BeginValueOrEmpty(s, c).scan)
      BY <1>1, <2>1, <2>3, BeginValueOrEmptyGoes
    <3> QED  BY <3>1, <3>2, Zenon
  <2> QED  BY <1>2, <2>2, <2>3
<1>3. CASE s.step \in {"BeginString", "BeginStringOrEmpty"}
  <2>1. TopIs(st, "ObjectKey") /\ s.endTop = FALSE
    BY <1>1, <1>3 DEF Fits, MemberSteps
  <2>2. CASE s.step = "BeginString"
    <3>1. p = AtMember(st, "NextMember") /\ Step(s, c) = BeginString(s, c)
      BY <2>2, ToComeIs, StepIs
    <3>2. \/ Goes(AtMember(st, "NextMember"), s.bytes, c, BeginString(s, c).scan)
          \/ Fails(AtMember(st, "NextMember"), s.bytes, c, BeginString(s, c).scan)
      BY <1>1, <2>1, <2>2, BeginStringGoes
    <3> QED  BY <3>1, <3>2, Zenon
  <2>3. CASE s.step = "BeginStringOrEmpty"
    <3>1. p = AtMember(st, "FirstMember") /\ Step(s, c) = BeginStringOrEmpty(s, c)
      BY <2>3, ToComeIs, StepIs
    <3>2. \/ Goes(AtMember(st, "FirstMember"), s.bytes, c, BeginStringOrEmpty(s, c).scan)
          \/ Fails(AtMember(st, "FirstMember"), s.bytes, c, BeginStringOrEmpty(s, c).scan)
      BY <1>1, <2>1, <2>3, BeginStringOrEmptyGoes
    <3> QED  BY <3>1, <3>2, Zenon
  <2> QED  BY <1>3, <2>2, <2>3
<1>4. CASE s.step = "EndValue"
  <2>1. p = AtEndValue(st) /\ Step(s, c) = EndValue(s, c) /\ s.endTop = FALSE
    BY <1>1, <1>4, ToComeIs, StepIs
  <2>2. \/ Goes(AtEndValue(st), s.bytes, c, EndValue(s, c).scan)
        \/ Fails(AtEndValue(st), s.bytes, c, EndValue(s, c).scan)
    BY <1>1, <2>1, EndValueGoes
  <2> QED  BY <2>1, <2>2, Zenon
<1>5. CASE s.step = "EndTop"
  <2>1. p = <<"Trailing">> /\ Step(s, c) = EndTop(s, c) /\ s.endTop = TRUE /\ st = <<>>
    <3>1. p = <<"Trailing">> /\ Step(s, c) = EndTop(s, c)
      BY <1>5, ToComeIs, StepIs, Zenon
    <3>2. s.endTop = TRUE /\ st = <<>>
      BY <1>1, <1>5 DEF Fits
    <3> QED  BY <3>1, <3>2
  <2>2. \/ Goes(<<"Trailing">>, s.bytes, c, EndTop(s, c).scan)
        \/ Fails(<<"Trailing">>, s.bytes, c, EndTop(s, c).scan)
    BY <1>1, <1>5, <2>1, EndTopGoes
  <2> QED  BY <2>1, <2>2, Zenon
<1>6. CASE s.step = "InString"
  <2>1. Step(s, c) = InString(s, c) /\ s.endTop = FALSE
    BY <1>1, <1>6, StepIs
  <2>2. Goes(p, s.bytes, c, InString(s, c).scan) \/ Fails(p, s.bytes, c, InString(s, c).scan)
    BY <1>1, <1>6, <2>1, InStringGoes
  <2> QED  BY <2>1, <2>2, Zenon
<1>7. CASE s.step \in Slashes
  <2>1. Step(s, c) = MaybeComment(s, c) /\ s.endTop = FALSE
    BY <1>1, <1>7, StepIs DEF Slashes
  <2>2. Goes(p, s.bytes, c, MaybeComment(s, c).scan) \/ FailsLate(p, s.bytes, c, MaybeComment(s, c).scan)
    BY <1>1, <1>7, <2>1, MaybeCommentGoes
  <2> QED  BY <1>7, <2>1, <2>2, Zenon
<1>8. CASE s.step \in Lines
  <2>1. Step(s, c) = InComment(s, c) /\ s.endTop = FALSE
    BY <1>1, <1>8, StepIs DEF Lines
  <2>2. Goes(p, s.bytes, c, InComment(s, c).scan)
    BY <1>1, <1>8, <2>1, InCommentGoes
  <2> QED  BY <2>1, <2>2, Zenon
<1>9. CASE s.step \in InLiterals \ {"InString"}
  <2>1. Step(s, c) = InLiteral(s, c) /\ s.endTop = FALSE
    BY <1>1, <1>9, StepIs, LiteralNames
  <2>2. Goes(p, s.bytes, c, InLiteral(s, c).scan) \/ Fails(p, s.bytes, c, InLiteral(s, c).scan)
    BY <1>1, <1>9, <2>1, InLiteralGoes
  <2> QED  BY <2>1, <2>2, Zenon
<1> QED  BY <1>1, <1>2, <1>3, <1>4, <1>5, <1>6, <1>7, <1>8, <1>9, StepsAre

\* Whether nothing has to come.
LEMMA EmptyIs ==
    ASSUME NEW q \in Seq(Symbol), NEW X \in Symbol
    PROVE  /\ X \notin Grammar!Nullable => ~Grammar!Empty(Append(q, X), 1)
           /\ X \in Grammar!Nullable => (Grammar!Empty(Append(q, X), 1) <=> Grammar!Empty(q, 1))
BY EmptyTop

\* Whether it does after a value.
LEMMA EndEmpty ==
    ASSUME NEW st, Stack(st)
    PROVE  Grammar!Empty(AtEndValue(st), 1) <=> st = <<>>
<1>1. CASE st = <<>>
  <2>1. AtEndValue(st) = Append(<<>>, "Trailing")
    BY <1>1, AtEndValueIs
  <2>2. "Trailing" \in Symbol /\ "Trailing" \in Grammar!Nullable /\ <<>> \in Seq(Symbol)
    BY DEF Symbol, Grammar!Nullable
  <2>3. Grammar!Empty(<<>>, 1)
    BY DEF Grammar!Empty
  <2>4. Grammar!Empty(Append(<<>>, "Trailing"), 1)
    BY <2>2, <2>3, EmptyIs, Zenon
  <2> QED  BY <1>1, <2>1, <2>4, Zenon
<1>2. CASE st # <<>>
  <2>1. {"MoreMembers", "Value", "Colon", "MoreElements"} \subseteq Symbol \ Grammar!Nullable
    BY DEF Symbol, Grammar!Nullable
  <2>2. Outside(st) \in Seq(Symbol)
    BY <1>2, StackIs
  <2>3. \A q \in Seq(Symbol), X \in Symbol : Append(q, X) \in Seq(Symbol)
    BY AppendIs
  <2>4. \A q \in Seq(Symbol), X \in Symbol \ Grammar!Nullable : ~Grammar!Empty(Append(q, X), 1)
    BY EmptyIs
  <2>5. TopIs(st, "ObjectKey") \/ TopIs(st, "ObjectValue") \/ TopIs(st, "ArrayValue")
    BY <1>2, StackIs DEF TopIs, Levels
  <2>6. \E q \in Seq(Symbol), X \in {"Colon", "MoreMembers", "MoreElements"} : AtEndValue(st) = Append(q, X)
    <3>1. CASE TopIs(st, "ObjectKey")
      <4> DEFINE q == Append(Append(Outside(st), "MoreMembers"), "Value")
      <4>1. q \in Seq(Symbol)
        BY <2>1, <2>2, <2>3
      <4>2. AtEndValue(st) = Append(q, "Colon")
        BY <3>1, AtEndValueIs, Zenon
      <4> HIDE DEF q
      <4> QED  BY <4>1, <4>2
    <3>2. CASE TopIs(st, "ObjectValue")
      BY <2>2, <3>2, AtEndValueIs
    <3>3. CASE TopIs(st, "ArrayValue")
      BY <2>2, <3>3, AtEndValueIs
    <3> QED  BY <2>5, <3>1, <3>2, <3>3
  <2> QED  BY <1>2, <2>1, <2>4, <2>6
<1> QED  BY <1>1, <1>2

\* Which symbols to come may all be empty.
LEMMA PendingEmpty ==
    ASSUME NEW st, NEW x, Fits(x, st)
    PROVE  Grammar!Empty(ToCome(x, st), 1) <=>
             (x = "EndTop" \/ x \in Numbers \cup {"EndValue"}) /\ st = <<>>
<1> DEFINE e == AtEndValue(st)
           E(q) == Grammar!Empty(q, 1)
<1>1. Stack(st) /\ x \in AllSteps
  BY DEF Fits
<1>2. \A q \in Seq(Symbol), X \in Symbol \ Grammar!Nullable : ~E(Append(q, X))
  BY EmptyIs
<1>3. \A q \in Seq(Symbol), X \in Symbol \cap Grammar!Nullable : E(Append(q, X)) <=> E(q)
  BY EmptyIs
<1>4. E(e) <=> st = <<>>
  BY <1>1, EndEmpty
<1>5. /\ {"Digits", "Fraction", "Exponent", "Trailing"} \subseteq Symbol \cap Grammar!Nullable
      /\ {"Slash", "Line", "Value", "FirstElement", "NextElement", "FirstMember", "NextMember"} \subseteq
           Symbol \ Grammar!Nullable
      /\ {"r", "u", "e", "a", "l", "s", "Digit", "Hex", "Int", "Signed", "Chars", "Escaped"} \subseteq
           Symbol \ Grammar!Nullable
  BY DEF Symbol, Grammar!Nullable
<1>6. st # <<>> => Outside(st) \in Seq(Symbol)
  BY <1>1, StackIs
<1>7. Numbers \cap ({"BeginValue", "BeginValueOrEmpty", "BeginString", "BeginStringOrEmpty", "EndValue", "EndTop"}
                    \cup Slashes \cup Lines) = {} /\ Numbers \subseteq InLiterals \ {"InString"}
  BY DEF Numbers, Slashes, Lines, InLiterals, PlainSteps
<1>8. CASE x = "EndTop"
  <2>1. ToCome(x, st) = Append(<<>>, "Trailing")
    <3>1. ToCome(x, st) = <<"Trailing">>
      BY <1>8, ToComeIs, Zenon
    <3>2. Append(<<>>, "Trailing") = <<"Trailing">>
      OBVIOUS
    <3> QED  BY <3>1, <3>2, Zenon
  <2>2. E(<<>>) /\ <<>> \in Seq(Symbol)
    BY DEF Grammar!Empty
  <2> HIDE DEF E
  <2>3. E(Append(<<>>, "Trailing"))
    BY <1>3, <1>5, <2>2
  <2>4. E(ToCome(x, st))
    BY <2>1, <2>3, Zenon
  <2>5. st = <<>>
    BY <1>8 DEF Fits
  <2> QED  BY <1>8, <2>4, <2>5, Zenon DEF E
<1>9. CASE x = "EndValue"
  <2>1. ToCome(x, st) = e
    BY <1>9, ToComeIs, Zenon
  <2> QED  BY <1>4, <1>9, <2>1, Zenon
<1>10. CASE x \in {"BeginValue", "BeginValueOrEmpty"}
  <2>1. ~TopIs(st, "ObjectKey")
    BY <1>10 DEF Fits, ValueSteps
  <2>2. AllOpened(st) \in Seq(Symbol)
    BY <1>1, <2>1, StackIs
  <2>3. \E X \in {"FirstElement", "NextElement"} : ToCome(x, st) = AtValue(st, X)
    BY <1>10, ToComeIs
  <2>4. \A X \in {"FirstElement", "NextElement"} :
          \/ st # <<>> /\ AtValue(st, X) = Append(Outside(st), X)
          \/ AtValue(st, X) = Append(AllOpened(st), "Value")
    BY DEF AtValue, TopIs
  <2> HIDE DEF E
  <2>5. ~E(ToCome(x, st))
    BY <1>2, <1>5, <1>6, <2>2, <2>3, <2>4
  <2> QED  BY <1>7, <1>10, <2>5 DEF E
<1>11. CASE x \in {"BeginString", "BeginStringOrEmpty"}
  <2>1. st # <<>>
    BY <1>11 DEF Fits, MemberSteps, TopIs
  <2>2. \E X \in {"FirstMember", "NextMember"} : ToCome(x, st) = Append(Outside(st), X)
    BY <1>11, ToComeIs DEF AtMember
  <2> HIDE DEF E
  <2>3. ~E(ToCome(x, st))
    BY <1>2, <1>5, <1>6, <2>1, <2>2
  <2> QED  BY <2>1, <1>11, <2>3 DEF E
<1>12. CASE x \in Slashes
  <2>1. PICK q \in Seq(Symbol) : ToCome(x, st) = Append(q, "Slash")
    BY <1>12, CommentsAre
  <2> HIDE DEF E
  <2>2. ~E(ToCome(x, st))
    BY <1>2, <1>5, <2>1
  <2>3. x # "EndTop" /\ x \notin Numbers \cup {"EndValue"}
    BY <1>7, <1>12 DEF Slashes
  <2> QED  BY <2>2, <2>3 DEF E
<1>13. CASE x \in Lines
  <2>1. \E q \in Seq(Symbol) : ToCome(x, st) = Append(q, "Line")
    <3>1. CASE x = "InCommentAtBeginValue"
      <4>1. ~TopIs(st, "ObjectKey")
        BY <3>1 DEF Fits, ValueSteps
      <4>2. AtValue(st, "FirstElement") \in Seq(Symbol)
        BY <1>1, <4>1, PlacesAre
      <4>3. ToCome(x, st) = Append(AtValue(st, "FirstElement"), "Line")
        BY <3>1, ToComeIs, Zenon
      <4> QED  BY <4>2, <4>3, Zenon
    <3>2. CASE x = "InCommentAtBeginString"
      <4>1. TopIs(st, "ObjectKey")
        BY <3>2 DEF Fits, MemberSteps
      <4>2. AtMember(st, "NextMember") \in Seq(Symbol)
        BY <1>1, <4>1, PlacesAre
      <4>3. ToCome(x, st) = Append(AtMember(st, "NextMember"), "Line")
        BY <3>2, ToComeIs, Zenon
      <4> QED  BY <4>2, <4>3, Zenon
    <3>3. CASE x = "InCommentAtEndValue"
      <4>1. e \in Seq(Symbol)
        BY <1>1, AtEndValueIs
      <4>2. ToCome(x, st) = Append(e, "Line")
        BY <3>3, ToComeIs, Zenon
      <4> QED  BY <4>1, <4>2, Zenon
    <3> QED  BY <1>13, <3>1, <3>2, <3>3 DEF Lines
  <2> HIDE DEF E
  <2>2. ~E(ToCome(x, st))
    BY <1>2, <1>5, <2>1
  <2>3. x # "EndTop" /\ x \notin Numbers \cup {"EndValue"}
    BY <1>7, <1>13 DEF Lines
  <2> QED  BY <2>2, <2>3 DEF E
<1>14. CASE x \in Numbers
  <2>1. /\ e \in Seq(Symbol)
        /\ ToCome("State0", st) = Append(e, "Fraction")
        /\ ToCome("State1", st) = Append(ToCome("State0", st), "Digits")
        /\ ToCome("Dot0", st) = Append(Append(e, "Exponent"), "Digits")
        /\ ToCome("E0", st) = Append(e, "Digits")
    BY <1>1, NumbersPending, Zenon
  <2>2. \A q \in Seq(Symbol), X \in Symbol : Append(q, X) \in Seq(Symbol)
    BY AppendIs
  <2>3. "Digits" \in Symbol \cap Grammar!Nullable /\ "Fraction" \in Symbol \cap Grammar!Nullable
        /\ "Exponent" \in Symbol \cap Grammar!Nullable
    BY <1>5
  <2> HIDE DEF E, e
  <2>4. E(ToCome("State0", st)) <=> E(e)
    <3>1. E(Append(e, "Fraction")) <=> E(e)
      BY <1>3, <2>1, <2>3
    <3> QED  BY <2>1, <3>1, Zenon
  <2>5. E(ToCome("State1", st)) <=> E(e)
    <3> DEFINE q == ToCome("State0", st)
    <3>1. q \in Seq(Symbol)
      BY <2>1, <2>2, <2>3, Zenon
    <3> HIDE DEF q
    <3>2. E(Append(q, "Digits")) <=> E(q)
      BY <1>3, <2>3, <3>1
    <3> QED  BY <2>1, <2>4, <3>2, Zenon DEF q
  <2>6. E(ToCome("Dot0", st)) <=> E(e)
    <3> DEFINE q == Append(e, "Exponent")
    <3>1. q \in Seq(Symbol) /\ (E(q) <=> E(e))
      BY <1>3, <2>1, <2>2, <2>3
    <3> HIDE DEF q
    <3>2. E(Append(q, "Digits")) <=> E(q)
      BY <1>3, <2>3, <3>1
    <3> QED  BY <2>1, <3>1, <3>2, Zenon DEF q
  <2>7. E(ToCome("E0", st)) <=> E(e)
    <3>1. E(Append(e, "Digits")) <=> E(e)
      BY <1>3, <2>1, <2>3
    <3> QED  BY <2>1, <3>1, Zenon
  <2>8. E(ToCome(x, st)) <=> st = <<>>
    BY <1>4, <1>14, <2>4, <2>5, <2>6, <2>7 DEF Numbers
  <2>9. x # "EndTop"
    BY <1>7, <1>14
  <2> QED  BY <1>14, <2>8, <2>9 DEF E
<1>15. CASE x \in InLiterals \ Numbers
  <2>1. /\ \A y \in InLiterals : ToCome(y, st) \in Seq(Symbol)
        /\ e \in Seq(Symbol) /\ ToCome("EndValue", st) = e
    BY <1>1, PendingNests, Zenon
  <2>2. \A y, z \in InLiterals, X \in Symbol :
          InTheLiteral[y] = Append(InTheLiteral[z], X) => ToCome(y, st) = Append(ToCome(z, st), X)
    BY <1>1, PendingNests, Zenon
  <2>3. \A y \in InLiterals, X \in Symbol :
          InTheLiteral[y] = Append(<<>>, X) => ToCome(y, st) = Append(e, X)
    BY <1>1, <2>1, PendingNests, Zenon
  <2> HIDE DEF E, e
  <2>4. ASSUME NEW z \in InLiterals, NEW X \in Symbol \ Grammar!Nullable,
               InTheLiteral[x] = Append(InTheLiteral[z], X) \/ InTheLiteral[x] = Append(<<>>, X)
        PROVE  ~E(ToCome(x, st))
    BY <1>2, <1>15, <2>1, <2>2, <2>3, <2>4
  <2>5. \E z \in InLiterals, X \in Symbol \ Grammar!Nullable :
          InTheLiteral[x] = Append(InTheLiteral[z], X) \/ InTheLiteral[x] = Append(<<>>, X)
    <3>1. {"tr", "tru", "fa", "fal", "fals", "nu", "nul", "Dot0", "E0", "InString", "InStringEscU1", "InStringEscU12",
           "InStringEscU123"} \subseteq InLiterals
      BY DEF InLiterals, PlainSteps, StringSteps
    <3>2. x \in {"t", "tr", "tru", "f", "fa", "fal", "fals", "n", "nu", "nul", "Neg", "Dot", "E", "ESign", "InString",
                 "InStringEsc", "InStringEscU", "InStringEscU1", "InStringEscU12", "InStringEscU123"}
      BY <1>15 DEF InLiterals, PlainSteps, StringSteps, Numbers
    <3>3. CASE x \in {"t", "tr", "tru"}
      BY <1>5, <3>1, <3>3, WordsNest
    <3>4. CASE x \in {"f", "fa", "fal", "fals"}
      BY <1>5, <3>1, <3>4, WordsNest
    <3>5. CASE x \in {"n", "nu", "nul"}
      BY <1>5, <3>1, <3>5, WordsNest
    <3>6. CASE x \in {"Neg", "Dot"}
      BY <1>5, <3>1, <3>6, WordsNest
    <3>7. CASE x \in {"E", "ESign"}
      BY <1>5, <3>1, <3>7, WordsNest
    <3>8. CASE x \in {"InString", "InStringEsc"}
      BY <1>5, <3>1, <3>8, WordsNest
    <3>9. CASE x \in {"InStringEscU", "InStringEscU1"}
      BY <1>5, <3>1, <3>9, WordsNest
    <3>10. CASE x \in {"InStringEscU12", "InStringEscU123"}
      BY <1>5, <3>1, <3>10, WordsNest
    <3> QED  BY <3>2, <3>3, <3>4, <3>5, <3>6, <3>7, <3>8, <3>9, <3>10
  <2>6. ~E(ToCome(x, st))
    BY <2>4, <2>5
  <2>7. x # "EndTop" /\ x \notin Numbers \cup {"EndValue"}
    BY <1>15, LiteralNames
  <2> QED  BY <2>6, <2>7 DEF E
<1>16. /\ Numbers \subseteq InLiterals /\ "InString" \in InLiterals /\ "InString" \notin Numbers
  BY LiteralNames DEF StringSteps
<1> QED  BY <1>1, <1>8, <1>9, <1>10, <1>11, <1>12, <1>13, <1>14, <1>15, <1>16, StepsAre

Keeps(t) == IsScanner(t) /\ t.endTop = FALSE

\* Neither moving on nor an error ends the text.
LEMMA KeepsEndTop ==
    ASSUME NEW s, IsScanner(s), s.endTop = FALSE, NEW c
    PROVE  /\ \A x : Keeps(Go(s, x))
           /\ Keeps(Error(s, c).scan)
           /\ Keeps(Error([s EXCEPT !.bytes = @ - 1], c).scan)
<1> DEFINE r == [s EXCEPT !.bytes = @ - 1]
<1>1. \A x : Keeps(Go(s, x))
  BY GoIs DEF Keeps
<1>2. IsScanner(r) /\ r.endTop = FALSE
  BY DEF IsScanner
<1> HIDE DEF r
<1>3. \A x : IsScanner(x) /\ x.endTop = FALSE => Keeps(Error(x, c).scan)
  BY DEF IsScanner, Error, Returns, Keeps
<1>4. Keeps(Error(s, c).scan) /\ Keeps(Error(r, c).scan)
  BY <1>2, <1>3, Zenon
<1> QED  BY <1>1, <1>4 DEF r

\* At the end of a text a space shows whether the value is over.
LEMMA SpaceEnds ==
    ASSUME NEW s, Live(s), s.step # "EndTop"
    PROVE  LET t == Step(s, "space").scan
               over == s.step \in Numbers \cup {"EndValue"} /\ s.parseState = <<>>
           IN  /\ over => IsScanner(t) /\ t.endTop = TRUE /\ t.err = "nil"
               /\ ~over => Keeps(t)
<1> DEFINE c == "space"
           st == s.parseState
           x == s.step
           t == Step(s, c).scan
           over == x \in Numbers \cup {"EndValue"} /\ st = <<>>
<1>1. IsScanner(s) /\ s.err = "nil" /\ Fits(x, st) /\ x \in AllSteps /\ s.endTop = FALSE
  BY DEF Live, Fits
<1>2. c \in Space /\ c \notin {"]", "}", "newline", "/", "quote", "backslash", "control"}
  BY DEF Space
<1>3. /\ \A y : Keeps(Go(s, y))
      /\ Keeps(Error(s, c).scan)
      /\ Keeps(Error([s EXCEPT !.bytes = @ - 1], "/").scan)
      /\ Keeps(s)
  BY <1>1, KeepsEndTop DEF Keeps
<1>4. Numbers \cap ({"BeginValue", "BeginValueOrEmpty", "BeginString", "BeginStringOrEmpty", "EndValue",
                     "EndTop", "InString"} \cup Slashes \cup Lines) = {}
      /\ "EndValue" \notin {"BeginValue", "BeginValueOrEmpty", "BeginString", "BeginStringOrEmpty", "InString"}
                     \cup Slashes \cup Lines \cup InLiterals
  BY LiteralNames DEF Numbers, Slashes, Lines
<1>5. /\ st = <<>> => /\ IsScanner(EndValue(s, c).scan)
                      /\ EndValue(s, c).scan.endTop = TRUE /\ EndValue(s, c).scan.err = "nil"
      /\ st # <<>> => Keeps(EndValue(s, c).scan)
  <2>1. CASE st = <<>>
    <3> DEFINE r == [s EXCEPT !.endTop = TRUE]
               u == Go(r, "EndTop")
    <3>1. EndValue(s, c).scan = u
      BY <1>2, <2>1 DEF EndValue, EndTop, Returns
    <3>2. IsScanner(r) /\ r.err = "nil" /\ r.endTop = TRUE
      BY <1>1, EndTopIs
    <3> HIDE DEF r
    <3>3. IsScanner(u) /\ u.endTop = TRUE /\ u.err = "nil"
      BY <3>2, GoIs
    <3> QED  BY <2>1, <3>1, <3>3
  <2>2. CASE st # <<>>
    <3>1. EndValue(s, c).scan = Go(s, "EndValue")
      BY <1>2, <2>2 DEF EndValue, Skip, Returns
    <3> QED  BY <1>3, <2>2, <3>1
  <2> QED  BY <2>1, <2>2
<1>6. CASE x \in {"BeginValue", "BeginValueOrEmpty"}
  <2>1. t = BeginValue(s, c).scan
    <3>1. CASE x = "BeginValue"
      BY <3>1, StepIs, Zenon
    <3>2. CASE x = "BeginValueOrEmpty"
      <4>1. t = BeginValueOrEmpty(s, c).scan
        BY <3>2, StepIs, Zenon
      <4> QED  BY <1>2, <4>1 DEF BeginValueOrEmpty
    <3> QED  BY <1>6, <3>1, <3>2
  <2>2. t = s
    BY <1>2, <2>1 DEF BeginValue, Skip, Returns, Space, Digit1
  <2> QED  BY <1>3, <1>4, <1>6, <2>2
<1>7. CASE x \in {"BeginString", "BeginStringOrEmpty"}
  <2>1. t = BeginString(s, c).scan
    <3>1. CASE x = "BeginString"
      BY <3>1, StepIs, Zenon
    <3>2. CASE x = "BeginStringOrEmpty"
      <4>1. t = BeginStringOrEmpty(s, c).scan
        BY <3>2, StepIs, Zenon
      <4> QED  BY <1>2, <4>1 DEF BeginStringOrEmpty
    <3> QED  BY <1>7, <3>1, <3>2
  <2>2. t = s
    BY <1>2, <2>1 DEF BeginString, Skip, Returns, Space
  <2> QED  BY <1>3, <1>4, <1>7, <2>2
<1>8. CASE x = "EndValue"
  <2>1. t = EndValue(s, c).scan
    BY <1>8, StepIs, Zenon
  <2> QED  BY <1>5, <1>8, <2>1
<1>9. CASE x = "InString"
  <2>1. t = InString(s, c).scan
    BY <1>9, StepIs, Zenon
  <2>2. t = s
    BY <1>2, <2>1 DEF InString, Continue, Returns
  <2> QED  BY <1>3, <1>4, <1>9, <2>2
<1>10. CASE x \in Slashes
  <2>1. t = MaybeComment(s, c).scan
    BY <1>10, StepIs, Zenon
  <2>2. t = Error([s EXCEPT !.bytes = @ - 1], "/").scan
    BY <1>2, <2>1 DEF MaybeComment
  <2> QED  BY <1>3, <1>4, <1>10, <2>2
<1>11. CASE x \in Lines
  <2>1. t = InComment(s, c).scan
    BY <1>11, StepIs, Zenon
  <2>2. t = s
    BY <1>2, <2>1 DEF InComment, Skip, Returns
  <2> QED  BY <1>3, <1>4, <1>11, <2>2
<1>12. CASE x \in InLiterals \ {"InString"}
  <2>1. t = InLiteral(s, c).scan
    BY <1>12, StepIs, Zenon
  <2>2. CASE x \in Numbers
    <3>1. After(x, c) = {}
      <4>1. c \notin Digit \cup {"."} \cup {"e"}
        BY DEF Digit, Digit1
      <4>2. x = "State0" \/ x = "State1" \/ x = "Dot0" \/ x = "E0"
        BY <2>2 DEF Numbers
      <4> HIDE DEF c
      <4> QED  BY <4>1, <4>2, AfterNumbers
    <3>2. t = EndValue(s, c).scan
      BY <2>1, <2>2, <3>1 DEF InLiteral, After
    <3> QED  BY <1>5, <2>2, <3>2
  <2>3. CASE x \notin Numbers
    <3>1. (\E y : t = Go(s, y)) \/ t = Error(s, c).scan
      <4>1. CASE After(x, c) # {}
        <5>1. t = Go(s, Chosen(x, c))
          BY <2>1, <4>1 DEF InLiteral, Continue, Returns, After, Chosen
        <5> QED  BY <5>1
      <4>2. CASE After(x, c) = {}
        <5>1. t = Error(s, c).scan
          BY <2>1, <2>3, <4>2 DEF InLiteral, After
        <5> QED  BY <5>1
      <4> QED  BY <4>1, <4>2
    <3> QED  BY <1>3, <1>4, <1>12, <2>3, <3>1
  <2> QED  BY <2>2, <2>3
<1> QED  BY <1>1, <1>6, <1>7, <1>8, <1>9, <1>10, <1>11, <1>12, StepsAre

\* The text is accepted where nothing has to come.
LEMMA EofIs ==
    ASSUME NEW s, Live(s)
    PROVE  Eof(s).scan.err = "nil" <=> Grammar!Empty(ToCome(s.step, s.parseState), 1)
<1> DEFINE t == Step(s, "space").scan
<1>1. IsScanner(s) /\ s.err = "nil" /\ Fits(s.step, s.parseState) /\ s.endTop = (s.step = "EndTop")
  BY DEF Live
<1>2. Grammar!Empty(ToCome(s.step, s.parseState), 1) <=>
        (s.step = "EndTop" \/ s.step \in Numbers \cup {"EndValue"}) /\ s.parseState = <<>>
  BY <1>1, PendingEmpty
<1>3. CASE s.step = "EndTop"
  <2>1. Eof(s).scan = s
    BY <1>1, <1>3 DEF Eof, AtEof, Returns
  <2>2. s.parseState = <<>>
    BY <1>1, <1>3 DEF Fits
  <2> QED  BY <1>1, <1>2, <1>3, <2>1, <2>2
<1>4. CASE s.step # "EndTop"
  <2> DEFINE over == s.step \in Numbers \cup {"EndValue"} /\ s.parseState = <<>>
  <2>1. /\ over => t.endTop = TRUE /\ t.err = "nil"
        /\ ~over => IsScanner(t) /\ t.endTop = FALSE
    BY <1>4, SpaceEnds DEF Keeps
  <2>2. s.endTop = FALSE
    BY <1>1, <1>4
  <2>3. Eof(s) = AtEof(s, t)
    BY DEF Eof
  <2> HIDE DEF t
  <2>4. CASE over
    <3>1. Eof(s).scan = t
      BY <1>1, <2>1, <2>2, <2>3, <2>4 DEF AtEof, Returns
    <3> QED  BY <1>2, <2>1, <2>4, <3>1
  <2>5. CASE ~over
    <3>1. Eof(s).scan = IF t.err = "nil" THEN [t EXCEPT !.err = "eof", !.offset = t.bytes] ELSE t
      BY <1>1, <2>1, <2>2, <2>3, <2>5 DEF AtEof, Returns
    <3>2. IsScanner(t)
      BY <2>1, <2>5
    <3>3. [t EXCEPT !.err = "eof", !.offset = t.bytes].err = "eof"
      BY <3>2 DEF IsScanner
    <3>4. Eof(s).scan.err # "nil"
      BY <3>1, <3>3
    <3> QED  BY <1>2, <1>4, <2>5, <3>4
  <2> QED  BY <2>4, <2>5
<1> QED  BY <1>3, <1>4

-----------------------------------------------------------------------------
(* The scanner over a whole text.                                           *)

Going == /\ Live(scan) /\ scan.bytes = Len(text)
         /\ scan.step \in Slashes => text # <<>> /\ text[Len(text)] = "/"
Failed == /\ IsScanner(scan) /\ scan.step = "Error"
          /\ scan.offset \in DOMAIN text /\ text[scan.offset] = scan.err

TextTypes == /\ alphabet \in Alphabets /\ ended \in BOOLEAN
             /\ text \in Seq(AllBytes) /\ unread \in Seq(AllBytes)

\* Until its end a text has been read to where more of it may come, or to an
\* error that names one of its bytes.
TextInv == /\ TextTypes
           /\ ~ended /\ scan.err = "nil" => Going
           /\ ~ended /\ scan.err # "nil" => Failed

\* The words of a text are made of its bytes.
LEMMA WordsAre ==
    ASSUME NEW a \in Alphabets, NEW word \in a
    PROVE  word \in Seq(AllBytes) /\ word # <<>>
<1>1. word \in Seq(STRING) /\ word # <<>>
  BY LengthAssumption
<1>2. \A i \in DOMAIN word : word[i] \in AllBytes
  BY DEF AllBytes, Seqs!ToSet
<1> QED  BY <1>1, <1>2

\* One byte of a word, and the others.
LEMMA HeadTail ==
    ASSUME NEW word \in Seq(AllBytes), word # <<>>
    PROVE  Head(word) \in AllBytes /\ Tail(word) \in Seq(AllBytes)
OBVIOUS

LEMMA PairAppended ==
    ASSUME NEW x, NEW y
    PROVE  Append(<<x>>, y) = <<x, y>>
<1>1. x \in {x, y} /\ y \in {x, y}
  OBVIOUS
<1>2. Append(Append(<<>>, x), y) = <<x, y>>
  BY <1>1, TwoAppended
<1>3. Append(<<>>, x) = <<x>>
  OBVIOUS
<1> QED  BY <1>2, <1>3, Zenon

\* A new scanner waits for a value.
LEMMA NewIs ==
    /\ Live(NewScanner) /\ NewScanner.bytes = 0 /\ NewScanner.step \notin Slashes
    /\ NewScanner.err = "nil"
    /\ ToCome(NewScanner.step, NewScanner.parseState) = <<"Trailing", "Value">>
<1>1. /\ IsScanner(NewScanner) /\ NewScanner.step = "BeginValue" /\ NewScanner.parseState = <<>>
      /\ NewScanner.err = "nil" /\ NewScanner.bytes = 0 /\ NewScanner.endTop = FALSE
  BY DEF NewScanner, IsScanner
<1>2. Stack(<<>>) /\ \A level : ~TopIs(<<>>, level)
  BY DEF Stack, TopIs
<1>3. Fits("BeginValue", <<>>)
  BY <1>2 DEF Fits, AllSteps, ValueSteps, MemberSteps
<1>4. Live(NewScanner)
  BY <1>1, <1>3 DEF Live
<1>5. ToCome("BeginValue", <<>>) = <<"Trailing", "Value">>
  <2>1. ToCome("BeginValue", <<>>) = AtValue(<<>>, "NextElement")
    BY ToComeIs
  <2>2. AtValue(<<>>, "NextElement") = Append(AllOpened(<<>>), "Value")
    BY <1>2, Zenon DEF AtValue
  <2>3. AllOpened(<<>>) = <<"Trailing">>
    BY <1>2, StackIs
  <2>4. Append(<<"Trailing">>, "Value") = <<"Trailing", "Value">>
    BY PairAppended
  <2> QED  BY <2>1, <2>2, <2>3, <2>4, Zenon
<1> QED  BY <1>1, <1>4, <1>5 DEF Slashes

\* The next byte, as Feed counts it.
LEMMA NextByte ==
    ASSUME NEW s, Live(s), NEW n \in Nat, s.bytes = n
    PROVE  LET r == [s EXCEPT !.bytes = @ + 1]
           IN  Live(r) /\ r.bytes = n + 1 /\ r.step = s.step /\ r.parseState = s.parseState
<1> DEFINE r == [s EXCEPT !.bytes = @ + 1]
<1>1. IsScanner(s)
  BY DEF Live
<1>2. /\ IsScanner(r) /\ r.bytes = n + 1 /\ r.step = s.step /\ r.parseState = s.parseState
      /\ r.err = s.err /\ r.endTop = s.endTop
  BY <1>1 DEF IsScanner
<1> HIDE DEF r
<1>3. Live(r)
  BY <1>2 DEF Live
<1> QED  BY <1>2, <1>3 DEF r

\* A scanner that found an error keeps it.
LEMMA ErrorStays ==
    ASSUME NEW s, IsScanner(s), s.step = "Error", s.err # "nil", NEW c
    PROVE  LET t == Step([s EXCEPT !.bytes = @ + 1], c).scan
           IN  /\ IsScanner(t) /\ t.step = "Error" /\ t.err = s.err /\ t.offset = s.offset
               /\ Eof(s).scan = s
<1> DEFINE r == [s EXCEPT !.bytes = @ + 1]
<1>1. IsScanner(r) /\ r.step = "Error" /\ r.err = s.err /\ r.offset = s.offset
  BY DEF IsScanner
<1>2. Eof(s).scan = s
  BY DEF Eof, AtEof, Returns
<1> HIDE DEF r
<1>3. Step(r, c).scan = r
  BY <1>1, StepIs
<1> QED  BY <1>1, <1>2, <1>3 DEF r

\* What one byte does to a text that may go on.
LEMMA FeedGoes ==
    ASSUME Going, TextTypes, NEW c \in AllBytes
    PROVE  LET t == Step([scan EXCEPT !.bytes = @ + 1], c).scan
               p == ToCome(scan.step, scan.parseState)
               more == Append(text, c)
           IN  \/ /\ Live(t) /\ t.bytes = Len(more)
                  /\ t.step \in Slashes => more # <<>> /\ more[Len(more)] = "/"
                  /\ Grammar!Residuals(p, c) = {ToCome(t.step, t.parseState)}
               \/ /\ IsScanner(t) /\ t.step = "Error" /\ t.offset \in DOMAIN more
                  /\ more[t.offset] = t.err /\ t.err # "nil"
                  /\ Grammar!Residuals(p, c) = {}
<1> DEFINE r == [scan EXCEPT !.bytes = @ + 1]
           t == Step(r, c).scan
           p == ToCome(scan.step, scan.parseState)
           more == Append(text, c)
           n == Len(text)
<1>1. Live(scan) /\ scan.bytes = n /\ n \in Nat
      /\ (scan.step \in Slashes => n >= 1 /\ text[n] = "/")
  BY DEF Going, TextTypes
<1>2. Live(r) /\ r.bytes = n + 1 /\ r.step = scan.step /\ r.parseState = scan.parseState
  BY <1>1, NextByte
<1>3. Len(more) = n + 1 /\ more[n + 1] = c /\ DOMAIN more = 1..n + 1 /\ \A i \in 1..n : more[i] = text[i]
  BY DEF TextTypes
<1>4. "nil" \notin AllBytes
  BY BytesAssumption
<1> HIDE DEF r
<1>5. \/ Goes(p, n + 1, c, t) \/ Fails(p, n + 1, c, t)
      \/ scan.step \in Slashes /\ FailsLate(p, n + 1, c, t)
  <2>1. \/ Goes(ToCome(r.step, r.parseState), r.bytes, c, t)
        \/ Fails(ToCome(r.step, r.parseState), r.bytes, c, t)
        \/ r.step \in Slashes /\ FailsLate(ToCome(r.step, r.parseState), r.bytes, c, t)
    BY <1>2, StepGoes, Zenon
  <2> QED  BY <1>2, <2>1, Zenon
<1> HIDE DEF t, p, more, n
<1>6. more # <<>>
  BY <1>1, <1>3
<1>7. CASE Goes(p, n + 1, c, t)
  BY <1>3, <1>6, <1>7 DEF Goes, r, t, p, more
<1>8. CASE Fails(p, n + 1, c, t)
  <2>1. /\ IsScanner(t) /\ t.step = "Error" /\ t.offset \in DOMAIN more
        /\ more[t.offset] = t.err /\ t.err # "nil" /\ Grammar!Residuals(p, c) = {}
    BY <1>1, <1>3, <1>4, <1>8 DEF Fails
  <2> QED  BY <2>1 DEF r, t, p, more
<1>9. CASE scan.step \in Slashes /\ FailsLate(p, n + 1, c, t)
  <2>1. /\ IsScanner(t) /\ t.step = "Error" /\ t.offset \in DOMAIN more
        /\ more[t.offset] = t.err /\ t.err # "nil" /\ Grammar!Residuals(p, c) = {}
    BY <1>1, <1>3, <1>9 DEF FailsLate
  <2> QED  BY <2>1 DEF r, t, p, more
<1> QED  BY <1>5, <1>7, <1>8, <1>9

-----------------------------------------------------------------------------
(* The theorems.                                                            *)

\* The verdict and the pending symbols, before and after a step.
LEMMA VerdictIs ==
    /\ scan.err # "nil" => verdictOf = "rejected" /\ pendingOf = <<>>
    /\ scan.err = "nil" /\ ended => verdictOf = "accepted" /\ pendingOf = <<>>
    /\ scan.err = "nil" /\ ~ended => /\ verdictOf = "open"
                                     /\ pendingOf = ToCome(scan.step, scan.parseState)
BY DEF verdictOf, pendingOf

LEMMA VerdictBecomes ==
    /\ scan'.err # "nil" => verdictOf' = "rejected" /\ pendingOf' = <<>>
    /\ scan'.err = "nil" /\ ended' => verdictOf' = "accepted" /\ pendingOf' = <<>>
    /\ scan'.err = "nil" /\ ~ended' => /\ verdictOf' = "open"
                                       /\ pendingOf' = ToCome(scan'.step, scan'.parseState)
BY DEF verdictOf, pendingOf

\* The scanner starts where the grammar does.
LEMMA GrammarInit == Init => TextInv /\ Grammar!Init
<1> SUFFICES ASSUME Init PROVE TextInv /\ Grammar!Init
  OBVIOUS
<1>1. scan = NewScanner /\ text = <<>> /\ unread = <<>> /\ ended = FALSE /\ alphabet \in Alphabets
  BY DEF Init
<1>2. TextTypes
  <2>1. <<>> \in Seq(AllBytes) /\ FALSE \in BOOLEAN
    OBVIOUS
  <2> QED  BY <1>1, <2>1, Zenon DEF TextTypes
<1>3. Going /\ scan.err = "nil"
  BY <1>1, NewIs DEF Going
<1>4. pendingOf = <<"Trailing", "Value">> /\ verdictOf = "open"
  BY <1>1, <1>3, NewIs, VerdictIs, Zenon
<1> QED  BY <1>1, <1>2, <1>3, <1>4 DEF TextInv, Grammar!Init

\* A byte is read: the grammar reads it, rejects it, or had done so before.
LEMMA FeedStep ==
    ASSUME TextInv, NEW word \in Seq(AllBytes), word # <<>>, Feed(word)
    PROVE  TextInv' /\ [Grammar!Next]_(Grammar!vars)
<1> DEFINE c == Head(word)
           t == Step([scan EXCEPT !.bytes = @ + 1], c).scan
           p == ToCome(scan.step, scan.parseState)
<1>1. /\ ~ended /\ scan' = t /\ text' = Append(text, c) /\ unread' = Tail(word)
      /\ alphabet' = alphabet /\ ended' = ended
  BY DEF Feed
<1>2. c \in AllBytes /\ Tail(word) \in Seq(AllBytes)
  BY HeadTail
<1>3. TextTypes'
  BY <1>1, <1>2 DEF TextInv, TextTypes
<1>4. TextTypes
  BY DEF TextInv
<1> HIDE DEF c, p
<1>5. CASE scan.err = "nil"
  <2>1. Going
    BY <1>1, <1>5 DEF TextInv
  <2>2. pendingOf = p /\ verdictOf = "open"
    BY <1>1, <1>5, VerdictIs DEF p
  <2>3. \/ /\ Live(t) /\ t.bytes = Len(text')
           /\ t.step \in Slashes => text' # <<>> /\ text'[Len(text')] = "/"
           /\ Grammar!Residuals(p, c) = {ToCome(t.step, t.parseState)}
        \/ /\ IsScanner(t) /\ t.step = "Error" /\ t.offset \in DOMAIN text'
           /\ text'[t.offset] = t.err /\ t.err # "nil"
           /\ Grammar!Residuals(p, c) = {}
    BY <1>1, <1>2, <1>4, <2>1, FeedGoes DEF p
  <2> HIDE DEF t
  <2>4. CASE /\ Live(t) /\ t.bytes = Len(text')
             /\ t.step \in Slashes => text' # <<>> /\ text'[Len(text')] = "/"
             /\ Grammar!Residuals(p, c) = {ToCome(t.step, t.parseState)}
    <3>1. scan'.err = "nil" /\ Going'
      BY <1>1, <2>4 DEF Going, Live
    <3>2. pendingOf' = ToCome(t.step, t.parseState) /\ verdictOf' = "open"
      BY <1>1, <3>1, VerdictBecomes
    <3>3. Grammar!Reads(c)
      BY <2>2, <2>4, <3>2 DEF Grammar!Reads
    <3>4. TextInv'
      BY <1>3, <3>1 DEF TextInv
    <3> QED  BY <1>2, <3>3, <3>4 DEF Grammar!Next
  <2>5. CASE /\ IsScanner(t) /\ t.step = "Error" /\ t.offset \in DOMAIN text'
             /\ text'[t.offset] = t.err /\ t.err # "nil"
             /\ Grammar!Residuals(p, c) = {}
    <3>1. scan'.err # "nil" /\ Failed'
      BY <1>1, <2>5 DEF Failed
    <3>2. pendingOf' = <<>> /\ verdictOf' = "rejected"
      BY <3>1, VerdictBecomes
    <3>3. Grammar!Rejects(c)
      BY <2>2, <2>5, <3>2 DEF Grammar!Rejects, Grammar!Stops
    <3>4. TextInv'
      BY <1>3, <3>1 DEF TextInv
    <3> QED  BY <1>2, <3>3, <3>4 DEF Grammar!Next
  <2> QED  BY <2>3, <2>4, <2>5
<1>6. CASE scan.err # "nil"
  <2>1. Failed
    BY <1>1, <1>6 DEF TextInv
  <2>2. IsScanner(t) /\ t.step = "Error" /\ t.err = scan.err /\ t.offset = scan.offset
    BY <1>6, <2>1, ErrorStays DEF Failed
  <2> HIDE DEF t
  <2>3. scan.offset \in DOMAIN text' /\ text'[scan.offset] = scan.err
    BY <1>1, <1>2, <1>4, <2>1 DEF Failed, TextTypes
  <2>4. scan'.err # "nil" /\ Failed'
    BY <1>1, <1>6, <2>2, <2>3 DEF Failed
  <2>5. TextInv'
    BY <1>3, <2>4 DEF TextInv
  <2>6. pendingOf' = pendingOf /\ verdictOf' = verdictOf
    BY <1>6, <2>4, VerdictIs, VerdictBecomes
  <2> QED  BY <2>5, <2>6 DEF Grammar!vars
<1> QED  BY <1>5, <1>6

\* The end of the text: the grammar accepts what is complete.
LEMMA EndStep ==
    ASSUME TextInv, End
    PROVE  TextInv' /\ [Grammar!Next]_(Grammar!vars)
<1>1. /\ ~ended /\ ended' = TRUE /\ scan' = Eof(scan).scan
      /\ alphabet' = alphabet /\ text' = text /\ unread' = unread
  BY DEF End
<1>2. TextInv'
  BY <1>1 DEF TextInv, TextTypes
<1>3. CASE scan.err = "nil"
  <2> DEFINE p == ToCome(scan.step, scan.parseState)
  <2>1. Live(scan)
    BY <1>1, <1>3 DEF TextInv, Going
  <2>2. pendingOf = p /\ verdictOf = "open"
    BY <1>1, <1>3, VerdictIs
  <2>3. scan'.err = "nil" <=> Grammar!Empty(p, 1)
    BY <1>1, <2>1, EofIs
  <2> HIDE DEF p
  <2>4. pendingOf' = <<>> /\ verdictOf' = IF Grammar!Empty(p, 1) THEN "accepted" ELSE "rejected"
    BY <1>1, <2>3, VerdictBecomes
  <2>5. Grammar!Ends
    BY <2>2, <2>4 DEF Grammar!Ends, Grammar!Stops
  <2> QED  BY <1>2, <2>5 DEF Grammar!Next
<1>4. CASE scan.err # "nil"
  <2>1. Failed
    BY <1>1, <1>4 DEF TextInv
  <2>2. scan' = scan
    BY <1>1, <1>4, <2>1, ErrorStays DEF Failed
  <2>3. pendingOf' = pendingOf /\ verdictOf' = verdictOf
    BY <1>4, <2>2, VerdictIs, VerdictBecomes
  <2> QED  BY <1>2, <2>3 DEF Grammar!vars
<1> QED  BY <1>3, <1>4

\* Every step of the scanner is a step of the grammar or none.
LEMMA GrammarStep == TextInv /\ [Next]_vars => TextInv' /\ [Grammar!Next]_(Grammar!vars)
<1> SUFFICES ASSUME TextInv, [Next]_vars PROVE TextInv' /\ [Grammar!Next]_(Grammar!vars)
  OBVIOUS
<1>1. CASE unread # <<>> /\ Feed(unread)
  BY <1>1, FeedStep DEF TextInv, TextTypes
<1>2. ASSUME NEW word \in alphabet, Feed(word)
      PROVE  TextInv' /\ [Grammar!Next]_(Grammar!vars)
  <2>1. word \in Seq(AllBytes) /\ word # <<>>
    BY WordsAre DEF TextInv, TextTypes
  <2> QED  BY <1>2, <2>1, FeedStep
<1>3. CASE End
  BY <1>3, EndStep
<1>4. CASE UNCHANGED vars
  <2>1. scan' = scan /\ ended' = ended /\ text' = text /\ unread' = unread /\ alphabet' = alphabet
    BY <1>4 DEF vars
  <2>2. TextInv'
    BY <2>1 DEF TextInv, TextTypes, Going, Failed
  <2>3. pendingOf' = pendingOf /\ verdictOf' = verdictOf
    BY <2>1 DEF pendingOf, verdictOf
  <2> QED  BY <2>2, <2>3 DEF Grammar!vars
<1> QED  BY <1>1, <1>2, <1>3, <1>4 DEF Next

\* The scanner's own invariant: what it has on its stack fits what it is at.
THEOREM ScannerInvariant == Spec => []TextInv
<1>1. Init => TextInv
  BY GrammarInit
<1>2. TextInv /\ [Next]_vars => TextInv'
  BY GrammarStep
<1> QED  BY <1>1, <1>2, PTL DEF Spec

\* scanner.error, stateMaybeComment: an error names the byte its offset says,
\* also when it is found one byte late.
THEOREM ErrorsNameBytes == Spec => []ErrorNamesItsByte
<1>1. TextInv => ErrorNamesItsByte
  BY DEF TextInv, Failed, ErrorNamesItsByte
<1> QED  BY <1>1, ScannerInvariant, PTL

\* checkValid: for every text, of any length and nesting, the scanner goes on
\* as long as the grammar does, and accepts and rejects what the grammar does.
THEOREM ScannerReadsGrammar == Spec => GrammarSpec
<1>1. Init => Grammar!Init
  BY GrammarInit
<1>2. TextInv /\ [Next]_vars => [Grammar!Next]_(Grammar!vars)
  BY GrammarStep
<1> QED  BY <1>1, <1>2, ScannerInvariant, PTL DEF Spec, GrammarSpec, Grammar!Spec

-----------------------------------------------------------------------------
(* Where an error is shown.                                                 *)

\* Every set of numbers has a least one.
LEMMA LessIs == IsWellFoundedOn({p \in Nat \X Nat : p[1] < p[2]}, Nat)
BY NatLessThanWellFounded DEF OpToRel

LEMMA Least ==
    ASSUME NEW T, T \subseteq Nat, T # {}
    PROVE  \E x \in T : \A y \in T : x <= y
<1> DEFINE R == {p \in Nat \X Nat : p[1] < p[2]}
<1>1. \E x \in T : \A y \in T : ~(<<y, x>> \in R)
  <2> HIDE DEF R
  <2> QED  BY LessIs, WFMin DEF R
<1>2. PICK x \in T : \A y \in T : ~(<<y, x>> \in R)
  BY <1>1
<1>3. ASSUME NEW y \in T, ~(x <= y) PROVE FALSE
  <2>1. x \in Nat /\ y \in Nat /\ y < x
    BY <1>3
  <2>2. <<y, x>> \in R
    BY <2>1
  <2> QED  BY <1>2, <2>2
<1> QED  BY <1>3

FirstPlace == [line |-> 1, col |-> 0]

\* f has the places after the first m bytes of s.
Places(f, s, m) ==
    f = [n \in 0..m |-> IF n = 0 THEN FirstPlace ELSE NextPlace(f[n - 1], s[n])]

\* The recursion of getOffsetPosition has a solution,
LEMMA PlacesExist ==
    ASSUME NEW s, NEW m \in Nat
    PROVE  \E f : Places(f, s, m)
<1> DEFINE T == {x \in Nat : ~\E f : Places(f, s, x)}
<1>1. ASSUME T # {} PROVE FALSE
  <2>1. PICK x \in T : \A y \in T : x <= y
    BY <1>1, Least
  <2>2. x \in Nat /\ ~\E f : Places(f, s, x)
    BY <2>1
  <2>3. CASE x = 0
    <3> DEFINE f == [n \in 0..0 |-> FirstPlace]
    <3>1. f = [n \in 0..0 |-> IF n = 0 THEN FirstPlace ELSE NextPlace(f[n - 1], s[n])]
      OBVIOUS
    <3> HIDE DEF f
    <3>2. Places(f, s, 0)
      BY <3>1 DEF Places
    <3> QED  BY <2>2, <2>3, <3>2
  <2>4. CASE x # 0
    <3>1. x - 1 \in Nat /\ ~(x <= x - 1)
      BY <2>2, <2>4
    <3>2. x - 1 \notin T
      BY <2>1, <3>1
    <3>3. PICK f : Places(f, s, x - 1)
      BY <3>1, <3>2
    <3> DEFINE last == NextPlace(f[x - 1], s[x])
               g == [n \in 0..x |-> IF n = x THEN last ELSE f[n]]
               h == [n \in 0..x |-> IF n = 0 THEN FirstPlace ELSE NextPlace(g[n - 1], s[n])]
    <3>4. \A n \in 0..x - 1 : f[n] = IF n = 0 THEN FirstPlace ELSE NextPlace(f[n - 1], s[n])
      BY <3>3, Zenon DEF Places
    <3>5. \A n \in 0..x : n - 1 \in 0..x - 1 \/ n = 0
      BY <2>2
    <3>6. ASSUME NEW n \in 0..x PROVE g[n] = h[n]
      <4>1. CASE n = x
        <5>1. g[n] = last /\ n # 0 /\ g[x - 1] = f[x - 1]
          BY <2>2, <2>4, <4>1
        <5> HIDE DEF g
        <5>2. h[n] = NextPlace(g[x - 1], s[x])
          BY <4>1, <5>1
        <5> QED  BY <5>1, <5>2, Zenon
      <4>2. CASE n # x /\ n = 0
        <5>1. g[n] = f[n] /\ 0 \in 0..x - 1
          BY <2>2, <4>2
        <5>2. h[n] = FirstPlace
          BY <4>2
        <5> QED  BY <3>4, <4>2, <5>1, <5>2
      <4>3. CASE n # x /\ n # 0
        <5>1. g[n] = f[n] /\ g[n - 1] = f[n - 1] /\ n \in 0..x - 1
          BY <2>2, <4>3
        <5> HIDE DEF g
        <5>2. h[n] = NextPlace(g[n - 1], s[n])
          BY <4>3
        <5>3. f[n] = NextPlace(f[n - 1], s[n])
          BY <3>4, <4>3, <5>1
        <5> QED  BY <5>1, <5>2, <5>3, Zenon
      <4> QED  BY <4>1, <4>2, <4>3
    <3>7. g = [n \in 0..x |-> g[n]] /\ h = [n \in 0..x |-> h[n]]
      OBVIOUS
    <3> HIDE DEF g
    <3>8. g = h
      <4> HIDE DEF h
      <4> QED  BY <3>6, <3>7
    <3>9. Places(g, s, x)
      BY <3>8, Zenon DEF Places
    <3> QED  BY <2>2, <3>9
  <2> QED  BY <2>3, <2>4
<1>2. m \notin T
  BY <1>1
<1> QED  BY <1>2

\* and so obeys its equation.
LEMMA PositionIs ==
    ASSUME text \in Seq(AllBytes)
    PROVE  /\ position[0] = FirstPlace
           /\ \A n \in 1..Len(text) : position[n] = NextPlace(position[n - 1], text[n])
<1> DEFINE m == Len(text)
<1>1. m \in Nat
  OBVIOUS
<1>2. position = CHOOSE f : Places(f, text, m)
  BY DEF position, Places, FirstPlace
<1>3. \E f : Places(f, text, m)
  BY <1>1, PlacesExist
<1>4. Places(position, text, m)
  BY <1>2, <1>3, Zenon
<1>5. \A n \in 0..m : position[n] = IF n = 0 THEN FirstPlace ELSE NextPlace(position[n - 1], text[n])
  BY <1>4, Zenon DEF Places
<1> HIDE DEF m
<1>6. 0 \in 0..m /\ \A n \in 1..m : n \in 0..m /\ n # 0
  BY <1>1
<1> QED  BY <1>5, <1>6, Zenon DEF m

\* Byte k ends the line before the one byte n stands in, if there is one.
PlacedAfter(n, k) ==
    /\ k = 0 => position[n] = [line |-> 1, col |-> n]
    /\ k # 0 => /\ text[k] = "newline"
                /\ \E line \in Nat : line > 1 /\ position[n] = [line |-> line, col |-> n - k + 1]
    /\ \A j \in k + 1..n : text[j] # "newline"
Placed(n) == \E k \in 0..n : PlacedAfter(n, k)

\* Line and column are those of the last line break, byte by byte.
LEMMA NextPlaced ==
    ASSUME text \in Seq(AllBytes), NEW n \in 1..Len(text), Placed(n - 1)
    PROVE  Placed(n)
<1>1. n \in Nat /\ n - 1 \in Nat /\ position[n] = NextPlace(position[n - 1], text[n])
  BY PositionIs
<1>2. PICK k \in 0..n - 1 : PlacedAfter(n - 1, k)
  BY DEF Placed
<1>3. PICK line \in Nat : line >= 1 /\ (k = 0 => line = 1) /\ (k # 0 => line > 1)
                          /\ position[n - 1] = [line |-> line, col |-> IF k = 0 THEN n - 1 ELSE n - k]
  <2>1. CASE k = 0
    <3> DEFINE column == IF k = 0 THEN n - 1 ELSE n - k
    <3>1. position[n - 1] = [line |-> 1, col |-> n - 1] /\ column = n - 1
      BY <1>2, <2>1 DEF PlacedAfter
    <3> HIDE DEF column
    <3>2. position[n - 1] = [line |-> 1, col |-> column] /\ 1 \in Nat /\ 1 >= 1
      BY <3>1
    <3> QED  BY <2>1, <3>2, Zenon DEF column
  <2>2. CASE k # 0
    <3>1. PICK l \in Nat : l > 1 /\ position[n - 1] = [line |-> l, col |-> n - 1 - k + 1]
      BY <1>2, <2>2 DEF PlacedAfter
    <3>2. n - 1 - k + 1 = n - k
      BY <1>1
    <3> QED  BY <2>2, <3>1, <3>2
  <2> QED  BY <2>1, <2>2
<1>4. CASE text[n] = "newline"
  <2>1. position[n] = [line |-> line + 1, col |-> 1]
    BY <1>1, <1>3, <1>4 DEF NextPlace
  <2>2. n - n + 1 = 1 /\ line + 1 \in Nat /\ line + 1 > 1 /\ n # 0 /\ n + 1..n = {}
    BY <1>1, <1>3
  <2>3. PlacedAfter(n, n)
    BY <1>4, <2>1, <2>2 DEF PlacedAfter
  <2> QED  BY <1>1, <2>3 DEF Placed
<1>5. CASE text[n] # "newline"
  <2>1. position[n] = [line |-> line, col |-> IF k = 0 THEN n ELSE n - k + 1]
    <3>1. (IF k = 0 THEN n - 1 ELSE n - k) + 1 = IF k = 0 THEN n ELSE n - k + 1
      BY <1>1
    <3> QED  BY <1>1, <1>3, <1>5, <3>1 DEF NextPlace
  <2>2. \A j \in k + 1..n : text[j] # "newline"
    <3>1. \A j \in k + 1..n - 1 : text[j] # "newline"
      BY <1>2 DEF PlacedAfter
    <3>2. \A j \in k + 1..n : j = n \/ j \in k + 1..n - 1
      BY <1>1
    <3> QED  BY <1>5, <3>1, <3>2
  <2>3. k # 0 => text[k] = "newline"
    BY <1>2 DEF PlacedAfter
  <2>4. PlacedAfter(n, k)
    <3>1. CASE k = 0
      BY <1>3, <2>1, <2>2, <3>1 DEF PlacedAfter
    <3>2. CASE k # 0
      BY <1>3, <2>1, <2>2, <2>3, <3>2 DEF PlacedAfter
    <3> QED  BY <3>1, <3>2
  <2>5. k \in 0..n
    BY <1>1
  <2> QED  BY <2>4, <2>5 DEF Placed
<1> QED  BY <1>4, <1>5

LEMMA AllPlaced ==
    ASSUME text \in Seq(AllBytes), NEW n \in 0..Len(text)
    PROVE  Placed(n)
<1> DEFINE T == {x \in 0..Len(text) : ~Placed(x)}
<1>1. ASSUME T # {} PROVE FALSE
  <2>1. PICK x \in T : \A y \in T : x <= y
    <3>1. T \subseteq Nat
      OBVIOUS
    <3> HIDE DEF T
    <3> QED  BY <1>1, <3>1, Least
  <2>2. x \in 0..Len(text) /\ ~Placed(x) /\ Len(text) \in Nat
    BY <2>1
  <2>3. CASE x = 0
    <3>1. PlacedAfter(0, 0)
      BY PositionIs DEF PlacedAfter, FirstPlace
    <3> QED  BY <2>2, <2>3, <3>1 DEF Placed
  <2>4. CASE x # 0
    <3>1. x \in 1..Len(text) /\ x - 1 \in 0..Len(text) /\ ~(x <= x - 1)
      BY <2>2, <2>4
    <3>2. Placed(x - 1)
      BY <2>1, <3>1
    <3> QED  BY <2>2, <3>1, <3>2, NextPlaced
  <2> QED  BY <2>3, <2>4
<1> QED  BY <1>1

\* getHighLightString: the caret stands below the byte the error names, in the
\* first line one column before it.
THEOREM CaretStands == Spec => []CaretMarksByte
<1>1. TextInv => CaretMarksByte
  <2> SUFFICES ASSUME TextInv, scan.err # "nil", scan.err # "newline", ~ended
               PROVE  LineMargin + InLine(scan.offset) =
                        CaretColumn(scan.offset) + (IF position[scan.offset].line = 1 THEN 1 ELSE 0)
    BY DEF CaretMarksByte
  <2> DEFINE i == scan.offset
  <2>1. text \in Seq(AllBytes) /\ i \in DOMAIN text /\ text[i] # "newline"
    BY DEF TextInv, TextTypes, Failed
  <2>2. i \in 1..Len(text) /\ i \in 0..Len(text) /\ i \in Nat /\ i >= 1
    BY <2>1
  <2> HIDE DEF i
  <2>3. PICK k \in 0..i : PlacedAfter(i, k)
    BY <2>1, <2>2, AllPlaced DEF Placed
  <2>4. /\ k # 0 => text[k] = "newline"
        /\ \A j \in k + 1..i : text[j] # "newline"
        /\ k \in Nat /\ k < i
    <3>1. k # 0 => text[k] = "newline"
      BY <2>3 DEF PlacedAfter
    <3>2. \A j \in k + 1..i : text[j] # "newline"
      BY <2>3 DEF PlacedAfter
    <3>3. k # i
      BY <2>1, <2>2, <3>1
    <3> QED  BY <2>2, <3>1, <3>2, <3>3
  <2> DEFINE Near(q) == /\ q = i \/ text[i - q] = "newline"
                        /\ \A j \in i - q + 1..i - 1 : text[j] # "newline"
  <2>5. i - k \in 1..i /\ Near(i - k)
    <3>1. i - k \in 1..i /\ i - (i - k) = k /\ (i - k = i <=> k = 0)
      BY <2>2, <2>4
    <3>2. \A j \in k + 1..i - 1 : j \in k + 1..i
      BY <2>2, <2>4
    <3> QED  BY <2>4, <3>1, <3>2
  <2>6. ASSUME NEW q \in 1..i, Near(q) PROVE q = i - k
    <3>1. CASE q < i - k
      <4>1. i - q \in k + 1..i /\ q # i
        BY <2>2, <2>4, <3>1
      <4> QED  BY <2>4, <2>6, <4>1
    <3>2. CASE q > i - k
      <4>1. k # 0 /\ k \in i - q + 1..i - 1
        BY <2>2, <2>4, <3>2
      <4> QED  BY <2>4, <2>6, <4>1
    <3> QED  BY <2>2, <2>4, <3>1, <3>2
  <2>7. InLine(i) = CHOOSE q \in 1..i : Near(q)
    BY DEF InLine
  <2> HIDE DEF Near
  <2>8. InLine(i) = i - k
    BY <2>5, <2>6, <2>7
  <2>9. CASE k = 0
    <3>1. position[i] = [line |-> 1, col |-> i]
      BY <2>3, <2>9 DEF PlacedAfter
    <3>2. position[i].line = 1 /\ position[i].col = i
      BY <3>1
    <3> QED  BY <2>2, <2>8, <2>9, <3>2 DEF CaretColumn, LineMargin, i
  <2>10. CASE k # 0
    <3>1. PICK line \in Nat : line > 1 /\ position[i] = [line |-> line, col |-> i - k + 1]
      BY <2>3, <2>10 DEF PlacedAfter
    <3>2. position[i].line # 1 /\ position[i].col = i - k + 1
      BY <3>1
    <3> QED  BY <2>2, <2>4, <2>8, <3>2 DEF CaretColumn, LineMargin, i
  <2> QED  BY <2>9, <2>10
<1> QED  BY <1>1, ScannerInvariant, PTL
=============================================================================
