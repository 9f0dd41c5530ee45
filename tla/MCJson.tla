-------------------------------- MODULE MCJson --------------------------------
\* Alphabets, each around one part of the grammar or of the decoder, the texts
\* over each, and the types they are decoded into.
EXTENDS ConfigFile

Bytes(set) == {<<c>> : c \in set}
Key(c)     == <<"quote", c, "quote", ":">>
Comment    == <<"/", "/", "newline">>

Nested   == Bytes({"[", "]", "{", "}", ",", "1"}) \cup {Key("a"), Key("b")}
Mixed    == Bytes({"[", "]", "}", ",", "2"}) \cup
            {<<"{">> \o Key("a"), Key("A"), Key("b"), <<"n", "u", "l", "l">>, <<"quote", "a", "quote">>}
Spaced   == Bytes({"[", "]", ",", "1", "space", "}"}) \cup {<<"{">> \o Key("a"), Key("b"), Comment}
File     == {<<"{">> \o Key("ifaces") \o <<"[">>, <<"{", "}">>, <<"{">> \o Key("snaplen"),
             Key("bufferSize"), <<"1">>, <<"-", "1">>, <<"n", "u", "l", "l">>, <<",">>,
             <<"}">>, <<"]", "}">>, <<"]", ",">> \o Key("loglevel")}
Strings  == Bytes({"quote", "backslash", "u", "a", "control"})

MCMaxLength ==
    Bytes({"{", "}", "[", "]", ":", ",", "quote", "1"}) :> 6 @@        \* nesting
    Bytes({"{", "}", "quote", ":", "1"}) :> 7 @@
    Bytes({"[", "]", ",", "{", "quote", "1", "/", "newline"}) :> 5 @@  \* comments
    Bytes({"0", "1", "-", ".", "e", "+", "space"}) :> 6 @@             \* numbers
    Bytes({"t", "r", "u", "e", "n", "l", "space"}) :> 6 @@             \* words
    Bytes({"f", "a", "l", "s", "e", "]", "["}) :> 7 @@
    Strings :> 8 @@                                                    \* strings
    Nested :> 9 @@ Mixed :> 7 @@ Spaced :> 6 @@                        \* decoding
    File :> 7                                                          \* configuration

Iface     == [kind |-> "Any"]
Int_      == IntField
Str       == TextField
PtrTo(T)   == [kind |-> "Ptr", elem |-> T]
SliceOf(T) == [kind |-> "Slice", elem |-> T]
ArrayOf(n, T) == [kind |-> "Array", len |-> n, elem |-> T]
MapOf(T)   == [kind |-> "Map", elem |-> T]
Fields(a, b) == Struct(<<<<"a", a>>, <<"b", b>>>>)
Like     == Fields(SliceOf(PtrTo(Fields(Str, Int_))), Int_)   \* like the configuration

MCTargets ==
    [a \in DOMAIN MCMaxLength |->
        CASE a = Nested  -> {Iface, Like, Fields(ArrayOf(1, Int_), Int_), MapOf(SliceOf(Int_)),
                             SliceOf(ArrayOf(1, Iface))}
          [] a = Mixed   -> {Like, MapOf(Fields(Int_, PtrTo(Str))), MapOf(Int_),
                             Fields(Fields(Str, Iface), SliceOf(Iface))}
          [] a = Spaced  -> {Iface, Fields(ArrayOf(1, Iface), SliceOf(Int_)), Fields(Str, Int_)}
          [] a = Strings -> {Iface, Str}
          [] a = File    -> {Target}
          [] OTHER       -> {}]
=============================================================================
