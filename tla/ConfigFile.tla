------------------------------ MODULE ConfigFile ------------------------------
(***************************************************************************)
(* Config.Initialize: the configuration file is decoded, and what is out   *)
(* of range is replaced by its default.  (ErrorPlace has what it shows of  *)
(* a syntax error.)  The name of a field is one byte of the text.          *)
(***************************************************************************)
EXTENDS JsonDecode, ErrorPlace

VARIABLE config   \* [status |-> how Initialize ended, value |-> TConfig]

configVars == <<decodeVars, config>>

Struct(fields) ==
    [kind |-> "Struct", fields |-> [i \in DOMAIN fields |->
        [name |-> <<fields[i][1]>>, type |-> fields[i][2]]]]

IntField  == [kind |-> "Int"]
TextField == [kind |-> "String"]

NetworkIface == Struct(<<<<"name", TextField>>, <<"snaplen", IntField>>, <<"filter", TextField>>,
                         <<"bufferSize", IntField>>, <<"promisc", [kind |-> "Bool"]>>>>)
Config == Struct(<<<<"ifaces", [kind |-> "Slice", elem |-> [kind |-> "Ptr", elem |-> NetworkIface]]>>,
                   <<"loglevel", IntField>>, <<"cacheLog", TextField>>, <<"timeout", IntField>>>>)

\* Decoded through the address of a pointer: null makes it a nil pointer.
Target == [kind |-> "Ptr", elem |-> Config]

NoConfig == [status |-> "none", value |-> <<>>]

ConfigInit == DecodeInit /\ config = NoConfig

\* A field of a struct, replaced if its number is bad.
Default(record, name, bad(_), default) ==
    LET key == <<name>> IN
    IF bad(record.object[key].number) THEN [record EXCEPT !.object[key] = [number |-> default]]
    ELSE record

NotPositive(n) == n <= 0

\* Mutant: an interface without a snaplen is not looked at any further.
IfaceSnaplen(iface) ==
    IF iface.object[<<"snaplen">>].number > 0 THEN iface
    ELSE Default(iface, "snaplen", NotPositive, 2048)

IfaceDefaults(iface) ==
    Default(Default(iface, "snaplen", NotPositive, 2048), "bufferSize", NotPositive, 5120)

ConfigDefaults(conf) ==
    Default(Default(conf, "loglevel", LAMBDA n : n < 0 \/ n > 7, 6), "timeout", NotPositive, 120)

Ifaces(conf) == SubSeq(conf.object[<<"ifaces">>].cells, 1, conf.object[<<"ifaces">>].len)
IsNil(pointer) == pointer = [pointer |-> <<>>]

\* Initialize, once Unmarshal returned.
Initialize ==
    /\ Decoded /\ target = Target /\ config = NoConfig
    /\ LET failed == result.d.err # "nil" \/ result.d.saved
           conf   == result.v.pointer[1]
       IN  config' =
             CASE failed -> [status |-> "error", value |-> <<>>]
               [] ~failed /\ IsNil(result.v) -> [status |-> "panic", value |-> <<>>]
               [] ~failed /\ ~IsNil(result.v) ->
                  CASE Ifaces(conf) = <<>> -> [status |-> "error", value |-> <<>>]
                    [] Ifaces(conf) # <<>> /\ \E i \in DOMAIN Ifaces(conf) : IsNil(Ifaces(conf)[i]) ->
                         [status |-> "panic", value |-> <<>>]
                    [] OTHER ->
                         [status |-> "ok", value |->
                            [config |-> ConfigDefaults(conf),
                             ifaces |-> [i \in DOMAIN Ifaces(conf) |->
                                           IfaceDefaults(Ifaces(conf)[i].pointer[1])]]]
    /\ UNCHANGED decodeVars

ConfigNext == (DecodeNext /\ UNCHANGED config) \/ Initialize

ConfigSpec == ConfigInit /\ [][ConfigNext]_configVars

-----------------------------------------------------------------------------
\* A configuration that Initialize accepts has interfaces, and every number of
\* theirs and its own in range, whatever fields the file leaves out, repeats,
\* or sets to null (config.go:57).  Only a null for an interface, or for all of
\* it, is dereferenced.
ConfigUsable ==
    /\ config.status = "ok" =>
         /\ config.value.ifaces # <<>>
         /\ \A i \in DOMAIN config.value.ifaces :
              LET iface == config.value.ifaces[i].object IN
              iface[<<"snaplen">>].number > 0 /\ iface[<<"bufferSize">>].number > 0
         /\ LET conf == config.value.config.object IN
            conf[<<"loglevel">>].number \in 0..7 /\ conf[<<"timeout">>].number > 0
    /\ config.status = "panic" /\ Tree(1).unique =>
         LET tree == Tree(1).value IN
         \/ tree = Null
         \/ Null \in Seqs!ToSet(tree.object[<<"ifaces">>].array)
=============================================================================
