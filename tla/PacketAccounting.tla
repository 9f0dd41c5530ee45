-------------------------- MODULE PacketAccounting --------------------------
(* TcpAssembly with a history variable: what each conn should have counted. *)
EXTENDS TcpAssembly

VARIABLE seen   \* seen[s][sd]: packets put in the channel of s, for the conn
                \* sd of the connection s serves, since reset opened it

Started(s) == \E d \in Dumper : dpc[d] = "off" /\ target'[d] = s
Sent(s, sd) ==
    \E p \in Capturers :
        /\ cpc[p] = "send" /\ cpc'[p] = "idle" /\ ref[p] = s
        /\ pkt[p].key \in connMap[s]
        /\ sd = IF pkt[p].key = key[s] THEN "c2s" ELSE "s2c"

AInit == Init /\ seen = [s \in Stream |-> [sd \in Side |-> 0]]
ANext ==
    /\ Next
    /\ seen' = [s \in Stream |-> [sd \in Side |->
                   IF Started(s) THEN 0
                   ELSE IF Sent(s, sd) THEN seen[s][sd] + 1
                   ELSE seen[s][sd]]]
ASpec == AInit /\ [][ANext]_<<vars, seen>>

Busy(s) == \/ data[s] # <<>>
           \/ \E d \in Dumper : target[d] = s /\ dpc[d] \in {"got", "stat", "store"}

\* conn.go:39: Packets is the total of the packets seen on this stream.  When
\* an open stream has nothing queued or in hand, its counters say so.
PacketsIsTotalSeen ==
    \A s \in Stream : Open(s) /\ ~connClosed[s] /\ ~Busy(s) => Packets[s] = seen[s]
=============================================================================
