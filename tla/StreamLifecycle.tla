--------------------------- MODULE StreamLifecycle ---------------------------
(***************************************************************************)
(* What the stream pool of tcpassembly promises about one stream object,   *)
(* whoever races with whom: it is created once, handed to one connection   *)
(* at a time, closed once per connection, and put back in the free list    *)
(* once per close, never before it is closed.  TcpAssembly implements it.  *)
(***************************************************************************)
CONSTANT Stream          \* the stream objects the pool may ever allocate

VARIABLE life            \* life[s]: where the object s is in its life

State == {"none", "free", "open", "closing"}

TypeOK == life \in [Stream -> State]

Init == life = [s \in Stream |-> "none"]

\* A free or a new object is handed out; a batch of new objects may join the
\* free list in the same step.
Acquire(s) ==
    /\ life[s] \in {"none", "free"}
    /\ life' \in [Stream -> State]
    /\ life'[s] = "open"
    /\ \A t \in Stream \ {s} : \/ life'[t] = life[t]
                               \/ life[t] = "none" /\ life'[t] = "free"

Close(s)   == life[s] = "open"    /\ life' = [life EXCEPT ![s] = "closing"]
Release(s) == life[s] = "closing" /\ life' = [life EXCEPT ![s] = "free"]

Next == \E s \in Stream : Acquire(s) \/ Close(s) \/ Release(s)

Spec == Init /\ [][Next]_life
=============================================================================
