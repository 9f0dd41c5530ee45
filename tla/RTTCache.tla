------------------------------ MODULE RTTCache ------------------------------
(* cache.RTTCache: the segments a client sent and no acknowledgement took   *)
(* yet, as a list and a map over its elements, both under one mutex: every  *)
(* operation is one action.  A list element is its [key, Seen] record; the  *)
(* map is the set of the keys it holds, each standing for its element.      *)
EXTENDS Integers, Sequences, FiniteSets

CONSTANTS
    Flow,       \* the Net and Transport of a key
    Seqnum,     \* the sequence numbers of the keys
    Time,       \* the times of packets and of the clock
    Duration,   \* Purge drops what is older; 0: nothing
    NoValue     \* the nil *RTTCacheValue

ASSUME SeqnumAssumption == Seqnum \subseteq Int /\ Time \subseteq Int
ASSUME DurationAssumption == Duration \in Nat

VARIABLES closed, linkedList, cache,
          ret   \* what the last operation returned

cacheVars == <<closed, linkedList, cache, ret>>

Key   == Flow \X Seqnum
Entry == [key : Key, Seen : Time]
Seqno(k)      == k[2]
SameKey(k, l) == k[1] = l[1]
KeysOf(list)  == {list[i].key : i \in DOMAIN list}

\* The list elements at the positions R are taken out of list and map.
Without(R) ==
    LET kept    == DOMAIN linkedList \ R
        Rank(i) == Cardinality({h \in kept : h <= i})
    IN  [j \in 1..Cardinality(kept) |-> linkedList[CHOOSE i \in kept : Rank(i) = j]]

\* Mutant: the element leaves the list only.
UnlinkElements(R) == linkedList' = Without(R) /\ UNCHANGED cache

RemoveElements(R) ==
    /\ linkedList' = Without(R)
    /\ cache' = cache \ {linkedList[i].key : i \in R}

\* The element the map has for k.
At(k) == CHOOSE i \in DOMAIN linkedList : linkedList[i].key = k

Returns(op, k, ok, err, value) ==
    ret' = [op |-> op, key |-> k, ok |-> ok, err |-> err, value |-> value]

NewRTTCache ==
    /\ closed = FALSE
    /\ linkedList = <<>>
    /\ cache = {}
    /\ ret = [op |-> "New", ok |-> TRUE, err |-> FALSE, value |-> NoValue]

\* Mutant: the time of a key that is there already is not updated.
PushKeepsSeen(k, ts) ==
    /\ \/ /\ closed
          /\ Returns("Push", k, FALSE, TRUE, NoValue)
          /\ UNCHANGED <<linkedList, cache>>
       \/ /\ ~closed /\ k \in cache
          /\ linkedList' = <<linkedList[At(k)]>> \o Without({At(k)})
          /\ Returns("Push", k, TRUE, FALSE, NoValue)
          /\ UNCHANGED cache
       \/ /\ ~closed /\ k \notin cache
          /\ linkedList' = Append(linkedList, [key |-> k, Seen |-> ts])
          /\ cache' = cache \cup {k}
          /\ Returns("Push", k, FALSE, FALSE, NoValue)
    /\ UNCHANGED closed

\* A key that is there already is moved to the front with the new time.
Push(k, ts) ==
    /\ \/ /\ closed
          /\ Returns("Push", k, FALSE, TRUE, NoValue)
          /\ UNCHANGED <<linkedList, cache>>
       \/ /\ ~closed /\ k \in cache
          /\ linkedList' = <<[key |-> k, Seen |-> ts]>> \o Without({At(k)})
          /\ Returns("Push", k, TRUE, FALSE, NoValue)
          /\ UNCHANGED cache
       \/ /\ ~closed /\ k \notin cache
          /\ linkedList' = Append(linkedList, [key |-> k, Seen |-> ts])
          /\ cache' = cache \cup {k}
          /\ Returns("Push", k, FALSE, FALSE, NoValue)
    /\ UNCHANGED closed

\* Mutant: only the element itself is removed.
PullOnlyHit(k) ==
    /\ k \in cache
    /\ RemoveElements({At(k)})
    /\ Returns("Pull", k, TRUE, FALSE, linkedList[At(k)])

\* The key's element goes, with every element in front of it.
PullHit(k) ==
    /\ k \in cache
    /\ RemoveElements(1..At(k))
    /\ Returns("Pull", k, TRUE, FALSE, linkedList[At(k)])

\* The scan from the front: elements of the flow up to k + 1 go, the first
\* one beyond ends it; the last to go is the answer if it is one off k.
PullScan(k) ==
    /\ k \notin cache
    /\ LET Beyond(e) == SameKey(e.key, k) /\ Seqno(e.key) > Seqno(k) + 1
           gone == {i \in DOMAIN linkedList : /\ SameKey(linkedList[i].key, k)
                                              /\ \A j \in 1..i : ~Beyond(linkedList[j])}
           last == linkedList[CHOOSE i \in gone : \A j \in gone : j <= i]
       IN  /\ RemoveElements(gone)
           /\ IF gone # {} /\ Seqno(last.key) \in {Seqno(k) + 1, Seqno(k) - 1}
              THEN Returns("Pull", k, TRUE, FALSE, last)
              ELSE Returns("Pull", k, FALSE, FALSE, NoValue)

Pull(k) ==
    /\ \/ /\ closed
          /\ Returns("Pull", k, FALSE, TRUE, NoValue)
          /\ UNCHANGED <<linkedList, cache>>
       \/ ~closed /\ (PullHit(k) \/ PullScan(k))
    /\ UNCHANGED closed

\* Elements leave from the front until one is young enough.
Purge(now) ==
    /\ LET Old(e) == Duration # 0 /\ now - e.Seen > Duration
       IN  RemoveElements({i \in DOMAIN linkedList : \A j \in 1..i : Old(linkedList[j])})
    /\ Returns("Purge", <<>>, TRUE, FALSE, NoValue)
    /\ UNCHANGED closed

Remove(k) ==
    /\ IF k \in cache THEN RemoveElements({At(k)}) ELSE UNCHANGED <<linkedList, cache>>
    /\ Returns("Remove", k, TRUE, FALSE, NoValue)
    /\ UNCHANGED closed

\* The last element of the list goes.
RemoveOldest ==
    /\ RemoveElements({Len(linkedList)} \cap DOMAIN linkedList)
    /\ Returns("RemoveOldest", <<>>, TRUE, FALSE, NoValue)
    /\ UNCHANGED closed

\* Mutant: the cache is closed with its elements in it.
RemoveNone ==
    /\ UNCHANGED <<linkedList, cache>>
    /\ closed' = TRUE
    /\ Returns("RemoveAll", <<>>, TRUE, FALSE, NoValue)

RemoveAll ==
    /\ RemoveElements(DOMAIN linkedList)
    /\ closed' = TRUE
    /\ Returns("RemoveAll", <<>>, TRUE, FALSE, NoValue)

Reset ==
    /\ closed' = FALSE
    /\ Returns("Reset", <<>>, TRUE, FALSE, NoValue)
    /\ UNCHANGED <<linkedList, cache>>
=============================================================================
