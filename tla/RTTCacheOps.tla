---------------------------- MODULE RTTCacheOps -----------------------------
(* RTTCache under any sequence of its operations.                           *)
EXTENDS RTTCache

CONSTANT MaxLength   \* bound: elements in the list

CacheInit == NewRTTCache

CacheNext ==
    \/ \E k \in Key, ts \in Time :
           (k \in cache \/ Len(linkedList) < MaxLength) /\ Push(k, ts)
    \/ \E k \in Key : Pull(k) \/ Remove(k)
    \/ \E now \in Time : Purge(now)
    \/ RemoveOldest \/ RemoveAll \/ Reset

CacheSpec == CacheInit /\ [][CacheNext]_cacheVars
-----------------------------------------------------------------------------
\* The map holds exactly the elements of the list, and the list holds no key
\* twice: no sequence of operations leaves a dangling element (which would
\* make Purge's loop spin for ever under the lock) or a lost one.
IndexMatchesList ==
    /\ cache = KeysOf(linkedList)
    /\ \A i, j \in DOMAIN linkedList : linkedList[i].key = linkedList[j].key => i = j

\* A closed cache is empty: what a connection left behind is not there when
\* stream.reset opens the cache again for the next connection.
ClosedIsEmpty == closed => linkedList = <<>> /\ cache = {}

\* A Pull that succeeds takes out an element of the flow at most one off the
\* number asked for, the exact one if it was there, and nothing of that flow
\* stays that was in front of it: no segment is measured twice, and none
\* acknowledged before it is left.
PullTakesItsSegment ==
    [][ret'.op = "Pull" /\ ret'.ok =>
         \E i \in DOMAIN linkedList :
            LET k == ret'.key IN
            /\ linkedList[i] = ret'.value /\ SameKey(ret'.value.key, k)
            /\ Seqno(ret'.value.key) - Seqno(k) \in -1..1
            /\ k \in cache => ret'.value.key = k
            /\ \A j \in 1..i : SameKey(linkedList[j].key, k) =>
                   linkedList[j].key \notin KeysOf(linkedList')]_cacheVars
=============================================================================
