--------------------------- MODULE RTTCacheProofs ----------------------------
(***************************************************************************)
(* Theorems about the RTT cache, for any flows, numbers and times and any  *)
(* length of its list.                                                     *)
(***************************************************************************)
EXTENDS RTTCacheOps, FiniteSetTheorems, TLAPS

CacheInv ==
    /\ closed \in BOOLEAN
    /\ linkedList \in Seq(Entry)
    /\ IndexMatchesList /\ ClosedIsEmpty

-----------------------------------------------------------------------------
(* What is left of a list: its elements at the positions K in their order.  *)

Rank(K, i)    == Cardinality({h \in K : h <= i})
Position(K, j) == CHOOSE i \in K : Rank(K, i) = j

\* Every position of K has a rank of its own, and every rank a position.
LEMMA RankIsBijective ==
    ASSUME NEW n \in Nat, NEW K, K \subseteq 1..n
    PROVE  /\ Cardinality(K) \in Nat
           /\ \A j \in 1..Cardinality(K) : Position(K, j) \in K /\ Rank(K, Position(K, j)) = j
           /\ \A i \in K : Rank(K, i) \in 1..Cardinality(K) /\ Position(K, Rank(K, i)) = i
<1>1. IsFiniteSet(K) /\ Cardinality(K) \in Nat
  <2>1. IsFiniteSet(1..n) /\ K \in SUBSET (1..n)
    BY FS_Interval
  <2> QED  BY <2>1, FS_Subset, FS_CardinalityType
<1> DEFINE Upto(i) == {h \in K : h <= i}
           c == Cardinality(K)
           r == [i \in K |-> Rank(K, i)]
<1>2. \A i \in K : IsFiniteSet(Upto(i)) /\ Cardinality(Upto(i)) \in 1..c
  <2> SUFFICES ASSUME NEW i \in K PROVE IsFiniteSet(Upto(i)) /\ Cardinality(Upto(i)) \in 1..c
    OBVIOUS
  <2>1. Upto(i) \in SUBSET K /\ i \in Upto(i)
    OBVIOUS
  <2> HIDE DEF Upto
  <2>2. IsFiniteSet(Upto(i)) /\ Cardinality(Upto(i)) <= c
    BY <1>1, <2>1, FS_Subset
  <2>3. Cardinality(Upto(i)) \in Nat /\ Cardinality(Upto(i)) # 0
    BY <2>1, <2>2, FS_CardinalityType, FS_EmptySet
  <2> QED  BY <1>1, <2>2, <2>3
<1>3. \A h \in K, i \in K : h < i => Cardinality(Upto(h)) < Cardinality(Upto(i))
  <2> SUFFICES ASSUME NEW h \in K, NEW i \in K, h < i
               PROVE  Cardinality(Upto(h)) < Cardinality(Upto(i))
    OBVIOUS
  <2>1. Upto(h) \in SUBSET Upto(i) /\ i \in Upto(i) /\ i \notin Upto(h)
    <3>1. h \in Int /\ i \in Int /\ \A l \in K : l \in Int
      OBVIOUS
    <3>2. \A l \in K : l <= h => l <= i
      BY <3>1
    <3>3. i <= i /\ ~(i <= h)
      BY <3>1
    <3> QED  BY <3>2, <3>3
  <2>2. IsFiniteSet(Upto(i)) /\ Cardinality(Upto(i)) \in Nat /\ Cardinality(Upto(h)) \in Nat
    BY <1>1, <1>2
  <2> HIDE DEF Upto
  <2>3. /\ Cardinality(Upto(h)) <= Cardinality(Upto(i))
        /\ Cardinality(Upto(h)) # Cardinality(Upto(i))
    BY <2>1, <2>2, FS_Subset
  <2> QED  BY <2>2, <2>3
<1>4. \A h \in K, i \in K : Rank(K, h) = Rank(K, i) => h = i
  <2>1. \A h \in K, i \in K : h < i \/ i < h \/ h = i
    OBVIOUS
  <2>2. \A i \in K : Cardinality(Upto(i)) \in Nat
    BY <1>2
  <2> HIDE DEF Upto
  <2>3. \A h \in K, i \in K : Cardinality(Upto(h)) = Cardinality(Upto(i)) => h = i
    BY <1>3, <2>1, <2>2
  <2> QED  BY <2>3 DEF Rank, Upto
<1>5. \A i \in K : Rank(K, i) \in 1..c
  BY <1>2 DEF Rank
<1>6. r \in Injection(K, 1..c)
  <2>1. r \in [K -> 1..c] /\ \A h \in K, i \in K : r[h] = r[i] => h = i
    BY <1>4, <1>5
  <2> QED  BY <2>1 DEF Injection, IsInjective
<1>7. r \in Surjection(K, 1..c)
  <2>1. IsFiniteSet(1..c) /\ Cardinality(1..c) = c
    BY <1>1, FS_Interval
  <2> HIDE DEF r
  <2> QED  BY <1>1, <1>6, <2>1, FS_Injection
<1>8. \A j \in 1..c : \E i \in K : Rank(K, i) = j
  BY <1>7 DEF Surjection
<1> QED  BY <1>1, <1>4, <1>5, <1>8 DEF Position

\* A set of positions that is not empty has a last one: its rank is the size.
LEMMA LastPosition ==
    ASSUME NEW n \in Nat, NEW K, K \subseteq 1..n, K # {}
    PROVE  \E i \in K : \A j \in K : j <= i
<1> DEFINE c == Cardinality(K)
           Upto(i) == {h \in K : h <= i}
<1>1. IsFiniteSet(K)
  <2>1. IsFiniteSet(1..n) /\ K \in SUBSET (1..n)
    BY FS_Interval
  <2> QED  BY <2>1, FS_Subset
<1>2. c \in Nat /\ c # 0
  BY <1>1, FS_CardinalityType, FS_EmptySet
<1>3. PICK i \in K : Rank(K, i) = c
  <2>1. c \in 1..c
    BY <1>2
  <2> QED  BY <2>1, RankIsBijective
<1>4. Upto(i) \in SUBSET K /\ Cardinality(Upto(i)) = Cardinality(K)
  BY <1>3 DEF Rank
<1> HIDE DEF Upto
<1>5. Upto(i) = K
  BY <1>1, <1>4, FS_Subset
<1> QED  BY <1>5 DEF Upto

\* Without keeps the elements that are not taken out, and no other.
LEMMA WithoutKeeps ==
    ASSUME linkedList \in Seq(Entry), NEW R
    PROVE  /\ Without(R) \in Seq(Entry)
           /\ \A j \in DOMAIN Without(R) : \E i \in DOMAIN linkedList \ R :
                 Without(R)[j] = linkedList[i]
           /\ \A i \in DOMAIN linkedList \ R : \E j \in DOMAIN Without(R) :
                 Without(R)[j] = linkedList[i]
           /\ IndexMatchesList =>
                 \A h, j \in DOMAIN Without(R) : Without(R)[h].key = Without(R)[j].key => h = j
           /\ DOMAIN linkedList \subseteq R => Without(R) = <<>>
<1> DEFINE K == DOMAIN linkedList \ R
           c == Cardinality(K)
           W == Without(R)
<1>1. Len(linkedList) \in Nat /\ DOMAIN linkedList = 1..Len(linkedList) /\ K \subseteq 1..Len(linkedList)
  OBVIOUS
<1>2. W = [j \in 1..c |-> linkedList[Position(K, j)]]
  BY DEF Without, Position, Rank
<1> HIDE DEF K, W
<1>3. /\ c \in Nat
      /\ \A j \in 1..c : Position(K, j) \in K /\ Rank(K, Position(K, j)) = j
      /\ \A i \in K : Rank(K, i) \in 1..c /\ Position(K, Rank(K, i)) = i
  BY <1>1, RankIsBijective
<1> HIDE DEF c
<1>4. \A i \in K : i \in DOMAIN linkedList /\ linkedList[i] \in Entry
  BY DEF K
<1>5. W \in Seq(Entry) /\ DOMAIN W = 1..c
  BY <1>2, <1>3, <1>4
<1>6. \A j \in 1..c : \E i \in K : W[j] = linkedList[i]
  BY <1>2, <1>3
<1>7. \A i \in K : \E j \in 1..c : W[j] = linkedList[i]
  BY <1>2, <1>3
<1>8. IndexMatchesList => \A h, j \in 1..c : W[h].key = W[j].key => h = j
  <2> SUFFICES ASSUME IndexMatchesList, NEW h \in 1..c, NEW j \in 1..c, W[h].key = W[j].key
               PROVE  h = j
    OBVIOUS
  <2>1. Position(K, h) = Position(K, j)
    BY <1>2, <1>3, <1>4 DEF IndexMatchesList
  <2> QED  BY <1>3, <2>1
<1>9. DOMAIN linkedList \subseteq R => W = <<>>
  <2> SUFFICES ASSUME K = {} PROVE W = <<>>
    BY DEF K
  <2>1. c = 0
    BY FS_EmptySet DEF c
  <2> QED  BY <1>2, <2>1
<1> QED  BY <1>5, <1>6, <1>7, <1>8, <1>9 DEF K, W

\* Taking elements out keeps list and map together.
LEMMA RemoveKeeps ==
    ASSUME CacheInv, NEW R \in SUBSET DOMAIN linkedList, RemoveElements(R)
    PROVE  /\ linkedList' \in Seq(Entry) /\ IndexMatchesList'
           /\ linkedList = <<>> \/ R = DOMAIN linkedList => linkedList' = <<>> /\ cache' = {}
           /\ \A i \in DOMAIN linkedList : i \in R => linkedList[i].key \notin KeysOf(linkedList')
<1> DEFINE gone == {linkedList[i].key : i \in R}
<1>1. /\ linkedList \in Seq(Entry) /\ IndexMatchesList
      /\ linkedList' = Without(R) /\ cache' = cache \ gone
  BY DEF CacheInv, RemoveElements
<1>2. /\ linkedList' \in Seq(Entry)
      /\ \A j \in DOMAIN linkedList' : \E i \in DOMAIN linkedList \ R : linkedList'[j] = linkedList[i]
      /\ \A i \in DOMAIN linkedList \ R : \E j \in DOMAIN linkedList' : linkedList'[j] = linkedList[i]
      /\ \A h, j \in DOMAIN linkedList' : linkedList'[h].key = linkedList'[j].key => h = j
      /\ DOMAIN linkedList \subseteq R => linkedList' = <<>>
  <2> DEFINE W == Without(R)
  <2>1. /\ W \in Seq(Entry)
        /\ \A j \in DOMAIN W : \E i \in DOMAIN linkedList \ R : W[j] = linkedList[i]
        /\ \A i \in DOMAIN linkedList \ R : \E j \in DOMAIN W : W[j] = linkedList[i]
        /\ \A h, j \in DOMAIN W : W[h].key = W[j].key => h = j
        /\ DOMAIN linkedList \subseteq R => W = <<>>
    BY <1>1, WithoutKeeps
  <2> HIDE DEF W
  <2>2. linkedList' = W
    BY <1>1 DEF W
  <2> QED  BY <2>1, <2>2
<1>3. \A k : k \in KeysOf(linkedList') <=> \E i \in DOMAIN linkedList \ R : linkedList[i].key = k
  <2>1. \A k : k \in KeysOf(linkedList') <=> \E j \in DOMAIN linkedList' : linkedList'[j].key = k
    BY DEF KeysOf
  <2>2. \A j \in DOMAIN linkedList' : \E i \in DOMAIN linkedList \ R :
            linkedList'[j].key = linkedList[i].key
    BY <1>2
  <2>3. \A i \in DOMAIN linkedList \ R : \E j \in DOMAIN linkedList' :
            linkedList'[j].key = linkedList[i].key
    BY <1>2
  <2>4. ASSUME NEW k, k \in KeysOf(linkedList')
        PROVE  \E i \in DOMAIN linkedList \ R : linkedList[i].key = k
    BY <2>1, <2>2, <2>4
  <2>5. ASSUME NEW k, NEW i \in DOMAIN linkedList \ R, linkedList[i].key = k
        PROVE  k \in KeysOf(linkedList')
    BY <2>1, <2>3, <2>5
  <2> QED  BY <2>4, <2>5
<1>4. \A k : k \in cache <=> \E i \in DOMAIN linkedList : linkedList[i].key = k
  BY <1>1 DEF IndexMatchesList, KeysOf
<1>5. \A h, i \in DOMAIN linkedList : linkedList[h].key = linkedList[i].key => h = i
  BY <1>1 DEF IndexMatchesList
<1>6. \A k : k \in gone <=> \E i \in R : linkedList[i].key = k
  OBVIOUS
<1> HIDE DEF gone
<1>7. \A k : k \in cache' <=> \E i \in DOMAIN linkedList \ R : linkedList[i].key = k
  BY <1>1, <1>4, <1>5, <1>6
<1>8. IndexMatchesList'
  <2>1. cache' = KeysOf(linkedList')
    BY <1>3, <1>7
  <2> QED  BY <1>2, <2>1 DEF IndexMatchesList
<1>9. linkedList = <<>> \/ R = DOMAIN linkedList => linkedList' = <<>> /\ cache' = {}
  <2> SUFFICES ASSUME linkedList = <<>> \/ R = DOMAIN linkedList
               PROVE  linkedList' = <<>> /\ cache' = {}
    OBVIOUS
  <2>1. DOMAIN linkedList \subseteq R
    OBVIOUS
  <2> QED  BY <1>2, <1>7, <2>1
<1>10. \A i \in DOMAIN linkedList : i \in R => linkedList[i].key \notin KeysOf(linkedList')
  BY <1>3, <1>5
<1> QED  BY <1>2, <1>8, <1>9, <1>10

LEMMA KeyIsAt ==
    ASSUME CacheInv, NEW k \in cache
    PROVE  At(k) \in DOMAIN linkedList /\ linkedList[At(k)].key = k
BY DEF CacheInv, IndexMatchesList, KeysOf, At

LEMMA EntriesAre ==
    ASSUME CacheInv, NEW i \in DOMAIN linkedList
    PROVE  linkedList[i] \in Entry /\ linkedList[i].key \in Key
<1>1. linkedList \in Seq(Entry)
  BY DEF CacheInv
<1>2. linkedList[i] \in Entry
  BY <1>1
<1>3. \A e \in Entry : e.key \in Key
  BY DEF Entry
<1> QED  BY <1>2, <1>3

LEMMA NewInv == NewRTTCache => CacheInv
<1> SUFFICES ASSUME NewRTTCache PROVE CacheInv
  OBVIOUS
<1>1. linkedList = <<>> /\ cache = {} /\ closed = FALSE /\ DOMAIN linkedList = {}
  BY DEF NewRTTCache
<1>2. KeysOf(linkedList) = {}
  BY <1>1 DEF KeysOf
<1>3. IndexMatchesList /\ ClosedIsEmpty
  BY <1>1, <1>2 DEF IndexMatchesList, ClosedIsEmpty
<1>4. closed \in BOOLEAN
  BY <1>1
<1>5. linkedList \in Seq(Entry)
  BY <1>1
<1> QED  BY <1>3, <1>4, <1>5 DEF CacheInv

LEMMA PushInv ==
    ASSUME CacheInv, NEW k \in Key, NEW ts \in Time, Push(k, ts)
    PROVE  CacheInv'
<1> DEFINE e == [key |-> k, Seen |-> ts]
<1>1. /\ closed \in BOOLEAN /\ linkedList \in Seq(Entry) /\ e \in Entry /\ e.key = k
      /\ Len(linkedList) \in Nat /\ DOMAIN linkedList = 1..Len(linkedList)
      /\ closed' = closed
  BY DEF CacheInv, Push, Entry
<1>2. /\ cache = KeysOf(linkedList)
      /\ \A i, j \in DOMAIN linkedList : linkedList[i].key = linkedList[j].key => i = j
  BY DEF CacheInv, IndexMatchesList
<1>3. CASE closed /\ UNCHANGED <<linkedList, cache>>
  BY <1>1, <1>3 DEF CacheInv, IndexMatchesList, ClosedIsEmpty, KeysOf
<1>4. CASE /\ ~closed /\ k \in cache /\ cache' = cache
           /\ linkedList' = <<[key |-> k, Seen |-> ts]>> \o Without({At(k)})
  <2> DEFINE W == Without({At(k)})
  <2>1. At(k) \in DOMAIN linkedList /\ linkedList[At(k)].key = k
    BY <1>4, KeyIsAt
  <2>2. /\ W \in Seq(Entry)
        /\ \A j \in DOMAIN W : \E i \in DOMAIN linkedList \ {At(k)} : W[j] = linkedList[i]
        /\ \A i \in DOMAIN linkedList \ {At(k)} : \E j \in DOMAIN W : W[j] = linkedList[i]
        /\ \A h, j \in DOMAIN W : W[h].key = W[j].key => h = j
    BY <1>1, WithoutKeeps DEF CacheInv
  <2> HIDE DEF W, e
  <2>3. linkedList' = <<e>> \o W
    BY <1>4 DEF e, W
  <2>4. /\ linkedList' \in Seq(Entry) /\ Len(W) \in Nat /\ DOMAIN W = 1..Len(W)
        /\ DOMAIN linkedList' = 1..(Len(W) + 1) /\ linkedList'[1] = e
        /\ \A j \in 2..(Len(W) + 1) : linkedList'[j] = W[j - 1]
    BY <1>1, <2>2, <2>3
  <2>5. \A j \in DOMAIN W : W[j].key # k
    BY <1>2, <2>1, <2>2
  <2>6. \A j \in DOMAIN linkedList' : j = 1 \/ (j - 1 \in DOMAIN W /\ linkedList'[j] = W[j - 1])
    BY <2>4
  <2>7. \A h, j \in DOMAIN linkedList' : linkedList'[h].key = linkedList'[j].key => h = j
    <3>1. linkedList'[1].key = k
      BY <1>1, <2>4
    <3> SUFFICES ASSUME NEW h \in DOMAIN linkedList', NEW j \in DOMAIN linkedList',
                        linkedList'[h].key = linkedList'[j].key
                 PROVE  h = j
      OBVIOUS
    <3>2. CASE h = 1 \/ j = 1
      BY <2>5, <2>6, <3>1, <3>2
    <3>3. CASE h # 1 /\ j # 1
      <4>1. h - 1 = j - 1
        BY <2>2, <2>6, <3>3
      <4> QED  BY <2>4, <4>1
    <3> QED  BY <3>2, <3>3
  <2>8. \A l : l \in KeysOf(linkedList') <=> l \in KeysOf(linkedList)
    <3>1. \A l : l \in KeysOf(linkedList') <=> l = k \/ \E j \in DOMAIN W : W[j].key = l
      <4>1. \A j \in DOMAIN W : j + 1 \in 2..(Len(W) + 1) /\ (j + 1) - 1 = j
        BY <2>4
      <4>2. 1 \in DOMAIN linkedList' /\ \A j \in 2..(Len(W) + 1) : j \in DOMAIN linkedList'
        BY <2>4
      <4>3. linkedList'[1].key = k
        BY <1>1, <2>4
      <4>4. \A j \in DOMAIN W : j + 1 \in DOMAIN linkedList' /\ linkedList'[j + 1] = W[j]
        BY <2>4, <4>1, <4>2
      <4>5. \A l : (\E j \in DOMAIN linkedList' : linkedList'[j].key = l)
                     <=> l = k \/ \E j \in DOMAIN W : W[j].key = l
        BY <2>6, <4>2, <4>3, <4>4
      <4> QED  BY <4>5 DEF KeysOf
    <3>2. \A l : l \in KeysOf(linkedList) <=> l = k \/ \E j \in DOMAIN W : W[j].key = l
      BY <2>1, <2>2 DEF KeysOf
    <3> QED  BY <3>1, <3>2
  <2>9. IndexMatchesList'
    BY <1>2, <1>4, <2>7, <2>8 DEF IndexMatchesList
  <2> QED  BY <1>1, <1>4, <2>4, <2>9 DEF CacheInv, ClosedIsEmpty
<1>5. CASE /\ ~closed /\ k \notin cache /\ cache' = cache \cup {k}
           /\ linkedList' = Append(linkedList, [key |-> k, Seen |-> ts])
  <2> DEFINE n == Len(linkedList)
  <2>1. linkedList' = Append(linkedList, e)
    BY <1>5
  <2> HIDE DEF e
  <2>2. /\ linkedList' \in Seq(Entry) /\ DOMAIN linkedList' = 1..(n + 1) /\ linkedList'[n + 1] = e
        /\ \A i \in DOMAIN linkedList : linkedList'[i] = linkedList[i]
    BY <1>1, <2>1
  <2> HIDE DEF n
  <2>3. \A i \in DOMAIN linkedList' : i \in DOMAIN linkedList \/ i = n + 1
    BY <1>1, <2>2 DEF n
  <2>4. n + 1 \in DOMAIN linkedList' /\ \A i \in DOMAIN linkedList : i \in DOMAIN linkedList'
    BY <1>1, <2>2 DEF n
  <2>5. \A i \in DOMAIN linkedList : linkedList[i].key # k
    BY <1>2, <1>5 DEF KeysOf
  <2>6. \A h, j \in DOMAIN linkedList' : linkedList'[h].key = linkedList'[j].key => h = j
    BY <1>1, <1>2, <2>2, <2>3, <2>5
  <2>7. \A l : l \in KeysOf(linkedList') <=> l \in KeysOf(linkedList) \/ l = k
    BY <1>1, <2>2, <2>3, <2>4 DEF KeysOf
  <2>8. IndexMatchesList'
    BY <1>2, <1>5, <2>6, <2>7 DEF IndexMatchesList
  <2> QED  BY <1>1, <1>5, <2>2, <2>8 DEF CacheInv, ClosedIsEmpty
<1> QED  BY <1>3, <1>4, <1>5 DEF Push

\* What every removal of positions R leaves, when the cache is not reopened.
LEMMA RemoveInv ==
    ASSUME CacheInv, NEW R \in SUBSET DOMAIN linkedList, RemoveElements(R),
           closed' = closed \/ (closed' = TRUE /\ R = DOMAIN linkedList)
    PROVE  CacheInv'
<1>1. /\ linkedList' \in Seq(Entry) /\ IndexMatchesList'
      /\ linkedList = <<>> \/ R = DOMAIN linkedList => linkedList' = <<>> /\ cache' = {}
  BY RemoveKeeps, SMTT(30)
<1>2. closed \in BOOLEAN /\ (closed => linkedList = <<>>)
  BY DEF CacheInv, ClosedIsEmpty
<1>3. closed' \in BOOLEAN
  BY <1>2
<1>4. ClosedIsEmpty'
  <2>1. CASE R = DOMAIN linkedList
    BY <1>1, <2>1 DEF ClosedIsEmpty
  <2>2. CASE closed' = closed
    BY <1>1, <1>2, <2>2 DEF ClosedIsEmpty
  <2> QED  BY <2>1, <2>2
<1> QED  BY <1>1, <1>3, <1>4 DEF CacheInv

\* The same when neither list, map nor the closed flag changes.
LEMMA SameInv ==
    ASSUME CacheInv, closed' = closed, UNCHANGED <<linkedList, cache>>
    PROVE  CacheInv'
BY DEF CacheInv, IndexMatchesList, ClosedIsEmpty, KeysOf

LEMMA PullInv ==
    ASSUME CacheInv, NEW k \in Key, Pull(k)
    PROVE  CacheInv'
<1>1. closed' = closed
  BY DEF Pull
<1>2. CASE UNCHANGED <<linkedList, cache>>
  BY <1>1, <1>2, SameInv
<1>3. CASE PullHit(k)
  <2>1. /\ At(k) \in DOMAIN linkedList /\ linkedList \in Seq(Entry) /\ RemoveElements(1..At(k))
    BY <1>3, KeyIsAt DEF PullHit, CacheInv
  <2>2. 1..At(k) \in SUBSET DOMAIN linkedList
    BY <2>1
  <2> QED  BY <1>1, <2>1, <2>2, RemoveInv
<1>4. CASE PullScan(k)
  <2>1. PICK R \in SUBSET DOMAIN linkedList : RemoveElements(R)
    BY <1>4 DEF PullScan
  <2> QED  BY <1>1, <2>1, RemoveInv
<1> QED  BY <1>2, <1>3, <1>4 DEF Pull

LEMMA OthersInv ==
    ASSUME CacheInv,
           \/ \E now \in Time : Purge(now)
           \/ \E k \in Key : Remove(k)
           \/ RemoveOldest \/ RemoveAll \/ Reset
    PROVE  CacheInv'
<1>1. ASSUME NEW now \in Time, Purge(now) PROVE CacheInv'
  <2>1. PICK R \in SUBSET DOMAIN linkedList : RemoveElements(R)
    BY <1>1 DEF Purge
  <2>2. closed' = closed
    BY <1>1 DEF Purge
  <2> QED  BY <2>1, <2>2, RemoveInv
<1>2. ASSUME NEW k \in Key, Remove(k) PROVE CacheInv'
  <2>1. closed' = closed
    BY <1>2 DEF Remove
  <2>2. CASE k \in cache
    <3>1. {At(k)} \in SUBSET DOMAIN linkedList /\ RemoveElements({At(k)})
      BY <1>2, <2>2, KeyIsAt DEF Remove
    <3> QED  BY <2>1, <3>1, RemoveInv
  <2>3. CASE k \notin cache
    BY <1>2, <2>1, <2>3, SameInv DEF Remove
  <2> QED  BY <2>2, <2>3
<1>3. CASE RemoveOldest
  <2>1. {Len(linkedList)} \cap DOMAIN linkedList \in SUBSET DOMAIN linkedList
    OBVIOUS
  <2> QED  BY <1>3, <2>1, RemoveInv DEF RemoveOldest
<1>4. CASE RemoveAll
  BY <1>4, RemoveInv DEF RemoveAll
<1>5. CASE Reset
  <2>1. closed' = FALSE /\ UNCHANGED <<linkedList, cache>>
    BY <1>5 DEF Reset
  <2> QED  BY <2>1 DEF CacheInv, IndexMatchesList, ClosedIsEmpty, KeysOf
<1> QED  BY <1>1, <1>2, <1>3, <1>4, <1>5

\* The invariant the theorems below rest on.
THEOREM CacheInvariant == CacheSpec => []CacheInv
<1>1. CacheInit => CacheInv
  BY NewInv DEF CacheInit
<1>2. CacheInv /\ [CacheNext]_cacheVars => CacheInv'
  <2> SUFFICES ASSUME CacheInv, [CacheNext]_cacheVars PROVE CacheInv'
    OBVIOUS
  <2>1. CASE UNCHANGED cacheVars
    BY <2>1, SameInv DEF cacheVars
  <2>2. CASE CacheNext
    <3>1. ASSUME NEW k \in Key, NEW ts \in Time, Push(k, ts) PROVE CacheInv'
      BY <3>1, PushInv
    <3>2. ASSUME NEW k \in Key, Pull(k) PROVE CacheInv'
      BY <3>2, PullInv
    <3> QED  BY <2>2, <3>1, <3>2, OthersInv DEF CacheNext
  <2> QED  BY <2>1, <2>2
<1> QED  BY <1>1, <1>2, PTL DEF CacheSpec

\* Whatever the operations and their order, the map and the list of the cache
\* hold the same elements, and no key twice (cache.go).
THEOREM MapAndListAgree == CacheSpec => []IndexMatchesList
<1>1. CacheInv => IndexMatchesList
  BY DEF CacheInv
<1> QED  BY <1>1, CacheInvariant, PTL

\* What RemoveAll closes it leaves empty, and nothing enters before a Reset.
THEOREM ClosedStaysEmpty == CacheSpec => []ClosedIsEmpty
<1>1. CacheInv => ClosedIsEmpty
  BY DEF CacheInv
<1> QED  BY <1>1, CacheInvariant, PTL

Taken ==
    ret'.op = "Pull" /\ ret'.ok =>
      \E i \in DOMAIN linkedList :
         LET k == ret'.key IN
         /\ linkedList[i] = ret'.value /\ SameKey(ret'.value.key, k)
         /\ Seqno(ret'.value.key) - Seqno(k) \in -1..1
         /\ k \in cache => ret'.value.key = k
         /\ \A j \in 1..i : SameKey(linkedList[j].key, k) =>
                linkedList[j].key \notin KeysOf(linkedList')

LEMMA HitTakes ==
    ASSUME CacheInv, NEW k \in Key, PullHit(k)
    PROVE  Taken
<1>1. /\ At(k) \in DOMAIN linkedList /\ linkedList[At(k)].key = k /\ linkedList \in Seq(Entry)
      /\ RemoveElements(1..At(k)) /\ ret'.key = k /\ ret'.value = linkedList[At(k)]
  BY KeyIsAt DEF PullHit, CacheInv, Returns
<1>2. 1..At(k) \in SUBSET DOMAIN linkedList
  BY <1>1
<1>3. \A j \in 1..At(k) : linkedList[j].key \notin KeysOf(linkedList')
  BY <1>1, <1>2, RemoveKeeps, SMTT(30)
<1>4. Seqno(k) - Seqno(k) \in -1..1 /\ SameKey(k, k)
  <2>1. k[2] \in Int
    BY SeqnumAssumption DEF Key
  <2> QED  BY <2>1 DEF Seqno, SameKey
<1> QED  BY <1>1, <1>3, <1>4 DEF Taken

LEMMA ScanTakes ==
    ASSUME CacheInv, NEW k \in Key, PullScan(k), ret'.ok
    PROVE  Taken
<1> DEFINE Beyond(e) == SameKey(e.key, k) /\ Seqno(e.key) > Seqno(k) + 1
           gone == {i \in DOMAIN linkedList : /\ SameKey(linkedList[i].key, k)
                                              /\ \A j \in 1..i : ~Beyond(linkedList[j])}
           l == CHOOSE i \in gone : \A j \in gone : j <= i
<1>1. /\ k \notin cache /\ RemoveElements(gone) /\ gone # {}
      /\ Seqno(linkedList[l].key) \in {Seqno(k) + 1, Seqno(k) - 1}
      /\ ret'.key = k /\ ret'.value = linkedList[l]
  BY DEF PullScan, Returns
<1>2. linkedList \in Seq(Entry) /\ gone \subseteq 1..Len(linkedList) /\ Len(linkedList) \in Nat
      /\ DOMAIN linkedList = 1..Len(linkedList) /\ gone \in SUBSET DOMAIN linkedList
  BY DEF CacheInv
<1>3. l \in gone
  <2> HIDE DEF gone
  <2>1. \E i \in gone : \A j \in gone : j <= i
    BY <1>1, <1>2, LastPosition
  <2> QED  BY <2>1
<1> HIDE DEF l
<1>4. l \in DOMAIN linkedList /\ SameKey(linkedList[l].key, k)
      /\ \A j \in 1..l : ~Beyond(linkedList[j])
  BY <1>3
<1>5. \A j \in 1..l : SameKey(linkedList[j].key, k) => j \in gone
  <2> SUFFICES ASSUME NEW j \in 1..l, SameKey(linkedList[j].key, k) PROVE j \in gone
    OBVIOUS
  <2>1. j \in DOMAIN linkedList /\ \A h \in 1..j : h \in 1..l
    BY <1>2, <1>4
  <2> HIDE DEF Beyond
  <2> QED  BY <1>4, <2>1
<1> HIDE DEF gone, Beyond
<1>6. \A j \in 1..l : SameKey(linkedList[j].key, k) => linkedList[j].key \notin KeysOf(linkedList')
  BY <1>1, <1>2, <1>5, RemoveKeeps, SMTT(30)
<1>7. Seqno(linkedList[l].key) - Seqno(k) \in -1..1
  <2>1. Seqno(k) \in Int
    BY SeqnumAssumption DEF Key, Seqno
  <2> QED  BY <1>1, <2>1
<1> QED  BY <1>1, <1>4, <1>6, <1>7 DEF Taken

\* Whatever was pushed before, a Pull that succeeds hands out a segment of its
\* flow at most one off, and leaves none of that flow in front of it, so no
\* segment is measured twice (cache.go).
THEOREM PullsTakeTheirSegment == CacheSpec => PullTakesItsSegment
<1>1. CacheInv /\ [CacheNext]_cacheVars => [Taken]_cacheVars
  <2> SUFFICES ASSUME CacheInv, CacheNext, ret'.op = "Pull", ret'.ok PROVE Taken
    BY DEF Taken
  <2>1. PICK k \in Key : Pull(k)
    <3>1. ASSUME NEW k \in Key, NEW ts \in Time, Push(k, ts) PROVE ret'.op = "Push"
      BY <3>1 DEF Push, Returns
    <3>2. ASSUME NEW k \in Key, Remove(k) PROVE ret'.op = "Remove"
      BY <3>2 DEF Remove, Returns
    <3>3. ASSUME NEW now \in Time, Purge(now) PROVE ret'.op = "Purge"
      BY <3>3 DEF Purge, Returns
    <3>4. RemoveOldest \/ RemoveAll \/ Reset => ret'.op # "Pull"
      BY DEF RemoveOldest, RemoveAll, Reset, Returns
    <3> QED  BY <3>1, <3>2, <3>3, <3>4 DEF CacheNext
  <2>2. PullHit(k) \/ PullScan(k)
    BY <2>1 DEF Pull, Returns
  <2> QED  BY <2>2, HitTakes, ScanTakes
<1> QED  BY <1>1, CacheInvariant, PTL DEF CacheSpec, PullTakesItsSegment, Taken

=============================================================================
