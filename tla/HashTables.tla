---- MODULE HashTables ----
(***************************************************************************)
(* The two hash tables the runtime keeps its classes, protocols, images    *)
(* and synchronized names in: NXMapTable (maptable.mm), open addressing    *)
(* with linear probing and without tombstones, so that a removal has to    *)
(* put back what stands behind it, and NXHashTable (hashtable2.mm), where  *)
(* a bucket is an array.  Both are used under the runtime's lock, so an    *)
(* operation is a step.                                                    *)
(***************************************************************************)
EXTENDS Integers, FiniteSets, SequencesExt

CONSTANTS
    MapKeys, MapValues,
    Data, KeyOf,        \* hash table data; two with the same key are equal
    NotAKey,            \* NX_MAPNOTAKEY
    HashOf,             \* the prototype's hash of a key
    MapCapacity, HashCapacity   \* the buckets at first

\* What an instance has to give.
HashTablesAssumption ==
    /\ NotAKey \notin MapKeys /\ KeyOf \in [Data -> DOMAIN HashOf]
    /\ MapKeys \subseteq DOMAIN HashOf /\ \A k \in DOMAIN HashOf : HashOf[k] \in Nat
    /\ MapCapacity \in {2^i : i \in 1 .. 10} /\ HashCapacity \in {2^i : i \in 0 .. 10}

VARIABLES
    pairs,      \* 0 .. nbBuckets - 1 -> the key and value of a map table's pair
    count,      \* its count
    mapHeld,    \* what the map has been told: key -> value, or NotAKey
    hashBuckets, hashCount,     \* the buckets of a hash table, each a sequence
    hashHeld    \* what the hash table has been told: a set of data

tableVars == <<pairs, count, mapHeld, hashBuckets, hashCount, hashHeld>>

NoPair == [key |-> NotAKey, value |-> NotAKey]
MapPair(k, v) == [key |-> k, value |-> v]
allocBuckets(n, b) == [i \in 0 .. n - 1 |-> b]
NbBuckets(b) == Cardinality(DOMAIN b)
BucketOf(b, k) == HashOf[k] % NbBuckets(b)

-----------------------------------------------------------------------------
\* The indices from the key's bucket on, as far as the first free pair.
Chain(p, k) ==
    LET n == NbBuckets(p)
        At(i) == (BucketOf(p, k) + i) % n
        Free == {i \in 0 .. n - 1 : p[At(i)].key = NotAKey}
        len == IF Free = {} THEN n ELSE CHOOSE i \in Free : \A j \in Free : i <= j
    IN [i \in 1 .. len |-> At(i - 1)]

\* The pair with the key, or the free one behind the chain.
_NXMapMember(p, k) == {i \in ToSet(Chain(p, k)) : p[i].key = k}

PairFor(p, k) ==
    IF _NXMapMember(p, k) # {} THEN CHOOSE i \in _NXMapMember(p, k) : TRUE
    ELSE (BucketOf(p, k) + Len(Chain(p, k))) % NbBuckets(p)

Put(m, k, v) ==
    <<[m[1] EXCEPT ![PairFor(m[1], k)] = MapPair(k, v)],
      IF _NXMapMember(m[1], k) = {} THEN m[2] + 1 ELSE m[2]>>

_NXMapRehash(m) ==
    LET n == NbBuckets(m[1]) IN
    FoldLeft(LAMBDA new, i : LET c == m[1][i - 1] IN
                             IF c = NoPair THEN new ELSE Put(new, c.key, c.value),
             <<allocBuckets(2 * n, NoPair), 0>>, [i \in 1 .. n |-> i])

\* More than three quarters full, the table grows after the insertion.
NXMapInsert(m, k, v) ==
    LET r == Put(m, k, v) IN
    IF r[2] # m[2] /\ r[2] * 4 > NbBuckets(r[1]) * 3 THEN _NXMapRehash(r) ELSE r

\* Mutant: only the pair of the key is freed.
NXMapRemoveAlone(m, k) ==
    IF _NXMapMember(m[1], k) = {} THEN m
    ELSE <<[m[1] EXCEPT ![PairFor(m[1], k)] = NoPair], m[2] - 1>>

\* The whole chain is taken out and, but for the key, put back from its end.
NXMapRemove(m, k) ==
    LET chain == Chain(m[1], k)
        others == SelectSeq(chain, LAMBDA i : m[1][i].key # k)
        freed == [i \in DOMAIN m[1] |-> IF i \in ToSet(chain) THEN NoPair ELSE m[1][i]]
    IN IF _NXMapMember(m[1], k) = {} THEN m
       ELSE FoldLeft(LAMBDA r, i : NXMapInsert(r, m[1][i].key, m[1][i].value),
                     <<freed, m[2] - Len(chain)>>, Reverse(others))

-----------------------------------------------------------------------------
HashBucket(b, d) == b[BucketOf(b, KeyOf[d])]

IsEqual(d, e) == KeyOf[d] = KeyOf[e]

\* The element of the bucket equal to the datum, if there is one.
NXHashGet(b, d) == {e \in ToSet(HashBucket(b, d)) : IsEqual(d, e)}

\* What is left of a bucket by the two copies before and after the element.
Shrunk(s, d) ==
    LET j == CHOOSE i \in DOMAIN s : IsEqual(d, s[i])
    IN SubSeq(s, 1, j - 1) \o SubSeq(s, j + 1, Len(s))

\* An equal element is replaced in its place, a new one goes to the front.
PutData(t, d) ==
    LET i == BucketOf(t[1], KeyOf[d]) IN
    IF NXHashGet(t[1], d) # {}
    THEN <<[t[1] EXCEPT ![i] = [j \in DOMAIN @ |-> IF IsEqual(d, @[j]) THEN d ELSE @[j]]],
           t[2]>>
    ELSE <<[t[1] EXCEPT ![i] = <<d>> \o @], t[2] + 1>>

\* NXNextHashState visits the buckets, and each bucket, from the end.
Iterated(b) ==
    FoldLeft(LAMBDA s, i : s \o Reverse(b[NbBuckets(b) - i]), <<>>,
             [i \in 1 .. NbBuckets(b) |-> i])

_NXHashRehash(t) ==
    FoldLeft(PutData, <<allocBuckets(2 * NbBuckets(t[1]), <<>>), 0>>, Iterated(t[1]))

\* A bucket that was empty makes no table grow.
NXHashInsert(t, d) ==
    LET r == PutData(t, d) IN
    IF HashBucket(t[1], d) # <<>> /\ r[2] # t[2] /\ r[2] > NbBuckets(r[1])
    THEN _NXHashRehash(r) ELSE r

NXHashInsertIfAbsent(t, d) ==
    IF NXHashGet(t[1], d) # {} THEN t ELSE NXHashInsert(t, d)

NXHashRemove(t, d) ==
    IF NXHashGet(t[1], d) = {} THEN t
    ELSE <<[t[1] EXCEPT ![BucketOf(t[1], KeyOf[d])] = Shrunk(@, d)], t[2] - 1>>

-----------------------------------------------------------------------------
Init ==
    /\ pairs = allocBuckets(MapCapacity, NoPair) /\ count = 0
    /\ mapHeld = [k \in MapKeys |-> NotAKey]
    /\ hashBuckets = allocBuckets(HashCapacity, <<>>) /\ hashCount = 0
    /\ hashHeld = {}

MapIs(m) ==
    /\ pairs' = m[1] /\ count' = m[2]
    /\ UNCHANGED <<hashBuckets, hashCount, hashHeld>>

HashIs(t) ==
    /\ hashBuckets' = t[1] /\ hashCount' = t[2]
    /\ UNCHANGED <<pairs, count, mapHeld>>

MapInsert(k, v) ==
    MapIs(NXMapInsert(<<pairs, count>>, k, v)) /\ mapHeld' = [mapHeld EXCEPT ![k] = v]

MapRemove(k) ==
    MapIs(NXMapRemove(<<pairs, count>>, k)) /\ mapHeld' = [mapHeld EXCEPT ![k] = NotAKey]

NXResetMapTable ==
    /\ MapIs(<<allocBuckets(NbBuckets(pairs), NoPair), 0>>)
    /\ mapHeld' = [k \in MapKeys |-> NotAKey]

EqualTo(d) == {e \in hashHeld : IsEqual(d, e)}

HashInsert(d) ==
    /\ HashIs(NXHashInsert(<<hashBuckets, hashCount>>, d))
    /\ hashHeld' = (hashHeld \ EqualTo(d)) \cup {d}

HashInsertIfAbsent(d) ==
    /\ HashIs(NXHashInsertIfAbsent(<<hashBuckets, hashCount>>, d))
    /\ hashHeld' = IF EqualTo(d) = {} THEN hashHeld \cup {d} ELSE hashHeld

HashRemove(d) ==
    /\ HashIs(NXHashRemove(<<hashBuckets, hashCount>>, d))
    /\ hashHeld' = hashHeld \ EqualTo(d)

\* NXEmptyHashTable and NXResetHashTable keep the buckets.
NXResetHashTable ==
    /\ HashIs(<<allocBuckets(NbBuckets(hashBuckets), <<>>), 0>>)
    /\ hashHeld' = {}

MapNext ==
    \/ \E k \in MapKeys, v \in MapValues : MapInsert(k, v)
    \/ \E k \in MapKeys : MapRemove(k)
    \/ NXResetMapTable

HashNext ==
    \/ \E d \in Data : HashInsert(d) \/ HashInsertIfAbsent(d) \/ HashRemove(d)
    \/ NXResetHashTable

Next == MapNext \/ HashNext

Spec == Init /\ [][Next]_tableVars

-----------------------------------------------------------------------------
\* A map table finds every key with the value last inserted for it and no key
\* that was removed, whatever was removed from the middle of a chain, and it
\* always has a free pair to end a search (maptable.mm:258-404).
MapExact ==
    /\ \A k \in MapKeys :
          LET P == _NXMapMember(pairs, k) IN
          {pairs[i].value : i \in P} = {mapHeld[k]} \ {NotAKey}
    /\ count = Cardinality({k \in MapKeys : mapHeld[k] # NotAKey})
    /\ count = Cardinality({i \in DOMAIN pairs : pairs[i] # NoPair})
    /\ count < NbBuckets(pairs)

\* A hash table holds the data inserted last and not removed, one for each
\* key, in the bucket of its key (hashtable2.mm:250-450).
HashExact ==
    /\ \A d \in Data : NXHashGet(hashBuckets, d) = EqualTo(d)
    /\ hashCount = Len(Iterated(hashBuckets))
    /\ hashCount = Cardinality(hashHeld)
====
