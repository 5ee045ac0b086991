---- MODULE DenseMap ----
(***************************************************************************)
(* llvm-DenseMap.h as the side tables instantiate it for the reference     *)
(* counts (NSObject.mm:86): open addressing with quadratic probing, where  *)
(* an erased key leaves a tombstone, and a key whose value is zero may be  *)
(* dropped at any time, being no different from one that is absent.  It is *)
(* used under the lock of the side table, so an operation is a step.       *)
(***************************************************************************)
EXTENDS Integers, FiniteSets, SequencesExt

CONSTANTS
    Keys,           \* the objects
    Empty, Tombstone,
    KeyHash,        \* getHashValue of a key
    Values,         \* the values stored; 0 is the default one
    MIN_BUCKETS,    \* 4
    MIN_COMPACT,    \* a larger table may shrink (1024)
    Sparse          \* ... when less than one bucket in Sparse is used (16)

\* What an instance has to give.
DenseMapAssumption ==
    /\ Empty # Tombstone /\ {Empty, Tombstone} \cap Keys = {}
    /\ KeyHash \in [Keys -> Nat] /\ 0 \in Values /\ Values \subseteq Nat
    /\ MIN_BUCKETS \in {2^i : i \in 1 .. 10}

VARIABLES
    buckets,        \* 0 .. NumBuckets - 1 -> key and value
    entries,        \* NumEntries
    tombstones,     \* NumTombstones
    held            \* what the program has stored: Keys -> Values

denseVars == <<buckets, entries, tombstones, held>>

Bucket(k, v) == [key |-> k, val |-> v]
AllEmpty(n) == [i \in 0 .. n - 1 |-> Bucket(Empty, 0)]
NumBuckets(b) == Cardinality(DOMAIN b)

\* The least power of two above n.
NextPowerOf2(n) == 2^(CHOOSE i \in 0 .. n : 2^i > n /\ (i = 0 \/ 2^(i - 1) <= n))

-----------------------------------------------------------------------------
\* The i-th bucket that is looked at.
Probe(b, k, i) == (KeyHash[k] + (i * (i + 1)) \div 2) % NumBuckets(b)

\* The looks before the first one that ends the search, and that one.
Looks(b, k) ==
    LET Ends == {i \in 0 .. NumBuckets(b) : b[Probe(b, k, i)].key \in {k, Empty}}
    IN 0 .. (CHOOSE i \in Ends : \A j \in Ends : i <= j)

Purgeable(c) == c.key # Empty /\ c.val = 0

\* The bucket with k, or the first one met that may take it.
LookupBucketFor(b, k) ==
    LET at == [i \in Looks(b, k) |-> Probe(b, k, i)]
        last == Cardinality(Looks(b, k)) - 1
        free == {i \in Looks(b, k) : b[at[i]].key = Tombstone \/ Purgeable(b[at[i]])}
    IN IF b[at[last]].key = k \/ free = {} THEN at[last]
       ELSE at[CHOOSE i \in free : \A j \in free : i <= j]

HasKey(b, k) == NumBuckets(b) > 0 /\ b[LookupBucketFor(b, k)].key = k

\* lookup(), and find() where nothing found reads as zero.
ValueOf(b, k) == IF HasKey(b, k) THEN b[LookupBucketFor(b, k)].val ELSE 0

-----------------------------------------------------------------------------
\* A map is the triple of the buckets and the two counts.
\* Tombstones and zero values stay behind.
moveFromOldBuckets(old, n) ==
    FoldLeft(LAMBDA m, i :
                LET c == old[i - 1] IN
                IF c.key \in {Empty, Tombstone} \/ c.val = 0 THEN m
                ELSE <<[m[1] EXCEPT ![LookupBucketFor(m[1], c.key)] = c], m[2] + 1, 0>>,
             <<AllEmpty(n), 0, 0>>, [i \in 1 .. NumBuckets(old) |-> i])

grow(m, atLeast) ==
    LET n == NextPowerOf2(atLeast) IN
    moveFromOldBuckets(m[1], IF n < MIN_BUCKETS THEN MIN_BUCKETS ELSE n)

\* Both tests use the number of entries from before a growth.
MakeRoom(m) ==
    LET new == m[2] + 1
        n == NumBuckets(m[1])
        m1 == IF new * 4 >= n * 3 THEN grow(m, 2 * n) ELSE m
        n1 == NumBuckets(m1[1])
    IN IF n1 - (new + m1[3]) <= n1 \div 8 THEN grow(m1, n1) ELSE m1

\* The bucket taken may be an empty one, a tombstone or another key's zero.
InsertIntoBucket(m, k, v) ==
    LET r == MakeRoom(m)
        i == LookupBucketFor(r[1], k)
        was == r[1][i].key
    IN <<[r[1] EXCEPT ![i] = Bucket(k, v)],
         IF was \in {Empty, Tombstone} THEN r[2] + 1 ELSE r[2],
         IF was = Tombstone THEN r[3] - 1 ELSE r[3]>>

\* Without entries, shrink_and_clear() leaves no buckets at all.
compact(m) ==
    IF m[2] = 0 THEN <<AllEmpty(0), 0, 0>>
    ELSE IF NumBuckets(m[1]) \div Sparse > m[2] /\ NumBuckets(m[1]) > MIN_COMPACT
         THEN grow(m, 2 * m[2])
         ELSE m

map == <<buckets, entries, tombstones>>
Becomes(m) == buckets' = m[1] /\ entries' = m[2] /\ tombstones' = m[3]

-----------------------------------------------------------------------------
Init ==
    /\ buckets = AllEmpty(0) /\ entries = 0 /\ tombstones = 0
    /\ held = [k \in Keys |-> 0]

\* table[k] = v: operator[] makes a bucket with a zero where there is none.
assign(k, v) ==
    /\ Becomes(IF HasKey(buckets, k)
               THEN <<[buckets EXCEPT ![LookupBucketFor(buckets, k)].val = v],
                      entries, tombstones>>
               ELSE InsertIntoBucket(map, k, v))
    /\ held' = [held EXCEPT ![k] = v]

\* The tombstone keeps the value that was there.
erase(k) ==
    /\ HasKey(buckets, k)
    /\ LET i == LookupBucketFor(buckets, k) IN
       Becomes(compact(<<[buckets EXCEPT ![i].key = Tombstone], entries - 1,
                         tombstones + 1>>))
    /\ held' = [held EXCEPT ![k] = 0]

Next ==
    \/ \E k \in Keys, v \in Values : assign(k, v)
    \/ \E k \in Keys : erase(k)

Spec == Init /\ [][Next]_denseVars

-----------------------------------------------------------------------------
\* Every key reads as what was last stored for it, through growth, compaction,
\* tombstones and the reuse of buckets with a zero; no key is in two buckets,
\* the counts are those of the buckets, and an empty bucket is left, without
\* which a search for an absent key is fatal (llvm-DenseMap.h:441-554).
DenseMapExact ==
    LET With(k) == {i \in DOMAIN buckets : buckets[i].key = k} IN
    /\ \A k \in Keys : ValueOf(buckets, k) = held[k] /\ Cardinality(With(k)) <= 1
    /\ tombstones = Cardinality(With(Tombstone))
    /\ entries = Cardinality({k \in Keys : With(k) # {}})
    /\ (buckets # <<>> => With(Empty) # {})
====
