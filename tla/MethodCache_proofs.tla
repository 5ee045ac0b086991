------------------------- MODULE MethodCache_proofs -------------------------
(***************************************************************************)
(* Proofs about MethodCache, for any threads, classes, selectors, sizes of *)
(* caches and messages: a thread that scans a cache without a lock reads   *)
(* no freed memory and stays in bounds (NoReaderHarmed), and what a        *)
(* message calls was current while it was sent (CallsStayCurrent).         *)
(***************************************************************************)
EXTENDS MethodCache, WellFoundedInduction, SequenceTheorems, FiniteSetTheorems, TLAPS

-----------------------------------------------------------------------------
(* Numbers.                                                                *)

(* A set of numbers that is not empty has a least one.                     *)
LEMMA LeastNat ==
    ASSUME NEW T \in SUBSET Nat, T # {}
    PROVE  \E x \in T : \A y \in T : x <= y
<1>1. PICK R : R = OpToRel(<, Nat)
  OBVIOUS
<1>2. IsWellFoundedOn(R, Nat)
  BY <1>1, NatLessThanWellFounded
<1>3. PICK x \in T : \A y \in T : ~ (<<y, x>> \in R)
  BY <1>2, WFMin
<1>4. \A y \in Nat, z \in Nat : <<y, z>> \in R <=> y < z
  BY <1>1 DEF OpToRel
<1>5. \A y \in T : ~ (y < x)
  BY <1>3, <1>4
<1> QED BY <1>5

(* The least one is the one that is chosen.                                *)
LEMMA Chosen ==
    ASSUME NEW T \in SUBSET Nat, T # {}
    PROVE  LET m == CHOOSE x \in T : \A y \in T : x <= y
           IN  m \in T /\ \A y \in T : m <= y
BY LeastNat

(* From any place on, a search round a table comes to every place.         *)
LEMMA Round ==
    ASSUME NEW n \in Nat \ {0}, NEW h \in 0 .. n - 1, NEW p \in 1 .. n
    PROVE  \E i \in 0 .. n - 1 : ((h + i) % n) + 1 = p
<1>1. \A x \in 0 .. n - 1 : x % n = x
  OBVIOUS
<1>2. \A x \in 0 .. n - 1 : (x + n) % n = x
  OBVIOUS
<1>3. CASE p - 1 >= h
  <2>1. (p - 1) - h \in 0 .. n - 1 /\ h + ((p - 1) - h) = p - 1 /\ p - 1 \in 0 .. n - 1
    BY <1>3
  <2>2. ((h + ((p - 1) - h)) % n) + 1 = p
    BY <1>1, <2>1
  <2> QED BY <2>1, <2>2
<1>4. CASE p - 1 < h
  <2> DEFINE i == ((p - 1) - h) + n
  <2>1. i \in 0 .. n - 1 /\ h + i = (p - 1) + n /\ p - 1 \in 0 .. n - 1
    BY <1>4
  <2>2. ((h + i) % n) + 1 = p
    BY <1>2, <2>1
  <2> QED BY <2>1, <2>2
<1> QED BY <1>3, <1>4

-----------------------------------------------------------------------------
(* Which implementation is current.                                        *)

(* What the assumptions say of the constants.                              *)
LEMMA Constants ==
    ASSUME CacheAssumption
    PROVE
    /\ NoThread \notin Threads
    /\ \A c \in Classes : Supers[c] \in Seq(Classes)
    /\ \A c \in Classes : \A i \in DOMAIN Supers[c] :
           Supers[Supers[c][i]] = SubSeq(Supers[c], i + 1, Len(Supers[c]))
    /\ \A s \in Selectors : Key[s] \in Nat /\ Key[s] > 1
    /\ \A s, r \in Selectors : Key[s] = Key[r] => s = r
    /\ Forward # None
    /\ Methods \in Tables
    /\ \A table \in Tables : \A c \in Classes, s \in Selectors :
           table[c][s] # Forward /\ table[c][s] \in Implementations
    /\ \A t \in Threads : Messages[t] \subseteq Classes \X Selectors
    /\ INIT_CACHE_SIZE \in Nat /\ INIT_CACHE_SIZE >= 2
    /\ Memory \subseteq Nat /\ Empty \notin Memory
  BY DEF CacheAssumption, Tables, Implementations

(* The line of a class: the class, and then its superclasses.              *)
Line(c) == <<c>> \o Supers[c]
Size(c) == Len(Supers[c]) + 1

LEMMA LineType ==
    ASSUME CacheAssumption, NEW c \in Classes
    PROVE  /\ Len(Supers[c]) \in Nat /\ Size(c) \in Nat
           /\ DOMAIN Supers[c] = 1 .. Len(Supers[c])
           /\ DOMAIN Line(c) = 1 .. Size(c)
           /\ Line(c)[1] = c
           /\ \A i \in 1 .. Len(Supers[c]) : Line(c)[i + 1] = Supers[c][i]
           /\ \A i \in 1 .. Size(c) : Line(c)[i] \in Classes
BY Constants DEF Line, Size

(* A place of the line is the class's or a superclass's.                   *)
LEMMA LinePlace ==
    ASSUME CacheAssumption, NEW c \in Classes, NEW k \in 1 .. Size(c), k # 1
    PROVE  k - 1 \in 1 .. Len(Supers[c]) /\ Line(c)[k] = Supers[c][k - 1]
<1>1. Len(Supers[c]) \in Nat /\ \A i \in 1 .. Len(Supers[c]) : Line(c)[i + 1] = Supers[c][i]
  BY LineType
<1>2. k - 1 \in 1 .. Len(Supers[c]) /\ (k - 1) + 1 = k
  BY <1>1 DEF Size
<1> QED BY <1>1, <1>2

(* The line of a superclass is the rest of the line.                       *)
LEMMA LineRest ==
    ASSUME CacheAssumption, NEW c \in Classes, NEW i \in 1 .. Len(Supers[c])
    PROVE  LET d == Supers[c][i] IN
           /\ d \in Classes /\ Size(d) = Size(c) - i
           /\ \A k \in 1 .. Size(d) : Line(d)[k] = Line(c)[i + k]
<1>1. PICK d : d = Supers[c][i]
  OBVIOUS
<1>2. PICK n \in Nat : n = Len(Supers[c])
  BY LineType
<1>3. Supers[c] \in Seq(Classes) /\ d \in Classes
  BY <1>1, Constants
<1>4. Supers[d] = SubSeq(Supers[c], i + 1, n)
  <2>1. i \in DOMAIN Supers[c]
    BY LineType
  <2>2. Supers[Supers[c][i]] = SubSeq(Supers[c], i + 1, Len(Supers[c]))
    BY <2>1, Constants
  <2> QED BY <1>1, <1>2, <2>2
<1>5. /\ Len(Supers[d]) = n - i
      /\ \A k \in 1 .. n - i : Supers[d][k] = Supers[c][i + k]
  <2>1. \A k \in i + 1 .. n : Supers[c][k] \in Classes
    BY <1>2, <1>3
  <2>2. /\ Len(SubSeq(Supers[c], i + 1, n))
                = IF i + 1 <= n THEN n - (i + 1) + 1 ELSE 0
        /\ \A k \in 1 .. n - (i + 1) + 1 :
               SubSeq(Supers[c], i + 1, n)[k] = Supers[c][(i + 1) + k - 1]
    BY <1>2, <2>1, SubSeqProperties
  <2>3. i \in 1 .. n
    BY <1>2
  <2> QED BY <1>4, <2>2, <2>3
<1>6. Size(c) = n + 1 /\ Size(d) = (n - i) + 1
  BY <1>2, <1>5 DEF Size
<1>7. ASSUME NEW k \in 1 .. Size(d)
      PROVE  Line(d)[k] = Line(c)[i + k]
  <2>1. CASE k = 1
    BY <1>1, <1>3, <2>1, LineType
  <2>2. CASE k # 1
    <3>1. k - 1 \in 1 .. n - i /\ Line(d)[k] = Supers[d][k - 1]
      BY <1>3, <1>5, <2>2, LinePlace
    <3>2. Line(d)[k] = Supers[c][i + (k - 1)]
      BY <1>5, <3>1
    <3>3. i + (k - 1) \in 1 .. n /\ (i + (k - 1)) + 1 = i + k
      <4>1. i \in Nat /\ i <= n /\ i >= 1
        BY <1>2
      <4>2. k - 1 >= 1 /\ k - 1 <= n - i /\ k \in Int
        BY <1>2, <3>1, <4>1
      <4> QED BY <1>2, <4>1, <4>2
    <3>4. Line(c)[(i + (k - 1)) + 1] = Supers[c][i + (k - 1)]
      BY <1>2, <3>3, LineType
    <3> QED BY <3>2, <3>3, <3>4
  <2> QED BY <2>1, <2>2
<1>8. Size(d) = Size(c) - i
  BY <1>6
<1> QED BY <1>1, <1>3, <1>7, <1>8

(* The first class of the line that has the method decides.                *)
First(table, c, s, k) ==
    /\ k \in 1 .. Size(c)
    /\ table[Line(c)[k]][s] # None
    /\ \A j \in 1 .. k - 1 : table[Line(c)[j]][s] = None

LEMMA CurrentFirst ==
    ASSUME CacheAssumption, NEW table, NEW c \in Classes, NEW s, NEW k, First(table, c, s, k)
    PROVE  Current(table, c, s) = table[Line(c)[k]][s]
<1>1. PICK found : found = {i \in DOMAIN Line(c) : table[Line(c)[i]][s] # None}
  OBVIOUS
<1>2. PICK first : first = CHOOSE i \in found : \A j \in found : i <= j
  OBVIOUS
<1>3. DOMAIN Line(c) = 1 .. Size(c) /\ Size(c) \in Nat
  BY LineType
<1>4. k \in found /\ found \in SUBSET Nat
  BY <1>1, <1>3 DEF First
<1>5. first \in found /\ first <= k
  BY <1>2, <1>4, Chosen
<1>6. first \notin 1 .. k - 1
  BY <1>1, <1>5 DEF First
<1>7. first \in 1 .. Size(c) /\ k \in 1 .. Size(c)
  BY <1>1, <1>3, <1>4, <1>5
<1>8. first = k
  BY <1>3, <1>5, <1>6, <1>7
<1>9. Current(table, c, s) = IF found = {} THEN Forward ELSE table[Line(c)[first]][s]
  BY <1>1, <1>2 DEF Current, Line
<1> QED BY <1>4, <1>8, <1>9

(* Or no class of the line has it.                                         *)
LEMMA CurrentNowhere ==
    ASSUME CacheAssumption, NEW table, NEW c \in Classes, NEW s,
           \A k \in 1 .. Size(c) : table[Line(c)[k]][s] = None
    PROVE  Current(table, c, s) = Forward
<1>1. {i \in DOMAIN Line(c) : table[Line(c)[i]][s] # None} = {}
  BY LineType
<1> QED BY <1>1 DEF Current, Line

(* One of the two is the case.                                             *)
LEMMA CurrentCases ==
    ASSUME CacheAssumption, NEW table, NEW c \in Classes, NEW s
    PROVE  \/ \A k \in 1 .. Size(c) : table[Line(c)[k]][s] = None
           \/ \E k \in 1 .. Size(c) : First(table, c, s, k)
<1>1. PICK found : found = {k \in 1 .. Size(c) : table[Line(c)[k]][s] # None}
  OBVIOUS
<1>2. CASE found = {}
  BY <1>1, <1>2
<1>3. CASE found # {}
  <2>0. Size(c) \in Nat /\ found \in SUBSET Nat
    BY <1>1, LineType
  <2>1. PICK k \in found : \A j \in found : k <= j
    BY <1>3, <2>0, LeastNat
  <2>2. ASSUME NEW j \in 1 .. k - 1
        PROVE  table[Line(c)[j]][s] = None
    <3>1. k \in 1 .. Size(c)
      BY <1>1
    <3>2. j \in 1 .. Size(c) /\ ~ (k <= j)
      BY <2>0, <3>1
    <3> QED BY <1>1, <2>1, <3>2
  <2> QED BY <1>1, <2>2 DEF First
<1> QED BY <1>2, <1>3

LEMMA CurrentOwn ==
    ASSUME CacheAssumption, NEW table, NEW c \in Classes, NEW s, table[c][s] # None
    PROVE  Current(table, c, s) = table[c][s]
<1>1. Line(c)[1] = c /\ Size(c) = Len(Supers[c]) + 1 /\ Len(Supers[c]) \in Nat
  BY LineType DEF Size
<1>2. 1 \in 1 .. Size(c) /\ 1 .. 1 - 1 = {}
  BY <1>1
<1>3. First(table, c, s, 1)
  BY <1>1, <1>2 DEF First
<1> QED BY <1>1, <1>3, CurrentFirst

(* A method that the classes before a superclass lack is the superclass's. *)
LEMMA CurrentSuper ==
    ASSUME CacheAssumption, NEW table, NEW c \in Classes, NEW s, table[c][s] = None,
           NEW i \in DOMAIN Supers[c],
           \A j \in 1 .. i - 1 : table[Supers[c][j]][s] = None
    PROVE  Current(table, c, s) = Current(table, Supers[c][i], s)
<1>1. PICK d : d = Supers[c][i]
  OBVIOUS
<1>2. i \in 1 .. Len(Supers[c]) /\ Size(c) \in Nat /\ Len(Supers[c]) \in Nat
      /\ Size(c) = Len(Supers[c]) + 1
  BY LineType DEF Size
<1>3. /\ d \in Classes /\ Size(d) = Size(c) - i
      /\ \A k \in 1 .. Size(d) : Line(d)[k] = Line(c)[i + k]
  BY <1>1, <1>2, LineRest
<1>4. ASSUME NEW j \in 1 .. i
      PROVE  table[Line(c)[j]][s] = None
  <2>1. CASE j = 1
    BY <2>1, LineType
  <2>2. CASE j # 1
    <3>1. j \in 1 .. Size(c) /\ j - 1 \in 1 .. i - 1
      BY <1>2, <2>2
    <3> QED BY <2>2, <3>1, LinePlace
  <2> QED BY <2>1, <2>2
<1>5. ASSUME NEW j \in 1 .. Size(c), j > i
      PROVE  j - i \in 1 .. Size(d) /\ i + (j - i) = j
  BY <1>2, <1>3, <1>5
<1>6. CASE \A k \in 1 .. Size(d) : table[Line(d)[k]][s] = None
  <2>1. ASSUME NEW j \in 1 .. Size(c)
        PROVE  table[Line(c)[j]][s] = None
    <3>1. CASE j > i
      <4>1. j - i \in 1 .. Size(d) /\ i + (j - i) = j
        BY <1>5, <3>1
      <4>2. Line(d)[j - i] = Line(c)[j]
        BY <1>3, <4>1
      <4> QED BY <1>6, <4>1, <4>2
    <3>2. CASE ~ (j > i)
      <4>1. j \in 1 .. i
        BY <1>2, <3>2
      <4> QED BY <1>4, <4>1
    <3> QED BY <3>1, <3>2
  <2>2. Current(table, c, s) = Forward
    BY <2>1, CurrentNowhere
  <2>3. Current(table, d, s) = Forward
    BY <1>3, <1>6, CurrentNowhere
  <2> QED BY <1>1, <2>2, <2>3
<1>7. ASSUME NEW k \in 1 .. Size(d), First(table, d, s, k)
      PROVE  Current(table, c, s) = Current(table, d, s)
  <2>1. i + k \in 1 .. Size(c) /\ Line(d)[k] = Line(c)[i + k]
    BY <1>2, <1>3
  <2>2. ASSUME NEW j \in 1 .. (i + k) - 1
        PROVE  table[Line(c)[j]][s] = None
    <3>1. CASE j > i
      <4>1. j \in 1 .. Size(c) /\ j - i \in 1 .. k - 1
        BY <1>2, <1>3, <3>1
      <4>2. j - i \in 1 .. Size(d) /\ i + (j - i) = j
        BY <1>5, <3>1, <4>1
      <4>3. Line(d)[j - i] = Line(c)[j]
        BY <1>3, <4>2
      <4> QED BY <1>7, <4>1, <4>3 DEF First
    <3>2. CASE ~ (j > i)
      <4>1. j \in 1 .. i
        BY <1>2, <3>2
      <4> QED BY <1>4, <4>1
    <3> QED BY <3>1, <3>2
  <2>3. First(table, c, s, i + k)
    BY <1>7, <2>1, <2>2 DEF First
  <2>4. Current(table, c, s) = table[Line(c)[i + k]][s]
    BY <2>3, CurrentFirst
  <2>5. Current(table, d, s) = table[Line(d)[k]][s]
    BY <1>3, <1>7, CurrentFirst
  <2> QED BY <2>1, <2>4, <2>5
<1> QED BY <1>1, <1>3, <1>6, <1>7, CurrentCases

(* A change is felt by the line of a class only.                           *)
LEMMA CurrentSame ==
    ASSUME CacheAssumption, NEW table, NEW other, NEW c \in Classes, NEW s,
           table[c][s] = other[c][s],
           \A i \in DOMAIN Supers[c] : table[Supers[c][i]][s] = other[Supers[c][i]][s]
    PROVE  Current(table, c, s) = Current(other, c, s)
<1>1. ASSUME NEW k \in 1 .. Size(c)
      PROVE  table[Line(c)[k]][s] = other[Line(c)[k]][s]
  <2>1. CASE k = 1
    BY <2>1, LineType
  <2>2. CASE k # 1
    <3>1. k - 1 \in 1 .. Len(Supers[c]) /\ Line(c)[k] = Supers[c][k - 1]
      BY <2>2, LinePlace
    <3>2. DOMAIN Supers[c] = 1 .. Len(Supers[c])
      BY LineType
    <3>3. table[Supers[c][k - 1]][s] = other[Supers[c][k - 1]][s]
      BY <3>1, <3>2
    <3> QED BY <3>1, <3>3
  <2> QED BY <2>1, <2>2
<1>2. CASE \A k \in 1 .. Size(c) : table[Line(c)[k]][s] = None
  BY <1>1, <1>2, CurrentNowhere
<1>3. ASSUME NEW k \in 1 .. Size(c), First(table, c, s, k)
      PROVE  Current(table, c, s) = Current(other, c, s)
  <2>1. \A j \in 1 .. k - 1 : j \in 1 .. Size(c)
    BY LineType
  <2>2. First(other, c, s, k)
    BY <1>1, <1>3, <2>1 DEF First
  <2> QED BY <1>1, <1>3, <2>2, CurrentFirst
<1> QED BY <1>2, <1>3, CurrentCases

LEMMA CurrentType ==
    ASSUME CacheAssumption, NEW table \in Tables, NEW c \in Classes, NEW s \in Selectors
    PROVE  Current(table, c, s) \in Implementations /\ Current(table, c, s) # None
<1>1. Forward \in Implementations /\ Forward # None
  BY Constants DEF Implementations
<1>2. CASE \A k \in 1 .. Size(c) : table[Line(c)[k]][s] = None
  BY <1>1, <1>2, CurrentNowhere
<1>3. ASSUME NEW k \in 1 .. Size(c), First(table, c, s, k)
      PROVE  Current(table, c, s) \in Implementations /\ Current(table, c, s) # None
  <2>1. Current(table, c, s) = table[Line(c)[k]][s] /\ table[Line(c)[k]][s] # None
    BY <1>3, CurrentFirst DEF First
  <2>2. Line(c)[k] \in Classes
    BY LineType
  <2> QED BY <2>1, <2>2, Constants
<1> QED BY <1>2, <1>3, CurrentCases

-----------------------------------------------------------------------------
(* One step of one thread.                                                 *)

(* The registers that go with a program counter.                           *)
LEMMA Kinds ==
    ASSUME NEW x \in States
    PROVE  /\ x.pc = "idle" => x = Idle
           /\ x.pc = "buckets" => x \in [pc : {"buckets"}, index : Nat]
           /\ \A pc \in {"key", "scan", "imp"} : x.pc = pc => x \in Scanning(pc)
           /\ \A pc \in {"called", "fill", "insertKey"} :
                  x.pc = pc => x \in [pc : {pc}, imp : Implementations]
           /\ \A pc \in {"lock", "lookup", "resolve"} : x.pc = pc => x \in Resolving(pc)
           /\ x.pc = "reallocate" =>
                  x \in [pc : {"reallocate"}, imp : Implementations, new : Memory]
           /\ x.pc = "reallocated" =>
                  x \in [pc : {"reallocated"}, imp : Implementations, dead : SUBSET Memory]
           /\ x.pc = "insertImp" => x \in Inserting
           /\ x.pc = "collect" =>
                  x \in [pc : {"collect"}, checked : SUBSET Threads,
                         then : {Idle} \cup Inserting \cup Flushes]
           /\ x.pc = "flush" => x \in Flushes
           /\ x.pc \in {"idle", "mask", "buckets", "key", "scan", "imp", "called", "lock",
                        "lookup", "resolve", "fill", "reallocate", "reallocated",
                        "insertImp", "insertKey", "collect", "flush", "collectALot"}
BY DEF States, Scanning, Resolving, Inserting, Flushes, Idle

(* A step of a thread is seen by no other.                                 *)
LEMMA Elsewhere ==
    ASSUME TypeOK, NEW t \in Threads, NEW x, th' = [th EXCEPT ![t] = x]
    PROVE  /\ th'[t] = x
           /\ x \in States => th' \in [Threads -> States]
           /\ \A u \in Threads \ {t} :
                  /\ th'[u] = th[u]
                  /\ \A pc : At(u, pc)' <=> At(u, pc)
                  /\ \A pc : At2(u, pc)' <=> At2(u, pc)
                  /\ Writing(u)' <=> Writing(u)
                  /\ Filling(u)' <=> Filling(u)
                  /\ Registers(u)' = Registers(u)
<1>1. th'[t] = x /\ \A u \in Threads \ {t} : th'[u] = th[u]
  BY DEF TypeOK
<1>2. x \in States => th' \in [Threads -> States]
  BY DEF TypeOK
<1>3. ASSUME NEW u \in Threads \ {t}
      PROVE  /\ \A pc : At(u, pc)' <=> At(u, pc)
             /\ \A pc : At2(u, pc)' <=> At2(u, pc)
             /\ Registers(u)' = Registers(u)
  BY <1>1 DEF At, At2, Registers
<1>4. ASSUME NEW u \in Threads \ {t}
      PROVE  /\ Writing(u)' <=> Writing(u)
             /\ Filling(u)' <=> Filling(u)
  BY <1>1, <1>3 DEF Writing, Filling
<1> QED BY <1>1, <1>2, <1>3, <1>4

(* Where a thread is that has no lock.                                     *)
Passive == {"idle", "mask", "buckets", "key", "scan", "imp", "called", "lock", "resolve",
            "collectALot"}

LEMMA NoLocks ==
    ASSUME IndInv, NEW u \in Threads
    PROVE  /\ runtimeLock # u => /\ ~ Writing(u) /\ ~ Filling(u)
                                 /\ \A pc \in {"insertImp", "flush"} : ~ At2(u, pc)
                                 /\ th[u].pc \in Passive \cup {"collect"}
           /\ cacheUpdateLock # u =>
                  /\ ~ Writing(u) /\ \A pc \in {"insertImp", "flush"} : ~ At2(u, pc)
                  /\ th[u].pc \in Passive \cup {"lookup", "fill"}
           /\ th[u].pc \in Passive =>
                  /\ ~ Writing(u) /\ ~ Filling(u)
                  /\ \A pc \in {"insertImp", "flush"} : ~ At2(u, pc)
                  /\ runtimeLock # u /\ cacheUpdateLock # u
<1>1. LockOK(u) /\ th[u] \in States
  BY DEF IndInv, TypeOK
<1> QED BY <1>1, Kinds DEF LockOK, Writing, Filling, At, At2, Passive

(* The parts of the invariant that are there for each thread.              *)
Each(t) == LockOK(t) /\ SendOK(t) /\ FillOK(t) /\ ReaderOK(t)
              /\ (At(t, "called") => th[t].imp \in send[t].recent)

LEMMA Parts ==
    IndInv <=> TypeOK /\ HeapOK /\ CachesOK /\ EntriesOK /\ \A t \in Threads : Each(t)
BY DEF IndInv, Each, CallsCurrent

(* A step that changes a thread, its message and its locks, but no cache.  *)
LEMMA Quiet ==
    ASSUME IndInv, NEW t \in Threads, NEW x \in States,
           th' = [th EXCEPT ![t] = x],
           UNCHANGED <<method, old, cache, heap, garbage>>,
           send' \in [Threads -> {Nothing} \cup Sending],
           runtimeLock' \in Threads \cup {NoThread},
           cacheUpdateLock' \in Threads \cup {NoThread},
           \A u \in Threads \ {t} :
               /\ send'[u] = send[u]
               /\ runtimeLock' = u <=> runtimeLock = u
               /\ cacheUpdateLock' = u <=> cacheUpdateLock = u,
           At2(t, "flush")' <=> At2(t, "flush"),
           At2(t, "flush") => Registers(t)' = Registers(t),
           ~ At(t, "reallocated"), x.pc \notin {"reallocate", "reallocated"},
           x.pc = "collect" => \A u \in x.checked \ {t} : \A b \in garbage :
               ~ (th[u].pc \in {"key", "scan", "imp"} /\ th[u].buckets = b),
           Each(t)'
    PROVE  IndInv'
<1>1. TypeOK /\ HeapOK /\ CachesOK /\ EntriesOK /\ \A u \in Threads : Each(u)
  BY Parts
<1>2. /\ th'[t] = x /\ th' \in [Threads -> States]
      /\ \A u \in Threads \ {t} :
             /\ th'[u] = th[u] /\ (\A pc : At(u, pc)' <=> At(u, pc))
             /\ (\A pc : At2(u, pc)' <=> At2(u, pc))
             /\ (Writing(u)' <=> Writing(u)) /\ (Filling(u)' <=> Filling(u))
             /\ Registers(u)' = Registers(u)
  BY <1>1, Elsewhere
<1>3. TypeOK'
  BY <1>1, <1>2 DEF TypeOK
<1>4. HeapOK'
  BY <1>1 DEF HeapOK, IsArray
<1>5. \A c : Reallocated(c)' <=> Reallocated(c)
  BY <1>2 DEF Reallocated, At
<1>6. CachesOK'
  BY <1>1, <1>5 DEF CachesOK, CacheOK, Used
<1>7. \A c \in Classes, s \in Selectors :
          Current(method, c, s)' = Current(method, c, s) /\ Current(old, c, s)' = Current(old, c, s)
  BY DEF Current
<1>8. EntriesOK'
  <2>1. ASSUME \A u \in Threads : ~ At2(u, "flush")'
        PROVE  old' = method'
    BY <1>1, <1>2, <2>1 DEF EntriesOK
  <2>2. ASSUME NEW c \in Classes, NEW u \in Threads, At2(u, "flush") /\ c \in Registers(u).todo
        PROVE  \E w \in Threads : At2(w, "flush")' /\ c \in Registers(w)'.todo
    BY <1>2, <2>2
  <2> QED BY <1>1, <1>7, <2>1, <2>2 DEF EntriesOK
<1>9. ASSUME NEW u \in Threads \ {t}
      PROVE  Each(u)'
  <2>1. LockOK(u)'
    BY <1>1, <1>2 DEF Each, LockOK
  <2>2. SendOK(u)'
    BY <1>1, <1>2 DEF Each, SendOK
  <2>3. FillOK(u)'
    BY <1>1, <1>2 DEF Each, FillOK, Used
  <2>4. ReaderOK(u)'
    <3>1. /\ (At(u, "buckets") => th[u].index \in 1 .. cache[send[u].cls].mask + 1)'
          /\ (At(u, "imp") =>
                 /\ th[u].buckets # Empty
                 /\ heap[th[u].buckets][th[u].index].key = Key[send[u].sel])'
      BY <1>1, <1>2 DEF Each, ReaderOK
    <3>2. ASSUME NEW b, th[u].pc \in {"key", "scan", "imp"}, th[u].buckets = b, ArrayOK(u, b)
          PROVE  ArrayOK(u, b)'
      <4>1. ASSUME NEW w \in Threads
            PROVE  /\ At(w, "reallocate")' => th'[w].new # b
                   /\ At(w, "collect")' /\ u \in th'[w].checked => b \notin garbage
        <5>1. CASE w # t
          BY <1>2, <3>2, <5>1 DEF ArrayOK, At
        <5>2. CASE w = t
          BY <1>2, <3>2, <5>2 DEF At
        <5> QED BY <5>1, <5>2
      <4> QED BY <1>2, <3>2, <4>1 DEF ArrayOK
    <3>3. th'[u].pc \in {"key", "scan", "imp"} /\ th'[u].buckets # Empty
              => ArrayOK(u, th[u].buckets)'
      BY <1>1, <1>2, <3>2 DEF Each, ReaderOK
    <3> QED BY <3>1, <3>3 DEF ReaderOK
  <2>5. (At(u, "called") => th[u].imp \in send[u].recent)'
    BY <1>1, <1>2 DEF Each, At
  <2> QED BY <2>1, <2>2, <2>3, <2>4, <2>5 DEF Each
<1>10. \A u \in Threads : Each(u)'
  BY <1>9
<1> QED BY <1>3, <1>4, <1>6, <1>8, <1>10 DEF IndInv, Each, CallsCurrent

(* Most steps of a send leave the locks and the message alone, too.        *)
LEMMA Passes ==
    ASSUME IndInv, NEW t \in Threads, NEW x \in States,
           th' = [th EXCEPT ![t] = x],
           UNCHANGED <<method, old, caches, locks, send>>,
           th[t].pc \in Passive, x.pc \in Passive,
           send[t] \in Sending,
           ReaderOK(t)', x.pc = "called" => x.imp \in send[t].recent
    PROVE  IndInv'
<1>1. TypeOK /\ Each(t)
  BY Parts
<1>2. th'[t] = x
  BY <1>1, Elsewhere
<1>3. /\ ~ Writing(t)' /\ ~ Filling(t)'
      /\ \A pc \in {"insertImp", "flush"} : ~ At2(t, pc)'
  BY <1>2 DEF Passive, Writing, Filling, At, At2
<1>4. Each(t)'
  <2>1. runtimeLock # t /\ cacheUpdateLock # t
    BY NoLocks
  <2>2. LockOK(t)'
    BY <1>2, <1>3, <2>1 DEF LockOK, At, Passive, locks
  <2>3. SendOK(t)'
    BY <1>1, <1>2 DEF Each, SendOK
  <2>4. FillOK(t)'
    BY <1>2, <1>3 DEF FillOK, At, Passive
  <2> QED BY <1>2, <2>2, <2>3, <2>4 DEF Each, At
<1>5. ~ At2(t, "flush") /\ ~ At(t, "reallocated")
  BY DEF Passive, At, At2
<1>6. x.pc \notin {"reallocate", "reallocated", "collect"}
  BY DEF Passive
<1> QED BY <1>1, <1>3, <1>4, <1>5, <1>6, Quiet DEF TypeOK, caches, locks

(* What a cache and an array of buckets look like.                         *)
LEMMA CacheType ==
    ASSUME CacheAssumption, IndInv, NEW c \in Classes
    PROVE  /\ cache[c] \in [buckets : Memory \cup {Empty}, mask : Nat, occupied : Nat]
           /\ cache[c].buckets # Empty =>
                 /\ cache[c].buckets \in Memory /\ heap[cache[c].buckets] # <<>>
                 /\ cache[c].buckets \notin garbage
                 /\ Len(heap[cache[c].buckets]) >= cache[c].mask + 2
                 /\ \A d \in Classes : cache[d].buckets = cache[c].buckets => d = c
BY DEF IndInv, TypeOK, CachesOK, CacheOK

LEMMA ArrayType ==
    ASSUME IndInv, NEW b \in Memory, heap[b] # <<>>
    PROVE  /\ Len(heap[b]) \in Nat /\ Len(heap[b]) > 2
           /\ DOMAIN heap[b] = 1 .. Len(heap[b])
           /\ \A i \in 1 .. Len(heap[b]) :
                  /\ heap[b][i] \in Buckets
                  /\ heap[b][i].key \in Nat /\ heap[b][i].imp \in Implementations
           /\ heap[b][Len(heap[b])].key = 1
<1>1. heap[b] \in Seq(Buckets) /\ IsArray(heap[b])
  BY DEF IndInv, TypeOK, HeapOK
<1>2. \A i \in 1 .. Len(heap[b]) : heap[b][i] \in Buckets
  BY <1>1
<1> QED BY <1>1, <1>2 DEF IsArray, Buckets

LEMMA SendType ==
    ASSUME NEW m \in Sending
    PROVE  m.cls \in Classes /\ m.sel \in Selectors /\ m.recent \subseteq Implementations
BY DEF Sending

(* The message of a thread that sends one.                                 *)
LEMMA IsSending ==
    ASSUME IndInv, NEW t \in Threads,
           th[t].pc \notin {"idle", "collectALot", "flush", "collect"}
    PROVE  /\ send[t] \in Sending
           /\ Current(method, send[t].cls, send[t].sel) \in send[t].recent
           /\ Current(old, send[t].cls, send[t].sel) \in send[t].recent
BY DEF IndInv, SendOK

-----------------------------------------------------------------------------
(* objc_msgSend.                                                           *)

LEMMA SendStep ==
    ASSUME CacheAssumption, IndInv, NEW t \in Threads, NEW c \in Classes, NEW s \in Selectors,
           Send(t, c, s)
    PROVE  IndInv'
<1>1. TypeOK /\ Each(t) /\ th[t] = Idle /\ th[t].pc = "idle"
  BY Parts, Kinds DEF Send, At, TypeOK, Idle
<1> DEFINE x == [th[t] EXCEPT !.pc = "mask"]
<1>2. x \in States /\ x.pc = "mask" /\ th' = [th EXCEPT ![t] = x]
  BY <1>1 DEF Send, Goto, States, Idle
<1>3. /\ send' \in [Threads -> {Nothing} \cup Sending]
      /\ \A u \in Threads \ {t} : send'[u] = send[u]
      /\ send'[t] = [cls |-> c, sel |-> s, recent |->
                        {Current(method, c, s), Current(old, c, s)}]
      /\ send'[t] \in Sending
  <2>1. {Current(method, c, s), Current(old, c, s)} \subseteq Implementations
    BY <1>1, CurrentType DEF TypeOK
  <2> QED BY <1>1, <2>1 DEF Send, TypeOK, Sending
<1>4. th'[t] = x
  BY <1>1, <1>2, Elsewhere
<1>5. /\ ~ Writing(t)' /\ ~ Filling(t)' /\ ~ At2(t, "insertImp")' /\ ~ At2(t, "flush")'
  BY <1>2, <1>4 DEF Writing, Filling, At, At2
<1>6. Each(t)'
  <2>1. LockOK(t)'
    BY <1>1, <1>2, <1>4, <1>5, NoLocks DEF LockOK, At, Passive, Send, locks
  <2>2. SendOK(t)'
    BY <1>3 DEF SendOK, Send
  <2> QED BY <1>2, <1>4, <1>5, <2>1, <2>2 DEF Each, FillOK, ReaderOK, At
<1>7. ~ At2(t, "flush") /\ ~ At(t, "reallocated")
  BY <1>1 DEF At, At2
<1> HIDE DEF x
<1> QED BY <1>1, <1>2, <1>3, <1>5, <1>6, <1>7, Quiet DEF Send, TypeOK, caches, locks

LEMMA ReadMaskStep ==
    ASSUME CacheAssumption, IndInv, NEW t \in Threads, ReadMask(t)
    PROVE  IndInv'
<1>1. TypeOK /\ Each(t) /\ th[t].pc = "mask"
  BY Parts DEF ReadMask, At
<1>2. send[t] \in Sending /\ send[t].cls \in Classes /\ send[t].sel \in Selectors
  BY <1>1, IsSending, SendType
<1>3. PICK m \in Nat : m = cache[send[t].cls].mask
  BY <1>2, CacheType
<1>4. PICK i : i = Hash(send[t].sel, m) + 1
  OBVIOUS
<1>5. i \in 1 .. m + 1
  BY <1>2, <1>4, Constants DEF Hash
<1> DEFINE x == [pc |-> "buckets", index |-> i]
<1>6. x \in States /\ x.pc = "buckets" /\ x.index = i /\ th' = [th EXCEPT ![t] = x]
  BY <1>3, <1>4, <1>5 DEF ReadMask, States
<1>7. th'[t] = x
  BY <1>1, <1>6, Elsewhere
<1>8. ReaderOK(t)'
  BY <1>3, <1>5, <1>6, <1>7 DEF ReaderOK, At, ReadMask, caches
<1> HIDE DEF x
<1> QED BY <1>1, <1>2, <1>6, <1>8, Passes DEF ReadMask, Passive

LEMMA ReadBucketsStep ==
    ASSUME CacheAssumption, IndInv, NEW t \in Threads, ReadBuckets(t)
    PROVE  IndInv'
<1>1. TypeOK /\ Each(t) /\ th[t].pc = "buckets"
  BY Parts DEF ReadBuckets, At
<1>2. PICK c, s, i, b : c = send[t].cls /\ s = send[t].sel /\ i = th[t].index
                          /\ b = cache[c].buckets
  OBVIOUS
<1>3. /\ send[t] \in Sending /\ c \in Classes /\ s \in Selectors
      /\ Current(method, c, s) \in send[t].recent /\ Current(old, c, s) \in send[t].recent
  BY <1>1, <1>2, IsSending, SendType
<1>4. /\ cache[c].mask \in Nat /\ i \in 1 .. cache[c].mask + 1 /\ i \in Nat
      /\ b \in Memory \cup {Empty}
  BY <1>1, <1>2, <1>3, CacheType, Kinds DEF Each, ReaderOK, At, TypeOK
<1> DEFINE x == [pc |-> "key", index |-> i, wrapped |-> FALSE, buckets |-> b]
<1>5. /\ x \in States /\ x.pc = "key" /\ x.index = i /\ x.buckets = b
      /\ th' = [th EXCEPT ![t] = x]
  BY <1>2, <1>4 DEF ReadBuckets, States, Scanning
<1>6. th'[t] = x /\ \A u \in Threads \ {t} : th'[u] = th[u]
  BY <1>1, <1>5, Elsewhere
<1>7. ASSUME b # Empty
      PROVE  ArrayOK(t, b)'
  <2>1. /\ b \in Memory /\ heap[b] # <<>> /\ b \notin garbage
        /\ Len(heap[b]) >= cache[c].mask + 2
        /\ \A d \in Classes : cache[d].buckets = b => d = c
    BY <1>2, <1>3, <1>7, CacheType
  <2>2. i \in 1 .. Len(heap[b])
    BY <1>4, <2>1, ArrayType
  <2>3. \A j \in DOMAIN heap[b] : heap[b][j].key = Key[s] => heap[b][j].imp \in send[t].recent
    BY <1>2, <1>3, <1>7 DEF IndInv, EntriesOK
  <2>4. ASSUME NEW u \in Threads
        PROVE  At(u, "reallocate")' => th'[u].new # b
    <3>1. CASE u = t
      BY <1>5, <1>6, <3>1 DEF At
    <3>2. CASE u # t
      BY <1>2, <1>3, <1>6, <3>2 DEF At, IndInv, FillOK
    <3> QED BY <3>1, <3>2
  <2>5. UNCHANGED <<heap, cache, garbage, send>>
    BY DEF ReadBuckets, caches
  <2> QED BY <1>2, <1>5, <1>6, <2>1, <2>2, <2>3, <2>4, <2>5 DEF ArrayOK
<1>8. ReaderOK(t)'
  BY <1>5, <1>6, <1>7 DEF ReaderOK, At
<1> HIDE DEF x
<1> QED BY <1>1, <1>3, <1>5, <1>8, Passes DEF ReadBuckets, Passive

(* A scan that goes on in its array.                                       *)
LEMMA StillReads ==
    ASSUME IndInv, NEW t \in Threads, NEW x, th' = [th EXCEPT ![t] = x],
           UNCHANGED <<caches, send>>,
           th[t].pc \in {"key", "scan", "imp"}, x.pc \in {"key", "scan", "imp"},
           th[t].buckets # Empty,
           x.index \in 1 .. Len(heap[th[t].buckets])
    PROVE  ArrayOK(t, th[t].buckets) /\ \A b : b = th[t].buckets => ArrayOK(t, b)'
<1>1. TypeOK /\ Each(t) /\ ArrayOK(t, th[t].buckets)
  BY Parts DEF Each, ReaderOK
<1>2. th'[t] = x /\ \A u \in Threads \ {t} : th'[u] = th[u]
  BY <1>1, Elsewhere
<1>3. PICK b : b = th[t].buckets
  OBVIOUS
<1>4. ASSUME NEW u \in Threads
      PROVE  /\ At(u, "reallocate")' => th'[u].new # b
             /\ At(u, "collect")' /\ t \in th'[u].checked => b \notin garbage
  <2>1. CASE u = t
    BY <1>2, <2>1 DEF At
  <2>2. CASE u # t
    BY <1>1, <1>2, <1>3, <2>2 DEF ArrayOK, At
  <2> QED BY <2>1, <2>2
<1>5. ArrayOK(t, b)'
  BY <1>1, <1>2, <1>3, <1>4 DEF ArrayOK, caches
<1> QED BY <1>1, <1>3, <1>5

(* What a scan reads.                                                      *)
LEMMA Reads ==
    ASSUME CacheAssumption, IndInv, NEW t \in Threads, th[t].pc \in {"key", "scan", "imp"}
    PROVE  LET b == th[t].buckets
               i == th[t].index
           IN  /\ th[t] \in Scanning(th[t].pc)
               /\ b = Empty => Read(t).key = 0
               /\ b # Empty =>
                     /\ b \in Memory /\ heap[b] # <<>>
                     /\ Len(heap[b]) \in Nat /\ i \in 1 .. Len(heap[b])
                     /\ heap[b][Len(heap[b])].key = 1
                     /\ Read(t) = heap[b][i]
                     /\ Read(t).imp \in Implementations /\ Read(t).key \in Nat
<1>1. TypeOK /\ Each(t)
  BY Parts
<1>2. th[t] \in Scanning(th[t].pc)
  BY <1>1, Kinds DEF TypeOK
<1>3. th[t].buckets = Empty => Read(t).key = 0
  BY DEF Read, Bucket
<1>4. ASSUME th[t].buckets # Empty
      PROVE  /\ ArrayOK(t, th[t].buckets) /\ th[t].buckets \in Memory
             /\ Read(t) = heap[th[t].buckets][th[t].index]
  BY <1>1, <1>2, <1>4 DEF Each, ReaderOK, Scanning, Read
<1>5. PICK b : b = th[t].buckets
  OBVIOUS
<1>6. ASSUME b # Empty
      PROVE  /\ b \in Memory /\ heap[b] # <<>>
             /\ Len(heap[b]) \in Nat /\ th[t].index \in 1 .. Len(heap[b])
             /\ heap[b][Len(heap[b])].key = 1
             /\ Read(t) = heap[b][th[t].index]
             /\ Read(t).imp \in Implementations /\ Read(t).key \in Nat
  <2>1. b \in Memory /\ heap[b] # <<>> /\ th[t].index \in 1 .. Len(heap[b])
        /\ Read(t) = heap[b][th[t].index]
    BY <1>4, <1>5, <1>6 DEF ArrayOK
  <2> QED BY <2>1, ArrayType
<1> QED BY <1>2, <1>3, <1>5, <1>6

LEMMA ReadKeyStep ==
    ASSUME CacheAssumption, IndInv, NEW t \in Threads, ReadKey(t)
    PROVE  IndInv'
<1>1. TypeOK /\ Each(t) /\ th[t].pc = "key"
  BY Parts DEF ReadKey, At
<1>2. send[t] \in Sending /\ send[t].sel \in Selectors
  BY <1>1, IsSending, SendType
<1>3. PICK pc : pc = IF Read(t).key = Key[send[t].sel] THEN "imp" ELSE "scan"
  OBVIOUS
<1> DEFINE x == [th[t] EXCEPT !.pc = pc]
<1>4. /\ x \in States /\ x.pc = pc /\ x.index = th[t].index /\ x.buckets = th[t].buckets
      /\ th' = [th EXCEPT ![t] = x]
  <2>1. th[t] \in Scanning("key")
    BY <1>1, Reads
  <2>2. x \in Scanning(pc) /\ x.pc = pc /\ x.index = th[t].index /\ x.buckets = th[t].buckets
    BY <2>1 DEF Scanning
  <2> QED BY <1>3, <2>2 DEF ReadKey, Goto, States
<1>5. th'[t] = x
  BY <1>1, <1>4, Elsewhere
<1>6. th[t].buckets # Empty => \A b : b = th[t].buckets => ArrayOK(t, b)'
  BY <1>1, <1>3, <1>4, Reads, StillReads DEF ReadKey
<1>7. ASSUME pc = "imp"
      PROVE  /\ th[t].buckets # Empty
             /\ heap[th[t].buckets][th[t].index].key = Key[send[t].sel]
  BY <1>1, <1>2, <1>3, <1>7, Reads, Constants
<1>8. ReaderOK(t)'
  BY <1>3, <1>4, <1>5, <1>6, <1>7 DEF ReaderOK, At, ReadKey, caches
<1> HIDE DEF x
<1> QED BY <1>1, <1>2, <1>3, <1>4, <1>8, Passes DEF ReadKey, Passive

LEMMA ReadEndStep ==
    ASSUME CacheAssumption, IndInv, NEW t \in Threads, ReadEnd(t)
    PROVE  IndInv'
<1>1. TypeOK /\ Each(t) /\ th[t].pc = "scan"
  BY Parts DEF ReadEnd, At
<1>2. send[t] \in Sending /\ th[t] \in Scanning("scan")
  BY <1>1, IsSending, Reads
<1>3. PICK key : key = Read(t).key
  OBVIOUS
<1>4. UNCHANGED <<method, old, caches, locks, send>>
  BY DEF ReadEnd
<1>5. CASE key = 0 \/ (key = 1 /\ th[t].wrapped)
  <2>1. th' = [th EXCEPT ![t] = Locking(FALSE)]
    BY <1>3, <1>5 DEF ReadEnd
  <2>2. Locking(FALSE) \in States /\ Locking(FALSE).pc = "lock"
    BY DEF Locking, States, Resolving
  <2>3. ReaderOK(t)'
    BY <1>1, <2>1, <2>2, Elsewhere DEF ReaderOK, At
  <2> QED BY <1>1, <1>2, <1>4, <2>1, <2>2, <2>3, Passes DEF Passive
<1>6. CASE ~ (key = 0 \/ (key = 1 /\ th[t].wrapped))
  <2>1. PICK b : b = th[t].buckets
    OBVIOUS
  <2>2. b # Empty
    BY <1>1, <1>3, <1>6, <2>1, Reads
  <2>3. PICK n \in Nat : n = Len(heap[b])
    BY <1>1, <2>1, <2>2, Reads
  <2>4. th[t].index \in 1 .. n /\ key = heap[b][th[t].index].key /\ heap[b][n].key = 1
    BY <1>1, <1>3, <2>1, <2>2, <2>3, Reads
  <2>5. \E x : /\ x \in Scanning("key") /\ x.pc = "key" /\ x.buckets = b
               /\ x.index = IF key = 1 THEN 1 ELSE th[t].index + 1
               /\ th' = [th EXCEPT ![t] = x]
    <3>1. CASE key = 1
      <4> DEFINE y == [th[t] EXCEPT !.pc = "key", !.index = 1, !.wrapped = TRUE]
      <4>1. th' = [th EXCEPT ![t] = y]
        BY <1>3, <1>6, <3>1 DEF ReadEnd
      <4>2. y \in Scanning("key") /\ y.pc = "key" /\ y.buckets = b /\ y.index = 1
        BY <1>2, <2>1 DEF Scanning
      <4> HIDE DEF y
      <4> QED BY <3>1, <4>1, <4>2
    <3>2. CASE key # 1
      <4>0. PICK i \in Nat : i = th[t].index + 1
        BY <1>2 DEF Scanning
      <4> DEFINE y == [th[t] EXCEPT !.pc = "key", !.index = i]
      <4>1. th' = [th EXCEPT ![t] = y]
        BY <1>3, <1>6, <3>2, <4>0 DEF ReadEnd
      <4>2. y \in Scanning("key") /\ y.pc = "key" /\ y.buckets = b /\ y.index = th[t].index + 1
        BY <1>2, <2>1, <4>0 DEF Scanning
      <4> HIDE DEF y
      <4> QED BY <3>2, <4>1, <4>2
    <3> QED BY <3>1, <3>2
  <2>6. PICK x : /\ x \in Scanning("key") /\ x.pc = "key" /\ x.buckets = b
                 /\ x.index = IF key = 1 THEN 1 ELSE th[t].index + 1
                 /\ th' = [th EXCEPT ![t] = x]
    BY <2>5
  <2>7. x.index \in 1 .. n
    <3>1. CASE key = 1
      BY <2>3, <2>4, <2>6, <3>1
    <3>2. CASE key # 1
      <4>1. th[t].index # n
        BY <2>4, <3>2
      <4> QED BY <2>3, <2>4, <2>6, <3>2, <4>1
    <3> QED BY <3>1, <3>2
  <2>8. ArrayOK(t, b)'
    BY <1>1, <1>4, <2>1, <2>2, <2>3, <2>6, <2>7, StillReads
  <2>9. ReaderOK(t)'
    BY <1>1, <2>6, <2>8, Elsewhere DEF ReaderOK, At
  <2>10. x \in States
    BY <2>6 DEF States
  <2> QED BY <1>1, <1>2, <1>4, <2>6, <2>9, <2>10, Passes DEF Passive
<1> QED BY <1>5, <1>6

LEMMA ReadImpStep ==
    ASSUME CacheAssumption, IndInv, NEW t \in Threads, ReadImp(t)
    PROVE  IndInv'
<1>1. TypeOK /\ Each(t) /\ th[t].pc = "imp"
  BY Parts DEF ReadImp, At
<1>2. send[t] \in Sending
  BY <1>1, IsSending
<1>3. PICK imp : imp = Read(t).imp
  OBVIOUS
<1>4. PICK b : b = th[t].buckets
  OBVIOUS
<1>5. /\ b # Empty /\ ArrayOK(t, b)
      /\ heap[b][th[t].index].key = Key[send[t].sel]
  BY <1>1, <1>4 DEF Each, ReaderOK, At
<1>6. imp \in Implementations /\ imp = heap[b][th[t].index].imp /\ b \in Memory
      /\ th[t].index \in 1 .. Len(heap[b]) /\ heap[b] # <<>>
  BY <1>1, <1>3, <1>4, <1>5, Reads
<1>7. imp \in send[t].recent
  BY <1>5, <1>6, ArrayType DEF ArrayOK
<1> DEFINE x == [pc |-> "called", imp |-> imp]
<1>8. x \in States /\ x.pc = "called" /\ x.imp = imp /\ th' = [th EXCEPT ![t] = x]
  BY <1>3, <1>6 DEF ReadImp, Called, States
<1>9. ReaderOK(t)'
  BY <1>1, <1>8, Elsewhere DEF ReaderOK, At
<1> HIDE DEF x
<1> QED BY <1>1, <1>2, <1>7, <1>8, <1>9, Passes DEF ReadImp, Passive

LEMMA ReturnsStep ==
    ASSUME CacheAssumption, IndInv, NEW t \in Threads, Returns(t)
    PROVE  IndInv'
<1>1. TypeOK /\ Each(t) /\ th[t].pc = "called"
  BY Parts DEF Returns, At
<1>2. Idle \in States /\ Idle.pc = "idle" /\ th' = [th EXCEPT ![t] = Idle]
  BY DEF Returns, States, Idle
<1>3. th'[t] = Idle
  BY <1>1, <1>2, Elsewhere
<1>4. /\ send' \in [Threads -> {Nothing} \cup Sending] /\ send'[t] = Nothing
      /\ \A u \in Threads \ {t} : send'[u] = send[u]
  BY <1>1 DEF Returns, TypeOK
<1>5. Nothing \notin Sending
  BY DEF Nothing, Sending
<1>6. /\ ~ Writing(t)' /\ ~ Filling(t)' /\ ~ At2(t, "insertImp")' /\ ~ At2(t, "flush")'
  BY <1>2, <1>3 DEF Writing, Filling, At, At2
<1>7. runtimeLock # t /\ cacheUpdateLock # t
  BY <1>1, NoLocks DEF Passive
<1>8. Each(t)'
  <2>1. LockOK(t)'
    BY <1>2, <1>3, <1>6, <1>7 DEF LockOK, At, Returns, locks
  <2>2. SendOK(t)'
    BY <1>2, <1>3, <1>4, <1>5, <1>6 DEF SendOK
  <2> QED BY <1>2, <1>3, <1>6, <2>1, <2>2 DEF Each, FillOK, ReaderOK, At
<1>9. ~ At2(t, "flush") /\ ~ At(t, "reallocated")
  BY <1>1 DEF At, At2
<1> QED BY <1>1, <1>2, <1>4, <1>6, <1>8, <1>9, Quiet DEF Returns, TypeOK, caches, locks

-----------------------------------------------------------------------------
(* lookUpImpOrForward.                                                     *)

LEMMA LockStep ==
    ASSUME CacheAssumption, IndInv, NEW t \in Threads, Lock(t)
    PROVE  IndInv'
<1>1. TypeOK /\ Each(t) /\ th[t].pc = "lock" /\ runtimeLock = NoThread /\ runtimeLock' = t
  BY Parts DEF Lock, At
<1>2. send[t] \in Sending /\ th[t] \in Resolving("lock") /\ NoThread \notin Threads
  BY <1>1, IsSending, Kinds, Constants DEF TypeOK
<1> DEFINE x == [th[t] EXCEPT !.pc = "lookup"]
<1>3. x \in States /\ x.pc = "lookup" /\ th' = [th EXCEPT ![t] = x]
  BY <1>2 DEF Lock, Goto, States, Resolving
<1>4. th'[t] = x
  BY <1>1, <1>3, Elsewhere
<1>5. /\ ~ Writing(t)' /\ ~ Filling(t)' /\ ~ At2(t, "insertImp")' /\ ~ At2(t, "flush")'
  BY <1>3, <1>4 DEF Writing, Filling, At, At2
<1>6. Each(t)'
  <2>1. cacheUpdateLock # t
    BY <1>1, NoLocks DEF Passive
  <2>2. LockOK(t)'
    BY <1>1, <1>3, <1>4, <1>5, <2>1 DEF LockOK, At, Lock
  <2>3. SendOK(t)'
    BY <1>1, <1>2 DEF Each, SendOK, Lock
  <2> QED BY <1>3, <1>4, <1>5, <2>2, <2>3 DEF Each, FillOK, ReaderOK, At
<1>7. ~ At2(t, "flush") /\ ~ At(t, "reallocated")
  BY <1>1 DEF At, At2
<1>8. /\ UNCHANGED <<method, old, cache, heap, garbage, send, cacheUpdateLock>>
      /\ runtimeLock' \in Threads \cup {NoThread}
      /\ \A u \in Threads \ {t} : runtimeLock' = u <=> runtimeLock = u
  BY <1>1, <1>2 DEF Lock, caches
<1> HIDE DEF x
<1> QED BY <1>1, <1>3, <1>5, <1>6, <1>7, <1>8, Quiet DEF TypeOK

LEMMA ResolveStep ==
    ASSUME CacheAssumption, IndInv, NEW t \in Threads, Resolve(t)
    PROVE  IndInv'
<1>1. TypeOK /\ Each(t) /\ th[t].pc = "resolve"
  BY Parts DEF Resolve, At
<1>2. send[t] \in Sending
  BY <1>1, IsSending
<1>3. Locking(TRUE) \in States /\ Locking(TRUE).pc = "lock" /\ th' = [th EXCEPT ![t] = Locking(TRUE)]
  BY DEF Resolve, Locking, States, Resolving
<1>4. ReaderOK(t)'
  BY <1>1, <1>3, Elsewhere DEF ReaderOK, At
<1> QED BY <1>1, <1>2, <1>3, <1>4, Passes DEF Resolve, Passive

(* While nobody flushes, what a cache has is current.                      *)
LEMMA CachedCurrent ==
    ASSUME CacheAssumption, IndInv, NEW c \in Classes, NEW s \in Selectors,
           \A u \in Threads : ~ At2(u, "flush"), Cached(c, s) # None
    PROVE  Cached(c, s) = Current(method, c, s)
<1>1. PICK b : b = cache[c].buckets
  OBVIOUS
<1>2. PICK hits : hits = IF b = Empty THEN {} ELSE {i \in DOMAIN heap[b] : heap[b][i].key = Key[s]}
  OBVIOUS
<1>3. Cached(c, s) = IF hits = {} THEN None ELSE heap[b][CHOOSE i \in hits : TRUE].imp
  BY <1>1, <1>2 DEF Cached
<1>4. PICK i : hits # {} => i \in hits /\ Cached(c, s) = heap[b][i].imp
  BY <1>3
<1>5. b # Empty /\ i \in DOMAIN heap[b] /\ heap[b][i].key = Key[s] /\ Cached(c, s) = heap[b][i].imp
  BY <1>2, <1>3, <1>4
<1> QED BY <1>1, <1>5 DEF IndInv, EntriesOK

LEMMA FoundCurrent ==
    ASSUME CacheAssumption, IndInv, NEW c \in Classes, NEW s \in Selectors,
           \A u \in Threads : ~ At2(u, "flush")
    PROVE  /\ FoundIn(c, s) # None => FoundIn(c, s) = Current(method, c, s)
           /\ FoundIn(c, s) = None => method[c][s] = None
BY CachedCurrent, CurrentOwn DEF FoundIn

(* The search through the superclasses finds what is current.              *)
LEMMA SearchCurrent ==
    ASSUME CacheAssumption, IndInv, NEW c \in Classes, NEW s \in Selectors,
           \A u \in Threads : ~ At2(u, "flush"), method[c][s] = None
    PROVE  IF FoundInSupers(c, s) # None THEN FoundInSupers(c, s) = Current(method, c, s)
           ELSE Current(method, c, s) = Forward
<1>1. PICK found : found = {i \in DOMAIN Supers[c] : FoundIn(Supers[c][i], s) # None}
  OBVIOUS
<1>2. PICK i : i = CHOOSE k \in found : \A j \in found : k <= j
  OBVIOUS
<1>3. PICK first : first = FoundIn(Supers[c][i], s)
  OBVIOUS
<1>4. FoundInSupers(c, s) = IF found = {} \/ first = Forward THEN None ELSE first
  BY <1>1, <1>2, <1>3 DEF FoundInSupers
<1>5. DOMAIN Supers[c] = 1 .. Len(Supers[c]) /\ Len(Supers[c]) \in Nat
      /\ \A k \in DOMAIN Supers[c] : Supers[c][k] \in Classes
  BY Constants, LineType
<1>6. \A k \in DOMAIN Supers[c] : FoundIn(Supers[c][k], s) = None => method[Supers[c][k]][s] = None
  BY <1>5, FoundCurrent
<1>7. CASE found = {}
  <2>1. \A k \in DOMAIN Supers[c] : method[Supers[c][k]][s] = None
    BY <1>1, <1>6, <1>7
  <2>2. \A k \in 1 .. Size(c) : method[Line(c)[k]][s] = None
    <3>1. ASSUME NEW k \in 1 .. Size(c)
          PROVE  method[Line(c)[k]][s] = None
      <4>1. CASE k = 1
        BY <4>1, LineType
      <4>2. CASE k # 1
        BY <1>5, <2>1, <4>2, LinePlace
      <4> QED BY <4>1, <4>2
    <3> QED BY <3>1
  <2> QED BY <1>4, <1>7, <2>2, CurrentNowhere
<1>8. CASE found # {}
  <2>1. found \in SUBSET Nat
    BY <1>1, <1>5
  <2>2. i \in found /\ \A j \in found : i <= j
    BY <1>2, <1>8, <2>1, Chosen
  <2>3. i \in DOMAIN Supers[c] /\ Supers[c][i] \in Classes
    BY <1>1, <1>5, <2>2
  <2>4. ASSUME NEW j \in 1 .. i - 1
        PROVE  method[Supers[c][j]][s] = None
    <3>1. j \in DOMAIN Supers[c] /\ ~ (i <= j)
      BY <1>5, <2>3
    <3>2. j \notin found
      BY <2>2, <3>1
    <3> QED BY <1>1, <1>6, <3>1, <3>2
  <2>5. Current(method, c, s) = Current(method, Supers[c][i], s)
    BY <2>3, <2>4, CurrentSuper
  <2>6. first # None /\ first = Current(method, Supers[c][i], s)
    BY <1>1, <1>3, <2>2, <2>3, FoundCurrent
  <2> QED BY <1>4, <1>8, <2>5, <2>6
<1> QED BY <1>7, <1>8

(* With runtimeLock, nobody else is flushing or filling.                   *)
LEMMA NobodyElse ==
    ASSUME CacheAssumption, IndInv, NEW t \in Threads, runtimeLock \in {t, NoThread}
    PROVE  \A u \in Threads \ {t} :
               /\ ~ Writing(u) /\ ~ Filling(u) /\ ~ At2(u, "flush") /\ ~ At2(u, "insertImp")
               /\ th[u].pc \in Passive \cup {"collect"}
BY NoLocks, Constants

LEMMA LookupStep ==
    ASSUME CacheAssumption, IndInv, NEW t \in Threads, Lookup(t)
    PROVE  IndInv'
<1>1. TypeOK /\ Each(t) /\ th[t].pc = "lookup"
  BY Parts DEF Lookup, At
<1>2. PICK c, s : c = send[t].cls /\ s = send[t].sel
  OBVIOUS
<1>3. /\ send[t] \in Sending /\ th[t] \in Resolving("lookup") /\ NoThread \notin Threads
      /\ c \in Classes /\ s \in Selectors
      /\ Current(method, c, s) \in send[t].recent
  BY <1>1, <1>2, IsSending, SendType, Kinds, Constants DEF TypeOK
<1>4. /\ runtimeLock = t /\ cacheUpdateLock # t
      /\ ~ Writing(t) /\ ~ At2(t, "flush") /\ ~ At(t, "reallocated")
  BY <1>1 DEF Each, LockOK, Writing, At, At2
<1>5. \A u \in Threads : ~ At2(u, "flush")
  BY <1>4, NobodyElse
<1>6. Current(method, c, s) \in Implementations /\ Current(method, c, s) # None
  BY <1>1, <1>3, CurrentType DEF TypeOK
<1>7. PICK imp : imp = IF method[c][s] # None THEN method[c][s] ELSE FoundInSupers(c, s)
  OBVIOUS
<1>8. IF imp # None THEN imp = Current(method, c, s) ELSE Current(method, c, s) = Forward
  <2>1. CASE method[c][s] # None
    BY <1>3, <1>7, <2>1, CurrentOwn
  <2>2. CASE method[c][s] = None
    BY <1>3, <1>5, <1>7, <2>2, SearchCurrent
  <2> QED BY <2>1, <2>2
<1>9. /\ UNCHANGED <<method, old, cache, heap, garbage, send, cacheUpdateLock>>
      /\ send' \in [Threads -> {Nothing} \cup Sending]
      /\ cacheUpdateLock' \in Threads \cup {NoThread}
      /\ runtimeLock' = t \/ runtimeLock' = NoThread
  BY <1>1, <1>4 DEF Lookup, TypeOK, caches
<1>10. \A u \in Threads \ {t} : runtimeLock' = u <=> runtimeLock = u
  BY <1>3, <1>4, <1>9
<1>11. ASSUME NEW x \in States, th' = [th EXCEPT ![t] = x], x.pc \in {"called", "fill", "resolve"},
              x.pc # "resolve" => x.imp = Current(method, c, s),
              runtimeLock' = IF x.pc = "fill" THEN t ELSE NoThread
       PROVE  IndInv'
  <2>1. th'[t] = x
    BY <1>1, <1>11, Elsewhere
  <2>2. /\ ~ Writing(t)' /\ (Filling(t)' <=> x.pc = "fill") /\ ~ At2(t, "insertImp")'
        /\ ~ At2(t, "flush")' /\ Registers(t)' = x
    BY <1>11, <2>1 DEF Writing, Filling, At, At2, Registers
  <2>3. LockOK(t)'
    BY <1>3, <1>4, <1>9, <1>11, <2>1, <2>2 DEF LockOK, At
  <2>4. SendOK(t)'
    BY <1>1, <1>3, <1>9 DEF Each, SendOK
  <2>5. FillOK(t)'
    BY <1>2, <1>9, <1>11, <2>1, <2>2 DEF FillOK, At
  <2>6. Each(t)'
    BY <1>3, <1>9, <1>11, <2>1, <2>3, <2>4, <2>5 DEF Each, ReaderOK, At
  <2>7. x.pc \notin {"reallocate", "reallocated", "collect"}
    BY <1>11
  <2> QED BY <1>4, <1>9, <1>10, <1>11, <2>2, <2>6, <2>7, Quiet
<1>12. CASE Cached(c, s) # None
  <2>1. th' = [th EXCEPT ![t] = [pc |-> "called", imp |-> Cached(c, s)]] /\ runtimeLock' = NoThread
    BY <1>2, <1>12 DEF Lookup, Called
  <2>2. Cached(c, s) = Current(method, c, s)
    BY <1>3, <1>5, <1>12, CachedCurrent
  <2>3. [pc |-> "called", imp |-> Cached(c, s)] \in States
    BY <1>6, <2>2 DEF States
  <2> QED BY <1>11, <2>1, <2>2, <2>3
<1>13. CASE Cached(c, s) = None /\ (imp # None \/ th[t].resolved)
  <2>1. th' = [th EXCEPT ![t] = [pc |-> "fill", imp |-> Current(method, c, s)]] /\ runtimeLock' = t
    BY <1>2, <1>4, <1>7, <1>8, <1>13 DEF Lookup, Fill
  <2>2. [pc |-> "fill", imp |-> Current(method, c, s)] \in States
    BY <1>6 DEF States
  <2> QED BY <1>11, <2>1, <2>2
<1>14. CASE Cached(c, s) = None /\ ~ (imp # None \/ th[t].resolved)
  <2> DEFINE x == [th[t] EXCEPT !.pc = "resolve"]
  <2>1. th' = [th EXCEPT ![t] = x] /\ runtimeLock' = NoThread
    BY <1>2, <1>7, <1>14 DEF Lookup, Goto
  <2>2. x \in States /\ x.pc = "resolve"
    BY <1>3 DEF States, Resolving
  <2> QED BY <1>11, <2>1, <2>2
<1> QED BY <1>12, <1>13, <1>14

-----------------------------------------------------------------------------
(* cache_fill_nolock.                                                      *)

(* The threads that a writer leaves where they are: the readers keep their *)
(* arrays.                                                                 *)
LEMMA Bystanders ==
    ASSUME IndInv, NEW t \in Threads, NEW x, th' = [th EXCEPT ![t] = x],
           UNCHANGED <<method, send>>,
           old' \in {old, method},
           \A u \in Threads \ {t} :
               /\ th[u].pc \in Passive
               /\ runtimeLock' # u /\ cacheUpdateLock' # u
               /\ send[u] \in Sending =>
                      cache'[send[u].cls].mask \in Nat
                      /\ cache'[send[u].cls].mask >= cache[send[u].cls].mask
               /\ \A b \in Memory :
                      th[u].pc \in {"key", "scan", "imp"} /\ th[u].buckets = b
                          /\ ArrayOK(u, b) /\ send[u] \in Sending
                      => /\ ArrayOK(u, b)'
                         /\ heap[b][th[u].index].key = Key[send[u].sel] =>
                               heap'[b][th[u].index].key = Key[send[u].sel],
           \A c \in Classes : cache[c].mask \in Nat
    PROVE  \A u \in Threads \ {t} : Each(u)'
<1>1. TypeOK /\ \A u \in Threads : Each(u)
  BY Parts
<1>2. TAKE u \in Threads \ {t}
<1>3. /\ th'[u] = th[u] /\ (\A pc : At(u, pc)' <=> At(u, pc))
      /\ (\A pc : At2(u, pc)' <=> At2(u, pc))
      /\ (Writing(u)' <=> Writing(u)) /\ (Filling(u)' <=> Filling(u))
  BY <1>1, Elsewhere
<1>4. /\ th[u].pc \in Passive /\ ~ Writing(u) /\ ~ Filling(u)
      /\ ~ At2(u, "insertImp") /\ ~ At2(u, "flush")
  BY NoLocks
<1>5. LockOK(u)'
  BY <1>3, <1>4 DEF LockOK, At, Passive
<1>6. SendOK(u)'
  BY <1>1, <1>3 DEF Each, SendOK
<1>7. FillOK(u)'
  BY <1>3, <1>4 DEF FillOK, At, Passive
<1>8. ReaderOK(u)'
  <2>1. CASE th[u].pc = "buckets"
    <3>1. send[u] \in Sending /\ send[u].cls \in Classes /\ th[u].index \in Nat
      BY <1>1, <2>1, IsSending, SendType, Kinds DEF TypeOK
    <3>2. th[u].index \in 1 .. cache[send[u].cls].mask + 1
      BY <1>1, <2>1 DEF Each, ReaderOK, At
    <3>3. cache'[send[u].cls].mask \in Nat /\ cache'[send[u].cls].mask >= cache[send[u].cls].mask
          /\ cache[send[u].cls].mask \in Nat
      BY <3>1
    <3>4. th[u].index \in 1 .. cache'[send[u].cls].mask + 1
      BY <3>1, <3>2, <3>3
    <3> QED BY <1>3, <2>1, <3>4 DEF ReaderOK, At
  <2>2. CASE th[u].pc \in {"key", "scan", "imp"}
    <3>1. PICK b : b = th[u].buckets
      OBVIOUS
    <3>2. b \in Memory \cup {Empty} /\ send[u] \in Sending
      BY <1>1, <2>2, <3>1, IsSending, Kinds DEF TypeOK, Scanning
    <3>3. /\ th[u].pc = "imp" => b # Empty /\ heap[b][th[u].index].key = Key[send[u].sel]
          /\ b # Empty => ArrayOK(u, b)
      BY <1>1, <2>2, <3>1 DEF Each, ReaderOK, At
    <3>4. b # Empty =>
             /\ ArrayOK(u, b)'
             /\ heap[b][th[u].index].key = Key[send[u].sel] =>
                   heap'[b][th[u].index].key = Key[send[u].sel]
      BY <2>2, <3>1, <3>2, <3>3
    <3> QED BY <1>3, <2>2, <3>1, <3>3, <3>4 DEF ReaderOK, At
  <2>3. CASE th[u].pc \notin {"buckets", "key", "scan", "imp"}
    BY <1>3, <2>3 DEF ReaderOK, At
  <2> QED BY <2>1, <2>2, <2>3
<1>9. (At(u, "called") => th[u].imp \in send[u].recent)'
  BY <1>1, <1>3 DEF Each, At
<1> QED BY <1>5, <1>6, <1>7, <1>8, <1>9 DEF Each

(* A new array of buckets.                                                 *)
LEMMA NewArray ==
    ASSUME CacheAssumption, NEW n \in Nat, n >= 2
    PROVE  LET a == allocateBuckets(n) IN
           /\ a \in Seq(Buckets) /\ a # <<>> /\ Len(a) = n + 1
           /\ IsArray(a) /\ Used(a) = {}
           /\ \A i \in DOMAIN a, s \in Selectors : a[i].key # Key[s]
<1>1. PICK a : a = allocateBuckets(n)
  OBVIOUS
<1>2. /\ DOMAIN a = 1 .. n + 1
      /\ \A i \in 1 .. n : a[i] = Bucket(0, None)
      /\ a[n + 1] = Bucket(1, None)
  BY <1>1 DEF allocateBuckets
<1>3. Bucket(0, None) \in Buckets /\ Bucket(1, None) \in Buckets
      /\ Bucket(0, None).key = 0 /\ Bucket(1, None).key = 1
  BY DEF Bucket, Buckets, Implementations
<1>4. a \in Seq(Buckets) /\ Len(a) = n + 1
  <2>1. a = [i \in 1 .. n + 1 |-> Bucket(IF i <= n THEN 0 ELSE 1, None)]
    BY <1>1 DEF allocateBuckets
  <2>2. \A i \in 1 .. n + 1 : Bucket(IF i <= n THEN 0 ELSE 1, None) \in Buckets
    BY <1>3
  <2> QED BY <2>1, <2>2
<1>5. IsArray(a) /\ Used(a) = {}
  BY <1>2, <1>3, <1>4 DEF IsArray, Used
<1>6. \A i \in DOMAIN a, s \in Selectors : a[i].key # Key[s]
  BY <1>2, <1>3, Constants
<1> QED BY <1>1, <1>4, <1>5, <1>6

(* The capacity that a fill needs.                                         *)
LEMMA CapacityGrows ==
    ASSUME CacheAssumption, IndInv, NEW c \in Classes
    PROVE  /\ NewCapacity(c) \in Nat /\ NewCapacity(c) >= 2
           /\ NewCapacity(c) >= cache[c].mask + 1
           /\ ~ isConstantEmptyCache(c) => cache[c].buckets # Empty
           /\ Fits(c) => cache[c].occupied <= cache[c].mask
<1>1. cache[c].mask \in Nat /\ cache[c].occupied \in Nat
      /\ (cache[c].buckets = Empty => cache[c].occupied = 0)
  BY CacheType DEF IndInv, CachesOK, CacheOK
<1>2. INIT_CACHE_SIZE \in Nat /\ INIT_CACHE_SIZE >= 2
  BY Constants
<1>3. capacity(c) \in Nat /\ capacity(c) # 1
      /\ (cache[c].mask = 0 => capacity(c) = 0)
      /\ (cache[c].mask # 0 => capacity(c) = cache[c].mask + 1)
  BY <1>1 DEF capacity
<1>4. NewCapacity(c) \in Nat /\ NewCapacity(c) >= 2 /\ NewCapacity(c) >= cache[c].mask + 1
  <2>1. CASE cache[c].mask = 0
    BY <1>2, <1>3, <2>1 DEF NewCapacity
  <2>2. CASE cache[c].mask # 0
    <3>1. capacity(c) = cache[c].mask + 1 /\ cache[c].mask >= 1
      BY <1>1, <1>3, <2>2
    <3>2. NewCapacity(c) = capacity(c) \/ NewCapacity(c) = 2 * capacity(c)
      BY <1>1, <3>1 DEF NewCapacity
    <3> QED BY <1>1, <3>1, <3>2
  <2> QED BY <2>1, <2>2
<1>5. ~ isConstantEmptyCache(c) => cache[c].buckets # Empty
  BY <1>1 DEF isConstantEmptyCache
<1>6. Fits(c) => cache[c].occupied <= cache[c].mask
  BY <1>1, <1>3 DEF Fits
<1> QED BY <1>4, <1>5, <1>6

LEMMA FillStep ==
    ASSUME CacheAssumption, IndInv, NEW t \in Threads, cache_fill(t)
    PROVE  IndInv'
<1>1. TypeOK /\ Each(t) /\ th[t].pc = "fill" /\ cacheUpdateLock = NoThread
  BY Parts DEF cache_fill, At
<1>2. PICK c, s, imp : c = send[t].cls /\ s = send[t].sel /\ imp = th[t].imp
  OBVIOUS
<1>3. /\ send[t] \in Sending /\ NoThread \notin Threads
      /\ c \in Classes /\ s \in Selectors /\ imp \in Implementations
      /\ Current(method, c, s) \in send[t].recent
  BY <1>1, <1>2, IsSending, SendType, Kinds, Constants DEF TypeOK
<1>4. /\ runtimeLock = t /\ cacheUpdateLock # t
      /\ ~ Writing(t) /\ ~ At2(t, "flush") /\ ~ At(t, "reallocated")
      /\ imp = Current(method, c, s)
  BY <1>1, <1>2 DEF Each, LockOK, FillOK, Writing, Filling, Registers, At, At2
<1>5. \A u \in Threads \ {t} : th[u].pc \in Passive
  BY <1>1, <1>3, <1>4, NoLocks DEF Passive
<1>6. UNCHANGED <<method, old, cache, garbage, send>>
  BY DEF cache_fill
<1>7. CASE Cached(c, s) # None
  <2> DEFINE x == [pc |-> "called", imp |-> imp]
  <2>1. /\ x \in States /\ x.pc = "called" /\ x.imp = imp /\ th' = [th EXCEPT ![t] = x]
        /\ runtimeLock' = NoThread /\ UNCHANGED <<heap, cacheUpdateLock>>
    BY <1>2, <1>3, <1>7 DEF cache_fill, Called, States
  <2>2. th'[t] = x
    BY <1>1, <2>1, Elsewhere
  <2>3. /\ ~ Writing(t)' /\ ~ Filling(t)' /\ ~ At2(t, "insertImp")' /\ ~ At2(t, "flush")'
    BY <2>1, <2>2 DEF Writing, Filling, At, At2
  <2>4. Each(t)'
    <3>1. LockOK(t)'
      BY <1>3, <1>4, <2>1, <2>2, <2>3 DEF LockOK, At
    <3>2. SendOK(t)'
      BY <1>1, <1>3, <1>6 DEF Each, SendOK
    <3>3. (At(t, "called") => th[t].imp \in send[t].recent)'
      BY <1>3, <1>4, <1>6, <2>1, <2>2
    <3> QED BY <2>1, <2>2, <2>3, <3>1, <3>2, <3>3 DEF Each, FillOK, ReaderOK, At
  <2> HIDE DEF x
  <2> QED BY <1>1, <1>3, <1>4, <1>6, <2>1, <2>3, <2>4, Quiet DEF TypeOK
<1>8. CASE Cached(c, s) = None /\ ~ isConstantEmptyCache(c) /\ Fits(c)
  <2> DEFINE x == [th[t] EXCEPT !.pc = "insertImp"]
  <2>1. /\ x \in States /\ x.pc = "insertImp" /\ x.imp = imp /\ th' = [th EXCEPT ![t] = x]
    BY <1>1, <1>2, <1>8, Kinds DEF cache_fill, Goto, States, Inserting, TypeOK
  <2>2. cacheUpdateLock' = t /\ UNCHANGED <<heap, runtimeLock>>
    BY <1>2, <1>8 DEF cache_fill
  <2>3. th'[t] = x
    BY <1>1, <2>1, Elsewhere
  <2>4. /\ Writing(t)' /\ Filling(t)' /\ ~ At2(t, "flush")' /\ Registers(t)' = x
    BY <2>1, <2>3 DEF Writing, Filling, At, At2, Registers
  <2>5. Each(t)'
    <3>1. LockOK(t)'
      BY <1>4, <2>2, <2>4 DEF LockOK
    <3>2. SendOK(t)'
      BY <1>1, <1>3, <1>6 DEF Each, SendOK
    <3>3. FillOK(t)'
      BY <1>2, <1>3, <1>4, <1>6, <1>8, <2>1, <2>2, <2>3, <2>4, CapacityGrows DEF FillOK, At
    <3> QED BY <2>1, <2>3, <3>1, <3>2, <3>3 DEF Each, ReaderOK, At
  <2>6. \A u \in Threads \ {t} : cacheUpdateLock' = u <=> cacheUpdateLock = u
    BY <1>1, <1>3, <2>2
  <2> HIDE DEF x
  <2> QED BY <1>1, <1>3, <1>4, <1>6, <2>1, <2>2, <2>4, <2>5, <2>6, Quiet DEF TypeOK
<1>9. CASE Cached(c, s) = None /\ ~ (~ isConstantEmptyCache(c) /\ Fits(c))
  <2>1. PICK n, new : n = NewCapacity(c) /\ new = malloc
    OBVIOUS
  <2>2. /\ n \in Nat /\ n >= 2 /\ n >= cache[c].mask + 1
    BY <1>3, <2>1, CapacityGrows
  <2>3. PICK a : a = allocateBuckets(n)
    OBVIOUS
  <2>4. /\ a \in Seq(Buckets) /\ a # <<>> /\ Len(a) = n + 1
        /\ IsArray(a) /\ Used(a) = {}
    BY <2>2, <2>3, NewArray
  <2>5. /\ heap' = [heap EXCEPT ![new] = a]
        /\ th' = [th EXCEPT ![t] = [pc |-> "reallocate", imp |-> imp, new |-> new]]
        /\ cacheUpdateLock' = t /\ UNCHANGED runtimeLock /\ Free # {}
    BY <1>2, <1>9, <2>1, <2>3 DEF cache_fill
  <2>6. new \in Memory /\ heap[new] = <<>>
    <3>1. Free \in SUBSET Nat
      BY Constants DEF Free
    <3>2. malloc \in Free
      BY <2>5, <3>1, Chosen DEF malloc
    <3> QED BY <2>1, <3>2 DEF Free
  <2> DEFINE x == [pc |-> "reallocate", imp |-> imp, new |-> new]
  <2>7. /\ x \in States /\ x.pc = "reallocate" /\ x.imp = imp /\ x.new = new
        /\ th' = [th EXCEPT ![t] = x]
    BY <1>3, <2>5, <2>6 DEF States
  <2>8. /\ th'[t] = x /\ th' \in [Threads -> States]
        /\ \A u \in Threads \ {t} : /\ th'[u] = th[u] /\ (\A pc : At2(u, pc)' <=> At2(u, pc))
                                    /\ Registers(u)' = Registers(u)
    BY <1>1, <2>7, Elsewhere
  <2> HIDE DEF x
  <2>9. /\ heap' \in [Memory -> Seq(Buckets)] /\ heap'[new] = a
        /\ \A b \in Memory \ {new} : heap'[b] = heap[b]
    BY <1>1, <2>4, <2>5, <2>6 DEF TypeOK
  <2>10. TypeOK'
    BY <1>1, <1>6, <2>5, <2>8, <2>9 DEF TypeOK
  <2>11. HeapOK'
    BY <2>4, <2>9 DEF IndInv, HeapOK, IsArray
  <2>12. /\ new \notin garbage /\ \A d \in Classes : cache[d].buckets # new
    BY <2>6, CacheType, Constants DEF IndInv, CachesOK, CacheOK
  <2>13. \A d : ~ Reallocated(d) /\ ~ Reallocated(d)'
    BY <1>1, <1>5, <2>7, <2>8 DEF Reallocated, At, Passive
  <2>14. CachesOK'
    <3>1. \A b \in garbage' : heap'[b] # <<>>
      BY <1>1, <1>6, <2>9, <2>12 DEF IndInv, CachesOK, TypeOK
    <3>2. ASSUME NEW d \in Classes, cache[d].buckets # Empty
          PROVE  cache[d].buckets \in Memory /\ heap'[cache[d].buckets] = heap[cache[d].buckets]
      BY <2>9, <2>12, <3>2, CacheType
    <3>3. ASSUME NEW d \in Classes
          PROVE  CacheOK(d)'
      <4>1. CacheOK(d) /\ cache' = cache /\ garbage' = garbage
        BY <1>6 DEF IndInv, CachesOK
      <4>2. CASE cache[d].buckets = Empty
        BY <2>13, <4>1, <4>2 DEF CacheOK
      <4>3. CASE cache[d].buckets # Empty
        BY <2>13, <3>2, <4>1, <4>3 DEF CacheOK, Used
      <4> QED BY <4>2, <4>3
    <3> QED BY <3>1, <3>3 DEF CachesOK
  <2>15. \A u \in Threads : ~ At2(u, "flush") /\ ~ At2(u, "flush")'
    BY <1>1, <1>5, <2>7, <2>8, NoLocks DEF At, At2
  <2>16. EntriesOK'
    <3>1. ASSUME NEW d \in Classes, cache[d].buckets # Empty
          PROVE  heap'[cache[d].buckets] = heap[cache[d].buckets]
      BY <2>9, <2>12, <3>1, CacheType
    <3> QED BY <1>6, <2>15, <3>1 DEF IndInv, EntriesOK
  <2>17. Each(t)'
    <3>1. Writing(t)' /\ Filling(t)' /\ Registers(t)' = x /\ ~ At2(t, "insertImp")'
      BY <2>7, <2>8 DEF Writing, Filling, Registers, At, At2
    <3>2. LockOK(t)'
      BY <1>4, <2>5, <3>1 DEF LockOK
    <3>3. SendOK(t)'
      BY <1>1, <1>3, <1>6 DEF Each, SendOK
    <3>4. Len(heap'[new]) >= cache[c].mask + 2
      BY <1>3, <2>2, <2>4, <2>9, CacheType
    <3>5. FillOK(t)'
      BY <1>2, <1>4, <1>6, <2>4, <2>7, <2>8, <2>9, <2>12, <3>1, <3>4 DEF FillOK, At
    <3> QED BY <2>7, <2>8, <3>2, <3>3, <3>5 DEF Each, ReaderOK, At
  <2>18. \A u \in Threads \ {t} : Each(u)'
    <3>1. ASSUME NEW u \in Threads \ {t}, NEW b \in Memory,
                 th[u].pc \in {"key", "scan", "imp"}, th[u].buckets = b, ArrayOK(u, b)
          PROVE  ArrayOK(u, b)' /\ heap'[b] = heap[b]
      <4>1. b # new /\ heap'[b] = heap[b]
        BY <2>6, <2>9, <3>1 DEF ArrayOK
      <4>2. ASSUME NEW w \in Threads
            PROVE  /\ At(w, "reallocate")' => th'[w].new # b
                   /\ ~ At(w, "collect")'
        BY <1>5, <2>7, <2>8, <4>1 DEF At, Passive
      <4> QED BY <1>6, <2>8, <3>1, <4>1, <4>2 DEF ArrayOK
    <3>2. \A u \in Threads \ {t} : runtimeLock' # u /\ cacheUpdateLock' # u
      BY <1>4, <2>5
    <3>3. ASSUME NEW d \in Classes
          PROVE  cache'[d].mask \in Nat /\ cache[d].mask \in Nat /\ cache'[d].mask >= cache[d].mask
      BY <1>6, CacheType
    <3> QED BY <1>5, <1>6, <2>7, <3>1, <3>2, <3>3, Bystanders, SendType
  <2> QED BY <2>10, <2>11, <2>14, <2>16, <2>17, <2>18 DEF IndInv, Each, CallsCurrent
<1> QED BY <1>7, <1>8, <1>9

(* Who writes to the caches has both locks.                                *)
LEMMA Alone ==
    ASSUME CacheAssumption, IndInv, NEW t \in Threads, Writing(t)
    PROVE  /\ runtimeLock = t /\ cacheUpdateLock = t
           /\ \A u \in Threads \ {t} :
                  th[u].pc \in Passive /\ runtimeLock # u /\ cacheUpdateLock # u
<1>1. runtimeLock = t /\ cacheUpdateLock = t
  BY DEF IndInv, LockOK
<1> QED BY <1>1, NoLocks DEF Passive

(* setBucketsAndMask: the buckets first.                                   *)
LEMMA ReallocateBucketsStep ==
    ASSUME CacheAssumption, IndInv, NEW t \in Threads, ReallocateBuckets(t)
    PROVE  IndInv'
<1>1. TypeOK /\ Each(t) /\ th[t].pc = "reallocate" /\ Writing(t) /\ Filling(t) /\ Registers(t) = th[t]
  BY Parts DEF ReallocateBuckets, At, Writing, Filling, Registers
<1>2. PICK c, s, imp, new, b :
          /\ c = send[t].cls /\ s = send[t].sel /\ imp = th[t].imp /\ new = th[t].new
          /\ b = cache[c].buckets
  OBVIOUS
<1>3. /\ send[t] \in Sending /\ c \in Classes /\ s \in Selectors
      /\ imp \in Implementations /\ new \in Memory /\ new # Empty
  BY <1>1, <1>2, IsSending, SendType, Kinds, Constants DEF TypeOK
<1>4. /\ runtimeLock = t /\ cacheUpdateLock = t
      /\ \A u \in Threads \ {t} : th[u].pc \in Passive /\ runtimeLock # u /\ cacheUpdateLock # u
  BY <1>1, Alone
<1>5. UNCHANGED <<method, old, heap, garbage, runtimeLock, cacheUpdateLock, send>>
  BY DEF ReallocateBuckets, locks
<1>6. /\ imp = Current(method, c, s)
      /\ new \notin garbage /\ (\A d \in Classes : cache[d].buckets # new)
      /\ heap[new] # <<>> /\ Used(heap[new]) = {} /\ Len(heap[new]) >= cache[c].mask + 2
  BY <1>1, <1>2 DEF Each, FillOK, At
<1>7. PICK dead : dead = IF isConstantEmptyCache(c) THEN {} ELSE {b}
  OBVIOUS
<1>8. /\ dead \subseteq Memory
      /\ \A a \in dead : a = b /\ b # Empty
  BY <1>2, <1>3, <1>7, CacheType, CapacityGrows
<1> DEFINE x == [pc |-> "reallocated", imp |-> imp, dead |-> dead]
<1>9. /\ x \in States /\ x.pc = "reallocated" /\ x.imp = imp /\ x.dead = dead
      /\ th' = [th EXCEPT ![t] = x]
  BY <1>2, <1>3, <1>7, <1>8 DEF ReallocateBuckets, States
<1>10. /\ th'[t] = x /\ th' \in [Threads -> States]
       /\ \A u \in Threads \ {t} : th'[u] = th[u]
  BY <1>1, <1>9, Elsewhere
<1> HIDE DEF x
<1>11. /\ cache' \in [Classes -> [buckets : Memory \cup {Empty}, mask : Nat, occupied : Nat]]
       /\ cache'[c].buckets = new /\ cache'[c].mask = cache[c].mask
       /\ \A d \in Classes \ {c} : cache'[d] = cache[d]
  BY <1>1, <1>2, <1>3 DEF ReallocateBuckets, TypeOK
<1>12. TypeOK'
  BY <1>1, <1>5, <1>10, <1>11 DEF TypeOK
<1>13. HeapOK'
  BY <1>5 DEF IndInv, HeapOK, IsArray
<1>14. /\ Reallocated(c)'
       /\ \A d \in Classes : ~ Reallocated(d)
       /\ \A d \in Classes \ {c} : ~ Reallocated(d)'
  BY <1>1, <1>2, <1>4, <1>5, <1>9, <1>10 DEF Reallocated, At, Passive
<1>15. CachesOK'
  <2>1. ASSUME NEW d \in Classes \ {c}
        PROVE  CacheOK(d)'
    <3>1. CacheOK(d)
      BY DEF IndInv, CachesOK
    <3>2. ~ Reallocated(d) /\ ~ Reallocated(d)'
      BY <1>14
    <3> QED BY <1>5, <1>6, <1>11, <3>1, <3>2 DEF CacheOK, Used
  <2>2. CacheOK(c)'
    BY <1>3, <1>5, <1>6, <1>11, <1>14 DEF CacheOK, Used
  <2> QED BY <1>5, <2>1, <2>2 DEF IndInv, CachesOK
<1>16. \A u \in Threads : ~ At2(u, "flush") /\ ~ At2(u, "flush")'
  BY <1>1, <1>4, <1>9, <1>10 DEF At, At2, Passive
<1>17. ASSUME NEW i \in DOMAIN heap[new], NEW r \in Selectors
       PROVE  heap[new][i].key # Key[r]
  <2>1. PICK n \in Nat : n = Len(heap[new]) /\ i \in 1 .. n /\ heap[new][n].key = 1
    BY <1>3, <1>6, ArrayType
  <2>2. CASE i = n
    BY <2>1, <2>2, Constants
  <2>3. CASE i # n
    <3>1. i \in 1 .. n - 1
      BY <2>1, <2>3
    <3>2. heap[new][i].key = 0
      BY <1>6, <2>1, <3>1 DEF Used
    <3> QED BY <3>2, Constants
  <2> QED BY <2>2, <2>3
<1>18. EntriesOK'
  BY <1>5, <1>11, <1>16, <1>17 DEF IndInv, EntriesOK
<1>19. Each(t)'
  <2>1. Writing(t)' /\ Filling(t)' /\ Registers(t)' = x /\ ~ At2(t, "insertImp")'
    BY <1>9, <1>10 DEF Writing, Filling, Registers, At, At2
  <2>2. LockOK(t)'
    BY <1>4, <1>5, <2>1 DEF LockOK
  <2>3. SendOK(t)'
    BY <1>1, <1>3, <1>5 DEF Each, SendOK
  <2>4. ASSUME NEW a \in dead
        PROVE  /\ heap[a] # <<>> /\ a \notin garbage
               /\ \A d \in Classes : cache'[d].buckets # a
    <3>1. a = b /\ b # Empty
      BY <1>8
    <3>2. heap[b] # <<>> /\ b \notin garbage /\ \A d \in Classes : cache[d].buckets = b => d = c
      BY <1>2, <1>3, <3>1, CacheType
    <3>3. b # new
      BY <1>2, <1>3, <1>6
    <3> QED BY <1>11, <3>1, <3>2, <3>3
  <2>5. FillOK(t)'
    BY <1>2, <1>5, <1>6, <1>9, <1>10, <2>1, <2>4 DEF FillOK, At
  <2> QED BY <1>9, <1>10, <2>2, <2>3, <2>5 DEF Each, ReaderOK, At
<1>20. \A u \in Threads \ {t} : Each(u)'
  <2>1. ASSUME NEW u \in Threads \ {t}, NEW a \in Memory,
               th[u].pc \in {"key", "scan", "imp"}, th[u].buckets = a, ArrayOK(u, a)
        PROVE  ArrayOK(u, a)'
    <3>1. a # new
      BY <1>1, <1>2, <2>1 DEF ArrayOK, At
    <3>2. \A w \in Threads : ~ At(w, "reallocate")' /\ ~ At(w, "collect")'
      BY <1>4, <1>9, <1>10 DEF At, Passive
    <3>3. \A d \in Classes : cache'[d].buckets = a => d = send[u].cls
      BY <1>11, <2>1, <3>1 DEF ArrayOK
    <3> QED BY <1>5, <1>10, <2>1, <3>2, <3>3 DEF ArrayOK
  <2>2. ASSUME NEW d \in Classes
        PROVE  cache'[d].mask \in Nat /\ cache[d].mask \in Nat /\ cache'[d].mask >= cache[d].mask
    BY <1>11, CacheType
  <2> QED BY <1>4, <1>5, <1>9, <2>1, <2>2, Bystanders, SendType
<1> QED BY <1>12, <1>13, <1>15, <1>18, <1>19, <1>20 DEF IndInv, Each, CallsCurrent

(* And then the mask, from which on the cache is empty and the old array   *)
(* is garbage.                                                             *)
LEMMA ReallocateMaskStep ==
    ASSUME CacheAssumption, IndInv, NEW t \in Threads, ReallocateMask(t)
    PROVE  IndInv'
<1>1. /\ TypeOK /\ Each(t) /\ th[t].pc = "reallocated" /\ Writing(t) /\ Filling(t)
      /\ Registers(t) = th[t]
  BY Parts DEF ReallocateMask, At, Writing, Filling, Registers
<1>2. PICK c, s, imp, b, dead :
          /\ c = send[t].cls /\ s = send[t].sel /\ imp = th[t].imp
          /\ b = cache[c].buckets /\ dead = th[t].dead
  OBVIOUS
<1>3. /\ send[t] \in Sending /\ c \in Classes /\ s \in Selectors
      /\ imp \in Implementations /\ dead \subseteq Memory
  BY <1>1, <1>2, IsSending, SendType, Kinds DEF TypeOK
<1>4. /\ runtimeLock = t /\ cacheUpdateLock = t
      /\ \A u \in Threads \ {t} : th[u].pc \in Passive /\ runtimeLock # u /\ cacheUpdateLock # u
  BY <1>1, Alone
<1>5. UNCHANGED <<method, old, heap, runtimeLock, cacheUpdateLock, send>>
  BY DEF ReallocateMask, locks
<1>6. /\ imp = Current(method, c, s)
      /\ \A a \in dead : heap[a] # <<>> /\ a \notin garbage /\ \A d \in Classes : cache[d].buckets # a
  BY <1>1, <1>2 DEF Each, FillOK, At
<1>7. Reallocated(c) /\ \A d \in Classes : Reallocated(d) => d = c
  BY <1>1, <1>2, <1>4 DEF Reallocated, At, Passive
<1>8. /\ b # Empty /\ b \in Memory /\ heap[b] # <<>> /\ b \notin garbage
      /\ Used(heap[b]) = {}
      /\ (\A d \in Classes : cache[d].buckets = b => d = c)
  BY <1>2, <1>3, <1>7, CacheType DEF IndInv, CachesOK, CacheOK
<1>9. PICK n \in Nat : n = Len(heap[b]) - 2
  <2>1. Len(heap[b]) \in Nat /\ Len(heap[b]) > 2
    BY <1>8, ArrayType
  <2>2. Len(heap[b]) - 2 \in Nat
    BY <2>1
  <2> QED BY <2>2
<1>10. n >= cache[c].mask /\ cache[c].mask \in Nat /\ Len(heap[b]) = n + 2
  BY <1>2, <1>3, <1>8, <1>9, CacheType, ArrayType
<1>11. /\ cache' \in [Classes -> [buckets : Memory \cup {Empty}, mask : Nat, occupied : Nat]]
       /\ cache'[c].buckets = b /\ cache'[c].mask = n /\ cache'[c].occupied = 0
       /\ \A d \in Classes \ {c} : cache'[d] = cache[d]
  <2>1. cache' = [cache EXCEPT ![c].mask = n, ![c].occupied = 0]
    BY <1>2, <1>9 DEF ReallocateMask
  <2> QED BY <1>1, <1>2, <1>3, <2>1 DEF TypeOK
<1>12. garbage' = garbage \cup dead
  BY <1>2 DEF ReallocateMask
<1>13. \E x : /\ th' = [th EXCEPT ![t] = x] /\ x \in States
              /\ \/ x \in Inserting /\ x.imp = imp
                 \/ /\ x.pc = "collect" /\ x.checked = {}
                    /\ x.then \in Inserting /\ x.then.imp = imp
  <2> DEFINE y == [pc |-> "insertImp", imp |-> imp]
             z == [pc |-> "collect", checked |-> {}, then |-> y]
  <2>1. y \in Inserting /\ y.imp = imp
    BY <1>3 DEF Inserting
  <2>2. y \in States
    BY <2>1 DEF States
  <2>3. z \in States /\ z.pc = "collect" /\ z.checked = {} /\ z.then = y
    <3> HIDE DEF y
    <3>1. z \in [pc : {"collect"}, checked : SUBSET Threads,
                 then : {Idle} \cup Inserting \cup Flushes]
      BY <2>1
    <3> QED BY <3>1 DEF States
  <2>4. th' = [th EXCEPT ![t] = IF dead = {} THEN y ELSE z]
    BY <1>2 DEF ReallocateMask
  <2> HIDE DEF y, z
  <2>5. CASE dead = {}
    BY <2>1, <2>2, <2>4, <2>5
  <2>6. CASE dead # {}
    BY <2>1, <2>3, <2>4, <2>6
  <2> QED BY <2>5, <2>6
<1>14. PICK x \in States :
              /\ th' = [th EXCEPT ![t] = x]
              /\ \/ x \in Inserting /\ x.imp = imp
                 \/ /\ x.pc = "collect" /\ x.checked = {}
                    /\ x.then \in Inserting /\ x.then.imp = imp
  BY <1>13
<1>15. /\ th'[t] = x /\ th' \in [Threads -> States]
       /\ \A u \in Threads \ {t} : th'[u] = th[u]
  BY <1>1, <1>14, Elsewhere
<1>16. /\ Writing(t)' /\ Filling(t)' /\ Registers(t)'.imp = imp /\ At2(t, "insertImp")'
       /\ x.pc \in {"insertImp", "collect"} /\ ~ At2(t, "flush")'
       /\ x.pc = "collect" => x.checked = {}
  BY <1>14, <1>15 DEF Writing, Filling, Registers, At, At2, Inserting
<1>17. TypeOK'
  BY <1>1, <1>3, <1>5, <1>11, <1>12, <1>15 DEF TypeOK
<1>18. HeapOK'
  BY <1>5 DEF IndInv, HeapOK, IsArray
<1>19. \A d : ~ Reallocated(d)'
  BY <1>4, <1>15, <1>16 DEF Reallocated, At, Passive
<1>20. CachesOK'
  <2>1. ASSUME NEW d \in Classes \ {c}
        PROVE  CacheOK(d)'
    <3>1. CacheOK(d)
      BY DEF IndInv, CachesOK
    <3>2. ~ Reallocated(d) /\ ~ Reallocated(d)'
      BY <1>7, <1>19
    <3>3. cache[d].buckets \notin dead
      BY <1>6
    <3>4. \A e \in Classes : cache'[e].buckets = cache[e].buckets
      BY <1>2, <1>11
    <3> QED BY <1>5, <1>11, <1>12, <3>1, <3>2, <3>3, <3>4 DEF CacheOK, Used
  <2>2. CacheOK(c)'
    <3>1. b \notin dead
      BY <1>2, <1>3, <1>6
    <3>2. Cardinality(Used(heap'[b])) = 0
      BY <1>5, <1>8, FS_EmptySet
    <3>3. \A d \in Classes : cache'[d].buckets = b => d = c
      BY <1>8, <1>11
    <3> QED BY <1>5, <1>8, <1>10, <1>11, <1>12, <1>19, <3>1, <3>2, <3>3 DEF CacheOK
  <2> QED BY <1>5, <1>6, <1>12, <2>1, <2>2 DEF IndInv, CachesOK
<1>21. \A u \in Threads : ~ At2(u, "flush") /\ ~ At2(u, "flush")'
  BY <1>1, <1>4, <1>15, <1>16 DEF At, At2, Passive
<1>22. EntriesOK'
  <2>1. ASSUME NEW d \in Classes
        PROVE  cache'[d].buckets = cache[d].buckets
    BY <1>2, <1>11
  <2> QED BY <1>5, <1>21, <2>1 DEF IndInv, EntriesOK
<1>23. Each(t)'
  <2>1. LockOK(t)'
    BY <1>4, <1>5, <1>16 DEF LockOK
  <2>2. SendOK(t)'
    BY <1>1, <1>3, <1>5 DEF Each, SendOK
  <2>3. FillOK(t)'
    BY <1>2, <1>5, <1>6, <1>8, <1>11, <1>15, <1>16 DEF FillOK, At
  <2> QED BY <1>15, <1>16, <2>1, <2>2, <2>3 DEF Each, ReaderOK, At
<1>24. \A u \in Threads \ {t} : Each(u)'
  <2>1. ASSUME NEW u \in Threads \ {t}, NEW a \in Memory,
               th[u].pc \in {"key", "scan", "imp"}, th[u].buckets = a, ArrayOK(u, a)
        PROVE  ArrayOK(u, a)'
    <3>1. ASSUME NEW w \in Threads
          PROVE  ~ At(w, "reallocate")' /\ (At(w, "collect")' => th'[w].checked = {})
      BY <1>4, <1>15, <1>16 DEF At, Passive
    <3>2. \A d \in Classes : cache'[d].buckets = a => d = send[u].cls
      BY <1>2, <1>11, <2>1 DEF ArrayOK
    <3> QED BY <1>5, <1>15, <2>1, <3>1, <3>2 DEF ArrayOK
  <2>2. ASSUME NEW d \in Classes
        PROVE  cache'[d].mask \in Nat /\ cache[d].mask \in Nat /\ cache'[d].mask >= cache[d].mask
    <3>1. CASE d = c
      BY <1>10, <1>11, <3>1
    <3>2. CASE d # c
      <4>1. cache'[d] = cache[d] /\ cache[d].mask \in Nat
        BY <1>11, <3>2, CacheType
      <4> QED BY <4>1
    <3> QED BY <3>1, <3>2
  <2> QED BY <1>4, <1>5, <1>14, <2>1, <2>2, Bystanders, SendType
<1> QED BY <1>17, <1>18, <1>20, <1>22, <1>23, <1>24 DEF IndInv, Each, CallsCurrent

(* A cache that is not full has an unused bucket for a selector.           *)
LEMMA SlotFound ==
    ASSUME CacheAssumption, IndInv, NEW c \in Classes, NEW s \in Selectors,
           cache[c].buckets # Empty, ~ Reallocated(c),
           cache[c].occupied <= cache[c].mask
    PROVE  LET a == heap[cache[c].buckets] IN
           /\ Slot(c, s) \in 1 .. cache[c].mask + 1
           /\ Len(a) = cache[c].mask + 2
           /\ a[Slot(c, s)].key = 0
           /\ Cardinality(Used(a)) = cache[c].occupied
<1>1. PICK m \in Nat, n \in Nat : m = cache[c].mask /\ n = cache[c].occupied
  BY CacheType
<1>2. PICK a : a = heap[cache[c].buckets]
  OBVIOUS
<1>3. Len(a) = m + 2 /\ Cardinality(Used(a)) = n /\ n <= m
  BY <1>1, <1>2 DEF IndInv, CachesOK, CacheOK
<1>4. PICK h : h = Hash(s, m)
  OBVIOUS
<1>5. h \in 0 .. m
  BY <1>1, <1>4, Constants DEF Hash
<1>6. PICK free : free = {i \in 0 .. m : a[((h + i) % (m + 1)) + 1].key = 0}
  OBVIOUS
<1>7. PICK first : first = CHOOSE i \in free : \A j \in free : i <= j
  OBVIOUS
<1>8. Slot(c, s) = ((h + first) % (m + 1)) + 1
  BY <1>1, <1>2, <1>4, <1>6, <1>7 DEF Slot
<1>9. PICK p \in 1 .. m + 1 : a[p].key = 0
  <2>1. SUFFICES ASSUME \A p \in 1 .. m + 1 : a[p].key # 0
                 PROVE  FALSE
    OBVIOUS
  <2>2. Used(a) = 1 .. m + 1
    BY <1>3, <2>1 DEF Used
  <2>3. Cardinality(1 .. m + 1) = m + 1
    BY FS_Interval
  <2> QED BY <1>3, <2>2, <2>3
<1>10. free \in SUBSET Nat /\ free # {}
  <2>1. PICK z \in Nat \ {0} : z = m + 1
    OBVIOUS
  <2>2. h \in 0 .. z - 1 /\ p \in 1 .. z /\ 0 .. z - 1 = 0 .. m
    BY <1>5, <2>1
  <2>3. PICK i \in 0 .. z - 1 : ((h + i) % z) + 1 = p
    BY <2>2, Round
  <2>4. a[((h + i) % (m + 1)) + 1].key = 0
    BY <1>9, <2>1, <2>3
  <2>5. i \in free
    BY <1>6, <2>2, <2>4
  <2>6. \A j \in free : j \in Nat
    BY <1>6
  <2> QED BY <2>5, <2>6
<1>11. first \in free
  BY <1>7, <1>10, Chosen
<1>12. first \in 0 .. m /\ a[Slot(c, s)].key = 0
  BY <1>6, <1>8, <1>11
<1>13. Slot(c, s) \in 1 .. m + 1
  BY <1>5, <1>8, <1>12
<1> QED BY <1>1, <1>2, <1>3, <1>12, <1>13

(* A store to an unused bucket.                                            *)
Store(a, k, f, n) == /\ k \in 1 .. Len(a) - 1 /\ a[k].key = 0
                     /\ n = [a EXCEPT ![k] = f]

LEMMA Stored ==
    ASSUME CacheAssumption, NEW a, a \in Seq(Buckets), IsArray(a), NEW f, f \in Buckets,
           \E s \in Selectors : f.key \in {0, Key[s]}, NEW k, NEW n, Store(a, k, f, n)
    PROVE  /\ n \in Seq(Buckets) /\ n # <<>> /\ Len(n) = Len(a) /\ IsArray(n)
           /\ DOMAIN n = 1 .. Len(a)
           /\ n[k] = f /\ \A i \in 1 .. Len(a) : i # k => n[i] = a[i]
           /\ f.key = 0 => Used(n) = Used(a)
           /\ f.key # 0 => Used(n) = Used(a) \cup {k}
           /\ k \notin Used(a) /\ IsFiniteSet(Used(a))
<1>1. PICK l \in Nat : l = Len(a) /\ l > 2 /\ DOMAIN a = 1 .. l
  BY DEF IsArray
<1>2. n = [a EXCEPT ![k] = f] /\ a[k].key = 0
  BY DEF Store
<1>3. k \in 1 .. l - 1 /\ k \in 1 .. l
  BY <1>1 DEF Store
<1>4. /\ n \in Seq(Buckets) /\ Len(n) = l /\ DOMAIN n = 1 .. l
      /\ n[k] = f /\ \A i \in 1 .. l : i # k => n[i] = a[i]
  BY <1>1, <1>2, <1>3
<1>5. IsArray(n)
  <2>1. n[l].key = 1
    <3>1. l # k /\ l \in 1 .. l
      BY <1>1, <1>3
    <3> QED BY <1>1, <1>4, <3>1 DEF IsArray
  <2>2. ASSUME NEW i \in 1 .. l - 1
        PROVE  n[i].key = 0 \/ \E r \in Selectors : n[i].key = Key[r]
    <3>1. CASE i = k
      BY <1>4, <3>1
    <3>2. CASE i # k
      BY <1>1, <1>4, <3>2 DEF IsArray
    <3> QED BY <3>1, <3>2
  <2> QED BY <1>1, <1>4, <2>1, <2>2 DEF IsArray
<1>6. f.key = 0 => Used(n) = Used(a)
  BY <1>1, <1>2, <1>3, <1>4 DEF Used
<1>7. f.key # 0 => Used(n) = Used(a) \cup {k}
  BY <1>1, <1>2, <1>3, <1>4 DEF Used
<1>8. k \notin Used(a)
  BY <1>2 DEF Used
<1>9. IsFiniteSet(Used(a))
  <2>1. IsFiniteSet(1 .. l - 1)
    BY FS_Interval
  <2>2. Used(a) \in SUBSET (1 .. l - 1)
    BY <1>1 DEF Used
  <2> QED BY <2>1, <2>2, FS_Subset
<1>10. n # <<>>
  BY <1>1, <1>4
<1> QED BY <1>1, <1>4, <1>5, <1>6, <1>7, <1>8, <1>9, <1>10

(* What both stores of a fill have in common.                              *)
AfterStore(t, f) ==
    LET c == send[t].cls
        b == cache[c].buckets
    IN  /\ heap' \in [Memory -> Seq(Buckets)] /\ HeapOK' /\ EntriesOK'
        /\ \A d : ~ Reallocated(d) /\ ~ Reallocated(d)'
        /\ \A a \in Memory : /\ a # b => heap'[a] = heap[a]
                             /\ heap'[a] = <<>> <=> heap[a] = <<>>
                             /\ Len(heap'[a]) = Len(heap[a])
        /\ c \in Classes /\ b \in Memory
        /\ Cardinality(Used(heap'[b])) =
               IF f.key = 0 THEN Cardinality(Used(heap[b])) ELSE Cardinality(Used(heap[b])) + 1
        /\ \A u \in Threads \ {t} : Each(u)'

LEMMA Insertion ==
    ASSUME CacheAssumption, IndInv, NEW t \in Threads, th[t].pc \in {"insertImp", "insertKey"},
           NEW x \in States, th' = [th EXCEPT ![t] = x], x.pc \in {"insertKey", "called"},
           NEW f \in Buckets, Inserted(t, f),
           f.imp = th[t].imp, f.key \in {0, Key[send[t].sel]},
           UNCHANGED <<method, old, garbage, send>>,
           runtimeLock' \in {t, NoThread}, cacheUpdateLock' \in {t, NoThread},
           \A d \in Classes : cache'[d].buckets = cache[d].buckets /\ cache'[d].mask = cache[d].mask
    PROVE  AfterStore(t, f)
<1>1. TypeOK /\ Each(t) /\ Writing(t) /\ Filling(t) /\ Registers(t) = th[t] /\ NoThread \notin Threads
  BY Parts, Constants DEF At, At2, Writing, Filling, Registers
<1>2. PICK c, s, imp, b, m :
          /\ c = send[t].cls /\ s = send[t].sel /\ imp = th[t].imp
          /\ b = cache[c].buckets /\ m = cache[c].mask
  OBVIOUS
<1>3. /\ send[t] \in Sending /\ c \in Classes /\ s \in Selectors /\ b \in Memory \cup {Empty}
      /\ m \in Nat
  BY <1>1, <1>2, IsSending, SendType, CacheType
<1>4. \A u \in Threads \ {t} :
          th[u].pc \in Passive /\ runtimeLock' # u /\ cacheUpdateLock' # u
  BY <1>1, Alone
<1>5. /\ imp = Current(method, c, s)
      /\ b # Empty /\ b \in Memory /\ cache[c].occupied <= m
  BY <1>1, <1>2, <1>3 DEF Each, FillOK, At, At2
<1>6. /\ th'[t] = x
      /\ \A u \in Threads \ {t} : th'[u] = th[u]
  BY <1>1, Elsewhere
<1>7. \A d : ~ Reallocated(d) /\ ~ Reallocated(d)'
  BY <1>4, <1>6 DEF Reallocated, At, Passive
<1>8. PICK k : k = Slot(c, s)
  OBVIOUS
<1>9. /\ k \in 1 .. m + 1 /\ Len(heap[b]) = m + 2 /\ heap[b][k].key = 0
  BY <1>2, <1>3, <1>5, <1>7, <1>8, SlotFound
<1>10. heap[b] \in Seq(Buckets) /\ IsArray(heap[b]) /\ k \in 1 .. Len(heap[b]) - 1
       /\ heap[b] # <<>> /\ DOMAIN heap[b] = 1 .. m + 2
  <2>1. heap[b] # <<>>
    BY <1>2, <1>3, <1>5, CacheType
  <2>2. heap[b] \in Seq(Buckets) /\ IsArray(heap[b])
    BY <1>5, <2>1 DEF IndInv, TypeOK, HeapOK
  <2>3. k \in 1 .. Len(heap[b]) - 1
    BY <1>3, <1>9
  <2>4. DOMAIN heap[b] = 1 .. Len(heap[b])
    BY <2>2
  <2> QED BY <1>9, <2>1, <2>2, <2>3, <2>4
<1>11. PICK n : n = [heap[b] EXCEPT ![k] = f]
  OBVIOUS
<1>12. /\ n \in Seq(Buckets) /\ n # <<>> /\ Len(n) = m + 2 /\ IsArray(n)
       /\ DOMAIN n = 1 .. m + 2
       /\ n[k] = f /\ \A i \in 1 .. m + 2 : i # k => n[i] = heap[b][i]
       /\ f.key = 0 => Used(n) = Used(heap[b])
       /\ f.key # 0 => Used(n) = Used(heap[b]) \cup {k}
       /\ k \notin Used(heap[b]) /\ IsFiniteSet(Used(heap[b]))
  <2>1. PICK a : a = heap[b]
    OBVIOUS
  <2>2. /\ a \in Seq(Buckets) /\ IsArray(a) /\ Store(a, k, f, n) /\ Len(a) = m + 2
        /\ \E r \in Selectors : f.key \in {0, Key[r]}
    BY <1>2, <1>3, <1>9, <1>10, <1>11, <2>1 DEF Store
  <2>3. /\ n \in Seq(Buckets) /\ n # <<>> /\ Len(n) = Len(a) /\ IsArray(n)
        /\ DOMAIN n = 1 .. Len(a)
        /\ n[k] = f /\ \A i \in 1 .. Len(a) : i # k => n[i] = a[i]
        /\ f.key = 0 => Used(n) = Used(a)
        /\ f.key # 0 => Used(n) = Used(a) \cup {k}
        /\ k \notin Used(a) /\ IsFiniteSet(Used(a))
    BY <2>2, Stored
  <2> QED BY <2>1, <2>2, <2>3
<1>13. heap' = [heap EXCEPT ![b] = n]
  BY <1>2, <1>8, <1>11 DEF Inserted
<1>14. /\ heap' \in [Memory -> Seq(Buckets)] /\ heap'[b] = n
       /\ \A a \in Memory : a # b => heap'[a] = heap[a]
  BY <1>1, <1>5, <1>12, <1>13 DEF TypeOK
<1>15. HeapOK'
  <2>1. ASSUME NEW a \in Memory
        PROVE  heap'[a] = <<>> \/ IsArray(heap'[a])
    <3>1. CASE a = b
      BY <1>12, <1>14, <3>1
    <3>2. CASE a # b
      BY <1>14, <3>2 DEF IndInv, HeapOK
    <3> QED BY <3>1, <3>2
  <2> QED BY <2>1 DEF HeapOK, IsArray
<1>16. \A u \in Threads : ~ At2(u, "flush") /\ ~ At2(u, "flush")'
  BY <1>4, <1>6 DEF At, At2, Passive
<1>17. EntriesOK'
  <2>1. ASSUME NEW d \in Classes, cache[d].buckets # Empty,
               NEW i \in DOMAIN heap'[cache[d].buckets], NEW r \in Selectors,
               heap'[cache[d].buckets][i].key = Key[r]
        PROVE  heap'[cache[d].buckets][i].imp = Current(method, d, r)
    <3>1. CASE d # c
      <4>1. cache[d].buckets # b /\ cache[d].buckets \in Memory
        BY <1>2, <1>3, <1>5, <2>1, <3>1, CacheType
      <4>2. heap'[cache[d].buckets] = heap[cache[d].buckets]
        BY <1>14, <4>1
      <4> QED BY <1>16, <2>1, <4>2 DEF IndInv, EntriesOK
    <3>2. CASE d = c /\ i # k
      <4>1. i \in DOMAIN heap[b] /\ heap[b][i] = n[i] /\ heap'[cache[d].buckets][i] = n[i]
        <5>1. i \in 1 .. m + 2
          BY <1>2, <1>12, <1>14, <2>1, <3>2
        <5> QED BY <1>2, <1>10, <1>12, <1>14, <3>2, <5>1
      <4> QED BY <1>2, <1>5, <1>16, <2>1, <3>2, <4>1 DEF IndInv, EntriesOK
    <3>3. CASE d = c /\ i = k
      <4>1. heap'[cache[d].buckets][i] = f
        BY <1>2, <1>12, <1>14, <3>3
      <4>2. r = s
        BY <1>2, <1>3, <2>1, <4>1, Constants
      <4> QED BY <1>2, <1>5, <3>3, <4>1, <4>2
    <3> QED BY <3>1, <3>2, <3>3
  <2>2. old = method
    BY <1>16 DEF IndInv, EntriesOK
  <2> QED BY <2>1, <2>2 DEF EntriesOK
<1>18. Cardinality(Used(n)) =
          IF f.key = 0 THEN Cardinality(Used(heap[b])) ELSE Cardinality(Used(heap[b])) + 1
  BY <1>12, FS_AddElement
<1>19. \A u \in Threads \ {t} : Each(u)'
  <2>1. ASSUME NEW u \in Threads \ {t}, NEW a \in Memory,
               th[u].pc \in {"key", "scan", "imp"}, th[u].buckets = a, ArrayOK(u, a),
               send[u] \in Sending
        PROVE  /\ ArrayOK(u, a)'
               /\ heap[a][th[u].index].key = Key[send[u].sel] =>
                      heap'[a][th[u].index].key = Key[send[u].sel]
    <3>1. \A w \in Threads : ~ At(w, "reallocate")' /\ ~ At(w, "collect")'
      BY <1>4, <1>6 DEF At, Passive
    <3>2. \A d \in Classes : cache'[d].buckets = a => d = send[u].cls
      BY <2>1 DEF ArrayOK
    <3>3. CASE a # b
      <4>1. heap'[a] = heap[a]
        BY <1>14, <3>3
      <4> QED BY <1>6, <2>1, <3>1, <3>2, <4>1 DEF ArrayOK
    <3>4. CASE a = b
      <4>1. send[u].cls = c /\ send[u].sel \in Selectors
            /\ Current(method, c, send[u].sel) \in send[u].recent
        BY <1>2, <1>3, <2>1, <3>4, IsSending, SendType DEF ArrayOK
      <4>2. ASSUME NEW i \in DOMAIN heap'[a], heap'[a][i].key = Key[send[u].sel]
            PROVE  heap'[a][i].imp \in send[u].recent
        <5>1. CASE i = k
          <6>1. heap'[a][i] = f
            BY <1>12, <1>14, <3>4, <5>1
          <6>2. send[u].sel = s
            BY <1>2, <1>3, <4>1, <4>2, <6>1, Constants
          <6> QED BY <1>2, <1>5, <4>1, <6>1, <6>2
        <5>2. CASE i # k
          <6>1. i \in 1 .. m + 2
            BY <1>12, <1>14, <3>4, <4>2
          <6>2. i \in DOMAIN heap[b] /\ heap'[a][i] = heap[a][i]
            BY <1>10, <1>12, <1>14, <3>4, <5>2, <6>1
          <6> QED BY <2>1, <3>4, <4>2, <6>2 DEF ArrayOK
        <5> QED BY <5>1, <5>2
      <4>3. Len(heap'[a]) = Len(heap[a]) /\ heap'[a] # <<>>
        BY <1>9, <1>12, <1>14, <3>4
      <4>4. ArrayOK(u, a)'
        BY <1>6, <2>1, <3>1, <3>2, <4>2, <4>3 DEF ArrayOK
      <4>5. ASSUME heap[a][th[u].index].key = Key[send[u].sel]
            PROVE  heap'[a][th[u].index].key = Key[send[u].sel]
        <5>1. th[u].index \in 1 .. m + 2
          BY <1>9, <2>1, <3>4 DEF ArrayOK
        <5>2. th[u].index # k
          BY <1>9, <3>4, <4>1, <4>5, Constants
        <5> QED BY <1>12, <1>14, <3>4, <4>5, <5>1, <5>2
      <4> QED BY <4>4, <4>5
    <3> QED BY <3>3, <3>4
  <2>2. ASSUME NEW d \in Classes
        PROVE  cache'[d].mask \in Nat /\ cache[d].mask \in Nat /\ cache'[d].mask >= cache[d].mask
    BY CacheType
  <2> QED BY <1>4, <2>1, <2>2, Bystanders, SendType
<1>20. ASSUME NEW a \in Memory
       PROVE  /\ a # b => heap'[a] = heap[a]
              /\ heap'[a] = <<>> <=> heap[a] = <<>>
              /\ Len(heap'[a]) = Len(heap[a])
  BY <1>9, <1>10, <1>12, <1>14
<1> QED BY <1>2, <1>3, <1>5, <1>7, <1>14, <1>15, <1>17, <1>18, <1>19, <1>20 DEF AfterStore
(* bucket_t::set(): the implementation first.                              *)
LEMMA InsertImpStep ==
    ASSUME CacheAssumption, IndInv, NEW t \in Threads, InsertImp(t)
    PROVE  IndInv'
<1>1. TypeOK /\ Each(t) /\ th[t].pc = "insertImp" /\ th[t] \in Inserting
  BY Parts, Kinds DEF InsertImp, At, TypeOK
<1>2. PICK c, s, imp, b, f :
          /\ c = send[t].cls /\ s = send[t].sel /\ imp = th[t].imp
          /\ b = cache[c].buckets /\ f = Bucket(0, imp)
  OBVIOUS
<1>3. f \in Buckets /\ f.imp = imp /\ f.key = 0 /\ imp \in Implementations
  BY <1>1, <1>2 DEF Inserting, Bucket, Buckets
<1> DEFINE x == [th[t] EXCEPT !.pc = "insertKey"]
<1>4. x \in States /\ x.pc = "insertKey" /\ x.imp = imp /\ th' = [th EXCEPT ![t] = x]
  BY <1>1, <1>2 DEF InsertImp, Goto, States, Inserting
<1> HIDE DEF x
<1>5. UNCHANGED <<method, old, cache, garbage, runtimeLock, cacheUpdateLock, send>>
  BY DEF InsertImp, locks
<1>6. runtimeLock = t /\ cacheUpdateLock = t /\ send[t] \in Sending
  BY <1>1, Alone, IsSending DEF Writing, At, At2
<1>7. Inserted(t, f)
  BY <1>2 DEF InsertImp
<1>8. /\ heap' \in [Memory -> Seq(Buckets)] /\ HeapOK' /\ EntriesOK'
      /\ \A d : ~ Reallocated(d) /\ ~ Reallocated(d)'
      /\ \A a \in Memory : /\ a # b => heap'[a] = heap[a]
                           /\ heap'[a] = <<>> <=> heap[a] = <<>>
                           /\ Len(heap'[a]) = Len(heap[a])
      /\ c \in Classes /\ b \in Memory
      /\ Cardinality(Used(heap'[b])) = Cardinality(Used(heap[b]))
      /\ \A u \in Threads \ {t} : Each(u)'
  <2>1. AfterStore(t, f)
    BY <1>1, <1>2, <1>3, <1>4, <1>5, <1>6, <1>7, Insertion
  <2> QED BY <1>2, <1>3, <2>1 DEF AfterStore
<1>9. th'[t] = x /\ th' \in [Threads -> States]
  BY <1>1, <1>4, Elsewhere
<1>10. TypeOK'
  BY <1>1, <1>5, <1>8, <1>9 DEF TypeOK
<1>11. CachesOK'
  <2>1. ASSUME NEW d \in Classes
        PROVE  CacheOK(d)'
    <3>1. CacheOK(d) /\ ~ Reallocated(d) /\ ~ Reallocated(d)'
      BY <1>8 DEF IndInv, CachesOK
    <3>2. CASE cache[d].buckets = Empty
      BY <1>5, <3>1, <3>2 DEF CacheOK
    <3>3. CASE cache[d].buckets # Empty
      <4>1. PICK e \in Memory : e = cache[d].buckets
        BY <3>3, CacheType
      <4>2. /\ heap'[e] = <<>> <=> heap[e] = <<>>
            /\ Len(heap'[e]) = Len(heap[e])
            /\ Cardinality(Used(heap'[e])) = Cardinality(Used(heap[e]))
        BY <1>8
      <4> QED BY <1>5, <3>1, <3>3, <4>1, <4>2 DEF CacheOK
    <3> QED BY <3>2, <3>3
  <2>2. \A a \in garbage : heap'[a] # <<>>
    BY <1>1, <1>8 DEF IndInv, CachesOK, TypeOK
  <2> QED BY <1>5, <2>1, <2>2 DEF CachesOK
<1>12. Each(t)'
  <2>1. /\ Writing(t)' /\ Filling(t)' /\ Registers(t)' = x
    BY <1>4, <1>9 DEF Writing, Filling, Registers, At
  <2>2. LockOK(t)'
    BY <1>5, <1>6, <2>1 DEF LockOK
  <2>3. SendOK(t)'
    BY <1>1, <1>5, <1>6 DEF Each, SendOK
  <2>4. /\ imp = Current(method, c, s)
        /\ cache[c].buckets # Empty /\ cache[c].occupied <= cache[c].mask
    BY <1>1, <1>2 DEF Each, FillOK, Filling, Registers, At, At2
  <2>5. FillOK(t)'
    BY <1>2, <1>4, <1>5, <1>9, <2>1, <2>4 DEF FillOK, At
  <2> QED BY <1>4, <1>9, <2>2, <2>3, <2>5 DEF Each, ReaderOK, At
<1> QED BY <1>8, <1>10, <1>11, <1>12 DEF IndInv, Each, CallsCurrent

(* And then the key, which publishes the entry.                            *)
LEMMA InsertKeyStep ==
    ASSUME CacheAssumption, IndInv, NEW t \in Threads, InsertKey(t)
    PROVE  IndInv'
<1>1. TypeOK /\ Each(t) /\ th[t].pc = "insertKey" /\ NoThread \notin Threads
  BY Parts, Constants DEF InsertKey, At
<1>2. PICK c, s, imp, b, f :
          /\ c = send[t].cls /\ s = send[t].sel /\ imp = th[t].imp
          /\ b = cache[c].buckets /\ f = Bucket(Key[s], imp)
  OBVIOUS
<1>3. /\ send[t] \in Sending /\ c \in Classes /\ s \in Selectors
      /\ Current(method, c, s) \in send[t].recent
  BY <1>1, <1>2, IsSending, SendType
<1>4. f \in Buckets /\ f.imp = imp /\ f.key = Key[s] /\ f.key # 0 /\ imp \in Implementations
  <2>1. imp \in Implementations /\ Key[s] \in Nat /\ Key[s] > 1
    BY <1>1, <1>2, <1>3, Kinds, Constants DEF TypeOK
  <2> QED BY <1>2, <2>1 DEF Bucket, Buckets
<1> DEFINE x == [pc |-> "called", imp |-> imp]
<1>5. x \in States /\ x.pc = "called" /\ x.imp = imp /\ th' = [th EXCEPT ![t] = x]
  BY <1>2, <1>4 DEF InsertKey, Called, States
<1> HIDE DEF x
<1>6. UNCHANGED <<method, old, garbage, send>> /\ runtimeLock' = NoThread /\ cacheUpdateLock' = NoThread
  BY DEF InsertKey
<1>7. /\ imp = Current(method, c, s)
      /\ cache[c].buckets # Empty /\ cache[c].occupied <= cache[c].mask
  BY <1>1, <1>2 DEF Each, FillOK, Filling, Registers, At, At2
<1>8. Inserted(t, f)
  BY <1>2 DEF InsertKey
<1>9. /\ cache' \in [Classes -> [buckets : Memory \cup {Empty}, mask : Nat, occupied : Nat]]
      /\ cache'[c].occupied = cache[c].occupied + 1
      /\ \A d \in Classes : /\ cache'[d].buckets = cache[d].buckets /\ cache'[d].mask = cache[d].mask
                            /\ d # c => cache'[d].occupied = cache[d].occupied
  <2>1. cache' = [cache EXCEPT ![c].occupied = cache[c].occupied + 1]
    BY <1>2 DEF InsertKey
  <2> QED BY <1>1, <1>3, <2>1 DEF TypeOK
<1>10. /\ heap' \in [Memory -> Seq(Buckets)] /\ HeapOK' /\ EntriesOK'
       /\ \A d : ~ Reallocated(d) /\ ~ Reallocated(d)'
       /\ \A a \in Memory : /\ a # b => heap'[a] = heap[a]
                            /\ heap'[a] = <<>> <=> heap[a] = <<>>
                            /\ Len(heap'[a]) = Len(heap[a])
       /\ b \in Memory
       /\ Cardinality(Used(heap'[b])) = Cardinality(Used(heap[b])) + 1
       /\ \A u \in Threads \ {t} : Each(u)'
  <2>1. AfterStore(t, f)
    BY <1>1, <1>2, <1>4, <1>5, <1>6, <1>8, <1>9, Insertion
  <2> QED BY <1>2, <1>4, <2>1 DEF AfterStore
<1>11. th'[t] = x /\ th' \in [Threads -> States]
  BY <1>1, <1>5, Elsewhere
<1>12. TypeOK'
  BY <1>1, <1>6, <1>9, <1>10, <1>11 DEF TypeOK
<1>13. CachesOK'
  <2>1. ASSUME NEW d \in Classes
        PROVE  CacheOK(d)'
    <3>1. CacheOK(d) /\ ~ Reallocated(d) /\ ~ Reallocated(d)'
      BY <1>10 DEF IndInv, CachesOK
    <3>2. CASE cache[d].buckets = Empty
      <4>1. d # c
        BY <1>7, <3>2
      <4> QED BY <1>9, <3>1, <3>2, <4>1 DEF CacheOK
    <3>3. CASE cache[d].buckets # Empty
      <4>1. PICK e \in Memory : e = cache[d].buckets
        BY <3>3, CacheType
      <4>2. /\ heap'[e] = <<>> <=> heap[e] = <<>>
            /\ Len(heap'[e]) = Len(heap[e])
        BY <1>10
      <4>3. Cardinality(Used(heap'[e])) = cache'[d].occupied
        <5>1. Cardinality(Used(heap[e])) = cache[d].occupied
          BY <3>1, <3>3, <4>1 DEF CacheOK
        <5>2. CASE d = c
          BY <1>2, <1>9, <1>10, <4>1, <5>1, <5>2
        <5>3. CASE d # c
          <6>1. e # b
            BY <1>2, <1>3, <1>7, <4>1, <5>3, CacheType
          <6> QED BY <1>9, <1>10, <5>1, <5>3, <6>1
        <5> QED BY <5>2, <5>3
      <4> QED BY <1>6, <1>9, <3>1, <3>3, <4>1, <4>2, <4>3 DEF CacheOK
    <3> QED BY <3>2, <3>3
  <2>2. \A a \in garbage : heap'[a] # <<>>
    BY <1>1, <1>10 DEF IndInv, CachesOK, TypeOK
  <2> QED BY <1>6, <2>1, <2>2 DEF CachesOK
<1>14. Each(t)'
  <2>1. /\ ~ Writing(t)' /\ ~ Filling(t)' /\ ~ At2(t, "insertImp")' /\ ~ At2(t, "flush")'
    BY <1>5, <1>11 DEF Writing, Filling, At, At2
  <2>2. LockOK(t)'
    BY <1>1, <1>5, <1>6, <1>11, <2>1 DEF LockOK, At
  <2>3. SendOK(t)'
    BY <1>1, <1>3, <1>6 DEF Each, SendOK
  <2>4. (At(t, "called") => th[t].imp \in send[t].recent)'
    BY <1>3, <1>5, <1>6, <1>7, <1>11
  <2> QED BY <1>5, <1>11, <2>1, <2>2, <2>3, <2>4 DEF Each, FillOK, ReaderOK, At
<1> QED BY <1>10, <1>12, <1>13, <1>14 DEF IndInv, Each, CallsCurrent
-----------------------------------------------------------------------------
(* The garbage.                                                            *)

(* A collection that goes on, or that is given up by a fill or a flush.    *)
LEMMA Resumes ==
    ASSUME CacheAssumption, IndInv, NEW t \in Threads, th[t].pc = "collect",
           NEW x \in States, th' = [th EXCEPT ![t] = x],
           UNCHANGED <<method, old, cache, heap, garbage, runtimeLock, cacheUpdateLock, send>>,
           \/ x.pc = "collect" /\ x.then = th[t].then
           \/ x = th[t].then /\ x # Idle,
           x.pc = "collect" => \A u \in x.checked \ {t} : \A b \in garbage :
               ~ (th[u].pc \in {"key", "scan", "imp"} /\ th[u].buckets = b)
    PROVE  IndInv'
<1>1. TypeOK /\ Each(t)
  BY Parts
<1>2. th[t].then \in {Idle} \cup Inserting \cup Flushes
  BY <1>1, Kinds DEF TypeOK
<1>3. th'[t] = x
  BY <1>1, Elsewhere
<1>4. /\ At2(t, "insertImp")' <=> At2(t, "insertImp")
      /\ At2(t, "flush")' <=> At2(t, "flush")
      /\ Registers(t)' = Registers(t)
      /\ x.pc \in {"collect", "insertImp", "flush"}
      /\ x.pc # "collect" => Writing(t)
  BY <1>2, <1>3 DEF At2, At, Registers, Writing, Inserting, Flushes, Idle
<1>5. /\ Writing(t)' <=> Writing(t)
      /\ Filling(t)' <=> Filling(t)
  BY <1>3, <1>4 DEF Writing, Filling
<1>6. LockOK(t)'
  <2>1. /\ runtimeLock = t <=> Writing(t)
        /\ cacheUpdateLock = t
    BY <1>1 DEF Each, LockOK, At
  <2>2. /\ runtimeLock' = t <=> Writing(t)'
        /\ cacheUpdateLock' = t /\ (x.pc = "collect" \/ Writing(t)')
    BY <1>4, <1>5, <2>1
  <2> QED BY <1>3, <1>4, <2>2 DEF LockOK, At
<1>7. SendOK(t)'
  BY <1>1, <1>3, <1>4 DEF Each, SendOK, At, At2
<1>8. FillOK(t)'
  BY <1>1, <1>3, <1>4, <1>5 DEF Each, FillOK, At
<1>9. Each(t)'
  BY <1>3, <1>4, <1>6, <1>7, <1>8 DEF Each, ReaderOK, At
<1>10. ~ At(t, "reallocated") /\ x.pc \notin {"reallocate", "reallocated"}
  BY <1>4 DEF At
<1> QED BY <1>1, <1>4, <1>9, <1>10, Quiet DEF TypeOK

LEMMA CollectingStep ==
    ASSUME CacheAssumption, IndInv, NEW t \in Threads, NEW u \in Threads,
           _collecting_in_critical(t, u)
    PROVE  IndInv'
<1>1. TypeOK /\ th[t].pc = "collect" /\ u # t
  BY Parts DEF _collecting_in_critical, At
<1>2. th[t] \in [pc : {"collect"}, checked : SUBSET Threads,
                 then : {Idle} \cup Inserting \cup Flushes]
  BY <1>1, Kinds DEF TypeOK
<1>3. UNCHANGED <<method, old, cache, heap, garbage, runtimeLock, cacheUpdateLock, send>>
  BY DEF _collecting_in_critical, caches, locks
<1>4. CASE ~ InCritical(u)
  <2> DEFINE x == [th[t] EXCEPT !.checked = th[t].checked \cup {u}]
  <2>1. x \in [pc : {"collect"}, checked : SUBSET Threads,
               then : {Idle} \cup Inserting \cup Flushes]
        /\ x.pc = "collect" /\ x.checked = th[t].checked \cup {u} /\ x.then = th[t].then
    BY <1>2
  <2>2. x \in States
    BY <2>1 DEF States
  <2>3. th' = [th EXCEPT ![t] = x]
    BY <1>4 DEF _collecting_in_critical
  <2> HIDE DEF x
  <2>4. ASSUME NEW w \in x.checked \ {t}, NEW b \in garbage,
               th[w].pc \in {"key", "scan", "imp"}, th[w].buckets = b
        PROVE  FALSE
    <3>1. w \in th[t].checked /\ w \in Threads
      BY <1>2, <1>4, <2>1, <2>4 DEF InCritical
    <3>2. b # Empty
      BY <1>1, Constants DEF TypeOK
    <3>3. ArrayOK(w, b)
      BY <2>4, <3>1, <3>2 DEF IndInv, ReaderOK
    <3> QED BY <1>1, <3>1, <3>3 DEF ArrayOK, At
  <2> QED BY <1>1, <1>3, <2>1, <2>2, <2>3, <2>4, Resumes
<1>5. CASE InCritical(u) /\ Insists(t)
  <2> DEFINE x == [th[t] EXCEPT !.checked = {}]
  <2>1. x \in [pc : {"collect"}, checked : SUBSET Threads,
               then : {Idle} \cup Inserting \cup Flushes]
        /\ x.pc = "collect" /\ x.checked = {} /\ x.then = th[t].then
    BY <1>2
  <2>2. x \in States
    BY <2>1 DEF States
  <2>3. th' = [th EXCEPT ![t] = x]
    BY <1>5 DEF _collecting_in_critical
  <2> HIDE DEF x
  <2> QED BY <1>1, <1>3, <2>1, <2>2, <2>3, Resumes
<1>6. CASE InCritical(u) /\ ~ Insists(t)
  <2>1. PICK x : x = th[t].then
    OBVIOUS
  <2>2. x # Idle /\ th' = [th EXCEPT ![t] = x]
    BY <1>6, <2>1 DEF _collecting_in_critical, Insists
  <2>3. x \in States /\ x.pc # "collect"
    BY <1>2, <2>1, <2>2 DEF States, Inserting, Flushes
  <2> QED BY <1>1, <1>3, <2>1, <2>2, <2>3, Resumes
<1> QED BY <1>4, <1>5, <1>6

LEMMA CollectALotStep ==
    ASSUME CacheAssumption, IndInv, NEW t \in Threads, CollectALot(t)
    PROVE  IndInv'
<1>1. TypeOK /\ Each(t) /\ th[t].pc = "collectALot" /\ NoThread \notin Threads
      /\ cacheUpdateLock = NoThread /\ cacheUpdateLock' = t
  BY Parts, Constants DEF CollectALot, At
<1> DEFINE x == [pc |-> "collect", checked |-> {}, then |-> Idle]
<1>2. x \in [pc : {"collect"}, checked : SUBSET Threads,
             then : {Idle} \cup Inserting \cup Flushes]
      /\ x.pc = "collect" /\ x.checked = {} /\ x.then = Idle
  OBVIOUS
<1>3. x \in States /\ th' = [th EXCEPT ![t] = x]
  BY <1>2 DEF States, CollectALot
<1> HIDE DEF x
<1>4. UNCHANGED <<method, old, cache, heap, garbage, runtimeLock, send>>
  BY DEF CollectALot, caches
<1>5. th'[t] = x
  BY <1>1, <1>3, Elsewhere
<1>6. /\ ~ Writing(t)' /\ ~ Filling(t)' /\ ~ At2(t, "insertImp")' /\ ~ At2(t, "flush")'
      /\ ~ At2(t, "flush") /\ ~ At(t, "reallocated")
  BY <1>1, <1>2, <1>5 DEF Writing, Filling, At, At2, Idle
<1>7. Each(t)'
  <2>1. runtimeLock # t
    BY <1>1, NoLocks DEF Passive
  <2>2. LockOK(t)'
    BY <1>1, <1>2, <1>4, <1>5, <1>6, <2>1 DEF LockOK, At
  <2>3. SendOK(t)'
    BY <1>1, <1>2, <1>4, <1>5, <1>6 DEF Each, SendOK
  <2> QED BY <1>2, <1>5, <1>6, <2>2, <2>3 DEF Each, FillOK, ReaderOK, At
<1>8. /\ cacheUpdateLock' \in Threads \cup {NoThread}
      /\ \A u \in Threads \ {t} : cacheUpdateLock' = u <=> cacheUpdateLock = u
      /\ x.pc \notin {"reallocate", "reallocated"}
      /\ \A u \in x.checked \ {t} : FALSE
  BY <1>1, <1>2
<1> QED BY <1>1, <1>3, <1>4, <1>6, <1>7, <1>8, Quiet DEF TypeOK

(* What is freed is nobody's: every other thread was found outside of a    *)
(* scan, and a scan that began since has an array that is not garbage.     *)
LEMMA cache_collectStep ==
    ASSUME CacheAssumption, IndInv, NEW t \in Threads, cache_collect(t)
    PROVE  IndInv'
<1>1. TypeOK /\ Each(t) /\ th[t].pc = "collect" /\ NoThread \notin Threads
  BY Parts, Constants DEF cache_collect, At
<1>2. PICK x : x = th[t].then
  OBVIOUS
<1>3. /\ x \in {Idle} \cup Inserting \cup Flushes /\ th' = [th EXCEPT ![t] = x]
  BY <1>1, <1>2, Kinds DEF TypeOK, cache_collect
<1>4. x \in States /\ x.pc \in {"idle", "insertImp", "flush"} /\ (x.pc = "idle" <=> x = Idle)
  BY <1>3 DEF States, Inserting, Flushes, Idle
<1>5. UNCHANGED <<method, old, cache, runtimeLock, send>>
  BY DEF cache_collect
<1>6. CASE ~ Full(t)
  <2>1. x # Idle /\ UNCHANGED <<heap, garbage, cacheUpdateLock>>
    BY <1>2, <1>6 DEF Full, Insists, cache_collect
  <2> QED BY <1>1, <1>2, <1>3, <1>4, <1>5, <2>1, Resumes
<1>7. CASE Full(t)
  <2>1. /\ th[t].checked = Threads \ {t} /\ garbage' = {}
        /\ heap' = [b \in Memory |-> IF b \in garbage THEN <<>> ELSE heap[b]]
        /\ cacheUpdateLock' = IF x = Idle THEN NoThread ELSE cacheUpdateLock
    BY <1>2, <1>7 DEF cache_collect, Insists
  <2>2. /\ heap' \in [Memory -> Seq(Buckets)]
        /\ \A b \in Memory : heap'[b] = heap[b] \/ heap'[b] = <<>>
        /\ \A b \in Memory : b \notin garbage => heap'[b] = heap[b]
    BY <1>1, <2>1 DEF TypeOK
  <2>3. /\ cacheUpdateLock = t
        /\ runtimeLock = t <=> Writing(t)
    BY <1>1 DEF Each, LockOK, At
  <2>4. /\ th'[t] = x /\ th' \in [Threads -> States]
        /\ \A u \in Threads \ {t} :
               /\ th'[u] = th[u] /\ (\A pc : At(u, pc)' <=> At(u, pc))
               /\ (\A pc : At2(u, pc)' <=> At2(u, pc))
               /\ (Writing(u)' <=> Writing(u)) /\ (Filling(u)' <=> Filling(u))
               /\ Registers(u)' = Registers(u)
    BY <1>1, <1>3, <1>4, Elsewhere
  <2>5. /\ At2(t, "insertImp")' <=> At2(t, "insertImp")
        /\ At2(t, "flush")' <=> At2(t, "flush")
        /\ Registers(t)' = Registers(t)
        /\ x.pc # "idle" <=> Writing(t)
    BY <1>1, <1>2, <1>4, <2>4 DEF At2, At, Registers, Writing
  <2>6. /\ Writing(t)' <=> Writing(t)
        /\ Filling(t)' <=> Filling(t)
    BY <1>1, <1>4, <2>4, <2>5 DEF Writing, Filling
  <2>7. \A u \in Threads \ {t} :
            /\ ~ Writing(u) /\ ~ At2(u, "insertImp") /\ ~ At2(u, "flush")
            /\ th[u].pc \in Passive \cup {"lookup", "fill"}
            /\ cacheUpdateLock # u /\ cacheUpdateLock' # u
    BY <1>1, <2>1, <2>3, NoLocks
  <2>8. TypeOK'
    BY <1>1, <1>5, <2>1, <2>2, <2>4 DEF TypeOK
  <2>9. HeapOK'
    <3>1. ASSUME NEW b \in Memory
          PROVE  heap'[b] = <<>> \/ IsArray(heap'[b])
      BY <2>2 DEF IndInv, HeapOK
    <3> QED BY <3>1 DEF HeapOK, IsArray
  <2>10. ASSUME NEW c \in Classes, cache[c].buckets # Empty
         PROVE  heap'[cache[c].buckets] = heap[cache[c].buckets]
    BY <2>2, <2>10, CacheType
  <2>11. \A c : ~ Reallocated(c) /\ ~ Reallocated(c)'
    BY <1>1, <1>4, <2>4, <2>7 DEF Reallocated, At, Passive
  <2>12. CachesOK'
    <3>1. ASSUME NEW c \in Classes
          PROVE  CacheOK(c)'
      <4>1. CacheOK(c) /\ ~ Reallocated(c) /\ ~ Reallocated(c)'
        BY <2>11 DEF IndInv, CachesOK
      <4>2. CASE cache[c].buckets = Empty
        BY <1>5, <4>1, <4>2 DEF CacheOK
      <4>3. CASE cache[c].buckets # Empty
        BY <1>5, <2>1, <2>10, <4>1, <4>3 DEF CacheOK, Used
      <4> QED BY <4>2, <4>3
    <3> QED BY <2>1, <3>1 DEF CachesOK
  <2>13. EntriesOK'
    <3>1. ASSUME \A u \in Threads : ~ At2(u, "flush")'
          PROVE  old' = method'
      <4>1. \A u \in Threads : ~ At2(u, "flush")
        BY <2>4, <2>5, <3>1
      <4> QED BY <1>5, <4>1 DEF IndInv, EntriesOK
    <3>2. ASSUME NEW c \in Classes, NEW u \in Threads, At2(u, "flush") /\ c \in Registers(u).todo
          PROVE  \E w \in Threads : At2(w, "flush")' /\ c \in Registers(w)'.todo
      BY <2>4, <2>5, <3>2
    <3>3. ASSUME NEW c \in Classes, cache[c].buckets # Empty,
                 NEW i \in DOMAIN heap[cache[c].buckets], NEW s \in Selectors,
                 heap[cache[c].buckets][i].key = Key[s]
          PROVE  \/ heap[cache[c].buckets][i].imp = Current(method, c, s)
                 \/ /\ heap[cache[c].buckets][i].imp = Current(old, c, s)
                    /\ \E w \in Threads : At2(w, "flush")' /\ c \in Registers(w)'.todo
      BY <3>2, <3>3 DEF IndInv, EntriesOK
    <3> QED BY <1>5, <2>10, <3>1, <3>3 DEF EntriesOK
  <2>14. Each(t)'
    <3>1. LockOK(t)'
      <4>1. runtimeLock' = t <=> Writing(t)'
        BY <1>5, <2>3, <2>6
      <4>2. cacheUpdateLock' = t <=> Writing(t)'
        BY <1>1, <1>4, <2>1, <2>3, <2>5, <2>6
      <4> QED BY <1>4, <2>4, <4>1, <4>2 DEF LockOK, At
    <3>2. SendOK(t)'
      BY <1>1, <1>4, <1>5, <2>4, <2>5 DEF Each, SendOK, At, At2
    <3>3. FillOK(t)'
      BY <1>1, <1>4, <1>5, <2>4, <2>5, <2>6 DEF Each, FillOK, At
    <3> QED BY <1>4, <2>4, <3>1, <3>2, <3>3 DEF Each, ReaderOK, At
  <2>15. ASSUME NEW u \in Threads \ {t}
         PROVE  Each(u)'
    <3>1. Each(u)
      BY Parts
    <3>2. LockOK(u)'
      BY <1>5, <2>4, <2>7, <3>1 DEF Each, LockOK
    <3>3. SendOK(u)'
      BY <1>5, <2>4, <3>1 DEF Each, SendOK
    <3>4. FillOK(u)'
      <4>1. ~ At(u, "reallocate") /\ ~ At(u, "reallocated") /\ ~ At(u, "insertKey")
        BY <2>7 DEF At, Passive
      <4> QED BY <1>5, <2>4, <2>7, <3>1, <4>1 DEF Each, FillOK
    <3>5. ReaderOK(u)'
      <4>1. CASE th[u].pc \in {"key", "scan", "imp"} /\ th[u].buckets # Empty
        <5>1. PICK b : b = th[u].buckets
          OBVIOUS
        <5>2. ArrayOK(u, b) /\ b \in Memory
          BY <1>1, <3>1, <4>1, <5>1, Kinds DEF Each, ReaderOK, TypeOK, Scanning
        <5>3. b \notin garbage
          BY <1>1, <2>1, <5>2 DEF ArrayOK, At
        <5>4. heap'[b] = heap[b]
          BY <2>2, <5>2, <5>3
        <5>5. ASSUME NEW w \in Threads
              PROVE  At(w, "reallocate")' => th'[w].new # b
          BY <1>4, <2>4, <5>2 DEF At, ArrayOK
        <5>6. ArrayOK(u, b)'
          BY <1>5, <2>1, <2>4, <5>2, <5>4, <5>5 DEF ArrayOK
        <5> QED BY <1>5, <2>4, <3>1, <4>1, <5>1, <5>4, <5>6 DEF Each, ReaderOK, At
      <4>2. CASE ~ (th[u].pc \in {"key", "scan", "imp"} /\ th[u].buckets # Empty)
        BY <1>5, <2>4, <3>1, <4>2 DEF Each, ReaderOK, At
      <4> QED BY <4>1, <4>2
    <3>6. (At(u, "called") => th[u].imp \in send[u].recent)'
      BY <1>5, <2>4, <3>1 DEF Each, At
    <3> QED BY <3>2, <3>3, <3>4, <3>5, <3>6 DEF Each
  <2> QED BY <2>8, <2>9, <2>12, <2>13, <2>14, <2>15 DEF IndInv, Each, CallsCurrent
<1> QED BY <1>6, <1>7
-----------------------------------------------------------------------------
(* Changes of the methods.                                                 *)

(* A thread sends a message, or nothing.                                   *)
LEMMA NothingOrSending ==
    ASSUME TypeOK, NEW u \in Threads
    PROVE  /\ send[u] = Nothing \/ send[u] \in Sending
           /\ Nothing \notin Sending
<1>1. send[u] = Nothing \/ send[u] \in Sending
  BY DEF TypeOK
<1>2. ASSUME Nothing \in Sending
      PROVE  FALSE
  <2>1. DOMAIN Nothing = {"recent"}
    BY DEF Nothing
  <2>2. DOMAIN Nothing = {"cls", "sel", "recent"}
    BY <1>2 DEF Sending
  <2>3. "cls" # "recent"
    OBVIOUS
  <2>4. "cls" \in DOMAIN Nothing
    BY <2>2
  <2> QED BY <2>1, <2>3, <2>4
<1> QED BY <1>1, <1>2

(* What was current stays current until the flush ends, and the classes    *)
(* whose caches are not to be flushed do not feel the change.              *)
LEMMA ChangeStep ==
    ASSUME CacheAssumption, IndInv, NEW t \in Threads, NEW table \in Tables,
           NEW flushed \in SUBSET Classes, NEW all \in BOOLEAN,
           Change(t, table, flushed, all),
           \A c \in Classes \ flushed, s \in Selectors :
               Current(table, c, s) = Current(method, c, s)
    PROVE  IndInv'
<1>1. TypeOK /\ (\A u \in Threads : Each(u)) /\ NoThread \notin Threads
      /\ runtimeLock = NoThread /\ cacheUpdateLock = NoThread
      /\ th[t].pc \in {"idle", "resolve"}
  BY Parts, Constants DEF Change, Starts, At
<1>2. \A u \in Threads : /\ th[u].pc \in Passive /\ ~ Writing(u) /\ ~ Filling(u)
                         /\ ~ At2(u, "flush") /\ ~ At2(u, "insertImp")
  BY <1>1, NoLocks DEF Passive
<1>3. old = method
  BY <1>2 DEF IndInv, EntriesOK
<1> DEFINE x == Flushing(flushed, all)
<1>4. x \in Flushes /\ x.pc = "flush" /\ x.todo = flushed
  BY DEF Flushing, Flushes
<1>5. x \in States /\ th' = [th EXCEPT ![t] = x]
  BY <1>4 DEF States, Change
<1> HIDE DEF x
<1>6. UNCHANGED <<old, cache, heap, garbage>> /\ method' = table
      /\ runtimeLock' = t /\ cacheUpdateLock' = t
  BY DEF Change, caches
<1>7. /\ th'[t] = x /\ th' \in [Threads -> States]
      /\ \A u \in Threads \ {t} :
             /\ th'[u] = th[u] /\ (\A pc : At(u, pc)' <=> At(u, pc))
             /\ (\A pc : At2(u, pc)' <=> At2(u, pc))
             /\ (Writing(u)' <=> Writing(u)) /\ (Filling(u)' <=> Filling(u))
             /\ Registers(u)' = Registers(u)
  BY <1>1, <1>5, Elsewhere
<1>8. ASSUME NEW u \in Threads
      PROVE  /\ send[u] = Nothing => send'[u] = Nothing
             /\ send[u] \in Sending =>
                   /\ send'[u] \in Sending
                   /\ send'[u].cls = send[u].cls /\ send'[u].sel = send[u].sel
                   /\ send'[u].recent =
                         send[u].recent \cup {Current(table, send[u].cls, send[u].sel)}
  <2>1. Nothing \notin Sending
    BY <1>1, NothingOrSending
  <2>2. PICK now : now = Current(table, send[u].cls, send[u].sel)
    OBVIOUS
  <2>3. send'[u] = IF send[u] = Nothing THEN Nothing
                   ELSE [send[u] EXCEPT !.recent = send[u].recent \cup {now}]
    BY <2>2 DEF Change
  <2>4. ASSUME send[u] \in Sending
        PROVE  /\ send'[u] \in Sending
               /\ send'[u].cls = send[u].cls /\ send'[u].sel = send[u].sel
               /\ send'[u].recent = send[u].recent \cup {now}
    <3>1. now \in Implementations
      BY <2>2, <2>4, CurrentType, SendType
    <3>2. send'[u] = [send[u] EXCEPT !.recent = send[u].recent \cup {now}]
      BY <2>1, <2>3, <2>4
    <3> QED BY <2>4, <3>1, <3>2 DEF Sending
  <2> QED BY <2>2, <2>3, <2>4
<1>9. send' \in [Threads -> {Nothing} \cup Sending]
  <2>1. DOMAIN send' = Threads /\ send' = [u \in Threads |-> send'[u]]
    BY DEF Change
  <2>2. \A u \in Threads : send'[u] \in {Nothing} \cup Sending
    BY <1>1, <1>8, NothingOrSending
  <2> QED BY <2>1, <2>2
<1>10. TypeOK'
  BY <1>1, <1>6, <1>7, <1>9 DEF TypeOK
<1>11. HeapOK'
  BY <1>6 DEF IndInv, HeapOK, IsArray
<1>12. \A d : ~ Reallocated(d) /\ ~ Reallocated(d)'
  BY <1>2, <1>4, <1>7 DEF Reallocated, At, Passive
<1>13. CachesOK'
  BY <1>6, <1>12 DEF IndInv, CachesOK, CacheOK, Used
<1>14. At2(t, "flush")' /\ Registers(t)' = x /\ Writing(t)' /\ ~ Filling(t)'
       /\ ~ At2(t, "insertImp")'
  BY <1>4, <1>7 DEF At, At2, Registers, Writing, Filling
<1>15. EntriesOK'
  <2>1. ASSUME NEW c \in Classes, cache[c].buckets # Empty,
               NEW i \in DOMAIN heap[cache[c].buckets], NEW s \in Selectors,
               heap[cache[c].buckets][i].key = Key[s]
        PROVE  \/ heap[cache[c].buckets][i].imp = Current(table, c, s)
               \/ /\ heap[cache[c].buckets][i].imp = Current(old, c, s)
                  /\ \E w \in Threads : At2(w, "flush")' /\ c \in Registers(w)'.todo
    <3>1. heap[cache[c].buckets][i].imp = Current(method, c, s)
      BY <1>3, <2>1 DEF IndInv, EntriesOK
    <3>2. CASE c \in flushed
      BY <1>3, <1>4, <1>14, <3>1, <3>2
    <3>3. CASE c \notin flushed
      BY <3>1, <3>3
    <3> QED BY <3>2, <3>3
  <2> QED BY <1>6, <1>14, <2>1 DEF EntriesOK
<1>16. ASSUME NEW u \in Threads
       PROVE  SendOK(u)'
  <2>1. Nothing \notin Sending /\ (send[u] = Nothing \/ send[u] \in Sending)
    BY <1>1, NothingOrSending
  <2>2. SendOK(u)
    BY <1>1 DEF Each
  <2>3. send'[u] \in Sending => send[u] \in Sending
    BY <1>8, <2>1
  <2>4. ASSUME send[u] \in Sending
        PROVE  /\ Current(method', send'[u].cls, send'[u].sel) \in send'[u].recent
               /\ Current(old', send'[u].cls, send'[u].sel) \in send'[u].recent
    BY <1>6, <1>8, <2>2, <2>4 DEF SendOK
  <2>5. \/ th'[u].pc \in {"idle", "collectALot", "flush", "collect"} /\ ~ At2(u, "insertImp")'
        \/ send'[u] \in Sending
    <3>1. CASE u = t
      BY <1>4, <1>7, <1>14, <3>1
    <3>2. CASE u # t
      BY <1>7, <1>8, <2>2, <3>2 DEF SendOK
    <3> QED BY <3>1, <3>2
  <2> QED BY <2>3, <2>4, <2>5 DEF SendOK
<1>17. Each(t)'
  <2>1. LockOK(t)'
    BY <1>6, <1>14 DEF LockOK
  <2>2. SendOK(t)'
    BY <1>16
  <2> QED BY <1>4, <1>7, <1>14, <2>1, <2>2 DEF Each, FillOK, ReaderOK, At
<1>18. ASSUME NEW u \in Threads \ {t}
       PROVE  Each(u)'
  <2>1. Each(u) /\ th[u].pc \in Passive /\ ~ Writing(u) /\ ~ Filling(u)
        /\ ~ At2(u, "flush") /\ ~ At2(u, "insertImp")
    BY <1>1, <1>2
  <2>2. LockOK(u)'
    BY <1>6, <1>7, <2>1 DEF LockOK, At, Passive
  <2>3. SendOK(u)'
    BY <1>16
  <2>4. FillOK(u)'
    BY <1>7, <2>1 DEF FillOK, At, Passive
  <2>5. ASSUME th[u].pc \notin {"idle", "collectALot"}
        PROVE  /\ send'[u].cls = send[u].cls /\ send'[u].sel = send[u].sel
               /\ send[u].recent \subseteq send'[u].recent
    <3>1. send[u] \in Sending
      BY <2>1, <2>5, IsSending DEF Passive
    <3> QED BY <1>8, <3>1
  <2>6. ReaderOK(u)'
    <3>1. CASE th[u].pc \in {"key", "scan", "imp"}
      <4>1. ASSUME NEW b, b = th[u].buckets, b # Empty
            PROVE  ArrayOK(u, b)'
        <5>1. ArrayOK(u, b)
          BY <2>1, <3>1, <4>1 DEF Each, ReaderOK
        <5>2. \A w \in Threads : ~ At(w, "reallocate")' /\ ~ At(w, "collect")'
          BY <1>2, <1>4, <1>7 DEF At, Passive
        <5> QED BY <1>6, <1>7, <2>5, <3>1, <5>1, <5>2 DEF ArrayOK
      <4> QED BY <1>6, <1>7, <2>1, <2>5, <3>1, <4>1 DEF Each, ReaderOK, At
    <3>2. CASE th[u].pc = "buckets"
      BY <1>6, <1>7, <2>1, <2>5, <3>2 DEF Each, ReaderOK, At
    <3>3. CASE th[u].pc \notin {"buckets", "key", "scan", "imp"}
      BY <1>7, <3>3 DEF ReaderOK, At
    <3> QED BY <3>1, <3>2, <3>3
  <2>7. (At(u, "called") => th[u].imp \in send[u].recent)'
    BY <1>7, <2>1, <2>5 DEF Each, At
  <2> QED BY <2>2, <2>3, <2>4, <2>6, <2>7 DEF Each
<1> QED BY <1>10, <1>11, <1>13, <1>15, <1>17, <1>18 DEF IndInv, Each, CallsCurrent

(* The values of a table.                                                  *)
Values == (Imps \cup {None}) \cup {Methods[c][s] : c \in Classes, s \in Selectors}

LEMMA CallStep ==
    ASSUME CacheAssumption, IndInv, NEW t \in Threads, Call(t)
    PROVE  IndInv'
<1>1. method \in [Classes -> [Selectors -> Values]] /\ Imps \subseteq Values
      /\ Tables = [Classes -> [Selectors -> Values]]
  BY DEF IndInv, TypeOK, Tables, Values
<1>2. ASSUME NEW m \in Messages[t], Send(t, m[1], m[2])
      PROVE  IndInv'
  <2>1. m[1] \in Classes /\ m[2] \in Selectors
    BY Constants
  <2> QED BY <1>2, <2>1, SendStep
<1>3. ASSUME NEW c \in Classes, NEW s \in Selectors, NEW imp \in Imps,
             addMethod(t, c, s, imp)
      PROVE  IndInv'
  <2>1. PICK table : table = [method EXCEPT ![c][s] = imp]
    OBVIOUS
  <2>2. table \in Tables
    BY <1>1, <2>1
  <2>3. \A d \in Classes : d # c => table[d] = method[d]
    BY <1>1, <2>1
  <2>4. ASSUME NEW d \in Classes \ Subclasses(c), NEW r \in Selectors
        PROVE  Current(table, d, r) = Current(method, d, r)
    <3>1. d # c /\ \A i \in DOMAIN Supers[d] : Supers[d][i] # c
      BY <2>4 DEF Subclasses
    <3>2. \A i \in DOMAIN Supers[d] : Supers[d][i] \in Classes
      BY Constants
    <3>3. table[d][r] = method[d][r]
          /\ \A i \in DOMAIN Supers[d] : table[Supers[d][i]][r] = method[Supers[d][i]][r]
      BY <2>3, <3>1, <3>2
    <3> QED BY <3>3, CurrentSame
  <2>5. Subclasses(c) \in SUBSET Classes /\ Change(t, table, Subclasses(c), FALSE)
    BY <1>3, <2>1 DEF addMethod, Subclasses
  <2> QED BY <2>2, <2>4, <2>5, ChangeStep
<1>4. ASSUME NEW table \in Tables, NEW all \in BOOLEAN, Change(t, table, Classes, all)
      PROVE  IndInv'
  <2>1. Classes \in SUBSET Classes /\ Classes \ Classes = {}
    OBVIOUS
  <2> QED BY <1>4, <2>1, ChangeStep
<1>5. ASSUME NEW c \in Classes, NEW s \in Selectors, NEW imp \in Imps,
             method_setImplementation(t, c, s, imp)
      PROVE  IndInv'
  <2>1. PICK table : table = [method EXCEPT ![c][s] = imp]
    OBVIOUS
  <2>2. table \in Tables
    BY <1>1, <2>1
  <2> QED BY <1>4, <1>5, <2>1, <2>2 DEF method_setImplementation
<1>6. ASSUME NEW c \in Classes, NEW d \in Classes, NEW s \in Selectors, NEW r \in Selectors,
             method_exchangeImplementations(t, c, s, d, r)
      PROVE  IndInv'
  <2>1. PICK first : first = [method EXCEPT ![c][s] = method[d][r]]
    OBVIOUS
  <2>2. PICK table : table = [first EXCEPT ![d][r] = method[c][s]]
    OBVIOUS
  <2>3. first \in [Classes -> [Selectors -> Values]]
    BY <1>1, <2>1
  <2>4. table \in Tables
    BY <1>1, <2>2, <2>3
  <2>5. table = [method EXCEPT ![c][s] = method[d][r], ![d][r] = method[c][s]]
    BY <2>1, <2>2
  <2> QED BY <1>4, <1>6, <2>4, <2>5 DEF method_exchangeImplementations
<1>7. ASSUME _objc_flush_caches(t)
      PROVE  IndInv'
  BY <1>1, <1>4, <1>7 DEF _objc_flush_caches
<1> QED BY <1>2, <1>3, <1>5, <1>6, <1>7 DEF Call
(* cache_erase_nolock of a class whose flush is due.                       *)
LEMMA EraseBucketsStep ==
    ASSUME CacheAssumption, IndInv, NEW t \in Threads, NEW c \in Classes, EraseBuckets(t, c)
    PROVE  IndInv'
<1>1. /\ TypeOK /\ Each(t) /\ th[t].pc = "flush" /\ Writing(t) /\ At2(t, "flush")
      /\ Registers(t) = th[t] /\ th[t] \in Flushes
  BY Parts, Kinds DEF EraseBuckets, At, At2, Writing, Registers, TypeOK
<1>2. /\ runtimeLock = t /\ cacheUpdateLock = t
      /\ \A u \in Threads \ {t} : th[u].pc \in Passive /\ runtimeLock # u /\ cacheUpdateLock # u
  BY <1>1, Alone
<1>3. UNCHANGED <<method, old, heap, runtimeLock, cacheUpdateLock, send>>
  BY DEF EraseBuckets, locks
<1>4. PICK b : b = cache[c].buckets
  OBVIOUS
<1>5. /\ b # Empty /\ b \in Memory /\ heap[b] # <<>>
      /\ \A d \in Classes : cache[d].buckets = b => d = c
  <2>1. CacheOK(c) /\ cache[c].occupied > 0
    BY DEF IndInv, CachesOK, EraseBuckets, Erases
  <2>2. b # Empty
    BY <1>4, <2>1 DEF CacheOK
  <2> QED BY <1>4, <2>2, CacheType
<1> DEFINE y == [th[t] EXCEPT !.todo = th[t].todo \ {c}]
           x == [pc |-> "collect", checked |-> {}, then |-> y]
<1>6. y \in Flushes /\ y.pc = "flush" /\ y.todo = th[t].todo \ {c}
  BY <1>1 DEF Flushes
<1>7. th' = [th EXCEPT ![t] = x]
  BY DEF EraseBuckets
<1>8. x.pc = "collect" /\ x.checked = {} /\ x.then = y
      /\ x \in [pc : {"collect"}, checked : SUBSET Threads,
                then : {Idle} \cup Inserting \cup Flushes]
  <2> HIDE DEF y
  <2> QED BY <1>6
<1> HIDE DEF x, y
<1>9. x \in States
  BY <1>8 DEF States
<1>10. /\ th'[t] = x /\ th' \in [Threads -> States]
       /\ \A u \in Threads \ {t} : th'[u] = th[u]
  BY <1>1, <1>7, <1>9, Elsewhere
<1>11. /\ Writing(t)' /\ ~ Filling(t)' /\ At2(t, "flush")' /\ ~ At2(t, "insertImp")'
       /\ Registers(t)' = y
  BY <1>6, <1>8, <1>10 DEF Writing, Filling, At2, At, Registers
<1>12. /\ cache' \in [Classes -> [buckets : Memory \cup {Empty}, mask : Nat, occupied : Nat]]
       /\ cache'[c].buckets = Empty /\ cache'[c].occupied = 0
       /\ cache'[c].mask = cache[c].mask
       /\ \A d \in Classes \ {c} : cache'[d] = cache[d]
  <2>1. cache' = [cache EXCEPT ![c].buckets = Empty, ![c].occupied = 0]
    BY DEF EraseBuckets
  <2> QED BY <1>1, <2>1 DEF TypeOK
<1>13. garbage' = garbage \cup {b}
  BY <1>4 DEF EraseBuckets
<1>14. TypeOK'
  BY <1>1, <1>3, <1>5, <1>10, <1>12, <1>13 DEF TypeOK
<1>15. HeapOK'
  BY <1>3 DEF IndInv, HeapOK, IsArray
<1>16. \A d : ~ Reallocated(d) /\ ~ Reallocated(d)'
  BY <1>1, <1>2, <1>8, <1>10 DEF Reallocated, At, Passive
<1>17. CachesOK'
  <2>1. ASSUME NEW d \in Classes \ {c}
        PROVE  CacheOK(d)'
    <3>1. CacheOK(d) /\ ~ Reallocated(d) /\ ~ Reallocated(d)'
      BY <1>16 DEF IndInv, CachesOK
    <3>2. cache[d].buckets # b
      BY <1>5
    <3> QED BY <1>3, <1>12, <1>13, <3>1, <3>2 DEF CacheOK, Used
  <2>2. CacheOK(c)'
    BY <1>12, <1>16 DEF CacheOK
  <2> QED BY <1>3, <1>5, <1>13, <2>1, <2>2 DEF IndInv, CachesOK
<1>18. EntriesOK'
  <2>1. ASSUME NEW d \in Classes, cache'[d].buckets # Empty,
               NEW i \in DOMAIN heap[cache'[d].buckets], NEW s \in Selectors,
               heap[cache'[d].buckets][i].key = Key[s]
        PROVE  \/ heap[cache'[d].buckets][i].imp = Current(method, d, s)
               \/ /\ heap[cache'[d].buckets][i].imp = Current(old, d, s)
                  /\ \E w \in Threads : At2(w, "flush")' /\ d \in Registers(w)'.todo
    <3>1. d # c /\ cache'[d].buckets = cache[d].buckets
      BY <1>12, <2>1
    <3>2. ASSUME NEW w \in Threads, At2(w, "flush"), d \in Registers(w).todo
          PROVE  At2(t, "flush")' /\ d \in Registers(t)'.todo
      <4>1. w = t
        BY <1>2, <3>2 DEF At2, At, Passive
      <4> QED BY <1>1, <1>6, <1>11, <3>1, <3>2, <4>1
    <3>3. \/ heap[cache[d].buckets][i].imp = Current(method, d, s)
          \/ /\ heap[cache[d].buckets][i].imp = Current(old, d, s)
             /\ \E w \in Threads : At2(w, "flush") /\ d \in Registers(w).todo
      BY <2>1, <3>1 DEF IndInv, EntriesOK
    <3> QED BY <3>1, <3>2, <3>3
  <2> QED BY <1>3, <1>11, <2>1 DEF EntriesOK
<1>19. Each(t)'
  <2>1. LockOK(t)'
    BY <1>2, <1>3, <1>11 DEF LockOK
  <2>2. SendOK(t)'
    BY <1>1, <1>3, <1>8, <1>10, <1>11 DEF Each, SendOK
  <2> QED BY <1>8, <1>10, <1>11, <2>1, <2>2 DEF Each, FillOK, ReaderOK, At
<1>20. \A u \in Threads \ {t} : Each(u)'
  <2>1. ASSUME NEW u \in Threads \ {t}, NEW a \in Memory,
               th[u].pc \in {"key", "scan", "imp"}, th[u].buckets = a, ArrayOK(u, a)
        PROVE  ArrayOK(u, a)'
    <3>1. ASSUME NEW w \in Threads
          PROVE  ~ At(w, "reallocate")' /\ (At(w, "collect")' => th'[w].checked = {})
      BY <1>2, <1>8, <1>10 DEF At, Passive
    <3>2. \A d \in Classes : cache'[d].buckets = a => d = send[u].cls
      BY <1>12, <2>1, Constants DEF ArrayOK
    <3> QED BY <1>3, <1>10, <2>1, <3>1, <3>2 DEF ArrayOK
  <2>2. ASSUME NEW d \in Classes
        PROVE  cache'[d].mask \in Nat /\ cache[d].mask \in Nat /\ cache'[d].mask >= cache[d].mask
    <3>1. cache'[d].mask = cache[d].mask /\ cache[d].mask \in Nat
      BY <1>12, CacheType
    <3> QED BY <3>1
  <2> QED BY <1>2, <1>3, <1>7, <2>1, <2>2, Bystanders, SendType
<1> QED BY <1>14, <1>15, <1>17, <1>18, <1>19, <1>20 DEF IndInv, Each, CallsCurrent

(* What the flush leaves in the caches it passed by: nothing.              *)
LEMMA NothingLeft ==
    ASSUME CacheAssumption, IndInv, NEW c \in Classes, NEW s \in Selectors,
           ~ Reallocated(c), ~ Erases(c), cache[c].buckets # Empty,
           NEW i \in DOMAIN heap[cache[c].buckets]
    PROVE  heap[cache[c].buckets][i].key # Key[s]
<1>1. PICK b \in Memory : b = cache[c].buckets /\ heap[b] # <<>>
  BY CacheType
<1>2. PICK l \in Nat : l = Len(heap[b]) /\ l > 2 /\ i \in 1 .. l /\ heap[b][l].key = 1
  BY <1>1, ArrayType
<1>3. /\ l = cache[c].mask + 2 /\ cache[c].mask \in Nat
      /\ Cardinality(Used(heap[b])) = cache[c].occupied /\ cache[c].occupied \in Nat
  BY <1>1, <1>2, CacheType DEF IndInv, CachesOK, CacheOK
<1>4. Cardinality(Used(heap[b])) = 0
  BY <1>2, <1>3 DEF Erases, capacity
<1>5. Used(heap[b]) = {}
  <2>1. IsFiniteSet(1 .. l - 1)
    BY FS_Interval
  <2>2. Used(heap[b]) \in SUBSET (1 .. l - 1)
    BY <1>2 DEF Used
  <2>3. IsFiniteSet(Used(heap[b]))
    BY <2>1, <2>2, FS_Subset
  <2> QED BY <1>4, <2>3, FS_EmptySet
<1>6. CASE i = l
  BY <1>1, <1>2, <1>6, Constants
<1>7. CASE i # l
  <2>1. i \in 1 .. l - 1
    BY <1>2, <1>7
  <2>2. heap[b][i].key = 0
    BY <1>2, <1>5, <2>1 DEF Used
  <2> QED BY <1>1, <2>2, Constants
<1> QED BY <1>6, <1>7

(* The end of a flush: what was current before the change is no more.      *)
LEMMA FlushedStep ==
    ASSUME CacheAssumption, IndInv, NEW t \in Threads, Flushed(t)
    PROVE  IndInv'
<1>1. /\ TypeOK /\ Each(t) /\ th[t].pc = "flush" /\ Writing(t) /\ At2(t, "flush")
      /\ Registers(t) = th[t] /\ th[t] \in Flushes /\ NoThread \notin Threads
  BY Parts, Kinds, Constants DEF Flushed, At, At2, Writing, Registers, TypeOK
<1>2. \A u \in Threads \ {t} : th[u].pc \in Passive
  BY <1>1, Alone
<1>3. /\ UNCHANGED <<method, cache, heap, garbage, send>> /\ old' = method
      /\ runtimeLock' = NoThread /\ cacheUpdateLock' = NoThread
  BY DEF Flushed, caches
<1>4. PICK x : x = IF th[t].all THEN [pc |-> "collectALot"]
                   ELSE IF send[t] = Nothing THEN Idle ELSE Locking(TRUE)
  OBVIOUS
<1>5. /\ x \in States /\ th' = [th EXCEPT ![t] = x]
      /\ x.pc \in {"collectALot", "idle", "lock"}
      /\ x.pc = "lock" => send[t] # Nothing
  <2>1. th' = [th EXCEPT ![t] = x]
    BY <1>4 DEF Flushed
  <2>2. /\ [pc |-> "collectALot"] \in States
        /\ Idle \in States /\ Locking(TRUE) \in States
    BY DEF States, Locking, Resolving
  <2> QED BY <1>4, <2>1, <2>2 DEF Idle, Locking
<1>6. /\ th'[t] = x /\ th' \in [Threads -> States]
      /\ \A u \in Threads \ {t} : th'[u] = th[u]
  BY <1>1, <1>5, Elsewhere
<1>7. /\ ~ Writing(t)' /\ ~ Filling(t)' /\ ~ At2(t, "flush")' /\ ~ At2(t, "insertImp")'
  BY <1>5, <1>6 DEF Writing, Filling, At2, At
<1>8. TypeOK'
  BY <1>1, <1>3, <1>6 DEF TypeOK
<1>9. HeapOK'
  BY <1>3 DEF IndInv, HeapOK, IsArray
<1>10. \A d : ~ Reallocated(d) /\ ~ Reallocated(d)'
  BY <1>1, <1>2, <1>5, <1>6 DEF Reallocated, At, Passive
<1>11. CachesOK'
  BY <1>3, <1>10 DEF IndInv, CachesOK, CacheOK, Used
<1>12. EntriesOK'
  <2>1. ASSUME NEW d \in Classes, cache[d].buckets # Empty,
               NEW i \in DOMAIN heap[cache[d].buckets], NEW s \in Selectors,
               heap[cache[d].buckets][i].key = Key[s]
        PROVE  heap[cache[d].buckets][i].imp = Current(method, d, s)
    <3>1. ASSUME NEW w \in Threads, At2(w, "flush"), d \in Registers(w).todo
          PROVE  FALSE
      <4>1. w = t
        BY <1>2, <3>1 DEF At2, At, Passive
      <4>2. ~ Erases(d)
        BY <1>1, <3>1, <4>1 DEF Flushed
      <4> QED BY <1>10, <2>1, <4>2, NothingLeft
    <3> QED BY <2>1, <3>1 DEF IndInv, EntriesOK
  <2> QED BY <1>3, <2>1 DEF EntriesOK
<1>13. Each(t)'
  <2>1. LockOK(t)'
    BY <1>1, <1>3, <1>5, <1>6, <1>7 DEF LockOK, At
  <2>2. SendOK(t)'
    <3>1. x.pc = "lock" => send[t] \in Sending
      BY <1>1, <1>5, NothingOrSending
    <3> QED BY <1>1, <1>3, <1>5, <1>6, <1>7, <3>1 DEF Each, SendOK
  <2> QED BY <1>5, <1>6, <1>7, <2>1, <2>2 DEF Each, FillOK, ReaderOK, At
<1>14. \A u \in Threads \ {t} : Each(u)'
  <2>1. ASSUME NEW u \in Threads \ {t}, NEW a \in Memory,
               th[u].pc \in {"key", "scan", "imp"}, th[u].buckets = a, ArrayOK(u, a)
        PROVE  ArrayOK(u, a)'
    <3>1. \A w \in Threads : ~ At(w, "reallocate")' /\ ~ At(w, "collect")'
      BY <1>2, <1>5, <1>6 DEF At, Passive
    <3> QED BY <1>3, <1>6, <2>1, <3>1 DEF ArrayOK
  <2>2. \A u \in Threads \ {t} : runtimeLock' # u /\ cacheUpdateLock' # u
    BY <1>1, <1>3
  <2>3. ASSUME NEW d \in Classes
        PROVE  cache'[d].mask \in Nat /\ cache[d].mask \in Nat /\ cache'[d].mask >= cache[d].mask
    BY <1>3, CacheType
  <2> QED BY <1>2, <1>3, <1>5, <2>1, <2>2, <2>3, Bystanders, SendType
<1> QED BY <1>8, <1>9, <1>11, <1>12, <1>13, <1>14 DEF IndInv, Each, CallsCurrent

-----------------------------------------------------------------------------
(* The theorems.                                                           *)

LEMMA InitInv ==
    ASSUME CacheAssumption, Init
    PROVE  IndInv
<1>1. /\ \A t \in Threads : th[t] = Idle /\ th[t].pc = "idle" /\ send[t] = Nothing
      /\ \A c \in Classes : cache[c].buckets = Empty /\ cache[c].occupied = 0
      /\ \A b \in Memory : heap[b] = <<>>
      /\ garbage = {} /\ runtimeLock = NoThread /\ cacheUpdateLock = NoThread
      /\ method = Methods /\ old = Methods
  BY DEF Init, Idle
<1>2. TypeOK
  <2>1. Idle \in States /\ <<>> \in Seq(Buckets) /\ 0 \in Nat
    BY DEF States
  <2> QED BY <2>1, Constants DEF Init, TypeOK
<1>3. \A c : ~ Reallocated(c)
  BY <1>1 DEF Reallocated, At
<1>4. HeapOK /\ CachesOK /\ EntriesOK
  BY <1>1, <1>3 DEF HeapOK, CachesOK, CacheOK, EntriesOK
<1>5. ASSUME NEW t \in Threads
      PROVE  Each(t)
  <2>1. t # NoThread
    BY Constants
  <2>2. ~ Writing(t) /\ ~ Filling(t) /\ ~ At2(t, "insertImp")
    BY <1>1 DEF Writing, Filling, At2, At
  <2>3. Nothing \notin Sending
    BY <1>2, NothingOrSending
  <2> QED BY <1>1, <2>1, <2>2, <2>3 DEF Each, LockOK, SendOK, FillOK, ReaderOK, At
<1> QED BY <1>2, <1>4, <1>5, Parts

LEMMA StepInv ==
    ASSUME CacheAssumption, IndInv, [Next]_vars
    PROVE  IndInv'
<1>1. CASE UNCHANGED vars
  <2>1. UNCHANGED <<method, old, cache, heap, garbage, runtimeLock, cacheUpdateLock, send, th>>
    BY <1>1 DEF vars, caches, locks
  <2>2. /\ \A t, pc : At(t, pc)' = At(t, pc) /\ At2(t, pc)' = At2(t, pc)
        /\ \A t : Writing(t)' = Writing(t) /\ Filling(t)' = Filling(t)
                  /\ Registers(t)' = Registers(t)
    BY <2>1 DEF At, At2, Writing, Filling, Registers
  <2>3. \A c : Reallocated(c)' = Reallocated(c)
    BY <2>1 DEF Reallocated, At
  <2>4. TypeOK'
    BY <2>1 DEF IndInv, TypeOK
  <2>5. HeapOK' /\ CachesOK'
    BY <2>1, <2>3 DEF IndInv, HeapOK, IsArray, CachesOK, CacheOK, Used
  <2>6. EntriesOK'
    BY <2>1, <2>2 DEF IndInv, EntriesOK
  <2>7. ASSUME NEW t \in Threads
        PROVE  Each(t)'
    <3>1. Each(t)
      BY Parts
    <3>2. LockOK(t)' /\ SendOK(t)'
      BY <2>1, <2>2, <3>1 DEF Each, LockOK, SendOK
    <3>3. FillOK(t)'
      BY <2>1, <2>2, <3>1 DEF Each, FillOK, Used
    <3>4. \A b : ArrayOK(t, b)' <=> ArrayOK(t, b)
      BY <2>1, <2>2 DEF ArrayOK
    <3>5. ReaderOK(t)'
      BY <2>1, <2>2, <3>1, <3>4 DEF Each, ReaderOK
    <3> QED BY <2>1, <2>2, <3>1, <3>2, <3>3, <3>5 DEF Each
  <2> QED BY <2>4, <2>5, <2>6, <2>7 DEF IndInv, Each, CallsCurrent
<1>2. ASSUME NEW t \in Threads, Call(t) \/ Step(t)
      PROVE  IndInv'
  <2>1. CASE Call(t)
    BY <2>1, CallStep
  <2>2. CASE ReadMask(t) \/ ReadBuckets(t) \/ ReadKey(t) \/ ReadEnd(t) \/ ReadImp(t) \/ Returns(t)
    BY <2>2, ReadMaskStep, ReadBucketsStep, ReadKeyStep, ReadEndStep, ReadImpStep, ReturnsStep
  <2>3. CASE Lock(t) \/ Lookup(t) \/ Resolve(t) \/ cache_fill(t)
    BY <2>3, LockStep, LookupStep, ResolveStep, FillStep
  <2>4. CASE ReallocateBuckets(t) \/ ReallocateMask(t) \/ InsertImp(t) \/ InsertKey(t)
    BY <2>4, ReallocateBucketsStep, ReallocateMaskStep, InsertImpStep, InsertKeyStep
  <2>5. CASE cache_collect(t) \/ \E u \in Threads : _collecting_in_critical(t, u)
    BY <2>5, cache_collectStep, CollectingStep
  <2>6. CASE (\E c \in Classes : EraseBuckets(t, c)) \/ Flushed(t) \/ CollectALot(t)
    BY <2>6, EraseBucketsStep, FlushedStep, CollectALotStep
  <2> QED BY <1>2, <2>1, <2>2, <2>3, <2>4, <2>5, <2>6 DEF Step
<1> QED BY <1>1, <1>2 DEF Next

(* The strengthening that makes the properties inductive: who holds which  *)
(* lock (LockOK), a cache's array is its own and as large as its mask says *)
(* (CachesOK), what a cache holds is current or about to be flushed        *)
(* (EntriesOK), and what a fill, a flush and a scan without a lock have in *)
(* their registers (FillOK, ReaderOK) in objc-cache.mm:321-850.            *)
THEOREM Invariance == ASSUME CacheAssumption PROVE Spec => []IndInv
<1>1. Init => IndInv
  BY InitInv
<1>2. IndInv /\ [Next]_vars => IndInv'
  BY StepInv
<1> QED BY <1>1, <1>2, PTL DEF Spec

(* Every thread has the registers that go with its program counter, and    *)
(* what is shared has its type.                                            *)
THEOREM TypeCorrect == ASSUME CacheAssumption PROVE Spec => []TypeOK
<1>1. IndInv => TypeOK
  BY DEF IndInv
<1> QED BY <1>1, Invariance, PTL

(* A thread that scans a cache without a lock (objc-msg-x86_64.s, and the  *)
(* comment of objc-cache.mm:26-60) reads buckets that are not freed and    *)
(* stays in bounds, whatever pair of mask and buckets it loaded while the  *)
(* cache was reallocated or erased, and whatever was collected since.      *)
THEOREM NoReaderHarmed == ASSUME CacheAssumption PROVE Spec => []ReadersSafe
<1>1. ASSUME IndInv
      PROVE  ReadersSafe
  <2>1. SUFFICES ASSUME NEW t \in Threads, th[t].pc \in {"key", "scan", "imp"},
                        th[t].buckets # Empty
                 PROVE  th[t].index \in DOMAIN heap[th[t].buckets]
    BY DEF ReadersSafe
  <2>2. PICK b : b = th[t].buckets
    OBVIOUS
  <2>3. b \in Memory
    <3>1. th[t] \in States
      BY <1>1 DEF IndInv, TypeOK
    <3> QED BY <2>1, <2>2, <3>1, Kinds DEF Scanning
  <2>4. ArrayOK(t, b)
    BY <1>1, <2>1, <2>2 DEF IndInv, ReaderOK
  <2>5. heap[b] # <<>> /\ th[t].index \in 1 .. Len(heap[b])
    BY <2>4 DEF ArrayOK
  <2> QED BY <1>1, <2>2, <2>3, <2>5, ArrayType
<1> QED BY <1>1, Invariance, PTL

(* The implementation that a message calls, from the cache or from a       *)
(* search, was current while it was sent: no entry of a cache outlives the *)
(* flush that a change of the methods ends with, and "the cache was        *)
(* re-filled with the old value" never (objc-runtime-new.mm:4877).         *)
THEOREM CallsStayCurrent == ASSUME CacheAssumption PROVE Spec => []CallsCurrent
<1>1. IndInv => CallsCurrent
  BY DEF IndInv
<1> QED BY <1>1, Invariance, PTL
=============================================================================
