----------------------------- MODULE MethodCache -----------------------------
(***************************************************************************)
(* Method dispatch: objc_msgSend scans the cache of the class without a    *)
(* lock (objc-msg-x86_64.s), the slow path searches the method lists and   *)
(* fills the cache under runtimeLock (objc-runtime-new.mm, objc-cache.mm), *)
(* and changes of the methods flush caches, whose memory is freed when no  *)
(* thread's program counter is inside a scan.                              *)
(***************************************************************************)
EXTENDS Naturals, Sequences, FiniteSets

CONSTANTS
    Threads,
    NoThread,
    Classes,        \* all initialized
    Supers,         \* [Classes -> Seq(Classes)], nearest first
    Selectors,
    Key,            \* [Selectors -> Nat], more than 1: the selector's address
    Imps,           \* what a change may install
    Forward,        \* _objc_msgForward_impcache
    None,           \* no implementation
    Methods,        \* the classes' method lists at first
    Messages,       \* by thread, the classes and selectors it sends
    INIT_CACHE_SIZE,
    Memory,         \* the arrays of buckets that may exist, a set of numbers
    Empty,          \* the shared empty buckets
    garbage_threshold,
    Changers,       \* the threads that also change methods
    MaxOps,         \* how many operations each thread starts
    MaxChanges      \* how many changes the program makes

Tables == [Classes -> [Selectors -> (Imps \cup {None}) \cup
              {Methods[c][s] : c \in Classes, s \in Selectors}]]

\* The superclasses of a superclass are the rest of the list; selectors are
\* unique; an array of buckets has more than one.
CacheAssumption ==
    /\ NoThread \notin Threads
    /\ Supers \in [Classes -> Seq(Classes)]
    /\ \A c \in Classes : \A i \in DOMAIN Supers[c] :
           Supers[Supers[c][i]] = SubSeq(Supers[c], i + 1, Len(Supers[c]))
    /\ Key \in [Selectors -> Nat]
    /\ \A s \in Selectors : Key[s] > 1
    /\ \A s, r \in Selectors : Key[s] = Key[r] => s = r
    /\ Forward # None /\ Forward \notin Imps /\ None \notin Imps
    /\ Methods \in Tables
    /\ \A c \in Classes, s \in Selectors : Methods[c][s] # Forward
    /\ \A t \in Threads : Messages[t] \subseteq Classes \X Selectors
    /\ INIT_CACHE_SIZE \in Nat \ {0, 1}
    /\ Memory \subseteq Nat /\ Empty \notin Memory

VARIABLES
    method,         \* the classes' method lists
    old,            \* what they were before the change that is under way
    cache,          \* by class: buckets, mask, occupied
    heap,           \* the contents of the arrays of buckets, <<>> when free
    garbage,
    runtimeLock, cacheUpdateLock,
    send,           \* the message each thread sends, and the implementations
                    \* that were current meanwhile
    th,             \* the program counter of each thread, and its registers
    ops, changes    \* how many operations were started

caches == <<cache, heap, garbage>>
locks == <<runtimeLock, cacheUpdateLock>>
bounds == <<ops, changes>>
vars == <<method, old, caches, locks, send, th, bounds>>

Idle == [pc |-> "idle"]
Nothing == [recent |-> {}]

Bucket(key, imp) == [key |-> key, imp |-> imp]

\* Zeros, and the end marker behind them.
allocateBuckets(capacity) ==
    [i \in 1 .. capacity + 1 |-> Bucket(IF i <= capacity THEN 0 ELSE 1, None)]

Init ==
    /\ method = Methods
    /\ old = Methods
    /\ cache = [c \in Classes |-> [buckets |-> Empty, mask |-> 0, occupied |-> 0]]
    /\ heap = [b \in Memory |-> <<>>]
    /\ garbage = {}
    /\ runtimeLock = NoThread
    /\ cacheUpdateLock = NoThread
    /\ send = [t \in Threads |-> Nothing]
    /\ th = [t \in Threads |-> Idle]
    /\ ops = [t \in Threads |-> 0]
    /\ changes = 0

At(t, pc) == th[t].pc = pc
Goto(t, pc) == th' = [th EXCEPT ![t].pc = pc]
Called(t, imp) == th' = [th EXCEPT ![t] = [pc |-> "called", imp |-> imp]]

capacity(c) == IF cache[c].mask = 0 THEN 0 ELSE cache[c].mask + 1
Hash(s, mask) == Key[s] % (mask + 1)

\* cache_getImp(), with the locks that keep the cache as it is.
Cached(c, s) ==
    LET b == cache[c].buckets
        hits == IF b = Empty THEN {}
                ELSE {i \in DOMAIN heap[b] : heap[b][i].key = Key[s]}
    IN  IF hits = {} THEN None ELSE heap[b][CHOOSE i \in hits : TRUE].imp

\* The implementation a class responds to a selector with.
Current(table, c, s) ==
    LET line == <<c>> \o Supers[c]
        found == {i \in DOMAIN line : table[line[i]][s] # None}
    IN  IF found = {} THEN Forward
        ELSE table[line[CHOOSE i \in found : \A j \in found : i <= j]][s]

(***************************************************************************)
(* objc_msgSend: one load of shared memory a step.                         *)
(***************************************************************************)
Send(t, c, s) ==
    /\ At(t, "idle")
    /\ ops[t] < MaxOps[t]
    /\ ops' = [ops EXCEPT ![t] = @ + 1]
    /\ send' = [send EXCEPT ![t] = [cls |-> c, sel |-> s, recent |->
                    {Current(method, c, s), Current(old, c, s)}]]
    /\ Goto(t, "mask")
    /\ UNCHANGED <<method, old, caches, locks, changes>>

ReadMask(t) ==
    /\ At(t, "mask")
    /\ th' = [th EXCEPT ![t] = [pc |-> "buckets",
           index |-> Hash(send[t].sel, cache[send[t].cls].mask) + 1]]
    /\ UNCHANGED <<method, old, caches, locks, send, bounds>>

ReadBuckets(t) ==
    /\ At(t, "buckets")
    /\ th' = [th EXCEPT ![t] = [pc |-> "key", index |-> @.index, wrapped |-> FALSE,
           buckets |-> cache[send[t].cls].buckets]]
    /\ UNCHANGED <<method, old, caches, locks, send, bounds>>

\* The shared empty buckets are zeros, as many as there may ever be.
Read(t) == IF th[t].buckets = Empty THEN Bucket(0, None)
           ELSE heap[th[t].buckets][th[t].index]

ReadKey(t) ==
    /\ At(t, "key")
    /\ Goto(t, IF Read(t).key = Key[send[t].sel] THEN "imp" ELSE "scan")
    /\ UNCHANGED <<method, old, caches, locks, send, bounds>>

Locking(resolved) == [pc |-> "lock", resolved |-> resolved]

\* The key is loaded again to see whether the scan goes on.
ReadEnd(t) ==
    /\ At(t, "scan")
    /\ LET key == Read(t).key IN
       th' = [th EXCEPT ![t] =
           IF key = 0 \/ (key = 1 /\ @.wrapped) THEN Locking(FALSE)
           ELSE IF key = 1 THEN [@ EXCEPT !.pc = "key", !.index = 1, !.wrapped = TRUE]
           ELSE [@ EXCEPT !.pc = "key", !.index = th[t].index + 1]]
    /\ UNCHANGED <<method, old, caches, locks, send, bounds>>

ReadImp(t) ==
    /\ At(t, "imp")
    /\ Called(t, Read(t).imp)
    /\ UNCHANGED <<method, old, caches, locks, send, bounds>>

Returns(t) ==
    /\ At(t, "called")
    /\ th' = [th EXCEPT ![t] = Idle]
    /\ send' = [send EXCEPT ![t] = Nothing]
    /\ UNCHANGED <<method, old, caches, locks, bounds>>

(***************************************************************************)
(* lookUpImpOrForward, as the messenger calls it.                          *)
(***************************************************************************)
Lock(t) ==
    /\ At(t, "lock")
    /\ runtimeLock = NoThread
    /\ runtimeLock' = t
    /\ Goto(t, "lookup")
    /\ UNCHANGED <<method, old, caches, cacheUpdateLock, send, bounds>>

\* What the search finds in a class: a cached implementation, or one in its
\* method list.
FoundIn(c, s) == IF Cached(c, s) # None THEN Cached(c, s) ELSE method[c][s]

\* A forward:: that a superclass cached ends the search.
FoundInSupers(c, s) ==
    LET found == {i \in DOMAIN Supers[c] : FoundIn(Supers[c][i], s) # None}
        first == FoundIn(Supers[c][CHOOSE i \in found : \A j \in found : i <= j], s)
    IN  IF found = {} \/ first = Forward THEN None ELSE first

Fill(t, imp) == th' = [th EXCEPT ![t] = [pc |-> "fill", imp |-> imp]]

Lookup(t) ==
    LET c == send[t].cls
        s == send[t].sel
        imp == IF method[c][s] # None THEN method[c][s] ELSE FoundInSupers(c, s)
    IN
    /\ At(t, "lookup")
    /\ IF Cached(c, s) # None
       THEN Called(t, Cached(c, s)) /\ runtimeLock' = NoThread
       ELSE IF imp # None THEN Fill(t, imp) /\ UNCHANGED runtimeLock
       ELSE IF th[t].resolved THEN Fill(t, Forward) /\ UNCHANGED runtimeLock
       ELSE Goto(t, "resolve") /\ runtimeLock' = NoThread
    /\ UNCHANGED <<method, old, caches, cacheUpdateLock, send, bounds>>

\* Mutant: that the resolver was asked is not remembered.
ResolveAgain(t) ==
    /\ At(t, "resolve")
    /\ th' = [th EXCEPT ![t] = Locking(FALSE)]
    /\ UNCHANGED <<method, old, caches, locks, send, bounds>>

\* _class_resolveMethod, when the program's resolver adds nothing.
Resolve(t) ==
    /\ At(t, "resolve")
    /\ th' = [th EXCEPT ![t] = Locking(TRUE)]
    /\ UNCHANGED <<method, old, caches, locks, send, bounds>>

(***************************************************************************)
(* cache_fill_nolock.                                                      *)
(***************************************************************************)
isConstantEmptyCache(c) == cache[c].occupied = 0 /\ cache[c].buckets = Empty

\* The code's capacity / 4 * 3, which is the same when 4 divides it.
Fits(c) == 4 * (cache[c].occupied + 1) <= 3 * capacity(c)

\* The capacity that a fill reallocates the cache with.
NewCapacity(c) ==
    IF capacity(c) = 0 THEN INIT_CACHE_SIZE
    ELSE IF isConstantEmptyCache(c) THEN capacity(c) ELSE 2 * capacity(c)

Free == {b \in Memory : heap[b] = <<>>}
malloc == CHOOSE b \in Free : \A d \in Free : b <= d

\* Mutant: the mask is stored before the buckets.
cache_fillMaskFirst(t) ==
    LET c == send[t].cls IN
    /\ At(t, "fill")
    /\ cacheUpdateLock = NoThread
    /\ Cached(c, send[t].sel) = None
    /\ cacheUpdateLock' = t
    /\ IF ~ isConstantEmptyCache(c) /\ Fits(c)
       THEN Goto(t, "insertImp") /\ UNCHANGED <<heap, cache>>
       ELSE /\ Free # {}
            /\ heap' = [heap EXCEPT ![malloc] = allocateBuckets(NewCapacity(c))]
            /\ cache' = [cache EXCEPT ![c].mask = NewCapacity(c) - 1]
            /\ th' = [th EXCEPT ![t] = [pc |-> "reallocate", imp |-> @.imp,
                                        new |-> malloc]]
    /\ UNCHANGED <<method, old, garbage, runtimeLock, send, bounds>>

\* The entry may have been cached in the meantime.  (It is not, as every
\* caller holds runtimeLock since it looked.)
cache_fill(t) ==
    LET c == send[t].cls IN
    /\ At(t, "fill")
    /\ cacheUpdateLock = NoThread
    /\ IF Cached(c, send[t].sel) # None
       THEN /\ Called(t, th[t].imp)
            /\ runtimeLock' = NoThread
            /\ UNCHANGED <<heap, cacheUpdateLock>>
       ELSE /\ cacheUpdateLock' = t
            /\ UNCHANGED runtimeLock
            /\ IF ~ isConstantEmptyCache(c) /\ Fits(c)
               THEN Goto(t, "insertImp") /\ UNCHANGED heap
               ELSE /\ Free # {}
                    /\ heap' = [heap EXCEPT
                                  ![malloc] = allocateBuckets(NewCapacity(c))]
                    /\ th' = [th EXCEPT ![t] = [pc |-> "reallocate",
                                  imp |-> @.imp, new |-> malloc]]
    /\ UNCHANGED <<method, old, cache, garbage, send, bounds>>

\* The first unused bucket, from the hash on.
Slot(c, s) ==
    LET m == cache[c].mask
        place(i) == ((Hash(s, m) + i) % (m + 1)) + 1
        free == {i \in 0 .. m : heap[cache[c].buckets][place(i)].key = 0}
    IN  place(CHOOSE i \in free : \A j \in free : i <= j)

Inserted(t, f) ==
    LET c == send[t].cls IN
    heap' = [heap EXCEPT ![cache[c].buckets][Slot(c, send[t].sel)] = f]

\* bucket_t::set() stores the implementation and then the key.
InsertImp(t) ==
    /\ At(t, "insertImp")
    /\ Inserted(t, Bucket(0, th[t].imp))
    /\ Goto(t, "insertKey")
    /\ UNCHANGED <<method, old, cache, garbage, locks, send, bounds>>

InsertKey(t) ==
    /\ At(t, "insertKey")
    /\ Inserted(t, Bucket(Key[send[t].sel], th[t].imp))
    /\ cache' = [cache EXCEPT ![send[t].cls].occupied = @ + 1]
    /\ Called(t, th[t].imp)
    /\ runtimeLock' = NoThread
    /\ cacheUpdateLock' = NoThread
    /\ UNCHANGED <<method, old, garbage, send, bounds>>

(***************************************************************************)
(* setBucketsAndMask, in its two stores, for a fill.  The old contents are *)
(* not kept.                                                               *)
(***************************************************************************)
ReallocateBuckets(t) ==
    LET c == send[t].cls IN
    /\ At(t, "reallocate")
    /\ cache' = [cache EXCEPT ![c].buckets = th[t].new]
    /\ th' = [th EXCEPT ![t] = [pc |-> "reallocated", imp |-> @.imp, dead |->
           IF isConstantEmptyCache(c) THEN {} ELSE {cache[c].buckets}]]
    /\ UNCHANGED <<method, old, heap, garbage, locks, send, bounds>>

ReallocateMask(t) ==
    LET c == send[t].cls IN
    /\ At(t, "reallocated")
    /\ cache' = [cache EXCEPT ![c].mask = Len(heap[cache[c].buckets]) - 2,
                              ![c].occupied = 0]
    /\ garbage' = garbage \cup th[t].dead
    /\ th' = [th EXCEPT ![t] =
           IF @.dead = {} THEN [pc |-> "insertImp", imp |-> @.imp]
           ELSE [pc |-> "collect", checked |-> {}, then |-> [pc |-> "insertImp", imp |-> @.imp]]]
    /\ UNCHANGED <<method, old, heap, locks, send, bounds>>

(***************************************************************************)
(* cache_collect: the garbage is freed unless the program counter of some  *)
(* thread is in a cache-reading function; the threads are looked at one by *)
(* one.  _objc_flush_caches insists.                                       *)
(***************************************************************************)
InCritical(t) == th[t].pc \in {"mask", "buckets", "key", "scan", "imp"}

Insists(t) == th[t].then = Idle
Full(t) == Cardinality(garbage) >= garbage_threshold \/ Insists(t)

_collecting_in_critical(t, u) ==
    /\ At(t, "collect")
    /\ Full(t)
    /\ u \in Threads \ (th[t].checked \cup {t})
    /\ th' = [th EXCEPT ![t] =
           IF ~ InCritical(u) THEN [@ EXCEPT !.checked = th[t].checked \cup {u}]
           ELSE IF Insists(t) THEN [@ EXCEPT !.checked = {}] ELSE @.then]
    /\ UNCHANGED <<method, old, caches, locks, send, bounds>>

cache_collect(t) ==
    /\ At(t, "collect")
    /\ Full(t) => th[t].checked = Threads \ {t}
    /\ IF Full(t)
       THEN /\ heap' = [b \in Memory |-> IF b \in garbage THEN <<>> ELSE heap[b]]
            /\ garbage' = {}
       ELSE UNCHANGED <<heap, garbage>>
    /\ th' = [th EXCEPT ![t] = @.then]
    /\ cacheUpdateLock' = IF Insists(t) THEN NoThread ELSE cacheUpdateLock
    /\ UNCHANGED <<method, old, cache, runtimeLock, send, bounds>>

(***************************************************************************)
(* Changes of the methods, under runtimeLock up to the end of the flush.   *)
(* A method resolver changes methods from inside of a send.                *)
(***************************************************************************)
Starts(t) == \/ At(t, "idle") /\ t \in Changers /\ ops[t] < MaxOps[t]
             \/ At(t, "resolve")

Flushing(todo, all) == [pc |-> "flush", todo |-> todo, all |-> all]

Change(t, table, flushed, all) ==
    /\ Starts(t)
    /\ changes < MaxChanges
    /\ runtimeLock = NoThread /\ cacheUpdateLock = NoThread
    /\ runtimeLock' = t /\ cacheUpdateLock' = t
    /\ method' = table
    /\ send' = [u \in Threads |-> IF send[u] = Nothing THEN Nothing
           ELSE [send[u] EXCEPT !.recent = @ \cup {Current(table, send[u].cls, send[u].sel)}]]
    /\ th' = [th EXCEPT ![t] = Flushing(flushed, all)]
    /\ changes' = changes + 1
    /\ ops' = [ops EXCEPT ![t] = IF At(t, "idle") THEN @ + 1 ELSE @]
    /\ UNCHANGED <<old, caches>>

Subclasses(c) ==
    {d \in Classes : d = c \/ \E i \in DOMAIN Supers[d] : Supers[d][i] = c}

\* Mutant: only the class that gets the method is flushed.
addMethodAlone(t, c, s, imp) ==
    /\ method[c][s] = None
    /\ Change(t, [method EXCEPT ![c][s] = imp], {c}, FALSE)

addMethod(t, c, s, imp) ==
    /\ method[c][s] = None
    /\ Change(t, [method EXCEPT ![c][s] = imp], Subclasses(c), FALSE)

method_setImplementation(t, c, s, imp) ==
    /\ method[c][s] # None
    /\ Change(t, [method EXCEPT ![c][s] = imp], Classes, FALSE)

method_exchangeImplementations(t, c, s, d, r) ==
    /\ method[c][s] # None /\ method[d][r] # None
    /\ <<c, s>> # <<d, r>>
    /\ Change(t, [method EXCEPT ![c][s] = method[d][r], ![d][r] = method[c][s]],
              Classes, FALSE)

\* _objc_flush_caches(nil) changes nothing.
_objc_flush_caches(t) == At(t, "idle") /\ Change(t, method, Classes, TRUE)

\* cache_erase_nolock of one class after the other.
Erases(c) == capacity(c) > 0 /\ cache[c].occupied > 0

\* The mask is stored again, with the value it has.
EraseBuckets(t, c) ==
    /\ At(t, "flush")
    /\ c \in th[t].todo
    /\ Erases(c)
    /\ cache' = [cache EXCEPT ![c].buckets = Empty, ![c].occupied = 0]
    /\ garbage' = garbage \cup {cache[c].buckets}
    /\ th' = [th EXCEPT ![t] = [pc |-> "collect", checked |-> {},
           then |-> [@ EXCEPT !.todo = th[t].todo \ {c}]]]
    /\ UNCHANGED <<method, old, heap, locks, send, bounds>>

Flushed(t) ==
    /\ At(t, "flush")
    /\ \A c \in th[t].todo : ~ Erases(c)
    /\ old' = method
    /\ runtimeLock' = NoThread
    /\ cacheUpdateLock' = NoThread
    /\ th' = [th EXCEPT ![t] = IF @.all THEN [pc |-> "collectALot"]
                               ELSE IF send[t] = Nothing THEN Idle ELSE Locking(TRUE)]
    /\ UNCHANGED <<method, caches, send, bounds>>

CollectALot(t) ==
    /\ At(t, "collectALot")
    /\ cacheUpdateLock = NoThread
    /\ cacheUpdateLock' = t
    /\ th' = [th EXCEPT ![t] = [pc |-> "collect", checked |-> {}, then |-> Idle]]
    /\ UNCHANGED <<method, old, caches, runtimeLock, send, bounds>>

Call(t) ==
    \/ \E m \in Messages[t] : Send(t, m[1], m[2])
    \/ \E c \in Classes, s \in Selectors, imp \in Imps :
           addMethod(t, c, s, imp) \/ method_setImplementation(t, c, s, imp)
    \/ \E c, d \in Classes, s, r \in Selectors :
           method_exchangeImplementations(t, c, s, d, r)
    \/ _objc_flush_caches(t)

Step(t) ==
    \/ ReadMask(t) \/ ReadBuckets(t) \/ ReadKey(t) \/ ReadEnd(t) \/ ReadImp(t)
    \/ Returns(t)
    \/ Lock(t) \/ Lookup(t) \/ Resolve(t)
    \/ cache_fill(t)
    \/ ReallocateBuckets(t) \/ ReallocateMask(t) \/ InsertImp(t) \/ InsertKey(t)
    \/ cache_collect(t)
    \/ \E u \in Threads : _collecting_in_critical(t, u)
    \/ \E c \in Classes : EraseBuckets(t, c)
    \/ Flushed(t) \/ CollectALot(t)

Next == \E t \in Threads : Call(t) \/ Step(t)

Spec == Init /\ [][Next]_vars

\* The scheduler runs every thread.
FairSpec == Spec /\ \A t \in Threads : WF_vars(Step(t))
-----------------------------------------------------------------------------
(* A thread that scans a cache without a lock reads buckets that are not   *)
(* freed, and does not overrun their bounds, whatever pair of mask and     *)
(* buckets it loaded.                                                      *)
ReadersSafe ==
    \A t \in Threads :
        th[t].pc \in {"key", "scan", "imp"} /\ th[t].buckets # Empty =>
            th[t].index \in DOMAIN heap[th[t].buckets]

(* The implementation a message calls is the one the class responded with  *)
(* at some moment of the send; a change counts until its flush ends.  No   *)
(* method added or exchanged is "ignored indefinitely because the cache    *)
(* was re-filled with the old value" (objc-runtime-new.mm:4877), and no    *)
(* reader takes one selector's implementation for another's.               *)
CallsCurrent ==
    \A t \in Threads : At(t, "called") => th[t].imp \in send[t].recent

(* Every send and every change comes to an end, the insisting collection   *)
(* included, once the program starts nothing more.                         *)
SendsReturn == \A t \in Threads : <>[]At(t, "idle")

-----------------------------------------------------------------------------
(* The inductive invariant.                                                *)

Implementations ==
    Imps \cup {None, Forward} \cup {Methods[c][s] : c \in Classes, s \in Selectors}
Buckets == [key : Nat, imp : Implementations]
Sending == [cls : Classes, sel : Selectors, recent : SUBSET Implementations]
Inserting == [pc : {"insertImp"}, imp : Implementations]
Flushes == [pc : {"flush"}, todo : SUBSET Classes, all : BOOLEAN]

Scanning(pc) == [pc : {pc}, index : Nat, wrapped : BOOLEAN, buckets : Memory \cup {Empty}]
Resolving(pc) == [pc : {pc}, resolved : BOOLEAN]

(* The registers at each program counter.                                  *)
States ==
    {Idle} \cup [pc : {"mask", "collectALot"}] \cup [pc : {"buckets"}, index : Nat]
    \cup Scanning("key") \cup Scanning("scan") \cup Scanning("imp")
    \cup [pc : {"called", "fill", "insertKey"}, imp : Implementations]
    \cup Resolving("lock") \cup Resolving("lookup") \cup Resolving("resolve")
    \cup [pc : {"reallocate"}, imp : Implementations, new : Memory]
    \cup [pc : {"reallocated"}, imp : Implementations, dead : SUBSET Memory]
    \cup [pc : {"collect"}, checked : SUBSET Threads,
          then : {Idle} \cup Inserting \cup Flushes]
    \cup Inserting \cup Flushes

TypeOK ==
    /\ method \in Tables /\ old \in Tables
    /\ cache \in [Classes -> [buckets : Memory \cup {Empty}, mask : Nat, occupied : Nat]]
    /\ heap \in [Memory -> Seq(Buckets)]
    /\ garbage \subseteq Memory
    /\ runtimeLock \in Threads \cup {NoThread}
    /\ cacheUpdateLock \in Threads \cup {NoThread}
    /\ send \in [Threads -> {Nothing} \cup Sending]
    /\ th \in [Threads -> States]

(* Where a fill or a flush is, in a collection included.                   *)
At2(t, pc) == At(t, pc) \/ (At(t, "collect") /\ th[t].then.pc = pc)
Registers(t) == IF At(t, "collect") THEN th[t].then ELSE th[t]

Writing(t) == \/ th[t].pc \in {"reallocate", "reallocated", "insertKey"}
              \/ At2(t, "insertImp") \/ At2(t, "flush")
Filling(t) == \/ th[t].pc \in {"fill", "reallocate", "reallocated", "insertKey"}
              \/ At2(t, "insertImp")

LockOK(t) ==
    /\ runtimeLock = t <=> At(t, "lookup") \/ At(t, "fill") \/ Writing(t)
    /\ cacheUpdateLock = t <=> At(t, "collect") \/ Writing(t)

(* A send knows which implementations are current.                         *)
SendOK(t) ==
    /\ \/ th[t].pc \in {"idle", "collectALot", "flush", "collect"} /\ ~ At2(t, "insertImp")
       \/ send[t] \in Sending
    /\ send[t] \in Sending =>
           /\ Current(method, send[t].cls, send[t].sel) \in send[t].recent
           /\ Current(old, send[t].cls, send[t].sel) \in send[t].recent

(* An array of buckets has an end marker, and keys only before it.         *)
IsArray(a) ==
    /\ Len(a) > 2
    /\ a[Len(a)].key = 1
    /\ \A i \in 1 .. Len(a) - 1 : a[i].key = 0 \/ \E s \in Selectors : a[i].key = Key[s]

Used(a) == {i \in 1 .. Len(a) - 1 : a[i].key # 0}

HeapOK == \A b \in Memory : heap[b] = <<>> \/ IsArray(heap[b])

Reallocated(c) == \E t \in Threads : At(t, "reallocated") /\ send[t].cls = c

(* A cache has its buckets to itself; mask and occupied are those of its   *)
(* buckets, but for a moment of a reallocation, when these are larger.     *)
CacheOK(c) ==
    LET b == cache[c].buckets IN
    /\ b = Empty => cache[c].occupied = 0 /\ ~ Reallocated(c)
    /\ b # Empty =>
          /\ heap[b] # <<>> /\ b \notin garbage
          /\ \A d \in Classes : cache[d].buckets = b => d = c
          /\ Len(heap[b]) >= cache[c].mask + 2
          /\ IF Reallocated(c) THEN Used(heap[b]) = {}
             ELSE /\ Len(heap[b]) = cache[c].mask + 2
                  /\ Cardinality(Used(heap[b])) = cache[c].occupied

CachesOK ==
    /\ \A b \in garbage : heap[b] # <<>>
    /\ \A c \in Classes : CacheOK(c)

(* What a cache holds is current, or about to be flushed.                  *)
EntriesOK ==
    /\ (\A t \in Threads : ~ At2(t, "flush")) => old = method
    /\ \A c \in Classes : cache[c].buckets # Empty =>
           \A i \in DOMAIN heap[cache[c].buckets], s \in Selectors :
               heap[cache[c].buckets][i].key = Key[s] =>
                   \/ heap[cache[c].buckets][i].imp = Current(method, c, s)
                   \/ /\ heap[cache[c].buckets][i].imp = Current(old, c, s)
                      /\ \E t \in Threads : At2(t, "flush") /\ c \in Registers(t).todo

(* What a fill will insert is current; the array it allocated, and the one  *)
(* it took out, are its own.                                               *)
FillOK(t) ==
    LET c == send[t].cls IN
    /\ Filling(t) => Registers(t).imp = Current(method, c, send[t].sel)
    /\ At(t, "reallocate") =>
           LET b == th[t].new IN
           /\ b \notin garbage /\ \A d \in Classes : cache[d].buckets # b
           /\ heap[b] # <<>> /\ Used(heap[b]) = {}
           /\ Len(heap[b]) >= cache[c].mask + 2
    /\ At(t, "reallocated") =>
           \A b \in th[t].dead :
               /\ heap[b] # <<>> /\ b \notin garbage
               /\ \A d \in Classes : cache[d].buckets # b
    /\ At2(t, "insertImp") \/ At(t, "insertKey") =>
           cache[c].buckets # Empty /\ cache[c].occupied <= cache[c].mask

(* What a reader has of a cache: an array that is not freed, with what is  *)
(* or was current during the send.                                         *)
ArrayOK(t, b) ==
    /\ heap[b] # <<>>
    /\ th[t].index \in 1 .. Len(heap[b])
    /\ \A i \in DOMAIN heap[b] :
           heap[b][i].key = Key[send[t].sel] => heap[b][i].imp \in send[t].recent
    /\ \A c \in Classes : cache[c].buckets = b => c = send[t].cls
    /\ \A u \in Threads :
           /\ At(u, "reallocate") => th[u].new # b
           /\ At(u, "collect") /\ t \in th[u].checked => b \notin garbage

ReaderOK(t) ==
    /\ At(t, "buckets") => th[t].index \in 1 .. cache[send[t].cls].mask + 1
    /\ At(t, "imp") =>
           /\ th[t].buckets # Empty
           /\ heap[th[t].buckets][th[t].index].key = Key[send[t].sel]
    /\ th[t].pc \in {"key", "scan", "imp"} /\ th[t].buckets # Empty =>
           ArrayOK(t, th[t].buckets)

IndInv ==
    /\ TypeOK
    /\ HeapOK
    /\ CachesOK
    /\ EntriesOK
    /\ \A t \in Threads : LockOK(t) /\ SendOK(t) /\ FillOK(t) /\ ReaderOK(t)
    /\ CallsCurrent
=============================================================================
