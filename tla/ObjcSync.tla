---- MODULE ObjcSync ----
(***************************************************************************)
(* @synchronized: objc_sync_enter and objc_sync_exit (objc-sync.mm).       *)
(*                                                                         *)
(* The lock of an object is a SyncData, a recursive mutex made on demand.  *)
(* SyncDatas are listed per stripe of addresses, under the spinlock of the *)
(* list; one whose threadCount is zero may be given to another object.  A  *)
(* thread finds the SyncDatas it already uses in its own cache, one fast   *)
(* item and then an array, without any lock.  So threadCount is            *)
(* incremented under the spinlock and decremented outside of it, the       *)
(* object of a cached SyncData is read without the spinlock, and the last  *)
(* exit gives the SyncData back before it unlocks the mutex.               *)
(*                                                                         *)
(* A step is one look at the list, one acquisition of a lock, or a step on *)
(* the thread's own cache with at most one access to shared memory.        *)
(***************************************************************************)
EXTENDS Integers, Sequences, FiniteSets

LOCAL INSTANCE FiniteSetsExt

CONSTANTS
    Threads, NoThread,
    Objects, NoObject,
    Lists,
    ListOf,       \* [Objects -> Lists]: sDataLists[obj]
    Datas, NoData,
    Slots,        \* slots of a new SyncCache: 4 in the code
    Rank,         \* the order in which the program nests its objects
    MaxDepth,     \* bound: how many enters a thread has open
    MaxStrays     \* bound: exits of an object that another thread is inside

ASSUME SyncAssumption ==
    /\ IsFiniteSet(Threads)
    /\ NoThread \notin Threads
    /\ NoObject \notin Objects
    /\ NoData \notin Datas
    /\ ListOf \in [Objects -> Lists]
    /\ Slots \in Nat \ {0}
    /\ Rank \in [Objects -> Int]
    /\ MaxDepth \in Nat
    /\ MaxStrays \in Nat

VARIABLES
    data,         \* the SyncDatas of each list, in order of nextData
    lockp,        \* the holder of each list's spinlock
    object,       \* per SyncData
    threadCount,
    owner, count, \* its recursive_mutex_t
    fast,         \* per thread: the SyncCacheItem in the direct thread keys
    cache,        \* per thread: syncCache->list, of length used
    allocated,    \* per thread: syncCache->allocated, 0 before it exists
    call,         \* per thread: the call it is in
    result,       \* per thread: what its last call returned
    strays        \* per SyncData: strays counted in threadCount (auxiliary)

vars == <<data, lockp, object, threadCount, owner, count, fast, cache,
          allocated, call, result, strays>>
mutexes == <<owner, count>>
caches == <<fast, cache, allocated>>
lists == <<data, lockp, object, threadCount, strays>>

SyncCacheItem == [data : Datas, lockCount : Nat \ {0}]
FreeItem == [data |-> NoData, lockCount |-> 0]

(* at is where the walk of the list is, unused is firstUnused.             *)
Steps == {"idle", "list", "walk", "done", "save", "mutex", "unlock"}
Calls ==
    [step : Steps, why : {"ACQUIRE", "RELEASE"},
     object : Objects \cup {NoObject}, at : Nat,
     unused : Datas \cup {NoData}, data : Datas \cup {NoData}]
Idle ==
    [step |-> "idle", why |-> "ACQUIRE", object |-> NoObject, at |-> 0,
     unused |-> NoData, data |-> NoData]

Init ==
    /\ data = [l \in Lists |-> <<>>]
    /\ lockp = [l \in Lists |-> NoThread]
    /\ object = [d \in Datas |-> NoObject]
    /\ threadCount = [d \in Datas |-> 0]
    /\ owner = [d \in Datas |-> NoThread]
    /\ count = [d \in Datas |-> 0]
    /\ fast = [t \in Threads |-> FreeItem]
    /\ cache = [t \in Threads |-> <<>>]
    /\ allocated = [t \in Threads |-> 0]
    /\ call = [t \in Threads |-> Idle]
    /\ result = [t \in Threads |-> "success"]
    /\ strays = [d \in Datas |-> 0]

-----------------------------------------------------------------------------
At(t, step) == call[t].step = step
Goto(t, step) == call' = [call EXCEPT ![t].step = step]
Begin(t, why, o, step, d) ==
    call' = [call EXCEPT ![t] =
                [Idle EXCEPT !.step = step, !.why = why,
                             !.object = o, !.data = d]]
Return(t, value) ==
    /\ call' = [call EXCEPT ![t] = Idle]
    /\ result' = [result EXCEPT ![t] = value]

List(t) == ListOf[call[t].object]
Listed == UNION {{data[l][i] : i \in DOMAIN data[l]} : l \in Lists}

(* The items of a thread's caches, and those for an object.                *)
Items(t) ==
    {fast[t]} \cup {cache[t][i] : i \in DOMAIN cache[t]}
FastMatch(t, o) == fast[t].data # NoData /\ object[fast[t].data] = o
CacheMatches(t, o) == {i \in DOMAIN cache[t] : object[cache[t][i].data] = o}
FirstMatch(t, o) ==
    CHOOSE i \in CacheMatches(t, o) : \A j \in CacheMatches(t, o) : i <= j

(* cache->list[i] = cache->list[--cache->used]                             *)
Without(items, i) ==
    [j \in 1 .. Len(items) - 1 |->
        IF j = i THEN items[Len(items)] ELSE items[j]]

(* fetch_cache(NO) leaves an open slot in a cache that exists,             *)
(* fetch_cache(YES) makes one.                                             *)
fetch_cache(t) ==
    allocated' = [allocated EXCEPT ![t] =
                     IF @ # 0 /\ @ = Len(cache[t]) THEN 2 * @ ELSE @]
fetch_cache_create(t) ==
    allocated' = [allocated EXCEPT ![t] = IF @ = 0 THEN Slots ELSE @]

-----------------------------------------------------------------------------
(* id2data, the part without the spinlock: a match in the thread's caches. *)

Counted(item, why) ==
    IF why = "ACQUIRE" THEN item.lockCount + 1 ELSE item.lockCount - 1

(* Otherwise the process ends: "id2data fastcache is buggy" and the like.  *)
Buggy(item) == threadCount[item.data] <= 0 \/ item.lockCount <= 0
BuggySave(t) == object[call[t].data] # call[t].object

(* A hit on item; the last RELEASE gives its SyncData back.                *)
Hit(t, o, why, item) ==
    /\ threadCount' =
           IF Counted(item, why) = 0
           THEN [threadCount EXCEPT ![item.data] = @ - 1]
           ELSE threadCount
    /\ Begin(t, why, o,
             IF why = "ACQUIRE" THEN "mutex" ELSE "unlock", item.data)

FastHit(t, o, why) ==
    /\ FastMatch(t, o)
    /\ ~Buggy(fast[t])
    /\ Hit(t, o, why, fast[t])
    /\ fast' = [fast EXCEPT ![t] =
                   IF Counted(@, why) = 0 THEN FreeItem
                   ELSE [@ EXCEPT !.lockCount = Counted(fast[t], why)]]
    /\ UNCHANGED <<cache, allocated>>

CacheHit(t, o, why) ==
    /\ ~FastMatch(t, o)
    /\ CacheMatches(t, o) # {}
    /\ LET i == FirstMatch(t, o) item == cache[t][i] IN
           /\ ~Buggy(item)
           /\ Hit(t, o, why, item)
           /\ cache' = [cache EXCEPT ![t] =
                  IF Counted(item, why) = 0 THEN Without(@, i)
                  ELSE [@ EXCEPT ![i].lockCount = Counted(item, why)]]
    /\ fetch_cache(t)
    /\ UNCHANGED fast

Miss(t, o, why) ==
    /\ ~FastMatch(t, o)
    /\ CacheMatches(t, o) = {}
    /\ Begin(t, why, o, "list", NoData)
    /\ fetch_cache(t)
    /\ UNCHANGED <<threadCount, fast, cache>>

id2data(t, o, why) ==
    /\ At(t, "idle")
    /\ result' = [result EXCEPT ![t] = "none"]
    /\ \/ FastHit(t, o, why)
       \/ CacheHit(t, o, why)
       \/ Miss(t, o, why)
    /\ UNCHANGED <<data, lockp, object, strays, mutexes>>

objc_sync_enter(t, o) == id2data(t, o, "ACQUIRE")
objc_sync_exit(t, o) == id2data(t, o, "RELEASE")

-----------------------------------------------------------------------------
(* id2data under the spinlock: the walk of the list.                       *)

(* Mutant: the list is walked without waiting for its spinlock.            *)
LockListAnyway(t) ==
    /\ At(t, "list")
    /\ lockp' = [lockp EXCEPT ![List(t)] = t]
    /\ call' = [call EXCEPT ![t].step = "walk", ![t].at = 1]
    /\ UNCHANGED <<data, object, threadCount, strays, mutexes, caches, result>>

LockList(t) ==
    /\ At(t, "list")
    /\ lockp[List(t)] = NoThread
    /\ lockp' = [lockp EXCEPT ![List(t)] = t]
    /\ call' = [call EXCEPT ![t].step = "walk", ![t].at = 1]
    /\ UNCHANGED <<data, object, threadCount, strays, mutexes, caches, result>>

Walking(t) == At(t, "walk") /\ call[t].at <= Len(data[List(t)])
Walked(t) == At(t, "walk") /\ call[t].at > Len(data[List(t)])
Node(t) == data[List(t)][call[t].at]
Found(t, d) == call' = [call EXCEPT ![t].step = "done", ![t].data = d]

(* A match is counted before anyone looks whether this is a RELEASE.       *)
FoundData(t) ==
    /\ Walking(t)
    /\ object[Node(t)] = call[t].object
    /\ threadCount' = [threadCount EXCEPT ![Node(t)] = @ + 1]
    /\ strays' =
           IF call[t].why = "RELEASE"
           THEN [strays EXCEPT ![Node(t)] = @ + 1]
           ELSE strays
    /\ Found(t, Node(t))
    /\ UNCHANGED <<data, lockp, object, mutexes, caches, result>>

NextData(t) ==
    /\ Walking(t)
    /\ object[Node(t)] # call[t].object
    /\ call' = [call EXCEPT
                   ![t].at = @ + 1,
                   ![t].unused = IF @ = NoData /\ threadCount[Node(t)] = 0
                                 THEN Node(t) ELSE @]
    /\ UNCHANGED <<lists, mutexes, caches, result>>

ReleaseNotFound(t) ==
    /\ Walked(t)
    /\ call[t].why = "RELEASE"
    /\ Found(t, NoData)
    /\ UNCHANGED <<lists, mutexes, caches, result>>

ReuseData(t) ==
    /\ Walked(t)
    /\ call[t].why = "ACQUIRE"
    /\ call[t].unused # NoData
    /\ object' = [object EXCEPT ![call[t].unused] = call[t].object]
    /\ threadCount' = [threadCount EXCEPT ![call[t].unused] = 1]
    /\ Found(t, call[t].unused)
    /\ UNCHANGED <<data, lockp, strays, mutexes, caches, result>>

AllocateData(t) ==
    /\ Walked(t)
    /\ call[t].why = "ACQUIRE"
    /\ call[t].unused = NoData
    /\ \E d \in Datas \ Listed :
           /\ object' = [object EXCEPT ![d] = call[t].object]
           /\ threadCount' = [threadCount EXCEPT ![d] = 1]
           /\ data' = [data EXCEPT ![List(t)] = <<d>> \o @]
           /\ Found(t, d)
    /\ UNCHANGED <<lockp, strays, mutexes, caches, result>>

(* Mutant: a match is enough for objc_sync_exit to succeed.                *)
UnlockListGranted(t) ==
    /\ At(t, "done")
    /\ lockp' = [lockp EXCEPT ![List(t)] = NoThread]
    /\ IF call[t].why = "RELEASE"
       THEN Return(t, IF call[t].data = NoData THEN "notOwning" ELSE "success")
       ELSE Goto(t, "save") /\ UNCHANGED result
    /\ UNCHANGED <<data, object, threadCount, strays, mutexes, caches>>

(* Mutant: a RELEASE returns without unlocking the list.                   *)
UnlockListLeaks(t) ==
    /\ At(t, "done")
    /\ IF call[t].why = "RELEASE"
       THEN Return(t, "notOwning") /\ UNCHANGED lockp
       ELSE /\ Goto(t, "save")
            /\ lockp' = [lockp EXCEPT ![List(t)] = NoThread]
            /\ UNCHANGED result
    /\ UNCHANGED <<data, object, threadCount, strays, mutexes, caches>>

UnlockList(t) ==
    /\ At(t, "done")
    /\ lockp' = [lockp EXCEPT ![List(t)] = NoThread]
    /\ IF call[t].why = "RELEASE"
       THEN Return(t, "notOwning")
       ELSE Goto(t, "save") /\ UNCHANGED result
    /\ UNCHANGED <<data, object, threadCount, strays, mutexes, caches>>

Save(t) ==
    /\ At(t, "save")
    /\ ~BuggySave(t)
    /\ LET item == [data |-> call[t].data, lockCount |-> 1] IN
           IF fast[t].data = NoData
           THEN /\ fast' = [fast EXCEPT ![t] = item]
                /\ UNCHANGED <<cache, allocated>>
           ELSE /\ cache' = [cache EXCEPT ![t] = Append(@, item)]
                /\ fetch_cache_create(t)
                /\ UNCHANGED fast
    /\ Goto(t, "mutex")
    /\ UNCHANGED <<lists, mutexes, result>>

-----------------------------------------------------------------------------
(* The recursive mutex, and the end of a thread.                           *)

lock(t) ==
    /\ At(t, "mutex")
    /\ owner[call[t].data] \in {NoThread, t}
    /\ owner' = [owner EXCEPT ![call[t].data] = t]
    /\ count' = [count EXCEPT ![call[t].data] = @ + 1]
    /\ Return(t, "success")
    /\ UNCHANGED <<lists, caches>>

tryUnlock(t) ==
    /\ At(t, "unlock")
    /\ LET d == call[t].data IN
           IF owner[d] = t
           THEN /\ count' = [count EXCEPT ![d] = @ - 1]
                /\ owner' = [owner EXCEPT ![d] =
                                IF count[d] = 1 THEN NoThread ELSE t]
                /\ Return(t, "success")
           ELSE Return(t, "notOwning") /\ UNCHANGED mutexes
    /\ UNCHANGED <<lists, caches>>

(* A thread ends, outside of every object.                                 *)
_destroySyncCache(t) ==
    /\ At(t, "idle")
    /\ Items(t) = {FreeItem}
    /\ allocated[t] # 0
    /\ allocated' = [allocated EXCEPT ![t] = 0]
    /\ UNCHANGED <<lists, mutexes, fast, cache, call, result>>

-----------------------------------------------------------------------------
(* The program.                                                            *)

One(condition) == IF condition THEN 1 ELSE 0

(* lockCount goes up before the mutex is locked, and down before it is     *)
(* unlocked: a thread that has only the unlocking left is outside of o.    *)
lockCount(t, o) ==
    IF FastMatch(t, o) THEN fast[t].lockCount
    ELSE IF CacheMatches(t, o) # {} THEN cache[t][FirstMatch(t, o)].lockCount
    ELSE 0
Depth(t, o) == lockCount(t, o) - One(At(t, "mutex") /\ call[t].object = o)

Inside(t) == {o \in Objects : Depth(t, o) > 0}
Nested(t) == MapThenSumSet(LAMBDA o : Depth(t, o), Objects)
Strayed == MapThenSumSet(LAMBDA d : strays[d], Datas)

Enter(t, o) ==
    /\ Nested(t) < MaxDepth
    /\ o \in Inside(t) \/ \A p \in Inside(t) : Rank[p] <= Rank[o]
    /\ objc_sync_enter(t, o)

Exit(t, o) == o \in Inside(t) /\ objc_sync_exit(t, o)

StrayExit(t, o) ==
    /\ o \notin Inside(t)
    /\ Strayed < MaxStrays
    /\ objc_sync_exit(t, o)

Start(t) == \E o \in Objects : Enter(t, o) \/ StrayExit(t, o)
Leave(t) == \E o \in Objects : Exit(t, o)

Step(t) ==
    \/ LockList(t)
    \/ FoundData(t)
    \/ NextData(t)
    \/ ReleaseNotFound(t)
    \/ ReuseData(t)
    \/ AllocateData(t)
    \/ UnlockList(t)
    \/ Save(t)
    \/ lock(t)
    \/ tryUnlock(t)

Next ==
    \E t \in Threads :
        \/ Start(t)
        \/ Leave(t)
        \/ Step(t)
        \/ _destroySyncCache(t)

Spec == Init /\ [][Next]_vars

(* Threads run, and the program leaves what it entered.  No lock here is   *)
(* fair: a thread that waits while others keep entering may wait forever.  *)
FairSpec ==
    /\ Spec
    /\ \A t \in Threads : WF_vars(Step(t)) /\ WF_vars(Leave(t))

-----------------------------------------------------------------------------
(* Types; an item that is counted down to zero is out of the caches.       *)
TypeOK ==
    /\ data \in [Lists -> Seq(Datas)]
    /\ lockp \in [Lists -> Threads \cup {NoThread}]
    /\ object \in [Datas -> Objects \cup {NoObject}]
    /\ threadCount \in [Datas -> Nat]
    /\ owner \in [Datas -> Threads \cup {NoThread}]
    /\ count \in [Datas -> Nat]
    /\ fast \in [Threads -> SyncCacheItem \cup {FreeItem}]
    /\ cache \in [Threads -> Seq(SyncCacheItem)]
    /\ allocated \in [Threads -> Nat]
    /\ call \in [Threads -> Calls]
    /\ result \in [Threads -> {"none", "success", "notOwning"}]
    /\ strays \in [Datas -> Nat]

(* An object never has two SyncDatas, each SyncData is in the list of its  *)
(* object and in no other place: the spinlock keeps two threads that enter *)
(* a new object at once from making two locks for it, and a SyncData that  *)
(* is reused is never one that another thread looks for.                   *)
OneDataPerObject ==
    /\ \A l \in Lists : \A i, j \in DOMAIN data[l] :
           object[data[l][i]] = object[data[l][j]] => i = j
    /\ \A l \in Lists : \A i \in DOMAIN data[l] :
           ListOf[object[data[l][i]]] = l

(* The threads that use a SyncData: it is in their caches, or id2data is   *)
(* about to put it there.                                                  *)
Uses(t, d) ==
    \/ \E item \in Items(t) : item.data = d
    \/ /\ At(t, "done") \/ At(t, "save")
       /\ call[t].why = "ACQUIRE"
       /\ call[t].data = d
Users(d) == {t \in Threads : Uses(t, d)}

(* threadCount counts the threads that use the SyncData and the exits that *)
(* found it without using it.  Hence a SyncData that is in use is never    *)
(* given to another object, although threadCount is read in the walk while *)
(* other threads decrement it.                                             *)
UsersAreCounted ==
    \A d \in Datas : threadCount[d] = Cardinality(Users(d)) + strays[d]

(* What the declaration says of threadCount: "number of THREADS using this *)
(* block".  An exit of an object that only another thread is inside of     *)
(* breaks it: id2data counts the match before it returns nil.              *)
ThreadCountIsUsers ==
    \A d \in Datas : threadCount[d] <= Cardinality(Threads)

(* The mutex of every SyncData is owned by the one thread that is inside   *)
(* of its object, as deep as that thread's caches say, even in the window  *)
(* where the exiting thread has given the SyncData back, another thread    *)
(* has taken it for another object and waits for the mutex.                *)
Locking(t, d) == One(At(t, "mutex") /\ call[t].data = d)
Unlocking(t, d) == One(At(t, "unlock") /\ call[t].data = d)
Locked(t, d) == IF owner[d] = t THEN count[d] ELSE 0
MutexMatchesCaches ==
    \A t \in Threads, d \in Datas :
        /\ \A item \in Items(t) :
               item.data = d =>
                   item.lockCount + Unlocking(t, d) = Locked(t, d) + Locking(t, d)
        /\ (\A item \in Items(t) : item.data # d) =>
               Unlocking(t, d) = Locked(t, d)

(* None of the consistency checks of id2data fires: they read threadCount  *)
(* and the object of a SyncData without the spinlock.                      *)
NeverBuggy ==
    \A t \in Threads :
        /\ \A item \in Items(t) \ {FreeItem} : ~Buggy(item)
        /\ At(t, "save") => ~BuggySave(t)

(* The array of a SyncCache is never written behind its end: the slot that *)
(* fetch_cache keeps open is still there when id2data saves the item.      *)
CacheHasRoom == \A t \in Threads : Len(cache[t]) <= allocated[t]

(* The rest of the inductive invariant, on which these rest.  A thread has *)
(* one item for a SyncData, and none for the object it is looking for; its *)
(* cached items have a SyncData.                                           *)
ItemsOK ==
    \A t \in Threads :
        /\ \A i \in DOMAIN cache[t] : cache[t][i].data # fast[t].data
        /\ \A i, j \in DOMAIN cache[t] :
               cache[t][i].data = cache[t][j].data => i = j
        /\ call[t].step \in {"list", "walk", "done", "save"} =>
               \A item \in Items(t) \ {FreeItem} :
                   object[item.data] # call[t].object

(* A SyncData that is in no list is nobody's.                              *)
UnlistedOK == \A d \in Datas \ Listed : threadCount[d] = 0

(* The walk has passed no match, and what it found unused is unused still. *)
WalkOK(t) ==
    /\ call[t].at \in 1 .. Len(data[List(t)]) + 1
    /\ \A i \in 1 .. call[t].at - 1 :
           object[data[List(t)][i]] # call[t].object
    /\ call[t].unused # NoData =>
           /\ threadCount[call[t].unused] = 0
           /\ \E i \in DOMAIN data[List(t)] : data[List(t)][i] = call[t].unused

(* Where a thread is, and what it has found and holds there.               *)
CallOK(t) ==
    /\ At(t, "idle") <=> result[t] # "none"
    /\ ~At(t, "idle") => call[t].object \in Objects
    /\ call[t].step \in {"walk", "done"} => lockp[List(t)] = t
    /\ At(t, "list") => call[t].unused = NoData
    /\ At(t, "walk") => WalkOK(t)
    /\ call[t].step \in {"done", "save", "mutex"} /\ call[t].why = "ACQUIRE" =>
           call[t].data \in Datas /\ object[call[t].data] = call[t].object
    /\ call[t].step \in {"save", "mutex"} => call[t].why = "ACQUIRE"
    /\ At(t, "mutex") => \E item \in Items(t) : item.data = call[t].data
    /\ At(t, "unlock") => call[t].data \in Datas
    /\ call[t].step \in {"list", "walk", "done", "save"} =>
           allocated[t] = 0 \/ Len(cache[t]) < allocated[t]

FreeOK == \A d \in Datas : owner[d] = NoThread => count[d] = 0

IndInv ==
    /\ TypeOK
    /\ OneDataPerObject
    /\ UsersAreCounted
    /\ MutexMatchesCaches
    /\ CacheHasRoom
    /\ ItemsOK
    /\ UnlistedOK
    /\ FreeOK
    /\ \A t \in Threads : CallOK(t)

(* The caches, lists and mutexes together are one recursive lock per       *)
(* object, and objc_sync_exit fails exactly when the thread is not inside. *)
(* An exit takes effect when it counts down, not when it unlocks: once its *)
(* SyncData serves another object, a third thread may be in the first one  *)
(* with a new SyncData.  From there on its result may only be success.     *)
Abstract ==
    INSTANCE AbstractSync
    WITH depth <- [t \in Threads |-> [o \in Objects |-> Depth(t, o)]],
         result <- [t \in Threads |->
                       IF At(t, "unlock") THEN "success" ELSE result[t]]
ImplementsAbstractSync == Abstract!Spec

(* Whenever the program stops entering, every thread gets out: no thread   *)
(* waits for a mutex or a spinlock that nobody will unlock.                *)
Quiet == <>[][\A t \in Threads : ~Start(t)]_vars
Out == \A t \in Threads : At(t, "idle") /\ Items(t) = {FreeItem}
EverybodyLeaves == Quiet => <>[]Out
====
