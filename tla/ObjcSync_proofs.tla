---- MODULE ObjcSync_proofs ----
(***************************************************************************)
(* Proofs about ObjcSync, for every finite set of threads, every set of    *)
(* objects, lists and SyncDatas, every assignment of objects to lists and  *)
(* every size of a cache.                                                  *)
(*                                                                         *)
(* The inductive invariant is IndInv of ObjcSync. OneDataPerObject alone   *)
(* is not inductive: that a SyncData found unused in the walk may be taken *)
(* needs UsersAreCounted, which says that threadCount zero means no item   *)
(* of any cache refers to it, and WalkOK, which says that what the walk    *)
(* has passed stays passed. That a decrement outside of the spinlock is    *)
(* right needs the items of the caches (ItemsOK), and that the exit always *)
(* succeeds needs their agreement with the mutexes (MutexMatchesCaches).   *)
(*                                                                         *)
(* The refinement maps an exit to the step that counts down, since from    *)
(* there on the SyncData may serve another object, and an enter to the     *)
(* step that locks.                                                        *)
(***************************************************************************)
EXTENDS ObjcSync, FiniteSetTheorems, TLAPS

-----------------------------------------------------------------------------
(* The caches, the lists and their users.                                  *)

(* A cached item is free or has a SyncData and a lockCount.                *)
LEMMA ItemType ==
    ASSUME TypeOK, NEW t \in Threads, NEW item \in Items(t)
    PROVE  /\ item = FreeItem \/ item \in SyncCacheItem
           /\ item.data = NoData <=> item = FreeItem
           /\ item.data # NoData => item.data \in Datas /\ item.lockCount \in Nat \ {0}
<1>1. item = FreeItem \/ item \in SyncCacheItem
  <2>1. fast[t] = FreeItem \/ fast[t] \in SyncCacheItem
    BY DEF TypeOK
  <2>2. \A i \in DOMAIN cache[t] : cache[t][i] \in SyncCacheItem
    BY DEF TypeOK
  <2> QED BY <2>1, <2>2 DEF Items
<1> QED BY <1>1, SyncAssumption DEF SyncCacheItem, FreeItem

(* The users of a SyncData are finitely many, since the threads are.       *)
LEMMA UsersFinite ==
    ASSUME NEW d
    PROVE  IsFiniteSet(Users(d)) /\ Cardinality(Users(d)) \in Nat
  BY SyncAssumption, FS_Subset, FS_CardinalityType DEF Users

(* A SyncData whose threadCount is zero has no user and was found by no    *)
(* stray exit: it may be reused.                                           *)
LEMMA NoUsers ==
    ASSUME IndInv, NEW d \in Datas, threadCount[d] = 0
    PROVE  Users(d) = {} /\ strays[d] = 0
  BY UsersFinite, FS_EmptySet DEF IndInv, UsersAreCounted, TypeOK

(* A SyncData that a thread uses is counted and in a list.                 *)
LEMMA UserCounted ==
    ASSUME IndInv, NEW d \in Datas, NEW t \in Threads, Uses(t, d)
    PROVE  threadCount[d] > 0 /\ d \in Listed
<1>1. t \in Users(d)
  BY DEF Users
<1>2. threadCount[d] # 0
  BY <1>1, NoUsers
<1> QED BY <1>2 DEF IndInv, TypeOK, UnlistedOK

(* What an item of the caches says of its SyncData.                        *)
LEMMA ItemFacts ==
    ASSUME IndInv, NEW t \in Threads, NEW item \in Items(t), item.data # NoData
    PROVE  /\ item \in SyncCacheItem /\ item # FreeItem
           /\ item.data \in Datas /\ item.lockCount \in Nat \ {0}
           /\ Uses(t, item.data)
           /\ threadCount[item.data] > 0
           /\ item.data \in Listed
<1>1. item \in SyncCacheItem /\ item # FreeItem /\ item.data \in Datas /\ item.lockCount \in Nat \ {0}
  BY ItemType DEF IndInv
<1>2. Uses(t, item.data)
  BY DEF Uses
<1> QED BY <1>1, <1>2, UserCounted

(* Two SyncDatas of the lists are never for one object.                    *)
LEMMA OneData ==
    ASSUME IndInv, NEW d \in Listed, NEW e \in Listed, object[d] = object[e]
    PROVE  d = e
<1>1. PICK l \in Lists : \E i \in DOMAIN data[l] : d = data[l][i]
  BY DEF Listed
<1>2. PICK m \in Lists : \E j \in DOMAIN data[m] : e = data[m][j]
  BY DEF Listed
<1>3. l = m
  BY <1>1, <1>2 DEF IndInv, OneDataPerObject
<1> QED BY <1>1, <1>2, <1>3 DEF IndInv, OneDataPerObject

(* A thread has one item for a SyncData.                                   *)
LEMMA OneItem ==
    ASSUME IndInv, NEW t \in Threads, NEW item \in Items(t), NEW other \in Items(t),
           item.data = other.data, item.data # NoData
    PROVE  item = other
<1>1. ASSUME NEW i \in DOMAIN cache[t] PROVE cache[t][i].data # fast[t].data
  BY DEF IndInv, ItemsOK
<1>2. ASSUME NEW i \in DOMAIN cache[t], NEW j \in DOMAIN cache[t], cache[t][i].data = cache[t][j].data
      PROVE i = j
  BY <1>2 DEF IndInv, ItemsOK
<1> QED BY <1>1, <1>2 DEF Items

(* The number of users of a SyncData that gets one more.                   *)
LEMMA UsersGain ==
    ASSUME NEW t \in Threads, NEW d, Users(d)' = Users(d) \cup {t}, t \notin Users(d)
    PROVE  Cardinality(Users(d)') = Cardinality(Users(d)) + 1
  BY UsersFinite, FS_AddElement

(* The number of users of a SyncData that loses one.                       *)
LEMMA UsersLose ==
    ASSUME NEW t \in Threads, NEW d, Users(d)' = Users(d) \ {t}, t \in Users(d)
    PROVE  Cardinality(Users(d)') = Cardinality(Users(d)) - 1
  BY UsersFinite, FS_RemoveElement

-----------------------------------------------------------------------------
(* What keeps the invariant: under the spinlock.                           *)

(* A step of t that leaves the SyncDatas, their lists, the mutexes and the *)
(* cached items alone keeps the invariant, when it keeps the spinlocks of  *)
(* the other threads and leaves t where it may be.                         *)
LEMMA Frame ==
    ASSUME IndInv, TypeOK', NEW t \in Threads,
           UNCHANGED <<data, object, threadCount, strays, owner, count, fast, cache>>,
           \A u \in Threads \ {t} :
               /\ call'[u] = call[u] /\ result'[u] = result[u]
               /\ allocated'[u] = allocated[u]
               /\ call[u].step \in {"walk", "done"} =>
                      lockp'[List(u)] = lockp[List(u)],
           \A d \in Datas :
               /\ Uses(t, d)' <=> Uses(t, d)
               /\ Locking(t, d)' = Locking(t, d)
               /\ Unlocking(t, d)' = Unlocking(t, d),
           call'[t].step \in {"list", "walk", "done", "save"} =>
               \A item \in Items(t) \ {FreeItem} :
                   object[item.data] # call'[t].object,
           Len(cache[t]) <= allocated'[t],
           CallOK(t)'
    PROVE  IndInv'
<1>1. \A u \in Threads : Items(u)' = Items(u)
  BY DEF Items
<1>2. Listed' = Listed
  BY DEF Listed
<1>3. OneDataPerObject'
  BY DEF IndInv, OneDataPerObject
<1>4. UsersAreCounted'
  <2> SUFFICES ASSUME NEW d \in Datas PROVE Users(d)' = Users(d)
    BY DEF IndInv, UsersAreCounted
  <2>1. \A u \in Threads \ {t} : Uses(u, d)' <=> Uses(u, d)
    BY <1>1 DEF Uses, At
  <2> QED BY <2>1 DEF Users
<1>5. MutexMatchesCaches'
  <2>1. ASSUME NEW u \in Threads, NEW d \in Datas
        PROVE  Locking(u, d)' = Locking(u, d) /\ Unlocking(u, d)' = Unlocking(u, d)
    BY DEF Locking, Unlocking, At
  <2>2. ASSUME NEW u \in Threads, NEW d \in Datas
        PROVE Locked(u, d)' = Locked(u, d)
    BY DEF Locked
  <2> QED BY <1>1, <2>1, <2>2 DEF IndInv, MutexMatchesCaches
<1>6. CacheHasRoom'
  BY DEF IndInv, CacheHasRoom
<1>7. ItemsOK'
  BY <1>1 DEF IndInv, ItemsOK, FreeItem
<1>8. UnlistedOK' /\ FreeOK'
  BY <1>2 DEF IndInv, UnlistedOK, FreeOK
<1>9. ASSUME NEW u \in Threads \ {t} PROVE CallOK(u)'
  <2>1. CallOK(u)
    BY DEF IndInv
  <2>2. List(u)' = List(u)
    BY DEF List
  <2>3. WalkOK(u)' <=> WalkOK(u)
    BY <2>2 DEF WalkOK
  <2> QED BY <1>1, <2>1, <2>2, <2>3 DEF CallOK, At
<1> QED BY <1>3, <1>4, <1>5, <1>6, <1>7, <1>8, <1>9 DEF IndInv

(* What a step does to the calls of the threads.                           *)
LEMMA CallStep ==
    ASSUME TypeOK, NEW t \in Threads, NEW r \in Calls, call' = [call EXCEPT ![t] = r]
    PROVE  /\ call' \in [Threads -> Calls] /\ call'[t] = r
           /\ \A u \in Threads \ {t} : call'[u] = call[u]
  BY DEF TypeOK

(* A thread in a call has an object, and a list to look in.                *)
LEMMA ListType ==
    ASSUME IndInv, NEW t \in Threads, call[t].step # "idle"
    PROVE  call[t].object \in Objects /\ List(t) \in Lists
  BY SyncAssumption DEF List, IndInv, CallOK, TypeOK, Calls, At

(* Two threads never walk one list.                                        *)
LEMMA Exclusion ==
    ASSUME IndInv, NEW t \in Threads, NEW u \in Threads, t # u,
           call[t].step \in {"walk", "done"}, call[u].step \in {"walk", "done"}
    PROVE  List(t) # List(u)
  BY DEF IndInv, CallOK

(* Taking the spinlock of a list keeps the invariant.                      *)
LEMMA InvLockList ==
    ASSUME IndInv, NEW t \in Threads, LockList(t)
    PROVE  IndInv'
<1> USE DEF LockList, mutexes, caches, At
<1> DEFINE r == [call[t] EXCEPT !.step = "walk", !.at = 1]
<1>1. call[t] \in Calls /\ r \in Calls /\ call' = [call EXCEPT ![t] = r]
  BY DEF IndInv, TypeOK, Calls, Steps
<1>2. call' \in [Threads -> Calls] /\ call'[t] = r /\ List(t)' = List(t)
  <2>1. call' \in [Threads -> Calls] /\ call'[t] = r
    <3> HIDE DEF r
    <3> QED BY <1>1, CallStep DEF IndInv
  <2> QED BY <1>1, <2>1 DEF List, Calls
<1>3. call[t].object \in Objects /\ List(t) \in Lists
  BY ListType
<1>4. TypeOK'
  BY <1>2 DEF IndInv, TypeOK
<1>5. \A u \in Threads \ {t} : call[u].step \in {"walk", "done"} =>
          lockp'[List(u)] = lockp[List(u)]
  BY <1>3, SyncAssumption DEF IndInv, CallOK, TypeOK
<1>6. \A d \in Datas : /\ Uses(t, d)' <=> Uses(t, d)
                       /\ Locking(t, d)' = Locking(t, d)
                       /\ Unlocking(t, d)' = Unlocking(t, d)
  BY <1>1, <1>2 DEF Uses, Items, Locking, Unlocking, Calls
<1>7. \A item \in Items(t) \ {FreeItem} : object[item.data] # call'[t].object
  BY <1>1, <1>2 DEF IndInv, ItemsOK, Calls
<1>8. CallOK(t)'
  <2>1. call'[t].unused = NoData /\ call'[t].at = 1 /\ call'[t].step = "walk"
    BY <1>1, <1>2 DEF IndInv, CallOK, Calls
  <2>2. lockp'[List(t)'] = t
    BY <1>2, <1>3 DEF IndInv, TypeOK
  <2>3. WalkOK(t)'
    BY <2>1, <1>2, <1>3 DEF WalkOK, IndInv, TypeOK
  <2> QED BY <1>1, <1>2, <2>1, <2>2, <2>3 DEF CallOK, IndInv, Calls
<1> QED BY <1>2, <1>4, <1>5, <1>6, <1>7, <1>8, Frame
        DEF IndInv, TypeOK, CacheHasRoom

(* The walk's place and what it found unused are parts of a call.          *)
LEMMA CallAt ==
    ASSUME NEW c \in Calls, NEW at \in Nat, NEW unused \in Datas \cup {NoData}
    PROVE  [c EXCEPT !.at = at, !.unused = unused] \in Calls
  BY DEF Calls

(* The step over a SyncData of another object keeps the invariant: what    *)
(* was unused is unused still, since nobody else counts under the          *)
(* spinlock.                                                               *)
LEMMA InvNextData ==
    ASSUME IndInv, NEW t \in Threads, NextData(t)
    PROVE  IndInv'
<1> USE DEF NextData, Walking, lists, mutexes, caches, At
<1> DEFINE u == IF call[t].unused = NoData /\ threadCount[Node(t)] = 0
                THEN Node(t) ELSE call[t].unused
           r == [call[t] EXCEPT !.at = call[t].at + 1, !.unused = u]
<1>0. call[t] \in Calls
  BY DEF IndInv, TypeOK
<1>3. call[t].object \in Objects /\ List(t) \in Lists
  BY ListType
<1>3a. WalkOK(t) /\ Node(t) \in Datas /\ data[List(t)] \in Seq(Datas)
  <2>1. WalkOK(t) /\ data[List(t)] \in Seq(Datas)
    BY <1>3 DEF IndInv, CallOK, TypeOK
  <2>2. call[t].at \in 1 .. Len(data[List(t)])
    BY <1>0, <2>1 DEF WalkOK, Calls
  <2> QED BY <2>1, <2>2 DEF Node
<1>1. r \in Calls /\ call' = [call EXCEPT ![t] = r]
  <2>1. r \in Calls
    <3>1. u \in Datas \cup {NoData}
      BY <1>0, <1>3a DEF Calls
    <3>2. call[t].at + 1 \in Nat
      BY <1>0 DEF Calls
    <3> HIDE DEF u
    <3> QED BY <1>0, <3>1, <3>2, CallAt
  <2>2. call' = [call EXCEPT ![t] = r]
    BY DEF IndInv, TypeOK
  <2> QED BY <2>1, <2>2
<1>2. call' \in [Threads -> Calls] /\ call'[t] = r /\ List(t)' = List(t)
  <2>1. call' \in [Threads -> Calls] /\ call'[t] = r
    <3> HIDE DEF r
    <3> QED BY <1>1, CallStep DEF IndInv
  <2> QED BY <1>0, <1>1, <2>1 DEF List, Calls
<1>4. TypeOK'
  BY <1>2 DEF IndInv, TypeOK
<1>6. \A d \in Datas : /\ Uses(t, d)' <=> Uses(t, d)
                       /\ Locking(t, d)' = Locking(t, d)
                       /\ Unlocking(t, d)' = Unlocking(t, d)
  BY <1>0, <1>1, <1>2 DEF Uses, Items, Locking, Unlocking, Calls
<1>7. \A item \in Items(t) \ {FreeItem} : object[item.data] # call'[t].object
  BY <1>0, <1>1, <1>2 DEF IndInv, ItemsOK, Calls
<1>8. CallOK(t)'
  <2>1. /\ call'[t].at = call[t].at + 1 /\ call'[t].step = "walk"
        /\ call'[t].object = call[t].object
        /\ call'[t].unused = IF call[t].unused = NoData /\ threadCount[Node(t)] = 0
                             THEN Node(t) ELSE call[t].unused
    BY <1>0, <1>2 DEF Calls
  <2>3. WalkOK(t)'
    <3> HIDE DEF r
    <3>1. call'[t].at \in 1 .. Len(data[List(t)]) + 1 /\ call[t].at \in DOMAIN data[List(t)]
      BY <2>1, <1>3a, <1>0 DEF WalkOK, Calls
    <3>2. \A i \in 1 .. call'[t].at - 1 : object[data[List(t)][i]] # call[t].object
      BY <2>1, <1>3a, <1>0 DEF WalkOK, Calls, Node
    <3>3. call'[t].unused # NoData =>
             /\ threadCount[call'[t].unused] = 0
             /\ \E i \in DOMAIN data[List(t)] : data[List(t)][i] = call'[t].unused
      BY <2>1, <1>3a, <3>1 DEF WalkOK, Node
    <3> QED BY <1>2, <2>1, <3>1, <3>2, <3>3 DEF WalkOK
  <2> QED BY <1>0, <1>1, <1>2, <2>1, <2>3 DEF CallOK, IndInv, Calls
<1> QED BY <1>2, <1>4, <1>6, <1>7, <1>8, Frame
        DEF IndInv, TypeOK, CacheHasRoom

(* An exit that finds no SyncData keeps the invariant.                     *)
LEMMA InvReleaseNotFound ==
    ASSUME IndInv, NEW t \in Threads, ReleaseNotFound(t)
    PROVE  IndInv'
<1> USE DEF ReleaseNotFound, Walked, lists, mutexes, caches, At, Found
<1> DEFINE r == [call[t] EXCEPT !.step = "done", !.data = NoData]
<1>1. call[t] \in Calls /\ r \in Calls /\ call' = [call EXCEPT ![t] = r]
  BY DEF IndInv, TypeOK, Calls, Steps
<1>2. call' \in [Threads -> Calls] /\ call'[t] = r /\ List(t)' = List(t)
  <2>1. call' \in [Threads -> Calls] /\ call'[t] = r
    <3> HIDE DEF r
    <3> QED BY <1>1, CallStep DEF IndInv
  <2> QED BY <1>1, <2>1 DEF List, Calls
<1>4. TypeOK'
  BY <1>2 DEF IndInv, TypeOK
<1>6. \A d \in Datas : /\ Uses(t, d)' <=> Uses(t, d)
                       /\ Locking(t, d)' = Locking(t, d)
                       /\ Unlocking(t, d)' = Unlocking(t, d)
  BY <1>1, <1>2 DEF Uses, Items, Locking, Unlocking, Calls
<1>7. \A item \in Items(t) \ {FreeItem} : object[item.data] # call'[t].object
  BY <1>1, <1>2 DEF IndInv, ItemsOK, Calls
<1>8. CallOK(t)'
  <2>1. call'[t].step = "done" /\ call'[t].object = call[t].object
        /\ call'[t].why = "RELEASE"
    BY <1>1, <1>2 DEF Calls
  <2> QED BY <1>1, <1>2, <2>1 DEF CallOK, IndInv
<1> QED BY <1>2, <1>4, <1>6, <1>7, <1>8, Frame
        DEF IndInv, TypeOK, CacheHasRoom

(* Unlocking the list keeps the invariant.                                 *)
LEMMA InvUnlockList ==
    ASSUME IndInv, NEW t \in Threads, UnlockList(t)
    PROVE  IndInv'
<1> USE DEF UnlockList, mutexes, caches, At
<1> DEFINE r == IF call[t].why = "RELEASE" THEN Idle
                ELSE [call[t] EXCEPT !.step = "save"]
<1>1. call[t] \in Calls /\ r \in Calls /\ call' = [call EXCEPT ![t] = r]
  BY DEF IndInv, TypeOK, Calls, Steps, Return, Goto, Idle
<1>2. call' \in [Threads -> Calls] /\ call'[t] = r
  BY <1>1, CallStep DEF IndInv
<1>3. call[t].object \in Objects /\ List(t) \in Lists
  BY ListType
<1>3a. call[t].why = "RELEASE" \/ call[t].why = "ACQUIRE"
  BY <1>1 DEF Calls
<1>4. TypeOK'
  BY <1>2 DEF IndInv, TypeOK, Return
<1>5. \A u \in Threads \ {t} : call[u].step \in {"walk", "done"} =>
          lockp'[List(u)] = lockp[List(u)]
  BY <1>3, Exclusion DEF IndInv, CallOK, TypeOK
<1>6. \A d \in Datas : /\ Uses(t, d)' <=> Uses(t, d)
                       /\ Locking(t, d)' = Locking(t, d)
                       /\ Unlocking(t, d)' = Unlocking(t, d)
  BY <1>1, <1>2, <1>3a DEF Uses, Items, Locking, Unlocking, Calls, Idle
<1>7. call'[t].step = "save" => \A item \in Items(t) \ {FreeItem} : object[item.data] # call'[t].object
  BY <1>1, <1>2 DEF IndInv, ItemsOK, Calls, Idle
<1>8. CallOK(t)'
  <2>1. CASE call[t].why = "RELEASE"
    BY <1>2, <2>1 DEF CallOK, IndInv, Idle, TypeOK, Return
  <2>2. CASE call[t].why = "ACQUIRE"
    <3>1. call'[t].step = "save" /\ call'[t].object = call[t].object
          /\ call'[t].why = "ACQUIRE" /\ call'[t].data = call[t].data
      BY <1>1, <1>2, <2>2 DEF Calls
    <3> QED BY <1>1, <1>2, <2>2, <3>1 DEF CallOK, IndInv
  <2> QED BY <1>3a, <2>1, <2>2
<1>9. call'[t].step \in {"save", "idle"}
  BY <1>1, <1>2 DEF Calls, Idle
<1>10. \A u \in Threads \ {t} : result'[u] = result[u]
  BY DEF Return, IndInv, TypeOK
<1> QED BY <1>2, <1>4, <1>5, <1>6, <1>7, <1>8, <1>9, <1>10, CallStep, <1>1, Frame
        DEF IndInv, TypeOK, CacheHasRoom

(* The end of a walk that gives t the SyncData d keeps the invariant: d is *)
(* counted once more for t, and is t's object's already, or was nobody's.  *)
LEMMA Taken ==
    ASSUME IndInv, TypeOK', NEW t \in Threads, At(t, "walk"), NEW d \in Datas,
           UNCHANGED <<lockp, owner, count, fast, cache, allocated, result>>,
           \A u \in Threads \ {t} : call'[u] = call[u],
           call'[t].step = "done", call'[t].data = d,
           call'[t].why = call[t].why, call'[t].object = call[t].object,
           object'[d] = call[t].object,
           object'[d] = object[d] \/ threadCount[d] = 0,
           \A e \in Datas \ {d} : /\ object'[e] = object[e]
                                  /\ threadCount'[e] = threadCount[e]
                                  /\ strays'[e] = strays[e],
           threadCount'[d] + strays[d] =
               threadCount[d] + strays'[d] + One(call[t].why = "ACQUIRE"),
           OneDataPerObject', Listed' = Listed \cup {d},
           \A l \in Lists \ {List(t)} :
               data'[l] = data[l] /\ \A i \in DOMAIN data[l] : data[l][i] # d
    PROVE  IndInv'
<1> USE DEF At
<1>1. \A u \in Threads : Items(u)' = Items(u)
  BY DEF Items
<1>2. ASSUME NEW u \in Threads, NEW e \in Datas, Uses(u, e)
      PROVE  object'[e] = object[e]
  BY UserCounted, <1>2 DEF IndInv, TypeOK
<1>3. ASSUME NEW u \in Threads, NEW item \in Items(u), item # FreeItem
      PROVE  object'[item.data] = object[item.data]
  BY <1>2, <1>3, ItemType, ItemFacts DEF IndInv
<1>4. ~Uses(t, d)
  <2> SUFFICES ASSUME Uses(t, d) PROVE FALSE
    OBVIOUS
  <2>1. PICK item \in Items(t) : item.data = d
    BY DEF Uses
  <2>2. item # FreeItem
    BY <2>1, SyncAssumption DEF FreeItem
  <2>3. object[item.data] # call[t].object
    BY <2>2 DEF IndInv, ItemsOK
  <2> QED BY <2>1, <2>3, <1>2
<1>5. UsersAreCounted'
  <2>1. ASSUME NEW u \in Threads \ {t}, NEW e \in Datas PROVE Uses(u, e)' <=> Uses(u, e)
    BY <1>1 DEF Uses
  <2>2. ASSUME NEW e \in Datas PROVE Uses(t, e)' <=> Uses(t, e) \/ (e = d /\ call[t].why = "ACQUIRE")
    BY <1>1 DEF Uses
  <2>3. ASSUME NEW e \in Datas \ {d} PROVE Users(e)' = Users(e)
    BY <2>1, <2>2 DEF Users
  <2>4. threadCount'[d] = Cardinality(Users(d)') + strays'[d]
    <3>0. threadCount[d] = Cardinality(Users(d)) + strays[d]
      BY DEF IndInv, UsersAreCounted
    <3>1. threadCount[d] \in Nat /\ strays[d] \in Nat /\ threadCount'[d] \in Nat /\ strays'[d] \in Nat
          /\ Cardinality(Users(d)) \in Nat
      BY UsersFinite DEF IndInv, TypeOK
    <3>2. CASE call[t].why = "ACQUIRE"
      <4>1. Users(d)' = Users(d) \cup {t} /\ t \notin Users(d)
        BY <1>4, <2>1, <2>2, <3>2 DEF Users
      <4>2. Cardinality(Users(d)') = Cardinality(Users(d)) + 1
        BY <4>1, UsersGain
      <4> QED BY <3>0, <3>1, <3>2, <4>2 DEF One
    <3>3. CASE call[t].why # "ACQUIRE"
      <4>1. Users(d)' = Users(d)
        BY <1>4, <2>1, <2>2, <3>3 DEF Users
      <4> QED BY <3>0, <3>1, <3>3, <4>1 DEF One
    <3> QED BY <3>2, <3>3
  <2> QED BY <2>3, <2>4 DEF IndInv, UsersAreCounted
<1>6. MutexMatchesCaches'
  <2>1. ASSUME NEW u \in Threads, NEW e \in Datas
        PROVE  Locking(u, e)' = Locking(u, e) /\ Unlocking(u, e)' = Unlocking(u, e)
    BY DEF Locking, Unlocking
  <2>2. ASSUME NEW u \in Threads, NEW e \in Datas
        PROVE Locked(u, e)' = Locked(u, e)
    BY DEF Locked
  <2> QED BY <1>1, <2>1, <2>2 DEF IndInv, MutexMatchesCaches
<1>7. ItemsOK'
  BY <1>1, <1>3 DEF IndInv, ItemsOK, FreeItem
<1>8. UnlistedOK' /\ FreeOK' /\ CacheHasRoom'
  BY DEF IndInv, UnlistedOK, FreeOK, CacheHasRoom
<1>9. CallOK(t)'
  BY DEF IndInv, CallOK, List
<1>10. ASSUME NEW u \in Threads \ {t} PROVE CallOK(u)'
  <2>0. CallOK(u)
    BY DEF IndInv
  <2>1. List(u)' = List(u)
    BY DEF List
  <2>2. ASSUME call[u].step = "walk" PROVE WalkOK(u)'
    <3>1. List(u) \in Lists \ {List(t)}
      BY <2>2, Exclusion, ListType
    <3>2. data'[List(u)] = data[List(u)] /\ \A i \in DOMAIN data[List(u)] : data[List(u)][i] \in Datas \ {d}
      BY <3>1 DEF IndInv, TypeOK
    <3>3. WalkOK(u)
      BY <2>0, <2>2 DEF CallOK
    <3>4. call[u].at \in 1 .. Len(data[List(u)]) + 1
      BY <3>3 DEF WalkOK
    <3>5. \A i \in 1 .. call[u].at - 1 : i \in DOMAIN data[List(u)]
      BY <3>1, <3>4 DEF IndInv, TypeOK
    <3>6. call[u].unused # NoData => call[u].unused \in Datas \ {d}
      BY <3>2, <3>3 DEF WalkOK
    <3> QED BY <2>1, <3>2, <3>3, <3>5, <3>6 DEF WalkOK
  <2>3. ASSUME call[u].step \in {"done", "save", "mutex"}, call[u].why = "ACQUIRE"
        PROVE  object'[call[u].data] = object[call[u].data]
    <3>1. call[u].data \in Datas
      BY <2>0, <2>3 DEF CallOK
    <3>2. Uses(u, call[u].data)
      BY <2>0, <2>3 DEF CallOK, Uses
    <3> QED BY <1>2, <3>1, <3>2
  <2> QED BY <1>1, <2>0, <2>1, <2>2, <2>3 DEF CallOK
<1> QED BY <1>5, <1>6, <1>7, <1>8, <1>9, <1>10 DEF IndInv

(* What Found does to the calls of the threads.                            *)
LEMMA FoundCall ==
    ASSUME TypeOK, NEW t \in Threads, NEW d \in Datas, Found(t, d)
    PROVE  /\ call' \in [Threads -> Calls]
           /\ \A u \in Threads \ {t} : call'[u] = call[u]
           /\ call'[t].step = "done" /\ call'[t].data = d
           /\ call'[t].why = call[t].why /\ call'[t].object = call[t].object
<1> DEFINE r == [call[t] EXCEPT !.step = "done", !.data = d]
<1>1. call[t] \in Calls /\ r \in Calls /\ call' = [call EXCEPT ![t] = r]
  BY DEF TypeOK, Calls, Steps, Found
<1>2. call' \in [Threads -> Calls] /\ call'[t] = r
      /\ \A u \in Threads \ {t} : call'[u] = call[u]
  <2> HIDE DEF r
  <2> QED BY <1>1, CallStep
<1> QED BY <1>1, <1>2 DEF Calls

(* A SyncData of a list is in no other list.                               *)
LEMMA InList ==
    ASSUME IndInv, NEW l \in Lists, NEW i \in DOMAIN data[l]
    PROVE  /\ data[l][i] \in Datas /\ data[l][i] \in Listed
           /\ \A m \in Lists \ {l} : \A j \in DOMAIN data[m] : data[m][j] # data[l][i]
<1>1. data[l][i] \in Datas
  BY DEF IndInv, TypeOK
<1>2. data[l][i] \in Listed
  BY DEF Listed
<1>3. ASSUME NEW m \in Lists \ {l}, NEW j \in DOMAIN data[m], data[m][j] = data[l][i]
      PROVE  FALSE
  <2>1. ListOf[object[data[l][i]]] = l /\ ListOf[object[data[m][j]]] = m
    BY DEF IndInv, OneDataPerObject
  <2> QED BY <1>3, <2>1
<1> QED BY <1>1, <1>2, <1>3

(* Counting a match keeps the invariant, for an enter and for an exit that *)
(* no cache knows of.                                                      *)
LEMMA InvFoundData ==
    ASSUME IndInv, NEW t \in Threads, FoundData(t)
    PROVE  IndInv'
<1> DEFINE l == List(t) d == Node(t)
<1>0. At(t, "walk") /\ call[t].step # "idle"
  BY DEF FoundData, Walking, At
<1>1. l \in Lists /\ call[t].at \in DOMAIN data[l]
  <2>1. l \in Lists /\ WalkOK(t) /\ data[l] \in Seq(Datas)
    BY <1>0, ListType DEF IndInv, CallOK, TypeOK
  <2> QED BY <2>1 DEF WalkOK, FoundData, Walking
<1>2. /\ d \in Datas /\ d \in Listed
      /\ \A m \in Lists \ {l} : \A j \in DOMAIN data[m] : data[m][j] # d
  BY <1>1, InList DEF Node
<1>3. object[d] = call[t].object
  BY DEF FoundData
<1> HIDE DEF d
<1>4. Found(t, d)
  BY DEF FoundData, d
<1>5. TypeOK'
  <2>1. call' \in [Threads -> Calls]
    BY <1>2, <1>4, FoundCall DEF IndInv
  <2>2. threadCount' \in [Datas -> Nat] /\ strays' \in [Datas -> Nat]
    BY <1>2 DEF FoundData, IndInv, TypeOK, d
  <2> QED BY <2>1, <2>2 DEF FoundData, IndInv, TypeOK, mutexes, caches
<1>6. threadCount'[d] + strays[d] =
          threadCount[d] + strays'[d] + One(call[t].why = "ACQUIRE")
  <2>1. call[t].why \in {"ACQUIRE", "RELEASE"}
    BY DEF IndInv, TypeOK, Calls
  <2>2. threadCount[d] \in Nat /\ strays[d] \in Nat
    BY <1>2 DEF IndInv, TypeOK
  <2>3. threadCount'[d] = threadCount[d] + 1
    BY <1>2 DEF IndInv, TypeOK, FoundData, d
  <2>4. strays'[d] = IF call[t].why = "RELEASE" THEN strays[d] + 1 ELSE strays[d]
    BY <1>2 DEF IndInv, TypeOK, FoundData, d
  <2> QED BY <2>1, <2>2, <2>3, <2>4 DEF One
<1>7. OneDataPerObject' /\ Listed' = Listed
  BY DEF FoundData, IndInv, OneDataPerObject, Listed
<1>8. \A e \in Datas \ {d} : /\ object'[e] = object[e]
                             /\ threadCount'[e] = threadCount[e]
                             /\ strays'[e] = strays[e]
  BY DEF FoundData, IndInv, TypeOK, d
<1>9. UNCHANGED <<data, object, lockp, owner, count, fast, cache, allocated, result>>
  BY DEF FoundData, mutexes, caches
<1> HIDE DEF l
<1> QED BY <1>0, <1>2, <1>3, <1>4, <1>5, <1>6, <1>7, <1>8, <1>9, FoundCall, Taken DEF IndInv, l

(* Giving an unused SyncData to another object keeps the invariant: no     *)
(* cache and no call refers to it, and the list has no other SyncData for  *)
(* the object.                                                             *)
LEMMA InvReuseData ==
    ASSUME IndInv, NEW t \in Threads, ReuseData(t)
    PROVE  IndInv'
<1> DEFINE l == List(t) d == call[t].unused
<1>0. At(t, "walk") /\ call[t].step # "idle"
  BY DEF ReuseData, Walked, At
<1>1. l \in Lists /\ call[t].object \in Objects /\ WalkOK(t) /\ data[l] \in Seq(Datas)
      /\ ListOf[call[t].object] = l
  BY <1>0, ListType DEF IndInv, CallOK, TypeOK, List
<1>2. PICK i \in DOMAIN data[l] : data[l][i] = d
  BY <1>1 DEF WalkOK, ReuseData
<1>2a. threadCount[d] = 0
  BY <1>1 DEF WalkOK, ReuseData
<1>3. /\ d \in Datas /\ d \in Listed
      /\ \A m \in Lists \ {l} : \A j \in DOMAIN data[m] : data[m][j] # d
  BY <1>1, <1>2, InList
<1>3a. \A j \in DOMAIN data[l] : object[data[l][j]] # call[t].object
  <2>1. Len(data[l]) \in Nat /\ call[t].at = Len(data[l]) + 1
    BY <1>1 DEF WalkOK, ReuseData, Walked
  <2> QED BY <2>1, <1>1 DEF WalkOK
<1>4. Found(t, d)
  BY DEF ReuseData
<1> HIDE DEF d
<1>5. TypeOK'
  <2>1. call' \in [Threads -> Calls]
    BY <1>3, <1>4, FoundCall DEF IndInv
  <2>2. threadCount' \in [Datas -> Nat] /\ object' \in [Datas -> Objects \cup {NoObject}]
    BY <1>3, <1>1 DEF ReuseData, IndInv, TypeOK, d
  <2> QED BY <2>1, <2>2 DEF ReuseData, IndInv, TypeOK, mutexes, caches
<1>6. threadCount'[d] + strays[d] =
          threadCount[d] + strays'[d] + One(call[t].why = "ACQUIRE")
  <2>1. strays[d] = 0 /\ strays'[d] = 0
    BY <1>2a, <1>3, NoUsers DEF ReuseData
  <2>2. threadCount'[d] = 1
    BY <1>3 DEF IndInv, TypeOK, ReuseData, d
  <2> QED BY <2>1, <2>2, <1>2a DEF One, ReuseData
<1>7. object'[d] = call[t].object /\ \A e \in Datas \ {d} : object'[e] = object[e]
  BY <1>3 DEF ReuseData, IndInv, TypeOK, d
<1>8. \A e \in Datas \ {d} : /\ threadCount'[e] = threadCount[e]
                             /\ strays'[e] = strays[e]
  BY DEF ReuseData, IndInv, TypeOK, d
<1>9. UNCHANGED <<data, lockp, owner, count, fast, cache, allocated, result>>
  BY DEF ReuseData, mutexes, caches
<1>10. OneDataPerObject'
  <2>1. ASSUME NEW m \in Lists, NEW j \in DOMAIN data[m] PROVE ListOf[object'[data[m][j]]] = m
    <3>1. CASE data[m][j] = d
      BY <1>1, <1>3, <1>7, <3>1
    <3>2. CASE data[m][j] # d
      BY <1>7, <3>2, InList DEF IndInv, OneDataPerObject
    <3> QED BY <3>1, <3>2
  <2>2. ASSUME NEW m \in Lists, NEW j \in DOMAIN data[m], NEW k \in DOMAIN data[m],
               object'[data[m][j]] = object'[data[m][k]]
        PROVE  j = k
    <3>1. data[m][j] \in Datas /\ data[m][k] \in Datas
      BY InList
    <3>2. CASE data[m][j] = d /\ data[m][k] = d
      BY <3>2 DEF IndInv, OneDataPerObject
    <3>3. CASE data[m][j] = d /\ data[m][k] # d
      BY <1>3, <1>3a, <1>7, <2>2, <3>1, <3>3
    <3>4. CASE data[m][j] # d /\ data[m][k] = d
      BY <1>3, <1>3a, <1>7, <2>2, <3>1, <3>4
    <3>5. CASE data[m][j] # d /\ data[m][k] # d
      BY <1>7, <2>2, <3>1, <3>5 DEF IndInv, OneDataPerObject
    <3> QED BY <3>2, <3>3, <3>4, <3>5
  <2> QED BY <1>9, <2>1, <2>2 DEF OneDataPerObject
<1>11. Listed' = Listed
  BY <1>9 DEF Listed
<1> HIDE DEF l
<1> QED BY <1>0, <1>2a, <1>3, <1>4, <1>5, <1>6, <1>7, <1>8, <1>9, <1>10, <1>11, FoundCall, Taken DEF IndInv, l

(* Making a SyncData keeps the invariant: the walk has seen the whole      *)
(* list, which nobody else changes before it is added.                     *)
LEMMA InvAllocateData ==
    ASSUME IndInv, NEW t \in Threads, AllocateData(t)
    PROVE  IndInv'
<1> DEFINE l == List(t)
<1>0. At(t, "walk") /\ call[t].step # "idle"
  BY DEF AllocateData, Walked, At
<1>1. l \in Lists /\ call[t].object \in Objects /\ WalkOK(t) /\ data[l] \in Seq(Datas)
      /\ ListOf[call[t].object] = l
  BY <1>0, ListType DEF IndInv, CallOK, TypeOK, List
<1>2. PICK d \in Datas \ Listed :
          /\ object' = [object EXCEPT ![d] = call[t].object]
          /\ threadCount' = [threadCount EXCEPT ![d] = 1]
          /\ data' = [data EXCEPT ![l] = <<d>> \o @]
          /\ Found(t, d)
  BY DEF AllocateData
<1>2a. threadCount[d] = 0
  BY DEF IndInv, UnlistedOK
<1>3. \A m \in Lists : \A j \in DOMAIN data[m] : data[m][j] # d
  BY <1>2 DEF Listed
<1>3a. \A j \in DOMAIN data[l] : object[data[l][j]] # call[t].object
  <2>1. Len(data[l]) \in Nat /\ call[t].at = Len(data[l]) + 1
    BY <1>1 DEF WalkOK, AllocateData, Walked
  <2> QED BY <2>1, <1>1 DEF WalkOK
<1>4. /\ data'[l] \in Seq(Datas) /\ DOMAIN data'[l] = 1 .. Len(data[l]) + 1
      /\ data'[l][1] = d
      /\ \A j \in DOMAIN data'[l] \ {1} :
             j - 1 \in DOMAIN data[l] /\ data'[l][j] = data[l][j - 1]
      /\ \A j \in DOMAIN data[l] :
             j + 1 \in DOMAIN data'[l] /\ data'[l][j + 1] = data[l][j]
      /\ \A m \in Lists \ {l} : data'[m] = data[m]
  <2>1. data'[l] = <<d>> \o data[l] /\ \A m \in Lists \ {l} : data'[m] = data[m]
    BY <1>1, <1>2 DEF IndInv, TypeOK
  <2> QED BY <1>1, <2>1
<1>5. TypeOK'
  <2>1. call' \in [Threads -> Calls]
    BY <1>2, FoundCall DEF IndInv
  <2>2. threadCount' \in [Datas -> Nat] /\ object' \in [Datas -> Objects \cup {NoObject}]
    BY <1>2, <1>1 DEF IndInv, TypeOK
  <2>3. data' \in [Lists -> Seq(Datas)]
    BY <1>1, <1>2, <1>4 DEF IndInv, TypeOK
  <2> QED BY <2>1, <2>2, <2>3 DEF AllocateData, IndInv, TypeOK, mutexes, caches
<1>6. threadCount'[d] + strays[d] =
          threadCount[d] + strays'[d] + One(call[t].why = "ACQUIRE")
  <2>1. strays[d] = 0 /\ strays'[d] = 0
    BY <1>2a, <1>2, NoUsers DEF AllocateData
  <2>2. threadCount'[d] = 1
    BY <1>2 DEF IndInv, TypeOK
  <2> QED BY <2>1, <2>2, <1>2a DEF One, AllocateData
<1>7. object'[d] = call[t].object /\ \A e \in Datas \ {d} : object'[e] = object[e]
  BY <1>2 DEF IndInv, TypeOK
<1>8. \A e \in Datas \ {d} : /\ threadCount'[e] = threadCount[e]
                             /\ strays'[e] = strays[e]
  BY <1>2 DEF AllocateData, IndInv, TypeOK
<1>9. UNCHANGED <<lockp, owner, count, fast, cache, allocated, result>>
  BY DEF AllocateData, mutexes, caches
<1>10. OneDataPerObject'
  <2>1. ASSUME NEW m \in Lists, NEW j \in DOMAIN data'[m]
        PROVE  ListOf[object'[data'[m][j]]] = m
    <3>1. CASE m # l
      BY <1>3, <1>4, <1>7, <3>1, InList DEF IndInv, OneDataPerObject
    <3>2. CASE m = l /\ j = 1
      BY <1>1, <1>4, <1>7, <3>2
    <3>3. CASE m = l /\ j # 1
      BY <1>3, <1>4, <1>7, <3>3, InList DEF IndInv, OneDataPerObject
    <3> QED BY <3>1, <3>2, <3>3
  <2>2. ASSUME NEW m \in Lists, NEW j \in DOMAIN data'[m], NEW k \in DOMAIN data'[m],
               object'[data'[m][j]] = object'[data'[m][k]]
        PROVE  j = k
    <3>1. CASE m # l
      <4>1. j \in DOMAIN data[m] /\ k \in DOMAIN data[m] /\ data'[m] = data[m]
        BY <1>4, <3>1
      <4>2. data[m][j] \in Datas \ {d} /\ data[m][k] \in Datas \ {d}
        BY <1>3, <4>1, InList
      <4>3. object[data[m][j]] = object[data[m][k]]
        BY <1>7, <2>2, <4>1, <4>2
      <4> QED BY <4>1, <4>3 DEF IndInv, OneDataPerObject
    <3>2. CASE m = l
      <4>1. CASE j = 1 /\ k = 1
        BY <4>1
      <4>2. CASE j = 1 /\ k # 1
        BY <1>3, <1>3a, <1>4, <1>7, <2>2, <3>2, <4>2, InList
      <4>3. CASE j # 1 /\ k = 1
        <5>1. data'[l][k] = d /\ j - 1 \in DOMAIN data[l] /\ data'[l][j] = data[l][j - 1]
          BY <1>4, <3>2, <4>3
        <5>2. data[l][j - 1] \in Datas \ {d}
          BY <1>1, <1>3, <5>1, InList
        <5> QED BY <1>3a, <1>7, <2>2, <3>2, <5>1, <5>2
      <4>4. CASE j # 1 /\ k # 1
        <5>0. /\ j - 1 \in DOMAIN data[l] /\ data'[l][j] = data[l][j - 1]
              /\ k - 1 \in DOMAIN data[l] /\ data'[l][k] = data[l][k - 1]
          BY <1>4, <3>2, <4>4
        <5>0a. data[l][j - 1] \in Datas \ {d} /\ data[l][k - 1] \in Datas \ {d}
          BY <1>1, <1>3, <5>0, InList
        <5>0b. object[data[l][j - 1]] = object[data[l][k - 1]]
          BY <1>7, <2>2, <3>2, <5>0, <5>0a
        <5>1. j - 1 = k - 1
          BY <1>1, <5>0, <5>0b DEF IndInv, OneDataPerObject
        <5>2. j \in Nat /\ k \in Nat
          BY <1>1, <1>4, <3>2
        <5> QED BY <5>1, <5>2
      <4> QED BY <4>1, <4>2, <4>3, <4>4
    <3> QED BY <3>1, <3>2
  <2> QED BY <2>1, <2>2 DEF OneDataPerObject
<1>11. Listed' = Listed \cup {d}
  <2>1. \A m \in Lists \ {l} : {data'[m][i] : i \in DOMAIN data'[m]} = {data[m][i] : i \in DOMAIN data[m]}
    BY <1>4
  <2>2. {data'[l][i] : i \in DOMAIN data'[l]} = {data[l][i] : i \in DOMAIN data[l]} \cup {d}
    <3>1. 1 \in DOMAIN data'[l]
      BY <1>1, <1>4
    <3> QED BY <1>4, <3>1
  <2>3. DEFINE Elements(q) == {q[i] : i \in DOMAIN q}
  <2>4. /\ \A m \in Lists \ {l} : Elements(data'[m]) = Elements(data[m])
        /\ Elements(data'[l]) = Elements(data[l]) \cup {d}
    BY <2>1, <2>2
  <2>5. /\ Listed = UNION {Elements(data[m]) : m \in Lists}
        /\ Listed' = UNION {Elements(data'[m]) : m \in Lists}
    BY DEF Listed
  <2> HIDE DEF Elements
  <2> QED BY <1>1, <2>4, <2>5
<1> HIDE DEF l
<1> QED BY <1>0, <1>2a, <1>2, <1>3, <1>4, <1>5, <1>6, <1>7, <1>8, <1>9, <1>10, <1>11, FoundCall, Taken DEF IndInv, l

-----------------------------------------------------------------------------
(* The caches.                                                             *)

(* A step of t on its own caches keeps the invariant, when it changes only *)
(* what they say of d, agrees there with the mutex of d, and counts t out  *)
(* of d when no item is left.                                              *)
LEMMA Cached ==
    ASSUME IndInv, TypeOK', NEW t \in Threads, NEW d \in Datas,
           UNCHANGED <<data, lockp, object, owner, count, strays>>,
           \A u \in Threads \ {t} :
               /\ call'[u] = call[u] /\ result'[u] = result[u]
               /\ fast'[u] = fast[u] /\ cache'[u] = cache[u]
               /\ allocated'[u] = allocated[u],
           \A e \in Datas \ {d} :
               /\ threadCount'[e] = threadCount[e]
               /\ Uses(t, e)' <=> Uses(t, e)
               /\ Locking(t, e)' = Locking(t, e)
               /\ Unlocking(t, e)' = Unlocking(t, e)
               /\ \A item : item.data = e => (item \in Items(t)' <=> item \in Items(t)),
           Uses(t, d),
           threadCount'[d] = IF Uses(t, d)' THEN threadCount[d] ELSE threadCount[d] - 1,
           \A item \in Items(t)' :
               item.data = d =>
                   item.lockCount + Unlocking(t, d)' = Locked(t, d) + Locking(t, d)',
           (\A item \in Items(t)' : item.data # d) => Unlocking(t, d)' = Locked(t, d),
           \A i \in DOMAIN cache'[t] : cache'[t][i].data # fast'[t].data,
           \A i, j \in DOMAIN cache'[t] :
               cache'[t][i].data = cache'[t][j].data => i = j,
           call'[t].step \notin {"list", "walk", "done", "save"},
           Len(cache'[t]) <= allocated'[t],
           CallOK(t)'
    PROVE  IndInv'
<1> USE DEF At
<1>1. \A u \in Threads \ {t} : Items(u)' = Items(u)
  BY DEF Items
<1>2. d \in Listed /\ threadCount[d] \in Nat \ {0}
  BY UserCounted DEF IndInv, TypeOK
<1>3. Listed' = Listed
  BY DEF Listed
<1>4. OneDataPerObject'
  BY DEF IndInv, OneDataPerObject
<1>5. UsersAreCounted'
  <2>1. ASSUME NEW u \in Threads \ {t}, NEW e \in Datas PROVE Uses(u, e)' <=> Uses(u, e)
    BY <1>1 DEF Uses
  <2>2. ASSUME NEW e \in Datas \ {d} PROVE Users(e)' = Users(e)
    BY <2>1 DEF Users
  <2>3. threadCount[d] = Cardinality(Users(d)) + strays[d]
    BY DEF IndInv, UsersAreCounted
  <2>4. strays[d] \in Nat /\ Cardinality(Users(d)) \in Nat
    BY UsersFinite DEF IndInv, TypeOK
  <2>5. CASE Uses(t, d)'
    <3>1. Users(d)' = Users(d)
      BY <2>1, <2>5 DEF Users
    <3> QED BY <2>2, <2>3, <2>5, <3>1 DEF IndInv, UsersAreCounted
  <2>6. CASE ~Uses(t, d)'
    <3>1. Users(d)' = Users(d) \ {t} /\ t \in Users(d)
      BY <2>1, <2>6 DEF Users
    <3>2. Cardinality(Users(d)') = Cardinality(Users(d)) - 1
      BY <3>1, UsersLose
    <3>3. threadCount'[d] = Cardinality(Users(d)') + strays'[d]
      BY <2>3, <2>4, <2>6, <3>2
    <3> QED BY <2>2, <3>3 DEF IndInv, UsersAreCounted
  <2> QED BY <2>5, <2>6
<1>6. MutexMatchesCaches'
  <2>1. ASSUME NEW u \in Threads, NEW e \in Datas
        PROVE Locked(u, e)' = Locked(u, e)
    BY DEF Locked
  <2>2. ASSUME NEW u \in Threads \ {t}, NEW e \in Datas
        PROVE  Locking(u, e)' = Locking(u, e) /\ Unlocking(u, e)' = Unlocking(u, e)
    BY DEF Locking, Unlocking
  <2>3. ASSUME NEW u \in Threads \ {t}, NEW e \in Datas
        PROVE  /\ \A item \in Items(u)' :
                    item.data = e =>
                        item.lockCount + Unlocking(u, e)' = Locked(u, e)' + Locking(u, e)'
               /\ (\A item \in Items(u)' : item.data # e) =>
                        Unlocking(u, e)' = Locked(u, e)'
    BY <1>1, <2>1, <2>2 DEF IndInv, MutexMatchesCaches
  <2>4. ASSUME NEW e \in Datas \ {d}
        PROVE  /\ \A item \in Items(t)' :
                    item.data = e =>
                        item.lockCount + Unlocking(t, e)' = Locked(t, e)' + Locking(t, e)'
               /\ (\A item \in Items(t)' : item.data # e) =>
                        Unlocking(t, e)' = Locked(t, e)'
    BY <2>1 DEF IndInv, MutexMatchesCaches
  <2>5. /\ \A item \in Items(t)' :
               item.data = d =>
                   item.lockCount + Unlocking(t, d)' = Locked(t, d)' + Locking(t, d)'
        /\ (\A item \in Items(t)' : item.data # d) =>
               Unlocking(t, d)' = Locked(t, d)'
    BY <2>1
  <2> QED BY <2>3, <2>4, <2>5 DEF MutexMatchesCaches
<1>7. ItemsOK'
  BY <1>1 DEF IndInv, ItemsOK, FreeItem
<1>8. UnlistedOK' /\ FreeOK' /\ CacheHasRoom'
  BY <1>2, <1>3 DEF IndInv, UnlistedOK, FreeOK, CacheHasRoom
<1>9. ASSUME NEW u \in Threads \ {t} PROVE CallOK(u)'
  <2>0. CallOK(u)
    BY DEF IndInv
  <2>1. List(u)' = List(u)
    BY DEF List
  <2>2. ASSUME call[u].step = "walk" PROVE WalkOK(u)'
    <3>1. WalkOK(u)
      BY <2>0, <2>2 DEF CallOK
    <3>2. call[u].unused \in Datas \cup {NoData}
      BY DEF IndInv, TypeOK, Calls
    <3>3. call[u].unused # NoData =>
              call[u].unused # d /\ threadCount'[call[u].unused] = 0
      BY <1>2, <3>1, <3>2 DEF WalkOK
    <3> QED BY <2>1, <3>1, <3>3 DEF WalkOK
  <2> QED BY <1>1, <2>0, <2>1, <2>2 DEF CallOK
<1> QED BY <1>4, <1>5, <1>6, <1>7, <1>8, <1>9 DEF IndInv

(* Saving the SyncData in a cache keeps the invariant: the slot that       *)
(* fetch_cache kept open is still there.                                   *)
LEMMA InvSave ==
    ASSUME IndInv, NEW t \in Threads, Save(t)
    PROVE  IndInv'
<1> USE DEF At
<1>0. call[t] \in Calls /\ call[t].step = "save"
  BY DEF IndInv, TypeOK, Save
<1>0a. PICK d \in Datas : d = call[t].data
  BY <1>0 DEF IndInv, CallOK
<1> DEFINE item == [data |-> d, lockCount |-> 1]
           r == [call[t] EXCEPT !.step = "mutex"]
<1>1. /\ call[t].why = "ACQUIRE" /\ d \in Datas /\ object[d] = call[t].object
      /\ allocated[t] = 0 \/ Len(cache[t]) < allocated[t]
      /\ result[t] = "none" /\ call[t].object \in Objects
  BY <1>0, <1>0a DEF IndInv, CallOK, TypeOK
<1>2. r \in Calls /\ call' = [call EXCEPT ![t] = r]
  BY <1>0 DEF IndInv, TypeOK, Save, Goto, Calls, Steps
<1>3. /\ call' \in [Threads -> Calls] /\ call'[t] = r
      /\ \A u \in Threads \ {t} : call'[u] = call[u]
  <2> HIDE DEF r
  <2> QED BY <1>2, CallStep DEF IndInv
<1>4. /\ call'[t].step = "mutex" /\ call'[t].data = d /\ call'[t].why = "ACQUIRE"
      /\ call'[t].object = call[t].object
  BY <1>0, <1>0a, <1>1, <1>3 DEF Calls
<1> HIDE DEF r
<1>5. UNCHANGED <<data, object, lockp, threadCount, strays, owner, count, result>>
  BY DEF Save, lists, mutexes
<1>6. \A other \in Items(t) : other.data # d
  <2>1. ASSUME NEW other \in Items(t), other.data = d PROVE FALSE
    <3>1. other # FreeItem
      BY <1>1, <2>1, SyncAssumption DEF FreeItem
    <3> QED BY <1>0, <1>1, <2>1, <3>1 DEF IndInv, ItemsOK
  <2> QED BY <2>1
<1>7. item \in SyncCacheItem /\ item.data = d /\ item.lockCount = 1
  BY <1>1 DEF SyncCacheItem
<1> HIDE DEF item
<1>8. /\ fast' \in [Threads -> SyncCacheItem \cup {FreeItem}]
      /\ cache' \in [Threads -> Seq(SyncCacheItem)]
      /\ allocated' \in [Threads -> Nat]
      /\ \A u \in Threads \ {t} : /\ fast'[u] = fast[u] /\ cache'[u] = cache[u]
                                  /\ allocated'[u] = allocated[u]
      /\ Len(cache'[t]) <= allocated'[t]
      /\ \A i \in DOMAIN cache'[t] : cache'[t][i].data # fast'[t].data
      /\ \A i, j \in DOMAIN cache'[t] :
             cache'[t][i].data = cache'[t][j].data => i = j
      /\ \A other : other.data # NoData /\ other # item =>
             (other \in Items(t)' <=> other \in Items(t))
      /\ item \in Items(t)'
  <2>0. /\ fast \in [Threads -> SyncCacheItem \cup {FreeItem}]
        /\ cache \in [Threads -> Seq(SyncCacheItem)] /\ allocated \in [Threads -> Nat]
        /\ Len(cache[t]) <= allocated[t]
    BY DEF IndInv, TypeOK, CacheHasRoom
  <2>0a. /\ \A i \in DOMAIN cache[t] : cache[t][i].data # fast[t].data
         /\ \A i, j \in DOMAIN cache[t] :
               cache[t][i].data = cache[t][j].data => i = j
    BY DEF IndInv, ItemsOK
  <2>1. CASE fast[t].data = NoData
    <3>1. fast' = [fast EXCEPT ![t] = item] /\ UNCHANGED <<cache, allocated>>
      BY <2>1, <1>0a DEF Save, item
    <3>2. fast'[t] = item
      BY <3>1, <2>0
    <3>3. \A i \in DOMAIN cache[t] : cache[t][i].data # d
      BY <1>6 DEF Items
    <3>4. \A other : other.data # NoData /\ other # item =>
             (other \in Items(t)' <=> other \in Items(t))
      BY <2>1, <3>1, <3>2 DEF Items
    <3>5. item \in Items(t)'
      BY <3>2 DEF Items
    <3> QED BY <1>7, <2>0, <2>0a, <3>1, <3>2, <3>3, <3>4, <3>5
  <2>2. CASE fast[t].data # NoData
    <3>1. /\ cache' = [cache EXCEPT ![t] = Append(@, item)]
          /\ fetch_cache_create(t) /\ UNCHANGED fast
      BY <2>2, <1>0a DEF Save, item
    <3>2. /\ cache'[t] = Append(cache[t], item)
          /\ \A u \in Threads \ {t} : cache'[u] = cache[u] /\ allocated'[u] = allocated[u]
          /\ allocated'[t] = IF allocated[t] = 0 THEN Slots ELSE allocated[t]
      BY <3>1, <2>0 DEF fetch_cache_create
    <3>3. /\ cache'[t] \in Seq(SyncCacheItem) /\ Len(cache'[t]) = Len(cache[t]) + 1
          /\ DOMAIN cache'[t] = 1 .. Len(cache[t]) + 1
          /\ \A i \in DOMAIN cache[t] : i \in DOMAIN cache'[t] /\ cache'[t][i] = cache[t][i]
          /\ cache'[t][Len(cache[t]) + 1] = item
          /\ \A i \in DOMAIN cache'[t] : i \in DOMAIN cache[t] \/ i = Len(cache[t]) + 1
          /\ Len(cache[t]) \in Nat /\ Len(cache[t]) + 1 \in DOMAIN cache'[t]
      BY <1>7, <2>0, <3>2
    <3>4. cache' \in [Threads -> Seq(SyncCacheItem)] /\ allocated' \in [Threads -> Nat]
      BY <2>0, <3>1, <3>3, <1>7, SyncAssumption DEF fetch_cache_create
    <3>5. Len(cache'[t]) <= allocated'[t]
      BY <1>1, <2>0, <3>2, <3>3, SyncAssumption
    <3>6. \A i \in DOMAIN cache[t] : cache[t][i].data # d
      BY <1>6 DEF Items
    <3>7. fast[t].data # d
      BY <1>6 DEF Items
    <3>8. \A i \in DOMAIN cache'[t] : cache'[t][i].data # fast'[t].data
      BY <1>7, <2>0a, <3>1, <3>3, <3>7
    <3>9. \A i, j \in DOMAIN cache'[t] :
             cache'[t][i].data = cache'[t][j].data => i = j
      BY <1>7, <2>0a, <3>3, <3>6
    <3>10. \A other : other.data # NoData /\ other # item =>
             (other \in Items(t)' <=> other \in Items(t))
      BY <3>1, <3>3 DEF Items
    <3>11. item \in Items(t)'
      BY <3>3 DEF Items
    <3> QED BY <2>0, <3>1, <3>2, <3>4, <3>5, <3>8, <3>9, <3>10, <3>11
  <2> QED BY <2>1, <2>2
<1>9. TypeOK'
  BY <1>3, <1>5, <1>8 DEF IndInv, TypeOK
<1>10. \A e \in Datas \ {d} : \A other : other.data = e =>
           (other \in Items(t)' <=> other \in Items(t))
  BY <1>7, <1>8, SyncAssumption
<1>11. \A e \in Datas \ {d} :
           /\ Uses(t, e)' <=> Uses(t, e)
           /\ Locking(t, e)' = Locking(t, e)
           /\ Unlocking(t, e)' = Unlocking(t, e)
  BY <1>0, <1>0a, <1>4, <1>10 DEF Uses, Locking, Unlocking, One
<1>12. Uses(t, d) /\ Uses(t, d)'
  <2>1. item \in Items(t)' /\ item.data = d
    BY <1>7, <1>8
  <2> QED BY <1>0, <1>0a, <1>1, <2>1 DEF Uses
<1>13. /\ \A other \in Items(t)' : other.data = d => other.lockCount = 1
       /\ ~ \A other \in Items(t)' : other.data # d
  BY <1>1, <1>6, <1>7, <1>8, SyncAssumption
<1>14. Locked(t, d) = 0 /\ Locking(t, d)' = 1 /\ Unlocking(t, d)' = 0
  <2>1. Unlocking(t, d) = Locked(t, d)
    BY <1>1, <1>6 DEF IndInv, MutexMatchesCaches
  <2> QED BY <1>0, <1>4, <2>1 DEF Unlocking, Locking, One
<1>15. CallOK(t)'
  BY <1>1, <1>4, <1>5, <1>7, <1>8 DEF CallOK
<1>16. \A u \in Threads \ {t} :
           /\ call'[u] = call[u] /\ result'[u] = result[u]
           /\ fast'[u] = fast[u] /\ cache'[u] = cache[u]
           /\ allocated'[u] = allocated[u]
  BY <1>3, <1>5, <1>8
<1>17. \A e \in Datas \ {d} :
           /\ threadCount'[e] = threadCount[e]
           /\ Uses(t, e)' <=> Uses(t, e)
           /\ Locking(t, e)' = Locking(t, e)
           /\ Unlocking(t, e)' = Unlocking(t, e)
           /\ \A other : other.data = e => (other \in Items(t)' <=> other \in Items(t))
  BY <1>5, <1>10, <1>11
<1>18. /\ \A i \in DOMAIN cache'[t] : cache'[t][i].data # fast'[t].data
       /\ \A i, j \in DOMAIN cache'[t] :
               cache'[t][i].data = cache'[t][j].data => i = j
       /\ Len(cache'[t]) <= allocated'[t]
  BY <1>8
<1>19. call'[t].step \notin {"list", "walk", "done", "save"}
  BY <1>4
<1>20. \A other \in Items(t)' :
           other.data = d =>
               other.lockCount + Unlocking(t, d)' = Locked(t, d) + Locking(t, d)'
  BY <1>13, <1>14
<1>21. d \in Datas
  BY <1>1
<1> QED BY <1>5, <1>9, <1>12, <1>13, <1>15, <1>16, <1>17, <1>18, <1>19, <1>20, <1>21, Cached

-----------------------------------------------------------------------------
(* The mutex.                                                              *)

(* A call that ends with a step on the mutex keeps the invariant, when the *)
(* mutex is locked once more or once less as the call was about to do.     *)
LEMMA Released ==
    ASSUME IndInv, TypeOK', NEW t \in Threads, NEW value,
           call[t].step \in {"mutex", "unlock"},
           Return(t, value), value # "none",
           UNCHANGED <<lists, caches>>,
           \A e \in Datas :
               \A u \in Threads \ {t} : Locked(u, e)' = Locked(u, e),
           \A e \in Datas :
               Locked(t, e)' = Locked(t, e) + Locking(t, e) - Unlocking(t, e),
           FreeOK'
    PROVE  IndInv'
<1> USE DEF lists, caches, At, Return
<1>1. \A u \in Threads : Items(u)' = Items(u)
  BY DEF Items
<1>2. call'[t] = Idle /\ \A u \in Threads \ {t} : call'[u] = call[u]
  BY DEF IndInv, TypeOK
<1>3. OneDataPerObject' /\ UnlistedOK' /\ CacheHasRoom'
  BY DEF IndInv, OneDataPerObject, UnlistedOK, CacheHasRoom, Listed
<1>4. UsersAreCounted'
  <2>1. ASSUME NEW e \in Datas, NEW u \in Threads PROVE Uses(u, e)' <=> Uses(u, e)
    BY <1>1, <1>2 DEF Uses, Idle
  <2> QED BY <2>1 DEF IndInv, UsersAreCounted, Users
<1>5. MutexMatchesCaches'
  <2>1. ASSUME NEW u \in Threads \ {t}, NEW e \in Datas
        PROVE  Locking(u, e)' = Locking(u, e) /\ Unlocking(u, e)' = Unlocking(u, e)
    BY <1>2 DEF Locking, Unlocking
  <2>2. ASSUME NEW u \in Threads \ {t}, NEW e \in Datas
        PROVE  /\ \A item \in Items(u)' :
                    item.data = e =>
                        item.lockCount + Unlocking(u, e)' = Locked(u, e)' + Locking(u, e)'
               /\ (\A item \in Items(u)' : item.data # e) =>
                        Unlocking(u, e)' = Locked(u, e)'
    BY <1>1, <2>1 DEF IndInv, MutexMatchesCaches
  <2>3. ASSUME NEW e \in Datas
        PROVE  /\ \A item \in Items(t)' :
                    item.data = e =>
                        item.lockCount + Unlocking(t, e)' = Locked(t, e)' + Locking(t, e)'
               /\ (\A item \in Items(t)' : item.data # e) =>
                        Unlocking(t, e)' = Locked(t, e)'
    <3>1. Locking(t, e)' = 0 /\ Unlocking(t, e)' = 0
      BY <1>2 DEF Locking, Unlocking, Idle, One
    <3>2. Locking(t, e) \in Nat /\ Unlocking(t, e) \in Nat /\ Locked(t, e) \in Nat
      BY DEF Locking, Unlocking, One, Locked, IndInv, TypeOK
    <3>3. ASSUME NEW item \in Items(t), item.data = e
          PROVE  item.lockCount \in Nat /\ item.lockCount + Unlocking(t, e) = Locked(t, e) + Locking(t, e)
      BY <3>3, ItemFacts, SyncAssumption DEF IndInv, MutexMatchesCaches
    <3>4. (\A item \in Items(t) : item.data # e) =>
              Unlocking(t, e) = Locked(t, e) /\ Locking(t, e) = 0
      BY DEF IndInv, MutexMatchesCaches, CallOK, Locking, One
    <3> QED BY <1>1, <3>1, <3>2, <3>3, <3>4
  <2> QED BY <2>2, <2>3 DEF MutexMatchesCaches
<1>6. ItemsOK'
  BY <1>1, <1>2 DEF IndInv, ItemsOK, FreeItem, Idle
<1>7. CallOK(t)'
  BY <1>2 DEF CallOK, Idle, IndInv, TypeOK
<1>8. ASSUME NEW u \in Threads \ {t} PROVE CallOK(u)'
  <2>1. CallOK(u)
    BY DEF IndInv
  <2>2. List(u)' = List(u) /\ result'[u] = result[u]
    BY <1>2 DEF List, IndInv, TypeOK
  <2>3. WalkOK(u)' <=> WalkOK(u)
    BY <1>2, <2>2 DEF WalkOK
  <2> QED BY <1>1, <1>2, <2>1, <2>2, <2>3 DEF CallOK
<1> QED BY <1>3, <1>4, <1>5, <1>6, <1>7, <1>8 DEF IndInv

(* A thread between two calls is in a state of a call.                     *)
LEMMA IdleCall == Idle \in Calls
  BY DEF Idle, Calls, Steps

(* Locking the mutex keeps the invariant.                                  *)
LEMMA Invlock ==
    ASSUME IndInv, NEW t \in Threads, lock(t)
    PROVE  IndInv'
<1> USE DEF At
<1>0. call[t] \in Calls /\ call[t].step = "mutex"
  BY DEF IndInv, TypeOK, lock
<1>1. PICK d \in Datas : d = call[t].data
  BY <1>0 DEF IndInv, CallOK
<1>2. /\ owner[d] \in {NoThread, t} /\ owner'[d] = t /\ count'[d] = count[d] + 1
      /\ \A e \in Datas \ {d} : owner'[e] = owner[e] /\ count'[e] = count[e]
      /\ count[d] \in Nat
  BY <1>1 DEF lock, IndInv, TypeOK
<1>3. owner' \in [Datas -> Threads \cup {NoThread}] /\ count' \in [Datas -> Nat]
  BY <1>1 DEF lock, IndInv, TypeOK
<1>4. TypeOK'
  BY <1>3, IdleCall DEF lock, IndInv, TypeOK, lists, caches, Return
<1>5. ASSUME NEW e \in Datas, NEW u \in Threads \ {t} PROVE Locked(u, e)' = Locked(u, e)
  BY <1>2, SyncAssumption DEF Locked
<1>6. ASSUME NEW e \in Datas
      PROVE  Locked(t, e)' = Locked(t, e) + Locking(t, e) - Unlocking(t, e)
  <2>1. Unlocking(t, e) = 0
    BY <1>0 DEF Unlocking, One
  <2>2. CASE e = d
    <3>1. Locking(t, e) = 1
      BY <1>0, <1>1, <2>2 DEF Locking, One
    <3>2. Locked(t, e) = count[d]
      BY <1>2, <2>2, SyncAssumption DEF Locked, IndInv, FreeOK
    <3> QED BY <1>2, <2>1, <2>2, <3>1, <3>2 DEF Locked
  <2>3. CASE e # d
    <3>1. Locking(t, e) = 0 /\ Locked(t, e) \in Nat
      BY <1>0, <1>1, <2>3 DEF Locking, One, Locked, IndInv, TypeOK
    <3> QED BY <1>2, <2>1, <2>3, <3>1 DEF Locked
  <2> QED BY <2>2, <2>3
<1>7. FreeOK'
  BY <1>2, SyncAssumption DEF FreeOK, IndInv
<1>8. Return(t, "success") /\ UNCHANGED <<lists, caches>>
  BY DEF lock
<1> QED BY <1>0, <1>4, <1>5, <1>6, <1>7, <1>8, Released

(* Unlocking keeps the invariant and always succeeds: the thread's caches  *)
(* and its mutex agree, whatever object the SyncData serves by now.        *)
LEMMA InvtryUnlock ==
    ASSUME IndInv, NEW t \in Threads, tryUnlock(t)
    PROVE  IndInv' /\ Return(t, "success")
<1> USE DEF At
<1>0. call[t] \in Calls /\ call[t].step = "unlock"
  BY DEF IndInv, TypeOK, tryUnlock
<1>1. PICK d \in Datas : d = call[t].data
  BY <1>0 DEF IndInv, CallOK
<1>1a. owner[d] = t /\ count[d] \in Nat \ {0}
  <2>1. Unlocking(t, d) = 1 /\ Locking(t, d) = 0 /\ count[d] \in Nat
    BY <1>0, <1>1 DEF Unlocking, Locking, One, IndInv, TypeOK
  <2>2. CASE \E item \in Items(t) : item.data = d
    <3>1. PICK item \in Items(t) : item.data = d
      BY <2>2
    <3>2. item.lockCount + 1 = Locked(t, d) + 0 /\ item.lockCount \in Nat
      BY <2>1, <3>1, ItemFacts, SyncAssumption DEF IndInv, MutexMatchesCaches
    <3> QED BY <2>1, <3>2 DEF Locked
  <2>3. CASE \A item \in Items(t) : item.data # d
    <3>1. Locked(t, d) = 1
      BY <2>1, <2>3 DEF IndInv, MutexMatchesCaches
    <3> QED BY <2>1, <3>1 DEF Locked
  <2> QED BY <2>2, <2>3
<1>2. /\ owner'[d] = (IF count[d] = 1 THEN NoThread ELSE t) /\ count'[d] = count[d] - 1
      /\ \A e \in Datas \ {d} : owner'[e] = owner[e] /\ count'[e] = count[e]
      /\ Return(t, "success") /\ UNCHANGED <<lists, caches>>
  BY <1>1, <1>1a DEF tryUnlock, IndInv, TypeOK
<1>3. owner' \in [Datas -> Threads \cup {NoThread}] /\ count' \in [Datas -> Nat]
  <2>1. /\ owner' = [owner EXCEPT ![d] = IF count[d] = 1 THEN NoThread ELSE t]
        /\ count' = [count EXCEPT ![d] = @ - 1]
    BY <1>1, <1>1a DEF tryUnlock
  <2> QED BY <1>1a, <2>1 DEF IndInv, TypeOK
<1>4. TypeOK'
  BY <1>2, <1>3, IdleCall DEF IndInv, TypeOK, lists, caches, Return
<1>5. ASSUME NEW e \in Datas, NEW u \in Threads \ {t} PROVE Locked(u, e)' = Locked(u, e)
  BY <1>1a, <1>2, SyncAssumption DEF Locked
<1>6. ASSUME NEW e \in Datas
      PROVE  Locked(t, e)' = Locked(t, e) + Locking(t, e) - Unlocking(t, e)
  <2>1. Locking(t, e) = 0
    BY <1>0 DEF Locking, One
  <2>2. CASE e = d
    <3>1. Unlocking(t, e) = 1
      BY <1>0, <1>1, <2>2 DEF Unlocking, One
    <3>2. Locked(t, e) = count[d]
      BY <1>1a, <2>2 DEF Locked
    <3>3. Locked(t, e)' = count[d] - 1
      BY <1>1a, <1>2, <2>2, SyncAssumption DEF Locked
    <3> QED BY <1>1a, <2>1, <3>1, <3>2, <3>3
  <2>3. CASE e # d
    <3>1. Unlocking(t, e) = 0 /\ Locked(t, e) \in Nat
      BY <1>0, <1>1, <2>3 DEF Unlocking, One, Locked, IndInv, TypeOK
    <3> QED BY <1>2, <2>1, <2>3, <3>1 DEF Locked
  <2> QED BY <2>2, <2>3
<1>7. FreeOK'
  BY <1>1a, <1>2, SyncAssumption DEF FreeOK, IndInv
<1> QED BY <1>0, <1>2, <1>4, <1>5, <1>6, <1>7, Released

-----------------------------------------------------------------------------
(* The call without the spinlock.                                          *)

(* What Begin does to the calls of the threads.                            *)
LEMMA BeginCall ==
    ASSUME TypeOK, NEW t \in Threads, NEW why \in {"ACQUIRE", "RELEASE"},
           NEW o \in Objects, NEW step \in Steps, NEW d \in Datas \cup {NoData},
           Begin(t, why, o, step, d)
    PROVE  /\ call' \in [Threads -> Calls]
           /\ \A u \in Threads \ {t} : call'[u] = call[u]
           /\ call'[t].step = step /\ call'[t].data = d /\ call'[t].unused = NoData
           /\ call'[t].why = why /\ call'[t].object = o
<1> DEFINE r == [Idle EXCEPT !.step = step, !.why = why, !.object = o, !.data = d]
<1>1. /\ r \in Calls
      /\ r.step = step /\ r.why = why /\ r.object = o /\ r.data = d
      /\ r.unused = Idle.unused
  <2>1. Idle \in Calls
    BY IdleCall
  <2>2. PICK c \in Calls : c = Idle
    BY <2>1
  <2>3. r = [c EXCEPT !.step = step, !.why = why, !.object = o, !.data = d]
    BY <2>2
  <2> HIDE DEF r
  <2>4. /\ r \in Calls
        /\ r.step = step /\ r.why = why /\ r.object = o /\ r.data = d
        /\ r.unused = c.unused
    BY <2>3 DEF Calls
  <2> QED BY <2>2, <2>4
<1>2. Idle.unused = NoData
  BY DEF Idle
<1>3. call' = [call EXCEPT ![t] = r]
  BY DEF Begin
<1>4. call' \in [Threads -> Calls] /\ call'[t] = r
      /\ \A u \in Threads \ {t} : call'[u] = call[u]
  <2> HIDE DEF r
  <2> QED BY <1>1, <1>3, CallStep
<1> HIDE DEF r
<1> QED BY <1>1, <1>2, <1>4

(* fetch_cache keeps a slot open in a cache that exists.                   *)
LEMMA FetchCache ==
    ASSUME IndInv, NEW t \in Threads, fetch_cache(t)
    PROVE  /\ allocated' \in [Threads -> Nat]
           /\ \A u \in Threads \ {t} : allocated'[u] = allocated[u]
           /\ Len(cache[t]) <= allocated'[t]
           /\ allocated'[t] = 0 \/ Len(cache[t]) < allocated'[t]
<1>1. /\ allocated \in [Threads -> Nat] /\ Len(cache[t]) \in Nat
      /\ Len(cache[t]) <= allocated[t] /\ allocated[t] \in Nat
  BY DEF IndInv, TypeOK, CacheHasRoom
<1>2. allocated'[t] = IF allocated[t] # 0 /\ allocated[t] = Len(cache[t])
                      THEN 2 * allocated[t] ELSE allocated[t]
  BY <1>1 DEF fetch_cache
<1>3. allocated'[t] \in Nat
  BY <1>1, <1>2
<1>4. allocated' \in [Threads -> Nat] /\ \A u \in Threads \ {t} : allocated'[u] = allocated[u]
  BY <1>1, <1>2, <1>3 DEF fetch_cache
<1> QED BY <1>1, <1>2, <1>4

(* Without a match in the caches no item is for the object.                *)
LEMMA NoMatch ==
    ASSUME IndInv, NEW t \in Threads, NEW o, ~FastMatch(t, o), CacheMatches(t, o) = {}
    PROVE  \A item \in Items(t) \ {FreeItem} : object[item.data] # o
<1> SUFFICES ASSUME NEW item \in Items(t), item # FreeItem, object[item.data] = o PROVE FALSE
  OBVIOUS
<1>1. CASE item = fast[t]
  BY <1>1, ItemType DEF FastMatch, IndInv
<1>2. CASE \E i \in DOMAIN cache[t] : item = cache[t][i]
  BY <1>2 DEF CacheMatches
<1> QED BY <1>1, <1>2 DEF Items

(* A call that finds no match in the caches keeps the invariant.           *)
LEMMA InvMiss ==
    ASSUME IndInv, NEW t \in Threads, NEW o \in Objects,
           NEW why \in {"ACQUIRE", "RELEASE"}, At(t, "idle"),
           result' = [result EXCEPT ![t] = "none"], Miss(t, o, why),
           UNCHANGED <<data, lockp, object, strays, mutexes>>
    PROVE  IndInv'
<1> USE DEF mutexes, At
<1>1. /\ call' \in [Threads -> Calls]
      /\ \A u \in Threads \ {t} : call'[u] = call[u]
      /\ call'[t].step = "list" /\ call'[t].data = NoData /\ call'[t].unused = NoData
      /\ call'[t].why = why /\ call'[t].object = o
  BY BeginCall DEF Miss, Steps, IndInv
<1>2. /\ allocated' \in [Threads -> Nat]
      /\ \A u \in Threads \ {t} : allocated'[u] = allocated[u]
      /\ Len(cache[t]) <= allocated'[t]
      /\ allocated'[t] = 0 \/ Len(cache[t]) < allocated'[t]
  BY FetchCache DEF Miss
<1>3. /\ result' \in [Threads -> {"none", "success", "notOwning"}]
      /\ \A u \in Threads \ {t} : result'[u] = result[u]
      /\ result'[t] = "none"
  BY DEF IndInv, TypeOK
<1>4. TypeOK'
  BY <1>1, <1>2, <1>3 DEF IndInv, TypeOK, Miss
<1>5. \A d \in Datas : /\ Uses(t, d)' <=> Uses(t, d)
                       /\ Locking(t, d)' = Locking(t, d)
                       /\ Unlocking(t, d)' = Unlocking(t, d)
  BY <1>1 DEF Uses, Items, Locking, Unlocking, Miss
<1>6. \A item \in Items(t) \ {FreeItem} : object[item.data] # call'[t].object
  BY <1>1, NoMatch DEF Miss
<1>7. CallOK(t)'
  BY <1>1, <1>2, <1>3 DEF CallOK, Miss
<1>8. UNCHANGED <<data, object, threadCount, strays, owner, count, fast, cache>>
  BY DEF Miss
<1> QED BY <1>1, <1>2, <1>3, <1>4, <1>5, <1>6, <1>7, <1>8, Frame

(* The end of a thread keeps the invariant.                                *)
LEMMA InvDestroy ==
    ASSUME IndInv, NEW t \in Threads, _destroySyncCache(t)
    PROVE  IndInv'
<1> USE DEF _destroySyncCache, lists, mutexes, At
<1>1. cache[t] = <<>>
  <2>1. cache[t] \in Seq(SyncCacheItem) /\ FreeItem \notin SyncCacheItem
    BY DEF IndInv, TypeOK, FreeItem, SyncCacheItem
  <2>2. ASSUME NEW i \in DOMAIN cache[t] PROVE FALSE
    <3>1. cache[t][i] \in Items(t)
      BY DEF Items
    <3>2. cache[t][i] = FreeItem
      BY <3>1
    <3> QED BY <2>1, <3>2
  <2>3. Len(cache[t]) = 0
    <3>1. Len(cache[t]) \in Nat /\ DOMAIN cache[t] = 1 .. Len(cache[t])
      BY <2>1
    <3>2. CASE Len(cache[t]) > 0
      <4>1. 1 \in DOMAIN cache[t]
        BY <3>1, <3>2
      <4> QED BY <4>1, <2>2
    <3> QED BY <3>1, <3>2
  <2> QED BY <2>1, <2>3
<1>2. TypeOK'
  BY DEF IndInv, TypeOK
<1>3. /\ \A u \in Threads \ {t} : allocated'[u] = allocated[u]
      /\ Len(cache[t]) <= allocated'[t]
  BY <1>1 DEF IndInv, TypeOK
<1>4. \A d \in Datas : /\ Uses(t, d)' <=> Uses(t, d)
                       /\ Locking(t, d)' = Locking(t, d)
                       /\ Unlocking(t, d)' = Unlocking(t, d)
  BY DEF Uses, Items, Locking, Unlocking
<1>5. CallOK(t)'
  BY DEF CallOK, IndInv
<1>6. UNCHANGED <<data, object, threadCount, strays, owner, count, fast, cache, lockp, result, call>>
  OBVIOUS
<1> QED BY <1>2, <1>3, <1>4, <1>5, <1>6, Frame

(* What a hit does to the caches of t: item is counted n, or is out of     *)
(* them when n is zero; the others stay, wherever the hit moves them.      *)
Recounted(t, item, n) ==
    /\ fast' \in [Threads -> SyncCacheItem \cup {FreeItem}]
    /\ cache' \in [Threads -> Seq(SyncCacheItem)]
    /\ allocated' \in [Threads -> Nat]
    /\ \A u \in Threads \ {t} : /\ fast'[u] = fast[u] /\ cache'[u] = cache[u]
                               /\ allocated'[u] = allocated[u]
    /\ Len(cache'[t]) <= allocated'[t]
    /\ \A i \in DOMAIN cache'[t] : cache'[t][i].data # fast'[t].data
    /\ \A i, j \in DOMAIN cache'[t] :
           cache'[t][i].data = cache'[t][j].data => i = j
    /\ \A other : other.data \in Datas \ {item.data} =>
           (other \in Items(t)' <=> other \in Items(t))
    /\ \A other \in Items(t)' : other.data = item.data =>
           n # 0 /\ other.lockCount = n
    /\ n # 0 => \E other \in Items(t)' : other.data = item.data

(* A hit keeps the invariant, in whichever cache it is.                    *)
LEMMA HitStep ==
    ASSUME IndInv, NEW t \in Threads, NEW o \in Objects,
           NEW why \in {"ACQUIRE", "RELEASE"}, At(t, "idle"),
           result' = [result EXCEPT ![t] = "none"],
           UNCHANGED <<data, lockp, object, strays, mutexes>>,
           NEW item \in SyncCacheItem, item \in Items(t), object[item.data] = o,
           Hit(t, o, why, item),
           Recounted(t, item, Counted(item, why))
    PROVE  IndInv'
<1> USE DEF mutexes, At, Recounted
<1> DEFINE d == item.data
<1>1. /\ d \in Datas /\ d # NoData /\ item.lockCount \in Nat \ {0} /\ Uses(t, d)
      /\ threadCount[d] \in Nat \ {0} /\ object[d] = o
      /\ Counted(item, why) \in Nat
      /\ Counted(item, why) = IF why = "ACQUIRE" THEN item.lockCount + 1 ELSE item.lockCount - 1
  <2>1. d \in Datas /\ d # NoData /\ item.lockCount \in Nat \ {0}
    BY SyncAssumption DEF SyncCacheItem
  <2>2. Uses(t, d)
    BY DEF Uses
  <2>3. threadCount[d] \in Nat \ {0}
    BY <2>1, <2>2, UserCounted DEF IndInv, TypeOK
  <2> QED BY <2>1, <2>2, <2>3 DEF Counted
<1>2. /\ call' \in [Threads -> Calls]
      /\ \A u \in Threads \ {t} : call'[u] = call[u]
      /\ call'[t].step = (IF why = "ACQUIRE" THEN "mutex" ELSE "unlock")
      /\ call'[t].data = d /\ call'[t].why = why /\ call'[t].object = o
  <2>1. PICK step \in {"mutex", "unlock"} : step = IF why = "ACQUIRE" THEN "mutex" ELSE "unlock"
    OBVIOUS
  <2>2. Begin(t, why, o, step, d)
    BY <2>1 DEF Hit
  <2> HIDE DEF d
  <2> QED BY <1>1, <2>1, <2>2, BeginCall DEF Steps, IndInv
<1>3. /\ result' \in [Threads -> {"none", "success", "notOwning"}]
      /\ \A u \in Threads \ {t} : result'[u] = result[u]
      /\ result'[t] = "none"
  BY DEF IndInv, TypeOK
<1>4. /\ threadCount' \in [Datas -> Nat]
      /\ \A e \in Datas \ {d} : threadCount'[e] = threadCount[e]
      /\ threadCount'[d] = IF Counted(item, why) = 0 THEN threadCount[d] - 1 ELSE threadCount[d]
  BY <1>1 DEF Hit, IndInv, TypeOK
<1>5. TypeOK'
  BY <1>2, <1>3, <1>4 DEF IndInv, TypeOK
<1>6. \A e \in Datas \ {d} :
           /\ Uses(t, e)' <=> Uses(t, e)
           /\ Locking(t, e)' = Locking(t, e)
           /\ Unlocking(t, e)' = Unlocking(t, e)
           /\ \A other : other.data = e => (other \in Items(t)' <=> other \in Items(t))
  BY <1>2 DEF Uses, Locking, Unlocking, One
<1>7. Uses(t, d)' <=> Counted(item, why) # 0
  BY <1>2 DEF Uses
<1>8. threadCount'[d] = IF Uses(t, d)' THEN threadCount[d] ELSE threadCount[d] - 1
  BY <1>4, <1>7
<1>9. /\ Locked(t, d) = item.lockCount
      /\ Locking(t, d)' = One(why = "ACQUIRE")
      /\ Unlocking(t, d)' = One(why # "ACQUIRE")
  <2>1. Locking(t, d) = 0 /\ Unlocking(t, d) = 0 /\ Locked(t, d) \in Nat
    BY <1>1 DEF Locking, Unlocking, One, Locked, IndInv, TypeOK
  <2>2. item.lockCount + Unlocking(t, d) = Locked(t, d) + Locking(t, d)
    BY <1>1 DEF IndInv, MutexMatchesCaches
  <2>3. Locked(t, d) = item.lockCount
    BY <1>1, <2>1, <2>2
  <2>4. Locking(t, d)' = One(why = "ACQUIRE") /\ Unlocking(t, d)' = One(why # "ACQUIRE")
    BY <1>2 DEF Locking, Unlocking
  <2> QED BY <2>3, <2>4
<1>10. \A other \in Items(t)' : other.data = d =>
           other.lockCount + Unlocking(t, d)' = Locked(t, d) + Locking(t, d)'
  BY <1>1, <1>9 DEF One
<1>11. (\A other \in Items(t)' : other.data # d) => Unlocking(t, d)' = Locked(t, d)
  BY <1>1, <1>9 DEF One
<1>12. CallOK(t)'
  <2>1. why = "ACQUIRE" => \E other \in Items(t)' : other.data = d
    BY <1>1
  <2> QED BY <1>1, <1>2, <1>3, <2>1 DEF CallOK
<1>13. \A u \in Threads \ {t} :
           /\ call'[u] = call[u] /\ result'[u] = result[u]
           /\ fast'[u] = fast[u] /\ cache'[u] = cache[u]
           /\ allocated'[u] = allocated[u]
  BY <1>2, <1>3
<1>14. \A e \in Datas \ {d} :
           /\ threadCount'[e] = threadCount[e]
           /\ Uses(t, e)' <=> Uses(t, e)
           /\ Locking(t, e)' = Locking(t, e)
           /\ Unlocking(t, e)' = Unlocking(t, e)
           /\ \A other : other.data = e => (other \in Items(t)' <=> other \in Items(t))
  BY <1>4, <1>6
<1>15. call'[t].step \notin {"list", "walk", "done", "save"}
  BY <1>2
<1>16. d \in Datas /\ Uses(t, d)
  BY <1>1
<1>17. UNCHANGED <<data, lockp, object, owner, count, strays>>
  OBVIOUS
<1> HIDE DEF d
<1> QED BY <1>5, <1>8, <1>10, <1>11, <1>12, <1>13, <1>14, <1>15, <1>16, <1>17, Cached

(* Counting an item changes its lockCount only.                            *)
LEMMA ItemCount ==
    ASSUME NEW item \in SyncCacheItem, NEW n \in Nat \ {0},
           NEW made, made = [item EXCEPT !.lockCount = n]
    PROVE  made \in SyncCacheItem /\ made.data = item.data /\ made.lockCount = n
  BY DEF SyncCacheItem

(* An item is never counted below zero.                                    *)
LEMMA CountedType ==
    ASSUME NEW item \in SyncCacheItem, NEW why
    PROVE  Counted(item, why) \in Nat
  BY DEF SyncCacheItem, Counted

(* An item of the array has a SyncData.                                    *)
LEMMA CachedItem ==
    ASSUME TypeOK, NEW t \in Threads, NEW i \in DOMAIN cache[t]
    PROVE  /\ cache[t][i] \in SyncCacheItem /\ cache[t][i] \in Items(t)
           /\ cache[t][i].data \in Datas /\ cache[t][i].data # NoData
<1>1. cache[t][i] \in SyncCacheItem
  BY DEF TypeOK
<1>2. cache[t][i] \in Items(t)
  BY DEF Items
<1> QED BY <1>1, <1>2, SyncAssumption DEF SyncCacheItem

(* A hit on the fast item is a hit.                                        *)
LEMMA FastRecounts ==
    ASSUME IndInv, NEW t \in Threads, NEW o \in Objects,
           NEW why, FastHit(t, o, why)
    PROVE  \E item \in SyncCacheItem :
               /\ item \in Items(t) /\ object[item.data] = o
               /\ Hit(t, o, why, item)
               /\ Recounted(t, item, Counted(item, why))
<1>1. PICK item \in SyncCacheItem : item = fast[t]
  BY ItemType DEF FastHit, FastMatch, IndInv, Items
<1>2. /\ item \in Items(t) /\ object[item.data] = o /\ item.data # NoData /\ item.data \in Datas
      /\ Hit(t, o, why, item)
  BY <1>1, SyncAssumption DEF FastHit, FastMatch, Items, SyncCacheItem
<1>3. PICK n \in Nat : n = Counted(item, why)
  BY CountedType
<1>4. PICK made : made = [item EXCEPT !.lockCount = n]
  OBVIOUS
<1>5. fast' = [fast EXCEPT ![t] = IF n = 0 THEN FreeItem ELSE made]
  BY <1>1, <1>3, <1>4 DEF FastHit, IndInv, TypeOK
<1>6. n # 0 => made \in SyncCacheItem /\ made.data = item.data /\ made.lockCount = n
  BY <1>4, ItemCount
<1>7. /\ fast' \in [Threads -> SyncCacheItem \cup {FreeItem}]
      /\ fast'[t] = IF n = 0 THEN FreeItem ELSE made
      /\ \A u \in Threads \ {t} : fast'[u] = fast[u]
  BY <1>5, <1>6 DEF IndInv, TypeOK
<1>8. cache' = cache /\ allocated' = allocated
  BY DEF FastHit
<1>9. FreeItem.data = NoData
  BY DEF FreeItem
<1>10. \A i \in DOMAIN cache[t] : cache[t][i].data # item.data /\ cache[t][i].data # NoData
  BY <1>1, CachedItem DEF IndInv, ItemsOK
<1>11. \A i \in DOMAIN cache'[t] : cache'[t][i].data # fast'[t].data
  BY <1>6, <1>7, <1>8, <1>9, <1>10
<1>12. \A i, j \in DOMAIN cache'[t] : cache'[t][i].data = cache'[t][j].data => i = j
  BY <1>8 DEF IndInv, ItemsOK
<1>13. \A other : other.data \in Datas \ {item.data} =>
           (other \in Items(t)' <=> other \in Items(t))
  BY <1>1, <1>6, <1>7, <1>8, <1>9, SyncAssumption DEF Items
<1>14. \A other \in Items(t)' : other.data = item.data =>
           Counted(item, why) # 0 /\ other.lockCount = Counted(item, why)
  BY <1>2, <1>3, <1>6, <1>7, <1>8, <1>9, <1>10 DEF Items
<1>15. Counted(item, why) # 0 => \E other \in Items(t)' : other.data = item.data
  BY <1>3, <1>6, <1>7 DEF Items
<1>16. /\ cache' \in [Threads -> Seq(SyncCacheItem)]
       /\ allocated' \in [Threads -> Nat]
       /\ Len(cache'[t]) <= allocated'[t]
  BY <1>8 DEF IndInv, TypeOK, CacheHasRoom
<1>17. \A u \in Threads \ {t} : /\ fast'[u] = fast[u] /\ cache'[u] = cache[u]
                                /\ allocated'[u] = allocated[u]
  BY <1>7, <1>8
<1>18. fast' \in [Threads -> SyncCacheItem \cup {FreeItem}]
  BY <1>7
<1>19. item \in Items(t) /\ object[item.data] = o /\ Hit(t, o, why, item)
  BY <1>2
<1>20. Recounted(t, item, Counted(item, why))
  BY <1>11, <1>12, <1>13, <1>14, <1>15, <1>16, <1>17, <1>18 DEF Recounted
<1> QED BY <1>19, <1>20

(* At most one item of the array is for an object.                         *)
LEMMA MatchIsOne ==
    ASSUME IndInv, NEW t \in Threads, NEW o, NEW i \in CacheMatches(t, o)
    PROVE  CacheMatches(t, o) = {i} /\ FirstMatch(t, o) = i
<1>1. ASSUME NEW j \in CacheMatches(t, o) PROVE j = i
  <2>1. /\ i \in DOMAIN cache[t] /\ j \in DOMAIN cache[t]
        /\ object[cache[t][i].data] = object[cache[t][j].data]
    BY DEF CacheMatches
  <2>2. /\ cache[t][i] \in Items(t) /\ cache[t][j] \in Items(t)
        /\ cache[t][i].data # NoData /\ cache[t][j].data # NoData
    BY <2>1, CachedItem DEF IndInv
  <2>3. cache[t][i].data \in Listed /\ cache[t][j].data \in Listed
    BY <2>2, ItemFacts
  <2>4. cache[t][i].data = cache[t][j].data
    BY <2>1, <2>3, OneData
  <2> QED BY <2>1, <2>4 DEF IndInv, ItemsOK
<1>2. i \in Nat
  BY DEF CacheMatches, IndInv, TypeOK
<1>3. CacheMatches(t, o) = {i}
  BY <1>1
<1> QED BY <1>2, <1>3 DEF FirstMatch

(* Removing an item from the array moves the last one and loses no other:  *)
(* Without(s, i) has the elements of s but the one at i, each once.        *)
LEMMA WithoutOne ==
    ASSUME NEW S, NEW s \in Seq(S), NEW i \in DOMAIN s
    PROVE  /\ Without(s, i) \in Seq(S) /\ Len(Without(s, i)) = Len(s) - 1
           /\ \A j \in DOMAIN Without(s, i) : \E k \in DOMAIN s \ {i} : Without(s, i)[j] = s[k]
           /\ \A k \in DOMAIN s \ {i} : \E j \in DOMAIN Without(s, i) : Without(s, i)[j] = s[k]
           /\ \A j, k \in DOMAIN Without(s, i) :
                  \E m, n \in DOMAIN s : /\ Without(s, i)[j] = s[m] /\ Without(s, i)[k] = s[n]
                                         /\ m = n => j = k
<1> DEFINE w == Without(s, i)
           n == Len(s)
           at(j) == IF j = i THEN n ELSE j
<1>1. n \in Nat \ {0} /\ DOMAIN s = 1 .. n /\ i \in 1 .. n
  OBVIOUS
<1>2. w = [j \in 1 .. n - 1 |-> s[at(j)]]
  BY DEF Without
<1>3. \A j \in 1 .. n - 1 : at(j) \in 1 .. n /\ at(j) # i
  BY <1>1
<1>4. w \in Seq(S) /\ Len(w) = n - 1 /\ DOMAIN w = 1 .. n - 1
  <2>1. \A j \in 1 .. n - 1 : s[at(j)] \in S
    BY <1>1, <1>3
  <2>2. w \in [1 .. n - 1 -> S]
    BY <1>2, <2>1
  <2>3. n - 1 \in Nat
    BY <1>1
  <2> QED BY <1>2, <2>2, <2>3
<1>5. \A j \in 1 .. n - 1 : w[j] = s[at(j)]
  BY <1>2
<1>6. \A j \in DOMAIN w : \E k \in DOMAIN s \ {i} : w[j] = s[k]
  BY <1>1, <1>3, <1>4, <1>5
<1>7. \A k \in DOMAIN s \ {i} : \E j \in DOMAIN w : w[j] = s[k]
  <2> SUFFICES ASSUME NEW k \in DOMAIN s \ {i} PROVE \E j \in DOMAIN w : w[j] = s[k]
    OBVIOUS
  <2>1. CASE k = n
    BY <1>1, <1>4, <1>5, <2>1
  <2>2. CASE k # n
    <3>1. k \in 1 .. n - 1 /\ at(k) = k
      BY <1>1, <2>2
    <3> QED BY <3>1, <1>4, <1>5
  <2> QED BY <2>1, <2>2
<1>8. \A j, k \in DOMAIN w : \E m, p \in DOMAIN s : /\ w[j] = s[m] /\ w[k] = s[p]
                                                    /\ m = p => j = k
  <2> SUFFICES ASSUME NEW j \in DOMAIN w, NEW k \in DOMAIN w
               PROVE \E m, p \in DOMAIN s : w[j] = s[m] /\ w[k] = s[p] /\ (m = p => j = k)
    OBVIOUS
  <2>1. at(j) \in DOMAIN s /\ at(k) \in DOMAIN s /\ w[j] = s[at(j)] /\ w[k] = s[at(k)]
    BY <1>1, <1>3, <1>4, <1>5
  <2>2. at(j) = at(k) => j = k
    BY <1>1, <1>4
  <2> HIDE DEF at
  <2> QED BY <2>1, <2>2
<1> QED BY <1>4, <1>6, <1>7, <1>8

(* A hit in the array is a hit.                                            *)
LEMMA CacheRecounts ==
    ASSUME IndInv, NEW t \in Threads, NEW o \in Objects,
           NEW why, CacheHit(t, o, why)
    PROVE  \E item \in SyncCacheItem :
               /\ item \in Items(t) /\ object[item.data] = o
               /\ Hit(t, o, why, item)
               /\ Recounted(t, item, Counted(item, why))
<1>1. PICK x \in CacheMatches(t, o) : x = FirstMatch(t, o)
  BY MatchIsOne DEF CacheHit
<1>2. PICK s \in Seq(SyncCacheItem) : s = cache[t]
  BY DEF IndInv, TypeOK
<1>3. x \in DOMAIN s
  BY <1>1, <1>2 DEF CacheMatches
<1>4. PICK item \in SyncCacheItem : item = s[x]
  BY <1>2, <1>3
<1>5. /\ item \in Items(t) /\ object[item.data] = o /\ item.data # NoData /\ item.data \in Datas
      /\ Hit(t, o, why, item)
  BY <1>1, <1>2, <1>3, <1>4, CachedItem DEF CacheHit, CacheMatches, IndInv
<1>6. PICK n \in Nat : n = Counted(item, why)
  BY CountedType
<1>7. PICK made : made = [item EXCEPT !.lockCount = n]
  OBVIOUS
<1>8. n # 0 => made \in SyncCacheItem /\ made.data = item.data /\ made.lockCount = n
  BY <1>7, ItemCount
<1>9. PICK q : q = IF n = 0 THEN Without(s, x) ELSE [s EXCEPT ![x] = made]
  OBVIOUS
<1>10. cache' = [cache EXCEPT ![t] = q]
  BY <1>1, <1>2, <1>4, <1>6, <1>7, <1>9 DEF CacheHit, IndInv, TypeOK
<1>11. fast' = fast
  BY DEF CacheHit
<1>12. \A k \in DOMAIN s : s[k].data # fast[t].data /\ s[k].data # NoData
  BY <1>2, CachedItem DEF IndInv, ItemsOK
<1>13. \A k, m \in DOMAIN s : s[k].data = s[m].data => k = m
  BY <1>2 DEF IndInv, ItemsOK
<1>14. /\ q \in Seq(SyncCacheItem) /\ Len(q) <= Len(s)
       /\ \A j \in DOMAIN q : q[j].data # fast[t].data
       /\ \A j, k \in DOMAIN q : q[j].data = q[k].data => j = k
       /\ \A other : other.data \in Datas \ {item.data} =>
              ((\E j \in DOMAIN q : other = q[j]) <=> (\E k \in DOMAIN s : other = s[k]))
       /\ \A j \in DOMAIN q : q[j].data = item.data => n # 0 /\ q[j].lockCount = n
       /\ n # 0 => \E j \in DOMAIN q : q[j].data = item.data
  <2>1. CASE n = 0
    <3>1. /\ q \in Seq(SyncCacheItem) /\ Len(q) = Len(s) - 1
          /\ \A j \in DOMAIN q : \E k \in DOMAIN s \ {x} : q[j] = s[k]
          /\ \A k \in DOMAIN s \ {x} : \E j \in DOMAIN q : q[j] = s[k]
          /\ \A j, k \in DOMAIN q :
                 \E m, p \in DOMAIN s : /\ q[j] = s[m] /\ q[k] = s[p]
                                        /\ m = p => j = k
      <4>1. q = Without(s, x)
        BY <1>9, <2>1
      <4> QED BY <1>3, <4>1, WithoutOne
    <3>2. Len(q) <= Len(s)
      BY <3>1
    <3>3. ASSUME NEW j \in DOMAIN q
          PROVE  q[j].data # fast[t].data /\ q[j].data # item.data
      <4>1. PICK k \in DOMAIN s \ {x} : q[j] = s[k]
        BY <3>1
      <4> QED BY <4>1, <1>12, <1>13, <1>3, <1>4
    <3>4. ASSUME NEW j \in DOMAIN q, NEW k \in DOMAIN q, q[j].data = q[k].data
          PROVE  j = k
      <4>1. PICK m \in DOMAIN s : \E p \in DOMAIN s :
                q[j] = s[m] /\ q[k] = s[p] /\ (m = p => j = k)
        BY <3>1
      <4>2. PICK p \in DOMAIN s : q[j] = s[m] /\ q[k] = s[p] /\ (m = p => j = k)
        BY <4>1
      <4> QED BY <4>2, <3>4, <1>13
    <3>5. ASSUME NEW other, other.data \in Datas \ {item.data}
          PROVE  (\E j \in DOMAIN q : other = q[j]) <=> (\E k \in DOMAIN s : other = s[k])
      <4>1. ASSUME NEW j \in DOMAIN q, other = q[j] PROVE \E k \in DOMAIN s : other = s[k]
        BY <4>1, <3>1
      <4>2. ASSUME NEW k \in DOMAIN s, other = s[k] PROVE \E j \in DOMAIN q : other = q[j]
        <5>1. k # x
          BY <4>2, <3>5, <1>4
        <5> QED BY <4>2, <5>1, <3>1
      <4> QED BY <4>1, <4>2
    <3> QED BY <2>1, <3>1, <3>2, <3>3, <3>4, <3>5
  <2>2. CASE n # 0
    <3>1. /\ q \in Seq(SyncCacheItem) /\ Len(q) = Len(s) /\ DOMAIN q = DOMAIN s
          /\ q[x] = made /\ \A j \in DOMAIN q \ {x} : q[j] = s[j]
      BY <1>3, <1>8, <1>9, <2>2
    <3>2. \A j \in DOMAIN q : q[j].data = s[j].data
      BY <3>1, <1>4, <1>8, <2>2
    <3>3. Len(q) <= Len(s)
      BY <3>1
    <3>4. \A j \in DOMAIN q : q[j].data = item.data => j = x
      BY <3>1, <3>2, <1>13, <1>3, <1>4
    <3>5. \A other : other.data \in Datas \ {item.data} =>
              ((\E j \in DOMAIN q : other = q[j]) <=> (\E k \in DOMAIN s : other = s[k]))
      BY <3>1, <3>2, <1>3, <1>4
    <3> QED BY <2>2, <3>1, <3>2, <3>3, <3>4, <3>5, <1>3, <1>8, <1>12, <1>13
  <2> QED BY <2>1, <2>2
<1>15. /\ cache' \in [Threads -> Seq(SyncCacheItem)] /\ cache'[t] = q
       /\ \A u \in Threads \ {t} : cache'[u] = cache[u]
  BY <1>10, <1>14 DEF IndInv, TypeOK
<1>16. /\ allocated' \in [Threads -> Nat]
       /\ \A u \in Threads \ {t} : allocated'[u] = allocated[u]
       /\ Len(cache[t]) <= allocated'[t]
  BY FetchCache DEF CacheHit
<1>17. Len(cache'[t]) <= allocated'[t]
  BY <1>2, <1>14, <1>15, <1>16
<1>18. \A i \in DOMAIN cache'[t] : cache'[t][i].data # fast'[t].data
  BY <1>11, <1>14, <1>15
<1>19. \A i, j \in DOMAIN cache'[t] : cache'[t][i].data = cache'[t][j].data => i = j
  BY <1>14, <1>15
<1>20. \A other : other.data \in Datas \ {item.data} =>
           (other \in Items(t)' <=> other \in Items(t))
  BY <1>2, <1>11, <1>14, <1>15 DEF Items
<1>21. \A other \in Items(t)' : other.data = item.data =>
           Counted(item, why) # 0 /\ other.lockCount = Counted(item, why)
  BY <1>3, <1>4, <1>6, <1>11, <1>12, <1>14, <1>15 DEF Items
<1>22. Counted(item, why) # 0 => \E other \in Items(t)' : other.data = item.data
  BY <1>6, <1>14, <1>15 DEF Items
<1>23. \A u \in Threads \ {t} : /\ fast'[u] = fast[u] /\ cache'[u] = cache[u]
                                /\ allocated'[u] = allocated[u]
  BY <1>11, <1>15, <1>16
<1>24. /\ fast' \in [Threads -> SyncCacheItem \cup {FreeItem}]
       /\ cache' \in [Threads -> Seq(SyncCacheItem)]
       /\ allocated' \in [Threads -> Nat]
  BY <1>11, <1>15, <1>16 DEF IndInv, TypeOK
<1>25. item \in Items(t) /\ object[item.data] = o /\ Hit(t, o, why, item)
  BY <1>5
<1>26. Recounted(t, item, Counted(item, why))
  BY <1>17, <1>18, <1>19, <1>20, <1>21, <1>22, <1>23, <1>24 DEF Recounted
<1> QED BY <1>25, <1>26

(* id2data without the spinlock keeps the invariant.                       *)
LEMMA Invid2data ==
    ASSUME IndInv, NEW t \in Threads, NEW o \in Objects,
           NEW why \in {"ACQUIRE", "RELEASE"}, id2data(t, o, why)
    PROVE  IndInv'
<1>1. CASE FastHit(t, o, why) \/ CacheHit(t, o, why)
  <2>1. PICK item \in SyncCacheItem :
            /\ item \in Items(t) /\ object[item.data] = o
            /\ Hit(t, o, why, item)
            /\ Recounted(t, item, Counted(item, why))
    BY <1>1, FastRecounts, CacheRecounts
  <2>2. /\ At(t, "idle") /\ result' = [result EXCEPT ![t] = "none"]
        /\ UNCHANGED <<data, lockp, object, strays, mutexes>>
    BY DEF id2data
  <2> QED BY <2>1, <2>2, HitStep
<1>2. CASE Miss(t, o, why)
  BY <1>2, InvMiss DEF id2data
<1> QED BY <1>1, <1>2 DEF id2data

-----------------------------------------------------------------------------
(* The theorems.                                                           *)

(* Entering and leaving keep the invariant.                                *)
LEMMA InvStart ==
    ASSUME IndInv, NEW t \in Threads, Start(t) \/ Leave(t)
    PROVE  IndInv'
<1>1. PICK o \in Objects : objc_sync_enter(t, o) \/ objc_sync_exit(t, o)
  BY DEF Start, Leave, Enter, Exit, StrayExit
<1> QED BY <1>1, Invid2data DEF objc_sync_enter, objc_sync_exit

(* So does a step that changes nothing.                                    *)
LEMMA InvStutter ==
    ASSUME IndInv, UNCHANGED vars
    PROVE  IndInv'
<1> USE DEF vars
<1>1. TypeOK' /\ OneDataPerObject' /\ CacheHasRoom' /\ FreeOK'
  BY DEF IndInv, TypeOK, OneDataPerObject, CacheHasRoom, FreeOK
<1>2. \A t \in Threads : Items(t)' = Items(t)
  BY DEF Items
<1>3. UsersAreCounted'
  <2> SUFFICES ASSUME NEW d \in Datas PROVE Users(d)' = Users(d)
    BY DEF IndInv, UsersAreCounted
  <2> QED BY <1>2 DEF Users, Uses, At
<1>4. MutexMatchesCaches'
  <2>1. ASSUME NEW t \in Threads, NEW d \in Datas
        PROVE  /\ Locking(t, d)' = Locking(t, d) /\ Unlocking(t, d)' = Unlocking(t, d)
               /\ Locked(t, d)' = Locked(t, d)
    BY DEF Locking, Unlocking, Locked, At
  <2> QED BY <1>2, <2>1 DEF IndInv, MutexMatchesCaches
<1>5. ItemsOK'
  BY <1>2 DEF IndInv, ItemsOK
<1>6. UnlistedOK'
  <2>1. Listed' = Listed
    BY DEF Listed
  <2> QED BY <2>1 DEF IndInv, UnlistedOK
<1>7. ASSUME NEW t \in Threads PROVE CallOK(t)'
  <2>1. CallOK(t) /\ List(t)' = List(t)
    BY DEF IndInv, List
  <2>2. WalkOK(t)' <=> WalkOK(t)
    BY <2>1 DEF WalkOK
  <2> QED BY <1>2, <2>1, <2>2 DEF CallOK, At
<1> QED BY <1>1, <1>3, <1>4, <1>5, <1>6, <1>7 DEF IndInv

(* The invariant holds before the first call.                              *)
LEMMA InvInit ==
    ASSUME Init
    PROVE  IndInv
<1> USE DEF Init
<1>1. TypeOK
  BY IdleCall, SyncAssumption DEF TypeOK
<1>2. OneDataPerObject /\ CacheHasRoom /\ FreeOK
  BY DEF OneDataPerObject, CacheHasRoom, FreeOK
<1>3. \A t \in Threads : Items(t) = {FreeItem}
  BY DEF Items
<1>4. FreeItem.data = NoData /\ Idle.step = "idle"
  BY DEF FreeItem, Idle
<1>5. UsersAreCounted
  <2> SUFFICES ASSUME NEW d \in Datas PROVE threadCount[d] = Cardinality(Users(d)) + strays[d]
    BY DEF UsersAreCounted
  <2>1. Users(d) = {}
    BY <1>3, <1>4, SyncAssumption DEF Users, Uses, At
  <2>2. Cardinality(Users(d)) = 0
    BY <2>1, FS_EmptySet
  <2> QED BY <2>2
<1>6. MutexMatchesCaches
  BY <1>3, <1>4, SyncAssumption
     DEF MutexMatchesCaches, Locking, Unlocking, Locked, One, At
<1>7. ItemsOK /\ UnlistedOK
  BY <1>3, <1>4 DEF ItemsOK, UnlistedOK
<1>8. \A t \in Threads : CallOK(t)
  BY <1>4 DEF CallOK, At
<1> QED BY <1>1, <1>2, <1>5, <1>6, <1>7, <1>8 DEF IndInv

(* The invariant holds in every reachable state (objc-sync.mm:110-326).    *)
THEOREM Invariance == Spec => []IndInv
<1>1. Init => IndInv
  BY InvInit
<1>2. IndInv /\ [Next]_vars => IndInv'
  <2> SUFFICES ASSUME IndInv, [Next]_vars PROVE IndInv'
    OBVIOUS
  <2>1. CASE UNCHANGED vars
    BY <2>1, InvStutter
  <2>2. CASE Next
    <3>1. PICK t \in Threads : Start(t) \/ Leave(t) \/ Step(t) \/ _destroySyncCache(t)
      BY <2>2 DEF Next
    <3>2. CASE Start(t) \/ Leave(t)
      BY <3>2, InvStart
    <3>3. CASE Step(t)
      BY <3>3, InvLockList, InvFoundData, InvNextData, InvReleaseNotFound, InvReuseData,
         InvAllocateData, InvUnlockList, InvSave, Invlock, InvtryUnlock DEF Step
    <3>4. CASE _destroySyncCache(t)
      BY <3>4, InvDestroy
    <3> QED BY <3>1, <3>2, <3>3, <3>4
  <2> QED BY <2>1, <2>2
<1> QED BY <1>1, <1>2, PTL DEF Spec

(* Type correctness of the model, for any threads, objects, lists and      *)
(* SyncDatas.                                                              *)
THEOREM TypeCorrect == Spec => []TypeOK
<1>1. IndInv => TypeOK
  BY DEF IndInv
<1> QED BY <1>1, Invariance, PTL

(* An object never has two SyncDatas in the lists, and each is in the list *)
(* of its object (objc-sync.mm:202-240): no two threads that enter a new   *)
(* object make two locks for it.                                           *)
THEOREM OneLockPerObject == Spec => []OneDataPerObject
<1>1. IndInv => OneDataPerObject
  BY DEF IndInv
<1> QED BY <1>1, Invariance, PTL

(* threadCount is the number of threads that use the SyncData, and of      *)
(* exits that found it without using it (objc-sync.mm:36, 144-148,         *)
(* 208-228): so no SyncData in use is given to another object.             *)
THEOREM CountsAreUsers == Spec => []UsersAreCounted
<1>1. IndInv => UsersAreCounted
  BY DEF IndInv
<1> QED BY <1>1, Invariance, PTL

(* The mutex of each SyncData is owned by the thread whose caches say so,  *)
(* as deep as they say (objc-sync.mm:118-200, 284-326).                    *)
THEOREM MutexesMatch == Spec => []MutexMatchesCaches
<1>1. IndInv => MutexMatchesCaches
  BY DEF IndInv
<1> QED BY <1>1, Invariance, PTL

(* The array of a SyncCache is never written behind its end (objc-         *)
(* sync.mm:74-101, 263-269).                                               *)
THEOREM RoomInCaches == Spec => []CacheHasRoom
<1>1. IndInv => CacheHasRoom
  BY DEF IndInv
<1> QED BY <1>1, Invariance, PTL

(* None of the consistency checks of id2data ends the process (objc-       *)
(* sync.mm:129-131, 169-171, 253-254).                                     *)
THEOREM ChecksNeverFire == Spec => []NeverBuggy
<1>1. IndInv => NeverBuggy
  <2> SUFFICES ASSUME IndInv, NEW t \in Threads
               PROVE  /\ \A item \in Items(t) \ {FreeItem} : ~Buggy(item)
                      /\ At(t, "save") => ~BuggySave(t)
    BY DEF NeverBuggy
  <2>1. ASSUME NEW item \in Items(t) \ {FreeItem} PROVE ~Buggy(item)
    <3>1. item.data # NoData
      BY <2>1, ItemType DEF IndInv
    <3>2. threadCount[item.data] > 0 /\ threadCount[item.data] \in Nat /\ item.lockCount \in Nat \ {0}
      BY <2>1, <3>1, ItemFacts DEF IndInv, TypeOK
    <3> QED BY <3>2 DEF Buggy
  <2>2. At(t, "save") => ~BuggySave(t)
    BY DEF IndInv, CallOK, At, BuggySave
  <2> QED BY <2>1, <2>2
<1> QED BY <1>1, Invariance, PTL

-----------------------------------------------------------------------------
(* The refinement: one recursive lock per object.                          *)

(* What the program has seen of the last call: an exit that is going to    *)
(* unlock has succeeded.                                                   *)
Seen(t) == IF At(t, "unlock") THEN "success" ELSE result[t]

(* lockCount is that of the one item for the object, and zero without it.  *)
LEMMA LockCount ==
    ASSUME IndInv, NEW t \in Threads, NEW o
    PROVE  /\ lockCount(t, o) \in Nat
           /\ \A item \in Items(t) :
                  item.data # NoData /\ object[item.data] = o =>
                      lockCount(t, o) = item.lockCount
           /\ lockCount(t, o) # 0 =>
                  \E item \in Items(t) : item.data # NoData /\ object[item.data] = o
<1>1. ASSUME NEW item \in Items(t), NEW other \in Items(t),
             item.data # NoData, object[item.data] = o,
             other.data # NoData, object[other.data] = o
      PROVE  item = other
  <2>1. item.data \in Listed /\ other.data \in Listed
    BY <1>1, ItemFacts
  <2>2. item.data = other.data
    BY <1>1, <2>1, OneData
  <2> QED BY <1>1, <2>2, OneItem
<1>2. CASE FastMatch(t, o)
  <2>1. lockCount(t, o) = fast[t].lockCount /\ fast[t] \in Items(t)
        /\ fast[t].data # NoData /\ object[fast[t].data] = o
    BY <1>2 DEF lockCount, FastMatch, Items
  <2> QED BY <1>1, <2>1, ItemFacts
<1>3. CASE ~FastMatch(t, o) /\ CacheMatches(t, o) # {}
  <2>1. PICK i \in CacheMatches(t, o) : i = FirstMatch(t, o)
    BY <1>3, MatchIsOne
  <2>2. lockCount(t, o) = cache[t][i].lockCount /\ cache[t][i] \in Items(t)
        /\ cache[t][i].data # NoData /\ object[cache[t][i].data] = o
    BY <1>3, <2>1, CachedItem DEF lockCount, CacheMatches, IndInv
  <2> QED BY <1>1, <2>2, ItemFacts
<1>4. CASE ~FastMatch(t, o) /\ CacheMatches(t, o) = {}
  <2>1. lockCount(t, o) = 0
    BY <1>4 DEF lockCount
  <2>2. \A item \in Items(t) \ {FreeItem} : object[item.data] # o
    BY <1>4, NoMatch
  <2>3. FreeItem.data = NoData
    BY DEF FreeItem
  <2> QED BY <2>1, <2>2, <2>3
<1> QED BY <1>2, <1>3, <1>4

(* The same of every thread and object.                                    *)
CountsAreItems ==
    \A t \in Threads, o \in Objects :
        /\ lockCount(t, o) \in Nat
        /\ \A item \in Items(t) :
               item.data # NoData /\ object[item.data] = o =>
                   lockCount(t, o) = item.lockCount
        /\ lockCount(t, o) # 0 =>
               \E item \in Items(t) : item.data # NoData /\ object[item.data] = o

(* It holds wherever the invariant does ...                                *)
LEMMA LockCounts == IndInv => CountsAreItems
  BY LockCount DEF CountsAreItems

(* ... hence after a step too.                                             *)
LEMMA LockCountsNext == IndInv' => CountsAreItems'
  BY LockCounts, PTL

(* A lockCount changes only with the items for its object.                 *)
LEMMA SameCount ==
    ASSUME IndInv, IndInv', NEW t \in Threads, NEW o \in Objects,
           \A item : item.data # NoData =>
               (item \in Items(t)' /\ object'[item.data] = o
                <=> item \in Items(t) /\ object[item.data] = o)
    PROVE  lockCount(t, o)' = lockCount(t, o)
<1>1. CountsAreItems'
  BY LockCountsNext
<1>2. CASE \E item \in Items(t) : item.data # NoData /\ object[item.data] = o
  <2>1. PICK item \in Items(t) : item.data # NoData /\ object[item.data] = o
    BY <1>2
  <2>2. lockCount(t, o) = item.lockCount
    BY <2>1, LockCount
  <2>3. item \in Items(t)' /\ object'[item.data] = o
    BY <2>1
  <2>4. lockCount(t, o)' = item.lockCount
    BY <1>1, <2>1, <2>3 DEF CountsAreItems
  <2> QED BY <2>2, <2>4
<1>3. CASE ~\E item \in Items(t) : item.data # NoData /\ object[item.data] = o
  <2>1. lockCount(t, o) = 0
    BY <1>3, LockCount
  <2>2. lockCount(t, o)' = 0
    BY <1>1, <1>3 DEF CountsAreItems
  <2> QED BY <2>1, <2>2
<1> QED BY <1>2, <1>3

(* A thread is never less than zero times inside of an object, since the   *)
(* enter that has not locked yet has counted itself.                       *)
LEMMA DepthType ==
    ASSUME IndInv, NEW t \in Threads, NEW o \in Objects
    PROVE  /\ Depth(t, o) \in Nat
           /\ ~At(t, "mutex") => Depth(t, o) = lockCount(t, o)
           /\ At(t, "mutex") =>
                  Depth(t, o) = lockCount(t, o) - One(call[t].object = o)
<1>1. lockCount(t, o) \in Nat
  BY LockCount
<1>2. CASE At(t, "mutex") /\ call[t].object = o
  <2>1. call[t].why = "ACQUIRE" /\ call[t].data \in Datas /\ object[call[t].data] = o
    BY <1>2 DEF IndInv, CallOK, At
  <2>2. PICK item \in Items(t) : item.data = call[t].data
    BY <1>2 DEF IndInv, CallOK, At
  <2>3. item.data # NoData /\ object[item.data] = o
    BY <2>1, <2>2, SyncAssumption
  <2>4. lockCount(t, o) = item.lockCount /\ item.lockCount \in Nat \ {0}
    BY <2>3, LockCount, ItemFacts
  <2> QED BY <1>2, <2>4 DEF Depth, One
<1>3. CASE ~(At(t, "mutex") /\ call[t].object = o)
  BY <1>1, <1>3 DEF Depth, One
<1> QED BY <1>2, <1>3

(* The thread that is inside of an object owns the mutex of its SyncData,  *)
(* so no other is.                                                         *)
LEMMA Owned ==
    ASSUME IndInv, NEW u \in Threads, NEW d \in Listed, object[d] \in Objects,
           Depth(u, object[d]) # 0
    PROVE  d \in Datas /\ owner[d] = u
<1>1. lockCount(u, object[d]) # 0
  <2>1. lockCount(u, object[d]) \in Nat /\ Depth(u, object[d]) \in Nat
    BY LockCount, DepthType
  <2> QED BY <2>1, DepthType DEF One
<1>2. PICK item \in Items(u) : item.data # NoData /\ object[item.data] = object[d]
  BY <1>1, LockCount
<1>3. item.data = d /\ d \in Datas /\ item.lockCount \in Nat \ {0}
  BY <1>2, ItemFacts, OneData
<1>4. lockCount(u, object[d]) = item.lockCount
  BY <1>2, LockCount
<1>5. item.lockCount + Unlocking(u, d) = Locked(u, d) + Locking(u, d)
  BY <1>3 DEF IndInv, MutexMatchesCaches
<1>6. CASE At(u, "mutex") /\ call[u].data = d
  <2>1. call[u].object = object[d] /\ Locking(u, d) = 1 /\ Unlocking(u, d) = 0
    BY <1>6 DEF IndInv, CallOK, At, Locking, Unlocking, One
  <2>2. item.lockCount # 1
    BY <1>4, <1>6, <2>1, DepthType DEF One
  <2> QED BY <1>3, <1>5, <2>1, <2>2 DEF Locked
<1>7. CASE ~(At(u, "mutex") /\ call[u].data = d)
  <2>1. Locking(u, d) = 0 /\ Unlocking(u, d) \in Nat
    BY <1>7 DEF Locking, Unlocking, One
  <2> QED BY <1>3, <1>5, <2>1 DEF Locked
<1> QED BY <1>6, <1>7

(* A thread whose caches and call a step leaves alone stays as deep.       *)
LEMMA SameDepth ==
    ASSUME IndInv, IndInv', NEW t \in Threads, NEW o \in Objects,
           UNCHANGED <<fast[t], cache[t], call[t]>>,
           \A item \in Items(t) :
               item.data # NoData => object'[item.data] = object[item.data]
    PROVE  Depth(t, o)' = Depth(t, o)
<1>1. Items(t)' = Items(t)
  BY DEF Items
<1>2. lockCount(t, o)' = lockCount(t, o)
  BY <1>1, SameCount
<1> QED BY <1>2 DEF Depth, At

(* The step leaves the depths and the results of all threads but t alone.  *)
Others(t) ==
    \A u \in Threads \ {t} :
        /\ Seen(u)' = Seen(u)
        /\ \A o \in Objects : Depth(u, o)' = Depth(u, o)

(* Every step of t does, since it gives another object only to a SyncData  *)
(* that nobody uses.                                                       *)
LEMMA OthersSame ==
    ASSUME IndInv, IndInv', NEW t \in Threads,
           \A u \in Threads \ {t} :
               UNCHANGED <<fast[u], cache[u], call[u], result[u]>>,
           \A d \in Datas : object'[d] = object[d] \/ threadCount[d] = 0
    PROVE  Others(t)
<1> SUFFICES ASSUME NEW u \in Threads \ {t}
             PROVE  /\ Seen(u)' = Seen(u)
                    /\ \A o \in Objects : Depth(u, o)' = Depth(u, o)
  BY DEF Others
<1>1. \A item \in Items(u) :
          item.data # NoData => object'[item.data] = object[item.data]
  BY ItemFacts DEF IndInv, TypeOK
<1>2. UNCHANGED <<fast[u], cache[u], call[u], result[u]>>
  OBVIOUS
<1> QED BY <1>1, <1>2, SameDepth DEF Seen, At

(* A step that begins a call of t is an abstract call.                     *)
LEMMA MapCall ==
    ASSUME NEW t \in Threads, Others(t), Seen(t)' = "none",
           \A o \in Objects : Depth(t, o)' = Depth(t, o)
    PROVE  Abstract!Call(t)
  BY DEF Abstract!Call, Others, Seen

(* A step that brings t inside of an object no other thread is in is an    *)
(* abstract enter.                                                         *)
LEMMA MapEnter ==
    ASSUME NEW t \in Threads, NEW o \in Objects, Others(t),
           Seen(t) = "none", Seen(t)' = "success",
           \A u \in Threads \ {t} : Depth(u, o) = 0,
           Depth(t, o)' = Depth(t, o) + 1,
           \A p \in Objects \ {o} : Depth(t, p)' = Depth(t, p)
    PROVE  Abstract!Enter(t, o)
  BY DEF Abstract!Enter, Others, Seen

(* A step that takes t out of an object once is an abstract leave.         *)
LEMMA MapLeave ==
    ASSUME NEW t \in Threads, NEW o \in Objects, Others(t),
           Seen(t) # "none", Seen(t)' = "success", Depth(t, o) > 0,
           Depth(t, o)' = Depth(t, o) - 1,
           \A p \in Objects \ {o} : Depth(t, p)' = Depth(t, p)
    PROVE  Abstract!Leave(t, o)
  BY DEF Abstract!Leave, Others, Seen

(* A step that returns an error, with t outside of the object, is an       *)
(* abstract refusal.                                                       *)
LEMMA MapRefuse ==
    ASSUME NEW t \in Threads, NEW o \in Objects, Others(t),
           Seen(t) = "none", Seen(t)' = "notOwning", Depth(t, o) = 0,
           \A p \in Objects : Depth(t, p)' = Depth(t, p)
    PROVE  Abstract!Refuse(t, o)
  BY DEF Abstract!Refuse, Others, Seen

(* A step that leaves depths and results alone is no abstract step.        *)
LEMMA MapStutter ==
    ASSUME NEW t \in Threads, Others(t), Seen(t)' = Seen(t),
           \A o \in Objects : Depth(t, o)' = Depth(t, o)
    PROVE  UNCHANGED Abstract!vars
  BY DEF Abstract!vars, Others, Seen

(* A hit begins a call when it is an enter; when it is an exit it leaves   *)
(* the object as it counts down.                                           *)
LEMMA RefineHit ==
    ASSUME IndInv, IndInv', NEW t \in Threads, NEW o \in Objects,
           NEW why \in {"ACQUIRE", "RELEASE"}, At(t, "idle"),
           result' = [result EXCEPT ![t] = "none"],
           UNCHANGED <<data, lockp, object, strays, mutexes>>,
           NEW item \in SyncCacheItem, item \in Items(t), object[item.data] = o,
           Hit(t, o, why, item),
           Recounted(t, item, Counted(item, why))
    PROVE  Abstract!Call(t) \/ Abstract!Leave(t, o)
<1>1. /\ item.data \in Datas /\ item.data # NoData /\ item.lockCount \in Nat \ {0}
      /\ item.data \in Listed
  <2>1. item.data \in Datas /\ item.data # NoData
    BY SyncAssumption DEF SyncCacheItem
  <2> QED BY <2>1, ItemFacts
<1>2. /\ \A u \in Threads \ {t} : call'[u] = call[u]
      /\ call'[t].step = (IF why = "ACQUIRE" THEN "mutex" ELSE "unlock")
      /\ call'[t].object = o
  <2>1. PICK step \in {"mutex", "unlock"} : step = IF why = "ACQUIRE" THEN "mutex" ELSE "unlock"
    OBVIOUS
  <2>2. PICK d \in Datas : d = item.data
    BY <1>1
  <2>3. Begin(t, why, o, step, d)
    BY <2>1, <2>2 DEF Hit
  <2> QED BY <2>1, <2>3, BeginCall DEF Steps, IndInv
<1>3. result'[t] = "none" /\ \A u \in Threads \ {t} : result'[u] = result[u]
  BY DEF IndInv, TypeOK
<1>4. Others(t)
  BY <1>2, <1>3, OthersSame DEF Recounted
<1>5. Seen(t) = result[t] /\ Seen(t) # "none"
  BY DEF Seen, At, IndInv, CallOK
<1>6. PICK n \in Nat : n = Counted(item, why)
  BY CountedType
<1>7. lockCount(t, o) = item.lockCount
  BY <1>1, LockCount
<1>8. lockCount(t, o)' = n
  <2>1. CountsAreItems'
    BY LockCountsNext
  <2>2. CASE n # 0
    <3>1. PICK other \in Items(t)' : other.data = item.data /\ other.lockCount = n
      BY <1>6, <2>2 DEF Recounted
    <3>2. other.data # NoData /\ object'[other.data] = o
      BY <3>1, <1>1
    <3> QED BY <2>1, <3>1, <3>2 DEF CountsAreItems
  <2>3. CASE n = 0
    <3>1. \A other \in Items(t)' : other.data # item.data
      BY <1>6, <2>3 DEF Recounted
    <3>2. ASSUME NEW other \in Items(t)', other.data # NoData, object'[other.data] = o
          PROVE  FALSE
      <4>1. other.data \in Datas
        <5>1. other \in SyncCacheItem \cup {FreeItem}
          BY DEF Recounted, Items
        <5> QED BY <3>2, <5>1 DEF SyncCacheItem, FreeItem
      <4>2. other \in Items(t)
        BY <3>1, <4>1 DEF Recounted
      <4>3. other.data \in Listed /\ object[other.data] = o
        BY <3>2, <4>2, ItemFacts
      <4> QED BY <3>1, <4>3, <1>1, OneData
    <3> QED BY <2>1, <2>3, <3>2 DEF CountsAreItems
  <2> QED BY <2>2, <2>3
<1>9. ASSUME NEW p \in Objects \ {o} PROVE Depth(t, p)' = Depth(t, p)
  <2>1. ASSUME NEW other, other.data # NoData
        PROVE  other \in Items(t)' /\ object'[other.data] = p
               <=> other \in Items(t) /\ object[other.data] = p
    <3>1. CASE other.data = item.data
      BY <3>1
    <3>2. CASE other.data # item.data
      <4>1. CASE other.data \in Datas
        BY <3>2, <4>1 DEF Recounted
      <4>2. CASE other.data \notin Datas
        <5>1. other \notin SyncCacheItem \cup {FreeItem}
          BY <2>1, <4>2 DEF SyncCacheItem, FreeItem
        <5>2. other \notin Items(t)
          BY <5>1, ItemType DEF IndInv
        <5>3. other \notin Items(t)'
          BY <5>1 DEF Recounted, Items
        <5> QED BY <5>2, <5>3
      <4> QED BY <4>1, <4>2
    <3> QED BY <3>1, <3>2
  <2>2. lockCount(t, p)' = lockCount(t, p)
    BY <2>1, SameCount
  <2> QED BY <1>2, <2>2 DEF Depth, At
<1>10. Depth(t, o) = item.lockCount
  BY <1>7, DepthType DEF At
<1>11. CASE why = "ACQUIRE"
  <2>1. Depth(t, o)' = item.lockCount
    BY <1>1, <1>2, <1>6, <1>8, <1>11 DEF Depth, At, One, Counted
  <2>2. \A p \in Objects : Depth(t, p)' = Depth(t, p)
    BY <1>9, <1>10, <2>1
  <2>3. Seen(t)' = "none"
    BY <1>2, <1>3, <1>11 DEF Seen, At
  <2> QED BY <1>4, <2>2, <2>3, MapCall
<1>12. CASE why = "RELEASE"
  <2>1. Depth(t, o)' = item.lockCount - 1
    BY <1>1, <1>2, <1>6, <1>8, <1>12 DEF Depth, At, One, Counted
  <2>2. Depth(t, o)' = Depth(t, o) - 1 /\ Depth(t, o) > 0
    BY <1>1, <1>10, <2>1
  <2>3. Seen(t)' = "success"
    BY <1>2, <1>12 DEF Seen, At
  <2> QED BY <1>4, <1>5, <1>9, <2>2, <2>3, MapLeave
<1> QED BY <1>11, <1>12

(* A step that leaves the caches alone leaves the lockCounts alone.        *)
LEMMA SameCounts ==
    ASSUME IndInv, IndInv', NEW t \in Threads,
           UNCHANGED <<fast[t], cache[t]>>,
           \A d \in Datas : object'[d] = object[d] \/ threadCount[d] = 0
    PROVE  \A o \in Objects : lockCount(t, o)' = lockCount(t, o)
<1>1. Items(t)' = Items(t)
  BY DEF Items
<1>2. \A item \in Items(t) :
          item.data # NoData => object'[item.data] = object[item.data]
  BY ItemFacts DEF IndInv, TypeOK
<1> QED BY <1>1, <1>2, SameCount

(* A call that finds no match in the caches begins an abstract call.       *)
LEMMA RefineMiss ==
    ASSUME IndInv, IndInv', NEW t \in Threads, NEW o \in Objects,
           NEW why \in {"ACQUIRE", "RELEASE"}, At(t, "idle"),
           result' = [result EXCEPT ![t] = "none"], Miss(t, o, why),
           UNCHANGED <<data, lockp, object, strays, mutexes>>
    PROVE  Abstract!Call(t)
<1>1. call'[t].step = "list" /\ \A u \in Threads \ {t} : call'[u] = call[u]
  BY BeginCall DEF Miss, Steps, IndInv
<1>2. result'[t] = "none" /\ \A u \in Threads \ {t} : result'[u] = result[u]
  BY DEF IndInv, TypeOK
<1>3. UNCHANGED <<fast, cache, object>>
  BY DEF Miss
<1>4. Others(t)
  BY <1>1, <1>2, <1>3, OthersSame
<1>5. \A p \in Objects : Depth(t, p)' = Depth(t, p)
  BY <1>1, <1>3, SameCounts DEF Depth, At, One
<1>6. Seen(t)' = "none"
  BY <1>1, <1>2 DEF Seen, At
<1> QED BY <1>4, <1>5, <1>6, MapCall

(* So id2data without the spinlock begins an abstract call, or leaves.     *)
LEMMA Refineid2data ==
    ASSUME IndInv, IndInv', NEW t \in Threads, NEW o \in Objects,
           NEW why \in {"ACQUIRE", "RELEASE"}, id2data(t, o, why)
    PROVE  Abstract!Call(t) \/ Abstract!Leave(t, o)
<1>1. CASE FastHit(t, o, why) \/ CacheHit(t, o, why)
  <2>1. PICK item \in SyncCacheItem :
            /\ item \in Items(t) /\ object[item.data] = o
            /\ Hit(t, o, why, item)
            /\ Recounted(t, item, Counted(item, why))
    BY <1>1, FastRecounts, CacheRecounts
  <2>2. /\ At(t, "idle") /\ result' = [result EXCEPT ![t] = "none"]
        /\ UNCHANGED <<data, lockp, object, strays, mutexes>>
    BY DEF id2data
  <2> QED BY <2>1, <2>2, RefineHit
<1>2. CASE Miss(t, o, why)
  BY <1>2, RefineMiss DEF id2data
<1> QED BY <1>1, <1>2 DEF id2data

(* A step of the walk is no abstract step.                                 *)
LEMMA RefineWalk ==
    ASSUME IndInv, IndInv', NEW t \in Threads,
           UNCHANGED <<fast, cache, result>>,
           \A u \in Threads \ {t} : call'[u] = call[u],
           call[t].step \in {"list", "walk", "done"},
           call'[t].step \in {"list", "walk", "done", "save"},
           \A d \in Datas : object'[d] = object[d] \/ threadCount[d] = 0
    PROVE  UNCHANGED Abstract!vars
<1>1. Others(t)
  BY OthersSame
<1>2. \A o \in Objects : Depth(t, o)' = Depth(t, o)
  BY SameCounts DEF Depth, At, One
<1>3. Seen(t)' = Seen(t)
  BY DEF Seen, At
<1> QED BY <1>1, <1>2, <1>3, MapStutter

(* What Goto does to the calls of the threads.                             *)
LEMMA Goes ==
    ASSUME TypeOK, NEW t \in Threads, NEW step \in Steps, Goto(t, step)
    PROVE  /\ call'[t].step = step
           /\ call'[t].object = call[t].object /\ call'[t].data = call[t].data
           /\ \A u \in Threads \ {t} : call'[u] = call[u]
  BY DEF Goto, TypeOK, Calls

(* What Return does to the calls and results of the threads.               *)
LEMMA Returns ==
    ASSUME TypeOK, NEW t \in Threads, NEW value, Return(t, value)
    PROVE  /\ At(t, "idle")' /\ result'[t] = value
           /\ \A u \in Threads \ {t} : call'[u] = call[u] /\ result'[u] = result[u]
  BY DEF Return, TypeOK, At, Idle

(* No step under the spinlock is an abstract step.                         *)
LEMMA RefineList ==
    ASSUME IndInv, IndInv', NEW t \in Threads,
           \/ LockList(t) \/ FoundData(t) \/ NextData(t)
           \/ ReleaseNotFound(t) \/ ReuseData(t) \/ AllocateData(t)
    PROVE  UNCHANGED Abstract!vars
<1> USE DEF lists, caches, mutexes, Walking, Walked, At, Found
<1>1. CASE LockList(t)
  <2>1. /\ call'[t].step = "walk" /\ \A u \in Threads \ {t} : call'[u] = call[u]
    BY <1>1 DEF LockList, IndInv, TypeOK, Calls
  <2> QED BY <1>1, <2>1, RefineWalk DEF LockList
<1>2. CASE NextData(t)
  <2>1. /\ call'[t].step = "walk" /\ \A u \in Threads \ {t} : call'[u] = call[u]
    BY <1>2 DEF NextData, IndInv, TypeOK, Calls
  <2> QED BY <1>2, <2>1, RefineWalk DEF NextData
<1>3. CASE FoundData(t) \/ ReleaseNotFound(t)
  <2>1. /\ call'[t].step = "done" /\ \A u \in Threads \ {t} : call'[u] = call[u]
    BY <1>3 DEF FoundData, ReleaseNotFound, IndInv, TypeOK, Calls
  <2> QED BY <1>3, <2>1, RefineWalk DEF FoundData, ReleaseNotFound
<1>4. CASE ReuseData(t)
  <2>1. /\ call'[t].step = "done" /\ \A u \in Threads \ {t} : call'[u] = call[u]
    BY <1>4 DEF ReuseData, IndInv, TypeOK, Calls
  <2>2. WalkOK(t)
    BY <1>4 DEF ReuseData, IndInv, CallOK
  <2>3. \A d \in Datas : object'[d] = object[d] \/ threadCount[d] = 0
    BY <1>4, <2>2 DEF ReuseData, WalkOK, IndInv, TypeOK
  <2> QED BY <1>4, <2>1, <2>3, RefineWalk DEF ReuseData
<1>5. CASE AllocateData(t)
  <2>1. PICK d \in Datas \ Listed :
            /\ object' = [object EXCEPT ![d] = call[t].object]
            /\ Found(t, d)
    BY <1>5 DEF AllocateData
  <2>2. /\ call'[t].step = "done" /\ \A u \in Threads \ {t} : call'[u] = call[u]
    BY <2>1 DEF IndInv, TypeOK, Calls
  <2>3. \A e \in Datas : object'[e] = object[e] \/ threadCount[e] = 0
    BY <2>1 DEF IndInv, TypeOK, UnlistedOK
  <2> QED BY <1>5, <2>2, <2>3, RefineWalk DEF AllocateData
<1> QED BY <1>1, <1>2, <1>3, <1>4, <1>5

(* Unlocking the list ends an exit with an error, outside of the object;   *)
(* an enter goes on.                                                       *)
LEMMA RefineUnlockList ==
    ASSUME IndInv, IndInv', NEW t \in Threads, UnlockList(t)
    PROVE  \/ UNCHANGED Abstract!vars
           \/ \E o \in Objects : Abstract!Refuse(t, o)
<1> USE DEF caches, mutexes
<1>1. CASE call[t].why # "RELEASE"
  <2>1. Goto(t, "save") /\ UNCHANGED <<fast, cache, result, object>>
    BY <1>1 DEF UnlockList
  <2>2. /\ call'[t].step = "save" /\ \A u \in Threads \ {t} : call'[u] = call[u]
    BY <2>1, Goes DEF IndInv, Steps
  <2> QED BY <2>1, <2>2, RefineWalk DEF UnlockList, At
<1>2. CASE call[t].why = "RELEASE"
  <2>1. Return(t, "notOwning") /\ UNCHANGED <<fast, cache, object>>
    BY <1>2 DEF UnlockList
  <2>2. /\ At(t, "idle")' /\ result'[t] = "notOwning"
        /\ \A u \in Threads \ {t} : call'[u] = call[u] /\ result'[u] = result[u]
    BY <2>1, Returns DEF IndInv
  <2>3. Others(t)
    BY <2>1, <2>2, OthersSame
  <2>4. call[t].step = "done"
    BY DEF UnlockList, At
  <2>5. \A p \in Objects : Depth(t, p)' = Depth(t, p)
    BY <2>1, <2>2, <2>4, SameCounts DEF Depth, At, One
  <2>6. PICK o \in Objects : o = call[t].object
    BY <2>4, ListType
  <2>7. \A item \in Items(t) : item.data # NoData => object[item.data] # o
    BY <2>4, <2>6 DEF IndInv, ItemsOK, FreeItem
  <2>8. Depth(t, o) = 0
    <3>1. lockCount(t, o) = 0
      BY <2>7, LockCount
    <3> QED BY <3>1, <2>4 DEF Depth, At, One
  <2>9. Seen(t) = "none" /\ Seen(t)' = "notOwning"
    BY <2>2, <2>4 DEF Seen, At, IndInv, CallOK
  <2>10. Abstract!Refuse(t, o)
    BY <2>3, <2>5, <2>8, <2>9, MapRefuse
  <2> QED BY <2>10
<1> QED BY <1>1, <1>2

(* Saving the SyncData is no abstract step: the item counts one enter,     *)
(* which has not locked the mutex yet.                                     *)
LEMMA RefineSave ==
    ASSUME IndInv, IndInv', NEW t \in Threads, Save(t)
    PROVE  UNCHANGED Abstract!vars
<1> USE DEF mutexes, lists
<1>1. call[t].step = "save" /\ call[t].why = "ACQUIRE" /\ result' = result /\ object' = object
  BY DEF Save, At, IndInv, CallOK
<1>2. PICK o \in Objects : o = call[t].object
  BY <1>1, ListType
<1>3. PICK d \in Datas : d = call[t].data
  BY <1>1 DEF IndInv, CallOK
<1>4. d # NoData /\ object[d] = o
  BY <1>1, <1>2, <1>3, SyncAssumption DEF IndInv, CallOK
<1>5. /\ call'[t].step = "mutex" /\ call'[t].object = o
      /\ \A u \in Threads \ {t} : call'[u] = call[u]
  BY <1>2, Goes DEF Save, IndInv, Steps
<1>6. PICK item : item = [data |-> d, lockCount |-> 1]
  OBVIOUS
<1>7. item.data = d /\ item.lockCount = 1
  BY <1>6
<1>8. /\ \A u \in Threads \ {t} : fast'[u] = fast[u] /\ cache'[u] = cache[u]
      /\ \A other : other.data # NoData =>
             (other \in Items(t)' <=> other = item \/ other \in Items(t))
  <2>1. CASE fast[t].data = NoData
    <3>1. fast' = [fast EXCEPT ![t] = item] /\ cache' = cache
      BY <2>1, <1>3, <1>6 DEF Save
    <3>2. fast'[t] = item /\ \A u \in Threads \ {t} : fast'[u] = fast[u]
      BY <3>1 DEF IndInv, TypeOK
    <3> QED BY <2>1, <3>1, <3>2 DEF Items
  <2>2. CASE fast[t].data # NoData
    <3>1. cache' = [cache EXCEPT ![t] = Append(@, item)] /\ fast' = fast
      BY <2>2, <1>3, <1>6 DEF Save
    <3>2. PICK s \in Seq(SyncCacheItem) : s = cache[t]
      BY DEF IndInv, TypeOK
    <3>3. cache'[t] = Append(s, item) /\ \A u \in Threads \ {t} : cache'[u] = cache[u]
      BY <3>1, <3>2 DEF IndInv, TypeOK
    <3>4. item \in SyncCacheItem
      BY <1>6 DEF SyncCacheItem
    <3>5. \A other : (\E i \in DOMAIN Append(s, item) : other = Append(s, item)[i])
                     <=> other = item \/ \E i \in DOMAIN s : other = s[i]
      <4>1. /\ DOMAIN Append(s, item) = 1 .. Len(s) + 1
            /\ DOMAIN s = 1 .. Len(s) /\ Len(s) \in Nat
            /\ \A i \in 1 .. Len(s) : Append(s, item)[i] = s[i]
            /\ Append(s, item)[Len(s) + 1] = item
        BY <3>4
      <4> QED BY <4>1
    <3> QED BY <3>1, <3>2, <3>3, <3>5 DEF Items
  <2> QED BY <2>1, <2>2
<1>9. Others(t)
  BY <1>1, <1>5, <1>8, OthersSame
<1>10. ASSUME NEW p \in Objects \ {o} PROVE Depth(t, p)' = Depth(t, p)
  <2>1. lockCount(t, p)' = lockCount(t, p)
    BY <1>1, <1>4, <1>7, <1>8, SameCount
  <2> QED BY <1>1, <1>5, <2>1 DEF Depth, At
<1>11. Depth(t, o) = 0
  <2>1. \A other \in Items(t) : other.data # NoData => object[other.data] # o
    BY <1>1, <1>2 DEF IndInv, ItemsOK, FreeItem
  <2>2. lockCount(t, o) = 0
    BY <2>1, LockCount
  <2> QED BY <1>1, <2>2 DEF Depth, At, One
<1>12. Depth(t, o)' = 0
  <2>1. item \in Items(t)'
    BY <1>4, <1>7, <1>8
  <2>2. lockCount(t, o)' = 1
    BY <1>1, <1>4, <1>7, <2>1, LockCountsNext DEF CountsAreItems
  <2> QED BY <1>5, <2>2 DEF Depth, At, One
<1>13. Seen(t)' = Seen(t)
  BY <1>1, <1>5 DEF Seen, At
<1>14. \A p \in Objects : Depth(t, p)' = Depth(t, p)
  BY <1>10, <1>11, <1>12
<1> QED BY <1>9, <1>13, <1>14, MapStutter

(* Locking the mutex is the abstract enter.                                *)
LEMMA Refinelock ==
    ASSUME IndInv, IndInv', NEW t \in Threads, lock(t)
    PROVE  \E o \in Objects : Abstract!Enter(t, o)
<1> USE DEF caches, lists
<1>1. call[t].step = "mutex" /\ call[t].why = "ACQUIRE"
  BY DEF lock, At, IndInv, CallOK
<1>2. PICK o \in Objects : o = call[t].object
  BY <1>1, ListType
<1>3. PICK d \in Datas : d = call[t].data
  BY <1>1 DEF IndInv, CallOK
<1>4. object[d] = o /\ owner[d] \in {NoThread, t}
  BY <1>1, <1>2, <1>3 DEF IndInv, CallOK, lock
<1>5. d \in Listed
  <2>1. PICK item \in Items(t) : item.data = d
    BY <1>1, <1>3 DEF IndInv, CallOK, At
  <2> QED BY <2>1, ItemFacts, SyncAssumption
<1>6. /\ At(t, "idle")' /\ result'[t] = "success"
      /\ \A u \in Threads \ {t} : call'[u] = call[u] /\ result'[u] = result[u]
  BY Returns DEF IndInv, lock
<1>7. UNCHANGED <<fast, cache, object>>
  BY DEF lock
<1>8. Others(t)
  BY <1>6, <1>7, OthersSame
<1>9. \A u \in Threads \ {t} : Depth(u, o) = 0
  BY <1>4, <1>5, Owned, SyncAssumption
<1>10. \A p \in Objects : lockCount(t, p)' = lockCount(t, p) /\ lockCount(t, p) \in Nat
  BY <1>7, SameCounts, LockCount
<1>11. Depth(t, o)' = Depth(t, o) + 1
  BY <1>1, <1>2, <1>6, <1>10 DEF Depth, At, One
<1>12. \A p \in Objects \ {o} : Depth(t, p)' = Depth(t, p)
  BY <1>1, <1>2, <1>6, <1>10 DEF Depth, At, One
<1>13. Seen(t) = "none" /\ Seen(t)' = "success"
  BY <1>1, <1>6 DEF Seen, At, IndInv, CallOK
<1> QED BY <1>8, <1>9, <1>11, <1>12, <1>13, MapEnter

(* Unlocking the mutex is no abstract step: the exit has taken effect.     *)
LEMMA RefinetryUnlock ==
    ASSUME IndInv, IndInv', NEW t \in Threads, tryUnlock(t)
    PROVE  UNCHANGED Abstract!vars
<1> USE DEF caches, lists
<1>1. call[t].step = "unlock" /\ UNCHANGED <<fast, cache, object>>
  BY DEF tryUnlock, At
<1>2. Return(t, "success")
  BY InvtryUnlock
<1>3. /\ At(t, "idle")' /\ result'[t] = "success"
      /\ \A u \in Threads \ {t} : call'[u] = call[u] /\ result'[u] = result[u]
  BY <1>2, Returns DEF IndInv
<1>4. Others(t)
  BY <1>1, <1>3, OthersSame
<1>5. \A o \in Objects : Depth(t, o)' = Depth(t, o)
  BY <1>1, <1>3, SameCounts DEF Depth, At, One
<1>6. Seen(t)' = Seen(t)
  BY <1>1, <1>3 DEF Seen, At
<1> QED BY <1>4, <1>5, <1>6, MapStutter

(* Nor is the end of a thread.                                             *)
LEMMA RefineDestroy ==
    ASSUME IndInv, IndInv', NEW t \in Threads, _destroySyncCache(t)
    PROVE  UNCHANGED Abstract!vars
<1>1. UNCHANGED <<fast, cache, object, call, result>>
  BY DEF _destroySyncCache, lists, mutexes
<1>2. Others(t)
  BY <1>1, OthersSame
<1>3. \A o \in Objects : Depth(t, o)' = Depth(t, o)
  BY <1>1, SameCounts DEF Depth, At
<1>4. Seen(t)' = Seen(t)
  BY <1>1 DEF Seen, At
<1> QED BY <1>2, <1>3, <1>4, MapStutter

(* The lists, caches and mutexes together are one recursive lock per       *)
(* object, and objc_sync_exit fails exactly when the thread is not inside  *)
(* of the object (objc-sync.mm:110-326).                                   *)
THEOREM Refinement == Spec => ImplementsAbstractSync
<1>1. Init => Abstract!Init
  <2> SUFFICES ASSUME Init PROVE Abstract!Init
    OBVIOUS
  <2>1. IndInv
    BY InvInit
  <2>2. ASSUME NEW t \in Threads, NEW o \in Objects PROVE Depth(t, o) = 0
    <3>1. Items(t) = {FreeItem} /\ FreeItem.data = NoData /\ ~At(t, "mutex")
      BY DEF Init, Items, FreeItem, At, Idle
    <3>2. lockCount(t, o) = 0
      BY <2>1, <3>1, LockCount
    <3> QED BY <2>1, <3>1, <3>2, DepthType
  <2>3. \A t \in Threads : ~At(t, "unlock") /\ result[t] = "success"
    BY DEF Init, At, Idle
  <2> QED BY <2>2, <2>3 DEF Abstract!Init
<1>2. IndInv /\ IndInv' /\ [Next]_vars => [Abstract!Next]_(Abstract!vars)
  <2> SUFFICES ASSUME IndInv, IndInv', [Next]_vars
               PROVE  Abstract!Next \/ UNCHANGED Abstract!vars
    OBVIOUS
  <2>1. CASE UNCHANGED vars
    BY <2>1 DEF vars, Abstract!vars, Depth, lockCount, FastMatch, CacheMatches, FirstMatch, At
  <2>2. CASE Next
    <3>1. PICK t \in Threads : Start(t) \/ Leave(t) \/ Step(t) \/ _destroySyncCache(t)
      BY <2>2 DEF Next
    <3>2. CASE Start(t) \/ Leave(t)
      <4>1. PICK o \in Objects : id2data(t, o, "ACQUIRE") \/ id2data(t, o, "RELEASE")
        BY <3>2 DEF Start, Leave, Enter, Exit, StrayExit, objc_sync_enter, objc_sync_exit
      <4>2. Abstract!Call(t) \/ Abstract!Leave(t, o)
        BY <4>1, Refineid2data
      <4> QED BY <4>2 DEF Abstract!Next
    <3>3. CASE Step(t)
      <4>1. \/ UNCHANGED Abstract!vars
            \/ \E o \in Objects : Abstract!Refuse(t, o) \/ Abstract!Enter(t, o)
        BY <3>3, RefineList, RefineUnlockList, RefineSave, Refinelock, RefinetryUnlock DEF Step
      <4> QED BY <4>1 DEF Abstract!Next
    <3>4. CASE _destroySyncCache(t)
      BY <3>4, RefineDestroy
    <3> QED BY <3>1, <3>2, <3>3, <3>4
  <2> QED BY <2>1, <2>2
<1> QED BY <1>1, <1>2, Invariance, PTL DEF Spec, ImplementsAbstractSync, Abstract!Spec
====
