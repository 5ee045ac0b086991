---- MODULE WeakReferences ----
(***************************************************************************)
(* __weak variables of several objects: storeWeak and its variants,        *)
(* objc_loadWeakRetained, objc_copyWeak, objc_moveWeak and the clearing at *)
(* -dealloc (NSObject.mm, objc-weak.mm).                                   *)
(*                                                                         *)
(* A side table, with its lock and its weak_table, serves all objects of   *)
(* one stripe of addresses; nil has a stripe too.  A store that replaces   *)
(* one object by another locks the tables of both, in address order, and   *)
(* starts over if the variable changed meanwhile; it must also let go of   *)
(* the locks to run +initialize.                                           *)
(*                                                                         *)
(* Each unlocked read of the variable, each lock acquisition that is held  *)
(* while waiting for the other one, and each critical section is one       *)
(* action.  A thread's operations nest: +initialize and -dealloc run the   *)
(* program's code, which uses weak variables again.                        *)
(*                                                                         *)
(* The reference count is one number per object here (RootRefcount has the *)
(* rest): the last release starts -dealloc, rootTryRetain fails from then  *)
(* on.  Freed addresses are used again.                                    *)
(***************************************************************************)
EXTENDS Integers, Sequences, FiniteSets

CONSTANTS
    Threads, NoThread,
    Objects, Nil,
    Locations, NoLocation,
    Classes, NoClass,
    ClassOf,      \* [Objects -> Classes]
    TableOf,      \* [Objects \cup {Nil} -> Int]: the address of its SideTable
    Initialized,  \* the classes that are initialized from the start
    MaxDepth      \* bound: how deep the program's calls nest

ASSUME WeakAssumption ==
    /\ IsFiniteSet(Threads)
    /\ NoThread \notin Threads
    /\ Nil \notin Objects
    /\ NoLocation \notin Locations
    /\ NoClass \notin Classes
    /\ ClassOf \in [Objects -> Classes]
    /\ TableOf \in [Objects \cup {Nil} -> Int]
    /\ Initialized \subseteq Classes
    /\ MaxDepth \in Nat

VARIABLES
    location,     \* what is stored in each weak variable
    inUse,        \* has it been initialized and not destroyed?
    referrers,    \* the weak_entry_t of each object
    weakly_referenced,
    life,         \* "live", "deallocating" or "freed"
    holds,        \* the objects each thread has a strong reference to
    lock,         \* the holder of each side table's lock
    initializing, \* per class: "no", "done", or the thread in +initialize
    stack         \* per thread: the operations it is in, innermost last

vars == <<location, inUse, referrers, weakly_referenced, life, holds,
          lock, initializing, stack>>
table == <<location, inUse, referrers, weakly_referenced>>

Tables == {TableOf[o] : o \in Objects \cup {Nil}}

Ops == {"store", "init", "destroy", "load", "copy", "move",
        "initialize", "dealloc"}
Steps == {"read", "lock", "lock2", "wait", "release", "setNil", "run",
          "free"}

(* op is the call, does the primitive it is in; loc is the variable that   *)
(* primitive is about, src the source of a copy or move; old and new are   *)
(* oldObj and newObj, seen is previouslyInitializedClass, and held says    *)
(* that a copy still has its strong reference to new.                      *)
Frame ==
    [op : Ops, does : Ops, step : Steps,
     loc : Locations \cup {NoLocation}, src : Locations \cup {NoLocation},
     old : Objects \cup {Nil}, new : Objects \cup {Nil},
     seen : Classes \cup {NoClass}, held : BOOLEAN]

Call(op, step) ==
    [op |-> op, does |-> op, step |-> step,
     loc |-> NoLocation, src |-> NoLocation, old |-> Nil, new |-> Nil,
     seen |-> NoClass, held |-> FALSE]

Init ==
    /\ location = [l \in Locations |-> Nil]
    /\ inUse = [l \in Locations |-> FALSE]
    /\ referrers = [o \in Objects |-> {}]
    /\ weakly_referenced = [o \in Objects |-> FALSE]
    /\ life = [o \in Objects |-> "live"]
    /\ \E t \in Threads :
           holds = [u \in Threads |-> IF u = t THEN Objects ELSE {}]
    /\ lock = [b \in Tables |-> NoThread]
    /\ initializing =
           [c \in Classes |-> IF c \in Initialized THEN "done" ELSE "no"]
    /\ stack = [t \in Threads |-> <<>>]

-----------------------------------------------------------------------------
(* Frames.                                                                 *)

Top(t) == stack[t][Len(stack[t])]
At(t, op, step) == stack[t] # <<>> /\ Top(t).does = op /\ Top(t).step = step

Rest(t) == SubSeq(stack[t], 1, Len(stack[t]) - 1)
SetTop(t, f) == stack' = [stack EXCEPT ![t] = Append(Rest(t), f)]
Push(t, f) == stack' = [stack EXCEPT ![t] = Append(@, f)]
Pop(t) == stack' = [stack EXCEPT ![t] = Rest(t)]
Goto(t, step) == SetTop(t, [Top(t) EXCEPT !.step = step])

Frames(t) == {stack[t][i] : i \in DOMAIN stack[t]}
AllFrames == UNION {Frames(t) : t \in Threads}

(* The program runs: outside the runtime, in +initialize or in -dealloc.   *)
InProgram(t) ==
    stack[t] # <<>> => Top(t).step = "run" /\ Len(stack[t]) < MaxDepth

(* Objects the program may pass: those it has a reference to, and self in  *)
(* -dealloc.                                                               *)
Reachable(t) ==
    holds[t] \cup {f.new : f \in {g \in Frames(t) : g.op = "dealloc"}}

(* init, destroy, copy's destination and move are not safe against other   *)
(* uses of the variable: the program keeps them apart.                     *)
Mentioned(f) == {f.loc, f.src} \cap Locations
Excluded(f) ==
    (IF f.op \in {"destroy", "move"} THEN {f.src} \cap Locations ELSE {})
    \cup (IF f.op \in {"init", "copy", "move"} THEN {f.loc} \cap Locations
          ELSE {})
Busy(l) == \E f \in AllFrames : l \in Mentioned(f)
Exclusive(l) == \E f \in AllFrames : l \in Excluded(f)
Usable(l) == inUse[l] /\ ~Exclusive(l)

Holders(o) ==
    {<<t, 0>> : t \in {u \in Threads : o \in holds[u]}}
    \cup UNION {{<<t, i>> : i \in {j \in DOMAIN stack[t] :
                                      stack[t][j].held /\ stack[t][j].new = o}}
                : t \in Threads}

(* Give up the reference h; the last one starts -dealloc on top of frames. *)
LetGo(t, o, h, frames) ==
    IF Holders(o) = {h}
    THEN /\ life' = [life EXCEPT ![o] = "deallocating"]
         /\ stack' = [stack EXCEPT ![t] =
                Append(frames, [Call("dealloc", "run") EXCEPT !.new = o])]
    ELSE /\ stack' = [stack EXCEPT ![t] = frames]
         /\ UNCHANGED life

-----------------------------------------------------------------------------
(* The program's calls.                                                    *)

StoreWeak(t) ==
    /\ InProgram(t)
    /\ \E l \in Locations, o \in Reachable(t) \cup {Nil} :
           /\ Usable(l)
           /\ Push(t, [Call("store", "read") EXCEPT !.loc = l, !.new = o])
    /\ UNCHANGED <<table, life, holds, lock, initializing>>

(* objc_initWeak: nil is stored at once, an object as by storeWeak.        *)
InitWeak(t) ==
    /\ InProgram(t)
    /\ \E l \in Locations, o \in Reachable(t) \cup {Nil} :
           /\ ~inUse[l] /\ ~Busy(l)
           /\ IF o = Nil
              THEN /\ location' = [location EXCEPT ![l] = Nil]
                   /\ inUse' = [inUse EXCEPT ![l] = TRUE]
                   /\ UNCHANGED stack
              ELSE /\ Push(t, [Call("init", "lock") EXCEPT !.loc = l,
                                                           !.new = o])
                   /\ UNCHANGED <<location, inUse>>
    /\ UNCHANGED <<referrers, weakly_referenced, life, holds, lock,
                   initializing>>

DestroyWeak(t) ==
    /\ InProgram(t)
    /\ \E l \in Locations :
           /\ inUse[l] /\ ~Busy(l)
           /\ Push(t, [Call("destroy", "read") EXCEPT !.loc = l, !.src = l])
    /\ UNCHANGED <<table, life, holds, lock, initializing>>

LoadWeak(t) ==
    /\ InProgram(t)
    /\ \E l \in Locations :
           /\ Usable(l)
           /\ Push(t, [Call("load", "read") EXCEPT !.loc = l])
    /\ UNCHANGED <<table, life, holds, lock, initializing>>

(* objc_copyWeak and objc_moveWeak begin with a load of the source.        *)
CopyWeak(t) ==
    /\ InProgram(t)
    /\ \E dst, src \in Locations, op \in {"copy", "move"} :
           /\ ~inUse[dst] /\ ~Busy(dst)
           /\ Usable(src) /\ (op = "move" => ~Busy(src))
           /\ Push(t, [Call(op, "read") EXCEPT !.does = "load",
                                               !.loc = dst, !.src = src])
    /\ UNCHANGED <<table, life, holds, lock, initializing>>

(* A reference is passed to another thread.                                *)
Give(t) ==
    /\ InProgram(t)
    /\ \E u \in Threads \ {t}, o \in holds[t] :
           /\ o \notin holds[u]
           /\ holds' = [holds EXCEPT ![u] = @ \cup {o}]
    /\ UNCHANGED <<table, life, lock, initializing, stack>>

Release(t) ==
    /\ InProgram(t)
    /\ \E o \in holds[t] :
           /\ \A f \in Frames(t) : f.new # o
           /\ holds' = [holds EXCEPT ![t] = @ \ {o}]
           /\ LetGo(t, o, <<t, 0>>, stack[t])
    /\ UNCHANGED <<table, lock, initializing>>

(* A new object at a freed address.                                        *)
Alloc(t) ==
    /\ InProgram(t)
    /\ \E o \in Objects :
           /\ life[o] = "freed"
           /\ life' = [life EXCEPT ![o] = "live"]
           /\ holds' = [holds EXCEPT ![t] = @ \cup {o}]
           /\ weakly_referenced' = [weakly_referenced EXCEPT ![o] = FALSE]
    /\ UNCHANGED <<location, inUse, referrers, lock, initializing, stack>>

-----------------------------------------------------------------------------
(* storeWeak                                                               *)

HaveOld(f) == f.does \in {"store", "destroy"}
HaveNew(f) == f.does \in {"store", "init"}

ReadOld(t) ==
    /\ At(t, "store", "read") \/ At(t, "destroy", "read")
    /\ SetTop(t, [Top(t) EXCEPT !.old = location[Top(t).loc],
                                !.step = "lock"])
    /\ UNCHANGED <<table, life, holds, lock, initializing>>

(* SideTable::lockTwo                                                      *)
Needs(f) ==
    (IF HaveOld(f) THEN {TableOf[f.old]} ELSE {})
    \cup (IF HaveNew(f) THEN {TableOf[f.new]} ELSE {})

(* The lower address first.                                                *)
FirstTable(f) == CHOOSE b \in Needs(f) : \A c \in Needs(f) : b =< c

InStore(t, step) ==
    \E does \in {"store", "init", "destroy"} : At(t, does, step)

LockFirst(t) ==
    /\ InStore(t, "lock")
    /\ Cardinality(Needs(Top(t))) = 2
    /\ lock[FirstTable(Top(t))] = NoThread
    /\ lock' = [lock EXCEPT ![FirstTable(Top(t))] = t]
    /\ Goto(t, "lock2")
    /\ UNCHANGED <<table, life, holds, initializing>>

(* The thread gets the only lock it needs, or the second of two ...        *)
Locks(t) ==
    \/ /\ InStore(t, "lock")
       /\ \A b \in Needs(Top(t)) : Needs(Top(t)) = {b} /\ lock[b] = NoThread
    \/ /\ InStore(t, "lock2")
       /\ \A b \in Needs(Top(t)) : lock[b] \in {NoThread, t}

(* ... and releases what it had before the end of the critical section.    *)
Unlock(t) ==
    lock' = [b \in Tables |-> IF lock[b] = t THEN NoThread ELSE lock[b]]

(* The variable no longer holds what the locks were chosen for.            *)
Changed(f) == HaveOld(f) /\ location[f.loc] # f.old

StoreRetry(t) ==
    /\ Locks(t) /\ Changed(Top(t))
    /\ Goto(t, "read") /\ Unlock(t)
    /\ UNCHANGED <<table, life, holds, initializing>>

Uninitialized(f) ==
    /\ HaveNew(f) /\ f.new # Nil
    /\ ClassOf[f.new] # f.seen
    /\ initializing[ClassOf[f.new]] # "done"

Restarted(f, c) ==
    [f EXCEPT !.seen = c,
              !.step = IF f.does = "init" THEN "lock" ELSE "read"]

(* _class_initialize: run +initialize, wait for the thread that is running *)
(* it, or go on because that is this thread; then start over.              *)
class_initialize(t, c) ==
    \/ /\ initializing[c] = "no"
       /\ initializing' = [initializing EXCEPT ![c] = t]
       /\ stack' = [stack EXCEPT ![t] =
              Append(Append(Rest(t), Restarted(Top(t), c)),
                     [Call("initialize", "run") EXCEPT !.seen = c])]
    \/ /\ initializing[c] = t
       /\ SetTop(t, Restarted(Top(t), c))
       /\ UNCHANGED initializing
    \/ /\ initializing[c] \in Threads \ {t}
       /\ SetTop(t, [Top(t) EXCEPT !.seen = c, !.step = "wait"])
       /\ UNCHANGED initializing

StoreInitialize(t) ==
    /\ Locks(t) /\ ~Changed(Top(t)) /\ Uninitialized(Top(t))
    /\ Unlock(t)
    /\ class_initialize(t, ClassOf[Top(t).new])
    /\ UNCHANGED <<table, life, holds>>

(* weak_unregister_no_lock, weak_register_no_lock.  A deallocating object  *)
(* is refused: nil is stored, or the process halts.                        *)
Unregistered(f) ==
    IF HaveOld(f) /\ f.old # Nil
    THEN [referrers EXCEPT ![f.old] = @ \ {f.loc}] ELSE referrers

Accepts(f) == HaveNew(f) /\ f.new # Nil /\ life[f.new] = "live"

(* The rest of the call: a copy gives up its reference, a move has still   *)
(* to clear its source.                                                    *)
Stored(t, f) ==
    IF f.op \notin {"copy", "move"} THEN Pop(t)
    ELSE Goto(t, IF f.does = "init" THEN "release" ELSE "setNil")

StoreCommit(t) ==
    LET f == Top(t) IN
    /\ Locks(t) /\ ~Changed(f) /\ ~Uninitialized(f)
    /\ referrers' =
           IF Accepts(f)
           THEN [Unregistered(f) EXCEPT ![f.new] = @ \cup {f.loc}]
           ELSE Unregistered(f)
    /\ weakly_referenced' =
           IF Accepts(f) THEN [weakly_referenced EXCEPT ![f.new] = TRUE]
           ELSE weakly_referenced
    /\ location' =
           IF HaveNew(f)
           THEN [location EXCEPT ![f.loc] = IF Accepts(f) THEN f.new ELSE Nil]
           ELSE location
    /\ inUse' = [inUse EXCEPT ![f.loc] = HaveNew(f)]
    /\ Stored(t, f) /\ Unlock(t)
    /\ UNCHANGED <<life, holds, initializing>>

WaitForInitialize(t) ==
    /\ stack[t] # <<>> /\ Top(t).step = "wait"
    /\ initializing[Top(t).seen] = "done"
    /\ SetTop(t, Restarted(Top(t), Top(t).seen))
    /\ UNCHANGED <<table, life, holds, lock, initializing>>

(* Mutant: the class stays in the initializing state.                      *)
FinishInitializeSilent(t) ==
    /\ At(t, "initialize", "run")
    /\ Pop(t)
    /\ UNCHANGED <<table, life, holds, lock, initializing>>

(* _finishInitializing sets the state and wakes the threads that wait.     *)
FinishInitialize(t) ==
    /\ At(t, "initialize", "run")
    /\ initializing' = [initializing EXCEPT ![Top(t).seen] = "done"]
    /\ Pop(t)
    /\ UNCHANGED <<table, life, holds, lock>>

-----------------------------------------------------------------------------
(* objc_loadWeakRetained, and what objc_copyWeak and objc_moveWeak do with *)
(* its result                                                              *)

Source(f) == IF f.op = "load" THEN f.loc ELSE f.src

(* moveWeak goes on with objc_destroyWeak(src).                            *)
AfterCopy(t, f) ==
    IF f.op = "copy" THEN Rest(t)
    ELSE Append(Rest(t), [f EXCEPT !.does = "destroy", !.step = "read",
                                   !.loc = f.src, !.old = Nil, !.new = Nil,
                                   !.held = FALSE])

(* The load yields nil; a copy then stores nil without taking a lock.      *)
LoadNil(t, f) ==
    IF f.op = "load"
    THEN Pop(t) /\ UNCHANGED <<location, inUse>>
    ELSE /\ location' = [location EXCEPT ![f.loc] = Nil]
         /\ inUse' = [inUse EXCEPT ![f.loc] = TRUE]
         /\ stack' = [stack EXCEPT ![t] = AfterCopy(t, f)]

LoadRead(t) ==
    LET f == Top(t) IN
    /\ At(t, "load", "read")
    /\ IF location[Source(f)] = Nil
       THEN LoadNil(t, f)
       ELSE /\ SetTop(t, [f EXCEPT !.old = location[Source(f)],
                                   !.step = "lock"])
            /\ UNCHANGED <<location, inUse>>
    /\ UNCHANGED <<referrers, weakly_referenced, life, holds, lock,
                   initializing>>

LoadLocks(t) == At(t, "load", "lock") /\ lock[TableOf[Top(t).old]] = NoThread

LoadRetry(t) ==
    /\ LoadLocks(t) /\ location[Source(Top(t))] # Top(t).old
    /\ Goto(t, "read")
    /\ UNCHANGED <<table, life, holds, lock, initializing>>

(* A class has a custom retain/release until it is initialized.            *)
LoadInitialize(t) ==
    LET f == Top(t) IN
    /\ LoadLocks(t) /\ location[Source(f)] = f.old
    /\ initializing[ClassOf[f.old]] \notin {"done", t}
    /\ class_initialize(t, ClassOf[f.old])
    /\ UNCHANGED <<table, life, holds, lock>>

rootTryRetain(o) == life[o] = "live"

LoadRetain(t) ==
    LET f == Top(t) IN
    /\ LoadLocks(t) /\ location[Source(f)] = f.old
    /\ initializing[ClassOf[f.old]] \in {"done", t}
    /\ IF ~rootTryRetain(f.old)
       THEN LoadNil(t, f) /\ UNCHANGED holds
       ELSE /\ IF f.op = "load"
               THEN /\ holds' = [holds EXCEPT ![t] = @ \cup {f.old}]
                    /\ Pop(t)
               ELSE /\ SetTop(t, [f EXCEPT !.does = "init", !.step = "lock",
                                           !.new = f.old, !.held = TRUE,
                                           !.old = Nil, !.seen = NoClass])
                    /\ UNCHANGED holds
            /\ UNCHANGED <<location, inUse>>
    /\ UNCHANGED <<referrers, weakly_referenced, life, lock, initializing>>

(* objc_release(obj) at the end of objc_copyWeak                           *)
CopyRelease(t) ==
    /\ At(t, "init", "release")
    /\ LetGo(t, Top(t).new, <<t, Len(stack[t])>>, AfterCopy(t, Top(t)))
    /\ UNCHANGED <<table, holds, lock, initializing>>

(* *src = nil at the end of objc_moveWeak                                  *)
MoveSetNil(t) ==
    /\ At(t, "destroy", "setNil")
    /\ location' = [location EXCEPT ![Top(t).src] = Nil]
    /\ Pop(t)
    /\ UNCHANGED <<inUse, referrers, weakly_referenced, life, holds, lock,
                   initializing>>

-----------------------------------------------------------------------------
(* The end of -dealloc                                                     *)

(* Mutant: the weakly_referenced bit is not looked at.                     *)
DisposeFastBlind(t) ==
    LET o == Top(t).new IN
    /\ At(t, "dealloc", "run")
    /\ life' = [life EXCEPT ![o] = "freed"]
    /\ Pop(t)
    /\ UNCHANGED <<table, holds, lock, initializing>>

DisposeFast(t) ==
    LET o == Top(t).new IN
    /\ At(t, "dealloc", "run") /\ ~weakly_referenced[o]
    /\ life' = [life EXCEPT ![o] = "freed"]
    /\ Pop(t)
    /\ UNCHANGED <<table, holds, lock, initializing>>

(* Mutant: the entry is removed and the variables are not cleared.         *)
WeakClearEntry(t) ==
    LET o == Top(t).new IN
    /\ At(t, "dealloc", "run") /\ weakly_referenced[o]
    /\ lock[TableOf[o]] = NoThread
    /\ referrers' = [referrers EXCEPT ![o] = {}]
    /\ Goto(t, "free")
    /\ UNCHANGED <<location, inUse, weakly_referenced, life, holds, lock,
                   initializing>>

(* weak_clear_no_lock, under the lock of the object's table: the variables *)
(* that still hold the object become nil.                                  *)
WeakClear(t) ==
    LET o == Top(t).new IN
    /\ At(t, "dealloc", "run") /\ weakly_referenced[o]
    /\ lock[TableOf[o]] = NoThread
    /\ location' = [l \in Locations |->
                       IF l \in referrers[o] /\ location[l] = o THEN Nil
                       ELSE location[l]]
    /\ referrers' = [referrers EXCEPT ![o] = {}]
    /\ Goto(t, "free")
    /\ UNCHANGED <<inUse, weakly_referenced, life, holds, lock, initializing>>

Free(t) ==
    /\ At(t, "dealloc", "free")
    /\ life' = [life EXCEPT ![Top(t).new] = "freed"]
    /\ Pop(t)
    /\ UNCHANGED <<table, holds, lock, initializing>>

-----------------------------------------------------------------------------
(* The specification.                                                      *)

Calls(t) ==
    \/ StoreWeak(t)
    \/ InitWeak(t)
    \/ DestroyWeak(t)
    \/ LoadWeak(t)
    \/ CopyWeak(t)
    \/ Give(t)
    \/ Release(t)
    \/ Alloc(t)

Step(t) ==
    \/ ReadOld(t)
    \/ LockFirst(t)
    \/ StoreRetry(t)
    \/ StoreInitialize(t)
    \/ StoreCommit(t)
    \/ WaitForInitialize(t)
    \/ FinishInitialize(t)
    \/ LoadRead(t)
    \/ LoadRetry(t)
    \/ LoadInitialize(t)
    \/ LoadRetain(t)
    \/ CopyRelease(t)
    \/ MoveSetNil(t)
    \/ DisposeFast(t)
    \/ WeakClear(t)
    \/ Free(t)

Next == \E t \in Threads : Calls(t) \/ Step(t)

Spec == Init /\ [][Next]_vars

(* A scheduled thread keeps executing the operation it is in.              *)
FairSpec == Spec /\ \A t \in Threads : WF_vars(Step(t))

-----------------------------------------------------------------------------
(* Properties.                                                             *)

(* Every variable stays in its type.                                       *)
TypeOK ==
    /\ location \in [Locations -> Objects \cup {Nil}]
    /\ inUse \in [Locations -> BOOLEAN]
    /\ referrers \in [Objects -> SUBSET Locations]
    /\ weakly_referenced \in [Objects -> BOOLEAN]
    /\ life \in [Objects -> {"live", "deallocating", "freed"}]
    /\ holds \in [Threads -> SUBSET Objects]
    /\ lock \in [Tables -> Threads \cup {NoThread}]
    /\ initializing \in [Classes -> {"no", "done"} \cup Threads]
    /\ stack \in [Threads -> Seq(Frame)]

(* A weak variable in use never holds a freed address, and the object it   *)
(* holds knows of it, so that -dealloc will find it.  The other way round, *)
(* weak_clear_no_lock finds in every registered variable the object it is  *)
(* clearing (else objc_weak_error), and never writes to a variable whose   *)
(* storage the program has taken back.                                     *)
Registered ==
    /\ \A l \in Locations :
          inUse[l] /\ location[l] # Nil =>
              /\ life[location[l]] # "freed"
              /\ l \in referrers[location[l]]
              /\ weakly_referenced[location[l]]
    /\ \A o \in Objects : \A l \in referrers[o] : inUse[l] /\ location[l] = o

(* Strong references are to live objects: a load that found the object     *)
(* just before its last release does not bring it back.                    *)
HeldAreLive ==
    \A o \in Objects : Holders(o) # {} => life[o] = "live"

(* A side table's lock is never held while program code runs or while the  *)
(* thread waits for another one's +initialize, which may need the lock     *)
(* ("Prevent a deadlock between the weak reference machinery and the       *)
(* +initialize machinery").                                                *)
NoLockInProgram ==
    \A b \in Tables :
        lock[b] # NoThread =>
            stack[lock[b]] # <<>> /\ Top(lock[b]).step = "lock2"

(* The rest of the inductive invariant.  What a call has read or taken     *)
(* stays as it needs it until it goes on: a variable that is initialized   *)
(* is not in use, one that is loaded from is; an object in its -dealloc    *)
(* stays deallocating, and unregistered once it is cleared; the reference  *)
(* of a copy keeps its object alive.                                       *)
FrameOK(f) ==
    /\ f.does \in {"store", "init", "destroy", "load"} => f.loc \in Locations
    /\ f.does = "store" => f.op = "store"
    /\ f.does = "init" =>
           /\ f.op \in {"init", "copy", "move"} /\ f.new \in Objects
           /\ IF f.step = "release" THEN f.op # "init" ELSE ~inUse[f.loc]
    /\ f.does = "destroy" =>
           /\ f.op \in {"destroy", "move"} /\ f.loc = f.src
           /\ f.step = "setNil" => ~inUse[f.src]
    /\ f.does = "load" =>
           /\ f.op \in {"load", "copy", "move"}
           /\ Source(f) \in Locations /\ inUse[Source(f)]
           /\ f.op # "load" => ~inUse[f.loc]
           /\ f.step = "lock" => f.old \in Objects
    /\ f.does = "init" /\ f.op # "init" => f.held /\ f.src \in Locations
    /\ f.does = "dealloc" =>
           /\ f.new \in Objects /\ life[f.new] = "deallocating"
           /\ f.step = "free" => referrers[f.new] = {}
    /\ f.held =>
           /\ f.does = "init" /\ f.op \in {"copy", "move"}
           /\ life[f.new] = "live"

(* No other call uses a variable that one has to itself, and an object is  *)
(* deallocated once.                                                       *)
Apart(f, g) ==
    /\ Excluded(f) \cap Mentioned(g) = {}
    /\ f.does = "dealloc" /\ g.does = "dealloc" => f.new # g.new

FramesOK ==
    \A t \in Threads : \A i \in DOMAIN stack[t] :
        /\ FrameOK(stack[t][i])
        /\ \A u \in Threads : \A j \in DOMAIN stack[u] :
               t # u \/ i # j => Apart(stack[t][i], stack[u][j])

HoldsLive == \A t \in Threads : \A o \in holds[t] : life[o] = "live"

IndInv ==
    /\ TypeOK
    /\ Registered
    /\ FramesOK
    /\ HoldsLive
    /\ NoLockInProgram

(* Weak variables behave as if each load and store were one step and all   *)
(* of them became nil in the last release.                                 *)
Yields(l) ==
    IF inUse[l] /\ location[l] # Nil /\ life[location[l]] = "live"
    THEN location[l] ELSE Nil

Abstract ==
    INSTANCE AbstractWeak WITH
        weak <- [l \in Locations |-> Yields(l)],
        strong <- [o \in Objects |-> Cardinality(Holders(o))]

ImplementsAbstractWeak == Abstract!Spec

(* Once the program starts no more operations, those under way finish:     *)
(* threads waiting for two locks, for +initialize or retrying because a    *)
(* variable changed do not block each other for ever.                      *)
Quiet == <>[][\A t \in Threads : ~Calls(t)]_vars
AllReturn == \A t \in Threads : stack[t] = <<>>
OperationsFinish == Quiet => <>[]AllReturn
====
