---- MODULE RootRefcount ----
(***************************************************************************)
(* The reference count of one object: the isa word (objc-object.h) and     *)
(* the object's entry in its SideTable (NSObject.mm).                      *)
(*                                                                         *)
(* An object starts with one uncounted reference.  Further retains are     *)
(* counted in isa.extra_rc; when that field overflows, half of its range   *)
(* is left inline and the other half goes to the side table, and a release *)
(* that finds extra_rc = 0 borrows it back.  The isa word is updated by    *)
(* LoadExclusive / StoreExclusive loops without a lock; the side table     *)
(* entry is protected by the table's lock.  changeIsa may move the whole   *)
(* count to the side table (nonpointer isa to raw pointer isa) while other *)
(* threads retain and release.                                             *)
(*                                                                         *)
(* Each load, each exclusive store, and each critical section that touches *)
(* only the side table is one action.  An unlock is merged with the step   *)
(* before it.                                                              *)
(*                                                                         *)
(* The client is an ARC program: a thread uses the object only through a   *)
(* strong reference it holds, through the weak variable `location', or     *)
(* from inside -dealloc.                                                   *)
(***************************************************************************)
EXTENDS Integers, FiniteSets

CONSTANTS
    Threads,         \* the threads of the process
    NoThread,        \* "no thread": a free lock, an empty reference
    Refs,            \* the program's strong variables for this object
    NoRef,           \* "no variable": the thread is not in retain/release
    Classes,         \* the classes the object can belong to
    RawClasses,      \* those with !canAllocNonpointer()
    RC_HALF,         \* isa.h: half the range of extra_rc
    SpuriousFailure  \* TRUE for LL/SC: a StoreExclusive may fail anyway

ASSUME ThreadsAssumption == NoThread \notin Threads
ASSUME RefsAssumption == IsFiniteSet(Refs) /\ NoRef \notin Refs
ASSUME ClassesAssumption == Classes # {} /\ RawClasses \subseteq Classes
ASSUME HalfAssumption == RC_HALF \in Nat \ {0}
ASSUME SpuriousAssumption == SpuriousFailure \in BOOLEAN

RC_MAX == 2 * RC_HALF - 1

VARIABLES
    isa,          \* the isa word
    side,         \* the object's entry in table.refcnts
    lock,         \* who holds the SideTable's lock
    location,     \* a weak variable: does it hold (and register) the object?
    allocated,    \* is the object's memory allocated?
    deallocator,  \* the thread inside the object's -dealloc
    owner,        \* the thread behind each counted strong reference
    pc, ref,      \* per thread: the next step; the variable it stores to
    old,          \* per thread: oldisa
    tryRetain,    \* per thread: rootRetain's first argument
    slow,         \* per thread: handleOverflow / handleUnderflow
    newCls        \* per thread: changeIsa's argument

vars == <<isa, side, lock, location, allocated, deallocator, owner,
          pc, ref, old, tryRetain, slow, newCls>>
client == <<location, allocated, deallocator>>
locals == <<tryRetain, newCls>>

isa_t ==
    [nonpointer : BOOLEAN, cls : Classes, extra_rc : 0..RC_MAX,
     has_sidetable_rc : BOOLEAN, deallocating : BOOLEAN,
     weakly_referenced : BOOLEAN]

(* A raw isa is the class pointer alone.                                   *)
RawIsa(c) ==
    [nonpointer |-> FALSE, cls |-> c, extra_rc |-> 0,
     has_sidetable_rc |-> FALSE, deallocating |-> FALSE,
     weakly_referenced |-> FALSE]

initIsa(c) ==
    IF c \in RawClasses THEN RawIsa(c)
    ELSE [RawIsa(c) EXCEPT !.nonpointer = TRUE]

NullIsa == RawIsa(CHOOSE c \in Classes : TRUE)

(* SIDE_TABLE_WEAKLY_REFERENCED, SIDE_TABLE_DEALLOCATING and the count     *)
(* above them; an entry that is not there reads as zero.  The count never  *)
(* comes near SIDE_TABLE_RC_PINNED here: it is bounded by Refs.            *)
SideEntry ==
    [present : BOOLEAN, rc : Nat, deallocating : BOOLEAN,
     weakly_referenced : BOOLEAN]

NoEntry ==
    [present |-> FALSE, rc |-> 0, deallocating |-> FALSE,
     weakly_referenced |-> FALSE]

Steps ==
    {"idle",
     "retainLoad", "retainLock", "retainStore", "retainAdd",
     "sideRetain", "sideTryRetain", "loadWeakRead", "loadWeakLock",
     "releaseLoad", "releaseLock", "releaseStore", "releaseBorrow",
     "borrowStore", "borrowReload", "borrowRetry", "borrowUndo",
     "releaseDealloc", "sideRelease",
     "changeLoad", "changeLock", "changeStore", "changeMove",
     "storeWeakLock", "setWeakLoad", "setWeakStore",
     "clearDeallocating", "clearRaw", "clearSlow", "free"}

-----------------------------------------------------------------------------
(* The client's side.                                                      *)

Owned == {r \in Refs : owner[r] # NoThread}
OwnedBy(t) == {r \in Refs : owner[r] = t}
FreeRefs == {r \in Refs : owner[r] = NoThread /\ \A u \in Threads : ref[u] # r}

(* A thread may message the object through a reference of its own, or from *)
(* inside -dealloc.                                                        *)
CanUse(t) == allocated /\ (OwnedBy(t) # {} \/ deallocator = t)

Goto(t, step) == pc' = [pc EXCEPT ![t] = step]
Load(t) == old' = [old EXCEPT ![t] = isa]

(* Mutant: a plain store instead of StoreExclusive.                        *)
StoresAnyway(t, new) == isa' = new

(* StoreExclusive(&isa.bits, old, new): the compare-and-swap build compares *)
(* values; the LL/SC build can also fail for no reason.                     *)
Stores(t, new) == isa = old[t] /\ isa' = new
StoreFails(t) == (isa # old[t] \/ SpuriousFailure) /\ isa' = isa

Unlock(t) == lock' = IF lock = t THEN NoThread ELSE lock

(* Return to the caller.                                                   *)
Return(t) ==
    /\ Goto(t, "idle")
    /\ ref' = [ref EXCEPT ![t] = NoRef]
    /\ old' = [old EXCEPT ![t] = NullIsa]
    /\ tryRetain' = [tryRetain EXCEPT ![t] = FALSE]
    /\ slow' = [slow EXCEPT ![t] = FALSE]
    /\ newCls' = [newCls EXCEPT ![t] = NullIsa.cls]

Init ==
    \E c \in Classes, t \in Threads, r \in Refs :
        /\ isa = initIsa(c)
        /\ side = NoEntry
        /\ lock = NoThread
        /\ location = FALSE
        /\ allocated = TRUE
        /\ deallocator = NoThread
        /\ owner = [q \in Refs |-> IF q = r THEN t ELSE NoThread]
        /\ pc = [u \in Threads |-> "idle"]
        /\ ref = [u \in Threads |-> NoRef]
        /\ old = [u \in Threads |-> NullIsa]
        /\ tryRetain = [u \in Threads |-> FALSE]
        /\ slow = [u \in Threads |-> FALSE]
        /\ newCls = [u \in Threads |-> NullIsa.cls]

-----------------------------------------------------------------------------
(* rootRetain                                                              *)

Retain(t) ==
    /\ pc[t] = "idle" /\ CanUse(t)
    /\ \E r \in FreeRefs : ref' = [ref EXCEPT ![t] = r]
    /\ Goto(t, "retainLoad")
    /\ UNCHANGED <<isa, side, lock, client, owner, old, slow, locals>>

Carry(i) == i.extra_rc = RC_MAX

(* The isa is a raw pointer: the count is in the side table.  A plain      *)
(* retain gives the lock back first, a tryRetain keeps loadWeak's.         *)
RetainLoadRaw(t) ==
    /\ pc[t] = "retainLoad" /\ ~isa.nonpointer
    /\ Load(t)
    /\ IF tryRetain[t]
       THEN Goto(t, "sideTryRetain") /\ UNCHANGED lock
       ELSE Goto(t, "sideRetain") /\ Unlock(t)
    /\ UNCHANGED <<isa, side, client, owner, ref, slow, locals>>

(* tryRetain of a deallocating object: the weak load returns nil.          *)
RetainLoadDeallocating(t) ==
    /\ pc[t] = "retainLoad" /\ isa.nonpointer
    /\ tryRetain[t] /\ isa.deallocating
    /\ Return(t) /\ Unlock(t)
    /\ UNCHANGED <<isa, side, client, owner>>

RetainLoad(t) ==
    /\ pc[t] = "retainLoad" /\ isa.nonpointer
    /\ ~(tryRetain[t] /\ isa.deallocating)
    /\ ~Carry(isa)
    /\ Load(t) /\ Goto(t, "retainStore")
    /\ UNCHANGED <<isa, side, lock, client, owner, ref, slow, locals>>

(* extra_rc++ overflowed: the fast path restarts in rootRetain_overflow,   *)
(* which takes the lock unless it has it already.                          *)
RetainLoadOverflow(t) ==
    /\ pc[t] = "retainLoad" /\ isa.nonpointer
    /\ ~(tryRetain[t] /\ isa.deallocating)
    /\ Carry(isa)
    /\ Load(t)
    /\ slow' = [slow EXCEPT ![t] = TRUE]
    /\ Goto(t, IF ~slow[t] THEN "retainLoad"
               ELSE IF lock = t THEN "retainStore" ELSE "retainLock")
    /\ UNCHANGED <<isa, side, lock, client, owner, ref, locals>>

RetainLock(t) ==
    /\ pc[t] = "retainLock" /\ lock = NoThread
    /\ lock' = t /\ Goto(t, "retainStore")
    /\ UNCHANGED <<isa, side, client, owner, ref, old, slow, locals>>

RetainStore(t) ==
    /\ pc[t] = "retainStore" /\ ~Carry(old[t])
    /\ Stores(t, [old[t] EXCEPT !.extra_rc = @ + 1])
    /\ owner' = [owner EXCEPT ![ref[t]] = t]
    /\ Return(t) /\ Unlock(t)
    /\ UNCHANGED <<side, client>>

(* Leave half of the retain counts inline ...                              *)
RetainStoreOverflow(t) ==
    /\ pc[t] = "retainStore" /\ Carry(old[t])
    /\ Stores(t, [old[t] EXCEPT !.extra_rc = RC_HALF,
                                !.has_sidetable_rc = TRUE])
    /\ owner' = [owner EXCEPT ![ref[t]] = t]
    /\ Goto(t, "retainAdd")
    /\ UNCHANGED <<side, lock, client, ref, old, slow, locals>>

RetainStoreFails(t) ==
    /\ pc[t] = "retainStore" /\ StoreFails(t)
    /\ Goto(t, "retainLoad")
    /\ UNCHANGED <<side, lock, client, owner, ref, old, slow, locals>>

sidetable_addExtraRC(delta) ==
    side' = [side EXCEPT !.present = TRUE, !.rc = @ + delta]

(* ... and copy the other half to the side table.                          *)
RetainAdd(t) ==
    /\ pc[t] = "retainAdd"
    /\ sidetable_addExtraRC(RC_HALF)
    /\ Return(t) /\ Unlock(t)
    /\ UNCHANGED <<isa, client, owner>>

sidetable_retain(t) ==
    /\ pc[t] = "sideRetain" /\ lock = NoThread
    /\ side' = [side EXCEPT !.present = TRUE, !.rc = @ + 1]
    /\ owner' = [owner EXCEPT ![ref[t]] = t]
    /\ Return(t)
    /\ UNCHANGED <<isa, lock, client>>

sidetable_tryRetain(t) ==
    /\ pc[t] = "sideTryRetain"
    /\ IF side.deallocating
       THEN UNCHANGED <<side, owner>>
       ELSE /\ side' = [side EXCEPT !.present = TRUE, !.rc = @ + 1]
            /\ owner' = [owner EXCEPT ![ref[t]] = t]
    /\ Return(t) /\ Unlock(t)
    /\ UNCHANGED <<isa, client>>

-----------------------------------------------------------------------------
(* objc_loadWeakRetained                                                   *)

LoadWeak(t) ==
    /\ pc[t] = "idle"
    /\ \E r \in FreeRefs : ref' = [ref EXCEPT ![t] = r]
    /\ Goto(t, "loadWeakRead")
    /\ UNCHANGED <<isa, side, lock, client, owner, old, slow, locals>>

LoadWeakRead(t) ==
    /\ pc[t] = "loadWeakRead"
    /\ IF location
       THEN Goto(t, "loadWeakLock")
            /\ UNCHANGED <<ref, old, slow, locals>>
       ELSE Return(t)
    /\ UNCHANGED <<isa, side, lock, client, owner>>

(* Mutant: the variable is not read again under the lock.                  *)
LoadWeakLockTrusts(t) ==
    /\ pc[t] = "loadWeakLock" /\ lock = NoThread
    /\ lock' = t /\ Goto(t, "retainLoad")
    /\ tryRetain' = [tryRetain EXCEPT ![t] = TRUE]
    /\ UNCHANGED <<isa, side, client, owner, ref, old, slow, newCls>>

(* Lock the table of the object that was read, and start over if the       *)
(* variable no longer holds it.                                            *)
LoadWeakLock(t) ==
    /\ pc[t] = "loadWeakLock" /\ lock = NoThread
    /\ IF location
       THEN /\ lock' = t /\ Goto(t, "retainLoad")
            /\ tryRetain' = [tryRetain EXCEPT ![t] = TRUE]
       ELSE /\ Goto(t, "loadWeakRead")
            /\ UNCHANGED <<lock, tryRetain>>
    /\ UNCHANGED <<isa, side, client, owner, ref, old, slow, newCls>>

-----------------------------------------------------------------------------
(* rootRelease                                                             *)

Release(t) ==
    /\ pc[t] = "idle"
    /\ \E r \in OwnedBy(t) : ref' = [ref EXCEPT ![t] = r]
    /\ Goto(t, "releaseLoad")
    /\ UNCHANGED <<isa, side, lock, client, owner, old, slow, locals>>

(* Mutant: the early return for a raw isa keeps the lock.                  *)
ReleaseLoadRawLocked(t) ==
    /\ pc[t] = "releaseLoad" /\ ~isa.nonpointer
    /\ Load(t) /\ Goto(t, "sideRelease")
    /\ UNCHANGED <<isa, side, lock, client, owner, ref, slow, locals>>

ReleaseLoadRaw(t) ==
    /\ pc[t] = "releaseLoad" /\ ~isa.nonpointer
    /\ Load(t) /\ Unlock(t) /\ Goto(t, "sideRelease")
    /\ UNCHANGED <<isa, side, client, owner, ref, slow, locals>>

ReleaseLoad(t) ==
    /\ pc[t] = "releaseLoad" /\ isa.nonpointer /\ isa.extra_rc > 0
    /\ Load(t) /\ Goto(t, "releaseStore")
    /\ UNCHANGED <<isa, side, lock, client, owner, ref, slow, locals>>

(* extra_rc-- underflowed and the side table may have counts: restart in   *)
(* rootRelease_underflow, then take the lock and start over once more.     *)
ReleaseLoadUnderflow(t) ==
    /\ pc[t] = "releaseLoad" /\ isa.nonpointer /\ isa.extra_rc = 0
    /\ isa.has_sidetable_rc
    /\ Load(t)
    /\ slow' = [slow EXCEPT ![t] = TRUE]
    /\ Goto(t, IF ~slow[t] THEN "releaseLoad"
               ELSE IF lock = t THEN "releaseBorrow" ELSE "releaseLock")
    /\ UNCHANGED <<isa, side, lock, client, owner, ref, locals>>

ReleaseLoadLast(t) ==
    /\ pc[t] = "releaseLoad" /\ isa.nonpointer /\ isa.extra_rc = 0
    /\ ~isa.has_sidetable_rc
    /\ Load(t) /\ Goto(t, "releaseDealloc")
    /\ UNCHANGED <<isa, side, lock, client, owner, ref, slow, locals>>

ReleaseLock(t) ==
    /\ pc[t] = "releaseLock" /\ lock = NoThread
    /\ lock' = t /\ Goto(t, "releaseLoad")
    /\ UNCHANGED <<isa, side, client, owner, ref, old, slow, locals>>

(* The caller no longer holds the reference it released.                   *)
Drop(t) == owner' = [owner EXCEPT ![ref[t]] = NoThread]

ReleaseStore(t) ==
    /\ pc[t] = "releaseStore"
    /\ Stores(t, [old[t] EXCEPT !.extra_rc = @ - 1])
    /\ Drop(t) /\ Return(t) /\ Unlock(t)
    /\ UNCHANGED <<side, client>>

ReleaseStoreFails(t) ==
    /\ pc[t] = "releaseStore" /\ StoreFails(t)
    /\ Goto(t, "releaseLoad")
    /\ UNCHANGED <<side, lock, client, owner, ref, old, slow, locals>>

(* sidetable_subExtraRC_nolock(RC_HALF): with nothing to borrow, fall      *)
(* through to the dealloc path.                                            *)
ReleaseBorrow(t) ==
    /\ pc[t] = "releaseBorrow"
    /\ IF side.rc = 0
       THEN Goto(t, "releaseDealloc") /\ UNCHANGED side
       ELSE /\ side' = [side EXCEPT !.rc = @ - RC_HALF]
            /\ Goto(t, "borrowStore")
    /\ UNCHANGED <<isa, lock, client, owner, ref, old, slow, locals>>

(* Mutant: has_sidetable_rc is cleared when the table's count reaches zero. *)
BorrowStoreClears(t) ==
    /\ pc[t] = "borrowStore"
    /\ Stores(t, [old[t] EXCEPT !.extra_rc = RC_HALF - 1,
                                !.has_sidetable_rc = side.rc > 0])
    /\ Drop(t) /\ Return(t) /\ Unlock(t)
    /\ UNCHANGED <<side, client>>

BorrowStore(t) ==
    /\ pc[t] = "borrowStore"
    /\ Stores(t, [old[t] EXCEPT !.extra_rc = RC_HALF - 1])
    /\ Drop(t) /\ Return(t) /\ Unlock(t)
    /\ UNCHANGED <<side, client>>

BorrowStoreFails(t) ==
    /\ pc[t] = "borrowStore" /\ StoreFails(t)
    /\ Goto(t, "borrowReload")
    /\ UNCHANGED <<side, lock, client, owner, ref, old, slow, locals>>

(* Inline update failed: try once more on top of the isa as it is now,     *)
(* unless the borrowed counts no longer fit.                               *)
BorrowReload(t) ==
    /\ pc[t] = "borrowReload"
    /\ Load(t)
    /\ Goto(t, IF isa.nonpointer /\ isa.extra_rc + (RC_HALF - 1) =< RC_MAX
               THEN "borrowRetry" ELSE "borrowUndo")
    /\ UNCHANGED <<isa, side, lock, client, owner, ref, slow, locals>>

(* Mutant: the retry forgets what was retained in between.                 *)
BorrowRetryStale(t) ==
    /\ pc[t] = "borrowRetry"
    /\ Stores(t, [old[t] EXCEPT !.extra_rc = RC_HALF - 1])
    /\ Drop(t) /\ Return(t) /\ Unlock(t)
    /\ UNCHANGED <<side, client>>

BorrowRetry(t) ==
    /\ pc[t] = "borrowRetry"
    /\ Stores(t, [old[t] EXCEPT !.extra_rc = @ + (RC_HALF - 1)])
    /\ Drop(t) /\ Return(t) /\ Unlock(t)
    /\ UNCHANGED <<side, client>>

BorrowRetryFails(t) ==
    /\ pc[t] = "borrowRetry" /\ StoreFails(t)
    /\ Goto(t, "borrowUndo")
    /\ UNCHANGED <<side, lock, client, owner, ref, old, slow, locals>>

(* Put the retains back in the side table and start over.                  *)
BorrowUndo(t) ==
    /\ pc[t] = "borrowUndo"
    /\ sidetable_addExtraRC(RC_HALF)
    /\ Goto(t, "releaseLoad")
    /\ UNCHANGED <<isa, lock, client, owner, ref, old, slow, locals>>

(* The deallocating decrement.  A thread that gets here with               *)
(* old.deallocating set reports an overrelease and goes no further.        *)
ReleaseDealloc(t) ==
    /\ pc[t] = "releaseDealloc" /\ ~old[t].deallocating
    /\ Stores(t, [old[t] EXCEPT !.deallocating = TRUE])
    /\ deallocator' = t
    /\ Drop(t) /\ Return(t) /\ Unlock(t)
    /\ UNCHANGED <<side, location, allocated>>

ReleaseDeallocFails(t) ==
    /\ pc[t] = "releaseDealloc" /\ ~old[t].deallocating /\ StoreFails(t)
    /\ Goto(t, "releaseLoad")
    /\ UNCHANGED <<side, lock, client, owner, ref, old, slow, locals>>

(* A raw release of a deallocating object with nothing counted would wrap  *)
(* the word; the action stops there.                                       *)
sidetable_release(t) ==
    /\ pc[t] = "sideRelease" /\ lock = NoThread
    /\ ~(side.rc = 0 /\ side.deallocating)
    /\ IF side.rc = 0
       THEN /\ side' = [side EXCEPT !.present = TRUE, !.deallocating = TRUE]
            /\ deallocator' = t
       ELSE /\ side' = [side EXCEPT !.rc = @ - 1]
            /\ UNCHANGED deallocator
    /\ Drop(t) /\ Return(t)
    /\ UNCHANGED <<isa, lock, location, allocated>>

-----------------------------------------------------------------------------
(* changeIsa                                                               *)

ChangeIsa(t) ==
    /\ pc[t] = "idle" /\ CanUse(t)
    /\ \E c \in Classes : newCls' = [newCls EXCEPT ![t] = c]
    /\ Goto(t, "changeLoad")
    /\ UNCHANGED <<isa, side, lock, client, owner, ref, old, slow, tryRetain>>

(* nonpointer -> raw pointer: the count must move with the isa.            *)
Transcribes(t) == old[t].nonpointer /\ newCls[t] \in RawClasses

ChangeLoad(t) ==
    /\ pc[t] = "changeLoad"
    /\ Load(t)
    /\ Goto(t, IF isa.nonpointer /\ newCls[t] \in RawClasses /\ lock # t
               THEN "changeLock" ELSE "changeStore")
    /\ UNCHANGED <<isa, side, lock, client, owner, ref, slow, locals>>

ChangeLock(t) ==
    /\ pc[t] = "changeLock" /\ lock = NoThread
    /\ lock' = t /\ Goto(t, "changeStore")
    /\ UNCHANGED <<isa, side, client, owner, ref, old, slow, locals>>

ChangeStore(t) ==
    /\ pc[t] = "changeStore" /\ ~Transcribes(t)
    /\ Stores(t, [old[t] EXCEPT !.cls = newCls[t]])
    /\ Return(t) /\ Unlock(t)
    /\ UNCHANGED <<side, client, owner>>

ChangeStoreRaw(t) ==
    /\ pc[t] = "changeStore" /\ Transcribes(t)
    /\ Stores(t, RawIsa(newCls[t]))
    /\ Goto(t, "changeMove")
    /\ UNCHANGED <<side, lock, client, owner, ref, old, slow, locals>>

ChangeStoreFails(t) ==
    /\ pc[t] = "changeStore" /\ StoreFails(t)
    /\ Goto(t, "changeLoad")
    /\ UNCHANGED <<side, lock, client, owner, ref, old, slow, locals>>

(* sidetable_moveExtraRC_nolock                                            *)
ChangeMove(t) ==
    /\ pc[t] = "changeMove"
    /\ side' = [present |-> TRUE,
                rc |-> side.rc + old[t].extra_rc,
                deallocating |-> side.deallocating \/ old[t].deallocating,
                weakly_referenced |->
                    side.weakly_referenced \/ old[t].weakly_referenced]
    /\ Return(t) /\ Unlock(t)
    /\ UNCHANGED <<isa, client, owner>>

-----------------------------------------------------------------------------
(* storeWeak, for one weak variable and this object                        *)

rootIsDeallocating ==
    IF isa.nonpointer THEN isa.deallocating ELSE side.deallocating

StoreWeak(t) ==
    /\ pc[t] = "idle" /\ CanUse(t)
    /\ Goto(t, "storeWeakLock")
    /\ UNCHANGED <<isa, side, lock, client, owner, ref, old, slow, locals>>

(* weak_register_no_lock refuses a deallocating object and nil is stored;  *)
(* otherwise the is-weakly-referenced bit comes next.                      *)
StoreWeakLock(t) ==
    /\ pc[t] = "storeWeakLock" /\ lock = NoThread
    /\ IF rootIsDeallocating
       THEN location' = FALSE /\ Return(t) /\ UNCHANGED lock
       ELSE /\ lock' = t /\ Goto(t, "setWeakLoad")
            /\ UNCHANGED <<location, ref, old, slow, locals>>
    /\ UNCHANGED <<isa, side, allocated, deallocator, owner>>

(* setWeaklyReferenced_nolock                                              *)
SetWeakLoadRaw(t) ==
    /\ pc[t] = "setWeakLoad" /\ ~isa.nonpointer
    /\ side' = [side EXCEPT !.present = TRUE, !.weakly_referenced = TRUE]
    /\ location' = TRUE
    /\ Return(t) /\ Unlock(t)
    /\ UNCHANGED <<isa, allocated, deallocator, owner>>

SetWeakLoad(t) ==
    /\ pc[t] = "setWeakLoad" /\ isa.nonpointer
    /\ IF isa.weakly_referenced
       THEN location' = TRUE /\ Return(t) /\ Unlock(t)
       ELSE /\ Load(t) /\ Goto(t, "setWeakStore")
            /\ UNCHANGED <<location, lock, ref, slow, locals>>
    /\ UNCHANGED <<isa, side, allocated, deallocator, owner>>

SetWeakStore(t) ==
    /\ pc[t] = "setWeakStore"
    /\ Stores(t, [old[t] EXCEPT !.weakly_referenced = TRUE])
    /\ location' = TRUE
    /\ Return(t) /\ Unlock(t)
    /\ UNCHANGED <<side, allocated, deallocator, owner>>

SetWeakStoreFails(t) ==
    /\ pc[t] = "setWeakStore" /\ StoreFails(t)
    /\ Goto(t, "setWeakLoad")
    /\ UNCHANGED <<side, lock, client, owner, ref, old, slow, locals>>

(* objc_destroyWeak, or a store of something else: the bit stays.          *)
DestroyWeak(t) ==
    /\ pc[t] = "idle" /\ location /\ lock = NoThread
    /\ location' = FALSE
    /\ UNCHANGED <<isa, side, lock, allocated, deallocator, owner,
                   pc, ref, old, slow, locals>>

-----------------------------------------------------------------------------
(* -[NSObject dealloc]: rootDealloc, object_dispose, clearDeallocating     *)

(* The body of -dealloc has given back what it took.                       *)
InDealloc(t) == deallocator = t /\ pc[t] = "idle" /\ OwnedBy(t) = {}

(* Mutant: the fast path does not ask about weak references.               *)
RootDeallocFastBlind(t) ==
    /\ InDealloc(t)
    /\ isa.nonpointer /\ ~isa.has_sidetable_rc
    /\ allocated' = FALSE /\ deallocator' = NoThread
    /\ UNCHANGED <<isa, side, lock, location, owner,
                   pc, ref, old, slow, locals>>

RootDeallocFast(t) ==
    /\ InDealloc(t)
    /\ isa.nonpointer /\ ~isa.weakly_referenced /\ ~isa.has_sidetable_rc
    /\ allocated' = FALSE /\ deallocator' = NoThread
    /\ UNCHANGED <<isa, side, lock, location, owner,
                   pc, ref, old, slow, locals>>

(* Also taken for has_assoc and has_cxx_dtor, which are not modelled here. *)
RootDealloc(t) ==
    /\ InDealloc(t)
    /\ Goto(t, "clearDeallocating")
    /\ UNCHANGED <<isa, side, lock, client, owner, ref, old, slow, locals>>

ClearDeallocating(t) ==
    /\ pc[t] = "clearDeallocating"
    /\ Goto(t, IF ~isa.nonpointer THEN "clearRaw"
               ELSE IF isa.weakly_referenced \/ isa.has_sidetable_rc
               THEN "clearSlow" ELSE "free")
    /\ UNCHANGED <<isa, side, lock, client, owner, ref, old, slow, locals>>

sidetable_clearDeallocating(t) ==
    /\ pc[t] = "clearRaw" /\ lock = NoThread
    /\ location' = (location /\ ~side.weakly_referenced)
    /\ side' = NoEntry
    /\ Goto(t, "free")
    /\ UNCHANGED <<isa, lock, allocated, deallocator, owner,
                   ref, old, slow, locals>>

clearDeallocating_slow(t) ==
    /\ pc[t] = "clearSlow" /\ lock = NoThread
    /\ location' = (location /\ ~isa.weakly_referenced)
    /\ side' = IF isa.has_sidetable_rc THEN NoEntry ELSE side
    /\ Goto(t, "free")
    /\ UNCHANGED <<isa, lock, allocated, deallocator, owner,
                   ref, old, slow, locals>>

Free(t) ==
    /\ pc[t] = "free"
    /\ allocated' = FALSE /\ deallocator' = NoThread
    /\ Goto(t, "idle")
    /\ UNCHANGED <<isa, side, lock, location, owner, ref, old, slow, locals>>

(* The allocator hands out the same address again.                         *)
Alloc(t) ==
    /\ pc[t] = "idle" /\ ~allocated
    /\ \E c \in Classes : isa' = initIsa(c)
    /\ \E r \in FreeRefs : owner' = [owner EXCEPT ![r] = t]
    /\ allocated' = TRUE
    /\ UNCHANGED <<side, lock, location, deallocator,
                   pc, ref, old, slow, locals>>

(* A thread passes a reference to another one; self does not escape from   *)
(* -dealloc.                                                               *)
Give(t) ==
    /\ pc[t] = "idle" /\ deallocator # t
    /\ \E r \in OwnedBy(t), u \in Threads : owner' = [owner EXCEPT ![r] = u]
    /\ UNCHANGED <<isa, side, lock, client, pc, ref, old, slow, locals>>

-----------------------------------------------------------------------------
(* The specification.                                                      *)

Call(t) ==
    \/ Alloc(t)
    \/ Give(t)
    \/ Retain(t)
    \/ Release(t)
    \/ LoadWeak(t)
    \/ StoreWeak(t)
    \/ DestroyWeak(t)
    \/ ChangeIsa(t)

RetainStep(t) ==
    \/ RetainLoadRaw(t)
    \/ RetainLoadDeallocating(t)
    \/ RetainLoad(t)
    \/ RetainLoadOverflow(t)
    \/ RetainLock(t)
    \/ RetainStore(t)
    \/ RetainStoreOverflow(t)
    \/ RetainStoreFails(t)
    \/ RetainAdd(t)
    \/ sidetable_retain(t)
    \/ sidetable_tryRetain(t)
    \/ LoadWeakRead(t)
    \/ LoadWeakLock(t)

ReleaseStep(t) ==
    \/ ReleaseLoadRaw(t)
    \/ ReleaseLoad(t)
    \/ ReleaseLoadUnderflow(t)
    \/ ReleaseLoadLast(t)
    \/ ReleaseLock(t)
    \/ ReleaseStore(t)
    \/ ReleaseStoreFails(t)
    \/ ReleaseBorrow(t)
    \/ BorrowStore(t)
    \/ BorrowStoreFails(t)
    \/ BorrowReload(t)
    \/ BorrowRetry(t)
    \/ BorrowRetryFails(t)
    \/ BorrowUndo(t)
    \/ ReleaseDealloc(t)
    \/ ReleaseDeallocFails(t)
    \/ sidetable_release(t)

ChangeStep(t) ==
    \/ ChangeLoad(t)
    \/ ChangeLock(t)
    \/ ChangeStore(t)
    \/ ChangeStoreRaw(t)
    \/ ChangeStoreFails(t)
    \/ ChangeMove(t)

WeakStep(t) ==
    \/ StoreWeakLock(t)
    \/ SetWeakLoadRaw(t)
    \/ SetWeakLoad(t)
    \/ SetWeakStore(t)
    \/ SetWeakStoreFails(t)

DeallocStep(t) ==
    \/ RootDeallocFast(t)
    \/ RootDealloc(t)
    \/ ClearDeallocating(t)
    \/ sidetable_clearDeallocating(t)
    \/ clearDeallocating_slow(t)
    \/ Free(t)

Step(t) ==
    \/ RetainStep(t)
    \/ ReleaseStep(t)
    \/ ChangeStep(t)
    \/ WeakStep(t)
    \/ DeallocStep(t)

Next == \E t \in Threads : Call(t) \/ Step(t)

Spec == Init /\ [][Next]_vars

(* A scheduled thread keeps executing the operation it is in.  The lock is *)
(* not assumed to be fair, nor a compare-and-swap to succeed.              *)
FairSpec == Spec /\ \A t \in Threads : WF_vars(Step(t))

-----------------------------------------------------------------------------
(* Properties.                                                             *)

(* Every variable stays in its type.                                       *)
TypeOK ==
    /\ isa \in isa_t
    /\ side \in SideEntry
    /\ lock \in Threads \cup {NoThread}
    /\ location \in BOOLEAN
    /\ allocated \in BOOLEAN
    /\ deallocator \in Threads \cup {NoThread}
    /\ owner \in [Refs -> Threads \cup {NoThread}]
    /\ pc \in [Threads -> Steps]
    /\ ref \in [Threads -> Refs \cup {NoRef}]
    /\ old \in [Threads -> isa_t]
    /\ tryRetain \in [Threads -> BOOLEAN]
    /\ slow \in [Threads -> BOOLEAN]
    /\ newCls \in [Threads -> Classes]

(* rootRetainCount takes the lock and adds the inline count to the side    *)
(* table's when has_sidetable_rc says there is one.                        *)
rootRetainCount ==
    IF isa.nonpointer
    THEN 1 + isa.extra_rc + (IF isa.has_sidetable_rc THEN side.rc ELSE 0)
    ELSE 1 + side.rc

(* The deallocating bit, followed through its two blind spots: it is in     *)
(* nobody's memory while changeIsa moves it, and a raw object forgets it   *)
(* when clearDeallocating erases its entry, just before free.              *)
Deallocating ==
    IF lock # NoThread /\ pc[lock] = "changeMove"
    THEN old[lock].deallocating
    ELSE rootIsDeallocating
         \/ (deallocator # NoThread /\ pc[deallocator] = "free")

(* Whenever the SideTable lock is free, the split count that retain,       *)
(* release, overflow, borrow and changeIsa maintain between them is the    *)
(* number of strong references that exist: none is lost in a transfer, and *)
(* the last one is the uncounted one, given up when -dealloc starts.       *)
RetainCountExact ==
    allocated /\ lock = NoThread =>
        rootRetainCount = Cardinality(Owned) + (IF Deallocating THEN 1 ELSE 0)

(* -dealloc runs once, in the one thread whose release was the last, and   *)
(* from then on nobody else holds or obtains a reference.                  *)
DeallocOnce ==
    allocated =>
        /\ Deallocating <=> deallocator # NoThread
        /\ Deallocating => \A r \in Owned : owner[r] = deallocator

(* The steps that read or write the object's memory.                       *)
Touches == Steps \ {"idle", "loadWeakRead", "loadWeakLock"}

(* No thread is inside an operation on an object that has been freed, so   *)
(* the lock-free paths never load or store a dead isa word.                *)
NoUseAfterFree ==
    \A t \in Threads : pc[t] \in Touches => allocated

(* A freed object leaves no side table entry and no weak variable behind   *)
(* (the assert(!sidetable_present()) of rootDealloc and clearDeallocating):*)
(* the next object at this address would inherit them.                     *)
FreedLeavesNothing ==
    ~allocated => side = NoEntry /\ ~location

(* overrelease_error is never reached, nor does a raw count wrap, when     *)
(* every thread releases only what it holds.                               *)
NoOverrelease ==
    \A t \in Threads :
        /\ pc[t] = "releaseDealloc" => ~old[t].deallocating
        /\ pc[t] = "sideRelease" /\ lock = NoThread =>
               ~(side.rc = 0 /\ side.deallocating)

(* The asserts of the side table functions: they run on a nonpointer isa   *)
(* (moveExtraRC on a raw one), find no isa-side bit in the table, and      *)
(* subExtraRC never takes more than there is.                              *)
SideTableAsserts ==
    \A t \in Threads :
        /\ pc[t] \in {"retainAdd", "releaseBorrow", "borrowUndo"} =>
               /\ isa.nonpointer
               /\ ~side.deallocating /\ ~side.weakly_referenced
        /\ pc[t] = "changeMove" =>
               /\ ~isa.nonpointer
               /\ ~side.deallocating /\ ~side.weakly_referenced
        /\ pc[t] \in {"sideRetain", "sideTryRetain", "sideRelease"} =>
               ~isa.nonpointer
        /\ pc[t] = "releaseBorrow" => side.rc = 0 \/ side.rc >= RC_HALF

(* As long as the object is allocated: the isa leaves the nonpointer form  *)
(* only in a step of the lock's holder and never returns to it, the        *)
(* deallocating state is final, and has_sidetable_rc and weakly_referenced *)
(* are never cleared ("has_sidetable_rc must remain set even if the side   *)
(* table count is now zero").                                              *)
IsaMoves ==
    [][allocated /\ allocated' =>
        /\ isa'.nonpointer => isa.nonpointer
        /\ isa.nonpointer /\ ~isa'.nonpointer => lock # NoThread /\ lock' = lock
        /\ isa'.nonpointer =>
               /\ isa.has_sidetable_rc => isa'.has_sidetable_rc
               /\ isa.weakly_referenced => isa'.weakly_referenced
        /\ Deallocating => Deallocating']_vars

(* The object begins -dealloc in the very release that gives up its last   *)
(* reference and is freed only after that.                                 *)
Abstract ==
    INSTANCE AbstractRefcount WITH
        life <- IF ~allocated THEN "free"
                ELSE IF Deallocating THEN "deallocating" ELSE "live"

ImplementsAbstractRefcount == Abstract!Spec

(* Once the program stops starting operations, every operation under way   *)
(* finishes: threads waiting for the lock and threads whose stores fail    *)
(* cannot keep each other going for ever.                                  *)
Quiet == <>[][\A t \in Threads : ~Call(t)]_vars
AllReturn == \A t \in Threads : pc[t] = "idle"
OperationsFinish == Quiet => <>[]AllReturn

-----------------------------------------------------------------------------
(* The inductive invariant.                                                *)

(* Steps whose destination variable is still empty, and steps that still   *)
(* hold (or already hold) the reference in it.                             *)
AcquireSteps ==
    {"retainLoad", "retainLock", "retainStore", "sideRetain",
     "sideTryRetain", "loadWeakRead", "loadWeakLock"}

HoldSteps ==
    {"retainAdd", "releaseLoad", "releaseLock", "releaseStore",
     "releaseBorrow", "borrowStore", "borrowReload", "borrowRetry",
     "borrowUndo", "releaseDealloc", "sideRelease"}

UseSteps ==
    {"retainLoad", "retainLock", "retainStore", "sideRetain",
     "changeLoad", "changeLock", "changeStore", "changeMove",
     "storeWeakLock", "setWeakLoad", "setWeakStore"}

TrySteps == {"retainLoad", "retainStore", "retainAdd", "sideTryRetain"}

BorrowSteps == {"borrowStore", "borrowReload", "borrowRetry", "borrowUndo"}

ClearSteps == {"clearDeallocating", "clearRaw", "clearSlow", "free"}

(* Steps only the lock's holder takes, and the others it can be at.        *)
LockedSteps ==
    {"retainAdd", "sideTryRetain", "releaseBorrow", "changeMove",
     "setWeakLoad", "setWeakStore"} \cup BorrowSteps

MayLockSteps ==
    {"retainLoad", "retainStore", "releaseLoad", "releaseStore",
     "releaseDealloc", "changeLoad", "changeStore"}

RefsOK ==
    \A t \in Threads :
        /\ pc[t] \in AcquireSteps =>
               ref[t] \in Refs /\ owner[ref[t]] = NoThread
        /\ pc[t] \in HoldSteps => ref[t] \in Refs /\ owner[ref[t]] = t
        /\ pc[t] \notin AcquireSteps \cup HoldSteps => ref[t] = NoRef
        /\ \A u \in Threads : ref[u] = ref[t] => u = t \/ ref[t] = NoRef

AccessOK ==
    \A t \in Threads :
        /\ pc[t] \in UseSteps /\ ~tryRetain[t] => CanUse(t)
        /\ tryRetain[t] => location /\ pc[t] \in TrySteps /\ lock = t
        /\ pc[t] = "sideTryRetain" => tryRetain[t]
        /\ pc[t] \in ClearSteps => deallocator = t /\ OwnedBy(t) = {}

LockOK ==
    \A t \in Threads :
        /\ pc[t] \in LockedSteps => lock = t
        /\ lock = t => pc[t] \in LockedSteps \cup MayLockSteps
        /\ pc[t] = "retainStore" /\ Carry(old[t]) => lock = t
        /\ pc[t] = "changeStore" /\ Transcribes(t) => lock = t

(* What a thread may rely on about the isa it loaded, and about the isa as *)
(* it is while the lock is held.                                           *)
OldOK ==
    \A t \in Threads :
        /\ pc[t] \in {"retainLock", "retainStore"} =>
               old[t].nonpointer /\ ~(tryRetain[t] /\ old[t].deallocating)
        /\ pc[t] = "releaseStore" => old[t].nonpointer /\ old[t].extra_rc > 0
        /\ pc[t] \in {"releaseBorrow", "borrowStore"} =>
               /\ old[t].nonpointer /\ old[t].extra_rc = 0
               /\ old[t].has_sidetable_rc
        /\ pc[t] = "borrowRetry" =>
               old[t].nonpointer /\ old[t].extra_rc + (RC_HALF - 1) =< RC_MAX
        /\ pc[t] = "releaseDealloc" =>
               /\ old[t].nonpointer /\ old[t].extra_rc = 0
               /\ old[t].has_sidetable_rc => lock = t /\ side.rc = 0
               /\ ~old[t].deallocating
        /\ pc[t] = "releaseBorrow" /\ old[t].deallocating => isa = old[t]
        /\ pc[t] = "changeMove" => old[t].nonpointer /\ ~isa.nonpointer
        /\ pc[t] = "setWeakStore" => old[t].nonpointer
        /\ pc[t] \in BorrowSteps \cup {"retainAdd", "releaseBorrow"} =>
               isa.nonpointer /\ isa.has_sidetable_rc
        /\ pc[t] \in {"sideRetain", "sideTryRetain", "sideRelease"} =>
               ~isa.nonpointer
        /\ pc[t] = "clearRaw" => ~isa.nonpointer
        /\ pc[t] = "clearSlow" => isa.nonpointer

(* Counts on their way between the isa and the side table.                 *)
InFlight ==
    IF lock = NoThread THEN 0
    ELSE IF pc[lock] \in BorrowSteps \cup {"retainAdd"} THEN RC_HALF
    ELSE IF pc[lock] = "changeMove" THEN old[lock].extra_rc
    ELSE 0

Moving == lock # NoThread /\ pc[lock] = "changeMove"

IsaOK ==
    /\ ~isa.nonpointer => isa = RawIsa(isa.cls)
    /\ ~side.present => side = NoEntry
    /\ isa.nonpointer \/ Moving =>
           ~side.deallocating /\ ~side.weakly_referenced
    /\ isa.nonpointer /\ ~isa.has_sidetable_rc => side = NoEntry
    /\ isa.nonpointer => \E k \in 0..side.rc : side.rc = k * RC_HALF
    /\ location =>
           IF Moving THEN old[lock].weakly_referenced
           ELSE IF isa.nonpointer THEN isa.weakly_referenced
           ELSE side.weakly_referenced
    /\ \A t \in Threads : pc[t] = "free" => side = NoEntry /\ ~location

CountOK ==
    allocated =>
        Cardinality(Owned) =
            (IF Deallocating THEN 0 ELSE 1)
            + isa.extra_rc + side.rc + InFlight

FreedOK ==
    ~allocated =>
        /\ Owned = {} /\ deallocator = NoThread
        /\ side = NoEntry /\ ~location
        /\ \A t \in Threads : pc[t] \notin Touches

(* The parts together: who may be at which step (AccessOK, LockOK), what a *)
(* thread knows of the isa it loaded (OldOK), where the flags are (IsaOK), *)
(* and that the counts, wherever they are, are the references (CountOK).   *)
IndInv ==
    /\ TypeOK
    /\ RefsOK
    /\ AccessOK
    /\ LockOK
    /\ OldOK
    /\ IsaOK
    /\ CountOK
    /\ DeallocOnce
    /\ FreedOK
====
