---- MODULE RootRefcount_proofs ----
(***************************************************************************)
(* Proofs about RootRefcount, for every set of threads, references and     *)
(* classes, every RC_HALF and both kinds of StoreExclusive.                *)
(*                                                                         *)
(* The inductive invariant is IndInv of RootRefcount.  Its heart is        *)
(* CountOK: the references that exist are the uncounted one, plus          *)
(* isa.extra_rc, plus the side table's count, plus what the lock's holder  *)
(* is carrying from one to the other.  The other conjuncts say who may be  *)
(* where: an operation of a thread that holds no reference and is not      *)
(* inside -dealloc runs under the lock, behind a registered weak variable. *)
(***************************************************************************)
EXTENDS RootRefcount, FiniteSetTheorems, TLAPS

(* The isa word an idle thread's oldisa is reset to is an isa word.        *)
LEMMA NullIsaType == NullIsa \in isa_t /\ NullIsa.cls \in Classes
  BY ClassesAssumption, HalfAssumption DEF NullIsa, RawIsa, isa_t, RC_MAX

(* A thread at a step that reads or writes the object finds it allocated;  *)
(* during -dealloc that thread is the deallocating one, unless it is in a  *)
(* weak load (tryRetain), and then the bit it will test is visible. No two *)
(* threads store to one variable.                                          *)
LEMMA Facts ==
    ASSUME IndInv, NEW t \in Threads
    PROVE  /\ pc[t] \in UseSteps \cup HoldSteps \cup TrySteps => allocated
           /\ pc[t] \in UseSteps \cup HoldSteps \cup TrySteps /\ Deallocating
                  => tryRetain[t] \/ deallocator = t
           /\ tryRetain[t] /\ Deallocating => rootIsDeallocating
           /\ ref[t] \in Refs => \A u \in Threads \ {t} : ref[u] # ref[t]
<1> USE ThreadsAssumption, RefsAssumption DEF IndInv
<1>1. pc[t] \in UseSteps \cup HoldSteps \cup TrySteps => allocated
  BY DEF FreedOK, Touches, Steps, TypeOK, TrySteps, HoldSteps, UseSteps
<1>2. pc[t] \in HoldSteps => OwnedBy(t) # {}
  BY DEF RefsOK, OwnedBy
<1>3. pc[t] \in UseSteps \cup HoldSteps \cup TrySteps
          => tryRetain[t] \/ OwnedBy(t) # {} \/ deallocator = t
  BY <1>2 DEF AccessOK, CanUse, TrySteps, HoldSteps, UseSteps, TypeOK
<1>4. OwnedBy(t) # {} /\ allocated /\ Deallocating => deallocator = t
  BY DEF OwnedBy, DeallocOnce, Owned
<1>5. tryRetain[t] /\ Deallocating => rootIsDeallocating
  BY DEF AccessOK, IsaOK, Deallocating, TypeOK, TrySteps
<1>6. ref[t] \in Refs => \A u \in Threads \ {t} : ref[u] # ref[t]
  BY DEF RefsOK
<1> QED BY <1>1, <1>3, <1>4, <1>5, <1>6

-----------------------------------------------------------------------------
(* Counting.                                                               *)

(* A step that leaves the counts, their owners and the deallocating state  *)
(* alone keeps the count right.                                            *)
LEMMA CountFrame ==
    ASSUME IndInv, UNCHANGED <<isa, side, owner, allocated, deallocator>>,
           InFlight' = InFlight, Deallocating' <=> Deallocating
    PROVE  CountOK' /\ DeallocOnce'
<1>1. Owned' = Owned
  BY DEF Owned
<1> QED BY <1>1 DEF IndInv, CountOK, DeallocOnce

(* The strong references are finitely many.                                *)
LEMMA OwnedFinite == TypeOK => IsFiniteSet(Owned) /\ Cardinality(Owned) \in Nat
<1>1. Owned \subseteq Refs
  BY DEF Owned
<1>2. IsFiniteSet(Owned)
  BY <1>1, FS_Subset, RefsAssumption
<1> QED BY <1>2, FS_CardinalityType

(* What is on its way between the isa and the side table is a number.      *)
LEMMA InFlightType == IndInv => InFlight \in Nat
  BY HalfAssumption DEF IndInv, TypeOK, InFlight, isa_t, RC_MAX

(* A release that finds no count anywhere is releasing the last reference, *)
(* and -dealloc has not begun.                                             *)
LEMMA Last ==
    ASSUME IndInv, NEW t \in Threads, pc[t] \in HoldSteps,
           isa.extra_rc = 0, side.rc = 0, InFlight = 0
    PROVE  ~Deallocating /\ Owned = {ref[t]}
<1>1. ref[t] \in Owned /\ allocated
  BY Facts, ThreadsAssumption DEF IndInv, RefsOK, Owned
<1>2. /\ IsFiniteSet(Owned) /\ Cardinality(Owned) \in Nat
      /\ IsFiniteSet(Owned \ {ref[t]})
      /\ Cardinality(Owned \ {ref[t]}) = Cardinality(Owned) - 1
      /\ Cardinality(Owned \ {ref[t]}) \in Nat
  BY <1>1, OwnedFinite, FS_RemoveElement, FS_CardinalityType DEF IndInv
<1>3. Cardinality(Owned) = 1 /\ ~Deallocating
  BY <1>1, <1>2 DEF IndInv, CountOK
<1>4. Owned \ {ref[t]} = {}
  BY <1>2, <1>3, FS_EmptySet
<1> QED BY <1>1, <1>3, <1>4

(* Without has_sidetable_rc the side table holds no count and none is on   *)
(* its way to it.                                                          *)
LEMMA NoneInFlight ==
    ASSUME IndInv, isa.nonpointer, ~isa.has_sidetable_rc
    PROVE  side.rc = 0 /\ InFlight = 0
<1>1. side.rc = 0
  BY DEF IndInv, IsaOK, NoEntry
<1>2. InFlight = 0
  BY DEF IndInv, TypeOK, OldOK, InFlight, BorrowSteps
<1> QED BY <1>1, <1>2

(* One more reference and one more count, wherever it is.                  *)
LEMMA CountGain ==
    ASSUME IndInv, TypeOK', NEW t \in Threads, NEW r \in Refs, owner[r] = NoThread,
           owner' = [owner EXCEPT ![r] = t],
           allocated, UNCHANGED <<allocated, deallocator>>,
           Deallocating' <=> Deallocating, Deallocating => deallocator = t,
           isa'.extra_rc + side'.rc + InFlight'
               = isa.extra_rc + side.rc + InFlight + 1,
           InFlight' \in Nat
    PROVE  CountOK' /\ DeallocOnce'
<1>1. Owned' = Owned \cup {r} /\ r \notin Owned
  BY ThreadsAssumption DEF IndInv, Owned, TypeOK
<1>2. Cardinality(Owned') = Cardinality(Owned) + 1 /\ Cardinality(Owned) \in Nat
  BY <1>1, OwnedFinite, FS_AddElement DEF IndInv
<1>3. CountOK'
  <2>1. /\ isa.extra_rc \in Nat /\ side.rc \in Nat /\ InFlight \in Nat
        /\ isa'.extra_rc \in Nat /\ side'.rc \in Nat
    BY InFlightType, HalfAssumption DEF IndInv, TypeOK, isa_t, SideEntry,
       RC_MAX
  <2> QED BY <1>2, <2>1 DEF IndInv, CountOK
<1>4. DeallocOnce'
  BY <1>1 DEF IndInv, DeallocOnce, TypeOK
<1> QED BY <1>3, <1>4

(* One reference and one count less.                                       *)
LEMMA CountDrop ==
    ASSUME IndInv, TypeOK', NEW t \in Threads, pc[t] \in HoldSteps,
           owner' = [owner EXCEPT ![ref[t]] = NoThread],
           UNCHANGED <<allocated, deallocator>>,
           Deallocating' <=> Deallocating,
           isa'.extra_rc + side'.rc + InFlight'
               = isa.extra_rc + side.rc + InFlight - 1,
           InFlight' \in Nat
    PROVE  CountOK' /\ DeallocOnce'
<1>0. ref[t] \in Owned /\ ref[t] \in Refs
  BY ThreadsAssumption DEF IndInv, RefsOK, Owned
<1>1. Owned' = Owned \ {ref[t]}
  BY <1>0 DEF IndInv, Owned, TypeOK
<1>2. Cardinality(Owned') = Cardinality(Owned) - 1 /\ Cardinality(Owned) \in Nat
  BY <1>0, <1>1, OwnedFinite, FS_RemoveElement DEF IndInv
<1>3. CountOK'
  <2>0. allocated
    BY Facts
  <2>1. /\ isa.extra_rc \in Nat /\ side.rc \in Nat /\ InFlight \in Nat
        /\ isa'.extra_rc \in Nat /\ side'.rc \in Nat
    BY InFlightType, HalfAssumption DEF IndInv, TypeOK, isa_t, SideEntry,
       RC_MAX
  <2>2. Cardinality(Owned) = (IF Deallocating THEN 0 ELSE 1)
                             + isa.extra_rc + side.rc + InFlight
    BY <2>0 DEF IndInv, CountOK
  <2>3. Cardinality(Owned') = (IF Deallocating THEN 0 ELSE 1)
                              + isa'.extra_rc + side'.rc + InFlight'
    BY <1>2, <2>1, <2>2
  <2> QED BY <2>3 DEF CountOK
<1>4. DeallocOnce'
  BY <1>0, <1>1 DEF IndInv, DeallocOnce, TypeOK
<1> QED BY <1>3, <1>4

(* A thread about to borrow that loaded the deallocating bit is the one    *)
(* inside -dealloc.                                                        *)
LEMMA BorrowerDeallocating ==
    ASSUME IndInv, NEW u \in Threads,
           pc[u] = "releaseBorrow", old[u].deallocating
    PROVE  Deallocating /\ deallocator = u
<1>1. isa = old[u] /\ isa.nonpointer
  BY DEF IndInv, OldOK
<1>2. ~Moving
  BY <1>1 DEF IndInv, OldOK, TypeOK, Moving
<1>3. Deallocating
  BY <1>1, <1>2 DEF Moving, Deallocating, rootIsDeallocating
<1>4. ~tryRetain[u]
  BY DEF IndInv, AccessOK, TrySteps
<1> QED BY <1>3, <1>4, Facts DEF HoldSteps

(* A transfer: the counts move, their sum stays.                           *)
LEMMA CountSame ==
    ASSUME IndInv, UNCHANGED <<owner, allocated, deallocator>>,
           Deallocating' <=> Deallocating,
           isa'.extra_rc + side'.rc + InFlight'
               = isa.extra_rc + side.rc + InFlight,
           isa'.extra_rc \in Nat, side'.rc \in Nat, InFlight' \in Nat
    PROVE  CountOK' /\ DeallocOnce'
<1>1. Owned' = Owned
  BY DEF Owned
<1>2. isa.extra_rc \in Nat /\ side.rc \in Nat /\ InFlight \in Nat
  BY InFlightType, HalfAssumption DEF IndInv, TypeOK, isa_t, SideEntry, RC_MAX
<1> QED BY <1>1, <1>2 DEF IndInv, CountOK, DeallocOnce

(* Nothing is in flight while the table is unlocked.                       *)
LEMMA UnlockedInFlight ==
    lock = NoThread => InFlight = 0 /\ ~Moving
  BY DEF InFlight, Moving

(* Nobody is at the last step of object_dispose while another thread uses  *)
(* the object.                                                             *)
LEMMA NotFree ==
    ASSUME IndInv, NEW t \in Threads,
           pc[t] \in UseSteps \cup HoldSteps \cup TrySteps
    PROVE  \A u \in Threads : pc[u] # "free"
<1> SUFFICES ASSUME NEW u \in Threads, pc[u] = "free"
             PROVE  FALSE
  OBVIOUS
<1>1. deallocator = u /\ ~location
  BY DEF IndInv, AccessOK, ClearSteps, IsaOK
<1>2. allocated /\ Deallocating
  BY <1>1, Facts, ThreadsAssumption DEF IndInv, DeallocOnce
<1>3. deallocator = t
  BY <1>1, <1>2, Facts DEF IndInv, AccessOK
<1> QED BY <1>1, <1>3 DEF UseSteps, HoldSteps, TrySteps

(* Another RC_HALF in the side table is at least one more multiple.        *)
LEMMA Multiple ==
    ASSUME NEW k \in Nat
    PROVE  k * RC_HALF >= k
  BY HalfAssumption

-----------------------------------------------------------------------------
(* One lemma per action, or per group of actions that disturb the same     *)
(* parts of the invariant.                                                 *)

Begin(t) ==
    \/ Retain(t)
    \/ Release(t)
    \/ LoadWeak(t)
    \/ StoreWeak(t)
    \/ ChangeIsa(t)

(* The calls: nothing but the thread's own position changes.               *)
LEMMA BeginInv ==
    ASSUME IndInv, NEW t \in Threads, Begin(t)
    PROVE  IndInv'
<1> USE ThreadsAssumption, RefsAssumption
    DEF Begin, Retain, Release, LoadWeak, StoreWeak, ChangeIsa, Goto, client,
       locals, FreeRefs, OwnedBy, CanUse
<1>1. TypeOK'
  BY NullIsaType DEF IndInv, TypeOK, Steps
<1>2. RefsOK'
  BY DEF IndInv, TypeOK, RefsOK, AcquireSteps, HoldSteps, Steps, OwnedBy,
     FreeRefs, AccessOK, TrySteps
<1>3. AccessOK'
  BY Facts DEF IndInv, TypeOK, AccessOK, RefsOK, AcquireSteps, HoldSteps,
     UseSteps, TrySteps, ClearSteps, Steps, CanUse, OwnedBy, LockOK,
     LockedSteps, MayLockSteps, BorrowSteps
<1>4. LockOK'
  BY DEF IndInv, TypeOK, LockOK, LockedSteps, MayLockSteps, BorrowSteps,
     Carry, Transcribes, AccessOK, TrySteps
<1>5. OldOK'
  BY Facts DEF IndInv, TypeOK, OldOK, BorrowSteps, LockOK, LockedSteps,
     MayLockSteps, AccessOK, ClearSteps, Carry, Transcribes
<1>6. IsaOK'
  BY DEF IndInv, TypeOK, IsaOK, OldOK, Moving, LockOK, LockedSteps,
     MayLockSteps, BorrowSteps, RawIsa, NoEntry, FreedOK
<1>7. FreedOK'
  BY Facts DEF IndInv, TypeOK, FreedOK, Touches, Steps, Owned, AccessOK,
     UseSteps, CanUse
<1>8. InFlight' = InFlight
  BY DEF IndInv, TypeOK, LockOK, InFlight, LockedSteps, MayLockSteps,
     BorrowSteps
<1>9. Deallocating' <=> Deallocating
  BY DEF IndInv, TypeOK, LockOK, LockedSteps, MayLockSteps, BorrowSteps,
     Deallocating, rootIsDeallocating
<1>10. CountOK' /\ DeallocOnce'
  BY <1>8, <1>9, CountFrame
<1> QED BY <1>1, <1>2, <1>3, <1>4, <1>5, <1>6, <1>7, <1>10 DEF IndInv

Look(t) ==
    \/ RetainLoad(t)
    \/ RetainLoadOverflow(t)
    \/ ReleaseLoad(t)
    \/ ReleaseLoadUnderflow(t)
    \/ ChangeLoad(t)
    \/ LoadWeakRead(t)

(* The loads that only choose the next step.                               *)
LEMMA LookInv ==
    ASSUME IndInv, NEW t \in Threads, Look(t)
    PROVE  IndInv'
<1> USE ThreadsAssumption, RefsAssumption
    DEF Look, RetainLoad, RetainLoadOverflow, ReleaseLoad,
       ReleaseLoadUnderflow, ChangeLoad, LoadWeakRead, Goto, Load, client,
       locals, Carry, Return
<1>1. TypeOK'
  <2>1. pc' \in [Threads -> Steps]
    BY DEF IndInv, TypeOK, Steps
  <2>2. old' \in [Threads -> isa_t]
    BY NullIsaType DEF IndInv, TypeOK
  <2>3. lock' \in Threads \cup {NoThread}
    BY DEF IndInv, TypeOK
  <2> QED BY <2>1, <2>2, <2>3, NullIsaType DEF IndInv, TypeOK
<1>2. RefsOK'
  BY DEF IndInv, TypeOK, RefsOK, AcquireSteps, HoldSteps, Steps, OwnedBy,
     FreeRefs, AccessOK, TrySteps
<1>3. AccessOK'
  BY Facts DEF IndInv, TypeOK, AccessOK, RefsOK, AcquireSteps, HoldSteps,
     UseSteps, TrySteps, ClearSteps, Steps, CanUse, OwnedBy, LockOK,
     LockedSteps, MayLockSteps, BorrowSteps
<1>4. LockOK'
  BY DEF IndInv, TypeOK, LockOK, LockedSteps, MayLockSteps, BorrowSteps,
     Carry, Transcribes, AccessOK, TrySteps
<1>5. OldOK'
  BY Facts DEF IndInv, TypeOK, OldOK, BorrowSteps, LockOK, LockedSteps,
     MayLockSteps, AccessOK, ClearSteps, Carry, Transcribes
<1>6. IsaOK'
  BY DEF IndInv, TypeOK, IsaOK, OldOK, Moving, LockOK, LockedSteps,
     MayLockSteps, BorrowSteps, RawIsa, NoEntry, FreedOK
<1>7. FreedOK'
  BY Facts DEF IndInv, TypeOK, FreedOK, Touches, Steps, Owned, AccessOK,
     UseSteps, CanUse
<1>8. InFlight' = InFlight
  BY DEF IndInv, TypeOK, LockOK, InFlight, LockedSteps, MayLockSteps,
     BorrowSteps
<1>9. Deallocating' <=> Deallocating
  BY DEF IndInv, TypeOK, LockOK, LockedSteps, MayLockSteps, BorrowSteps,
     Deallocating, rootIsDeallocating
<1>10. CountOK' /\ DeallocOnce'
  BY <1>8, <1>9, CountFrame
<1> QED BY <1>1, <1>2, <1>3, <1>4, <1>5, <1>6, <1>7, <1>10 DEF IndInv

(* The load that finds no count left anywhere.                             *)
LEMMA LastLoadInv ==
    ASSUME IndInv, NEW t \in Threads, ReleaseLoadLast(t)
    PROVE  IndInv'
<1> USE ThreadsAssumption, RefsAssumption
    DEF ReleaseLoadLast, Goto, Load, client, locals
<1>1. TypeOK'
  BY NullIsaType DEF IndInv, TypeOK, Steps
<1>2. RefsOK'
  BY DEF IndInv, TypeOK, RefsOK, AcquireSteps, HoldSteps, Steps, OwnedBy,
     FreeRefs, AccessOK, TrySteps
<1>3. AccessOK'
  BY Facts DEF IndInv, TypeOK, AccessOK, RefsOK, AcquireSteps, HoldSteps,
     UseSteps, TrySteps, ClearSteps, Steps, CanUse, OwnedBy, LockOK,
     LockedSteps, MayLockSteps, BorrowSteps
<1>4. LockOK'
  BY DEF IndInv, TypeOK, LockOK, LockedSteps, MayLockSteps, BorrowSteps,
     Carry, Transcribes, AccessOK, TrySteps
<1>5. OldOK'
  BY Facts, Last, NoneInFlight DEF IndInv, TypeOK, OldOK, BorrowSteps,
     HoldSteps, Deallocating, rootIsDeallocating
<1>6. IsaOK'
  BY DEF IndInv, TypeOK, IsaOK, OldOK, Moving, LockOK, LockedSteps,
     MayLockSteps, BorrowSteps, RawIsa, NoEntry, FreedOK
<1>7. FreedOK'
  BY Facts DEF IndInv, TypeOK, FreedOK, Touches, Steps, Owned, AccessOK,
     UseSteps, CanUse
<1>8. InFlight' = InFlight
  BY DEF IndInv, TypeOK, LockOK, InFlight, LockedSteps, MayLockSteps,
     BorrowSteps
<1>9. Deallocating' <=> Deallocating
  BY DEF IndInv, TypeOK, LockOK, LockedSteps, MayLockSteps, BorrowSteps,
     Deallocating, rootIsDeallocating
<1>10. CountOK' /\ DeallocOnce'
  BY <1>8, <1>9, CountFrame
<1> QED BY <1>1, <1>2, <1>3, <1>4, <1>5, <1>6, <1>7, <1>10 DEF IndInv

TakeLock(t) ==
    \/ RetainLock(t)
    \/ ReleaseLock(t)
    \/ ChangeLock(t)
    \/ LoadWeakLock(t)

(* The steps that take the SideTable's lock.                               *)
LEMMA TakeLockInv ==
    ASSUME IndInv, NEW t \in Threads, TakeLock(t)
    PROVE  IndInv'
<1> USE ThreadsAssumption, RefsAssumption
    DEF TakeLock, RetainLock, ReleaseLock, ChangeLock, LoadWeakLock, Goto,
       client, locals
<1>1. TypeOK'
  BY NullIsaType DEF IndInv, TypeOK, Steps
<1>2. RefsOK'
  BY DEF IndInv, TypeOK, RefsOK, AcquireSteps, HoldSteps, Steps, OwnedBy,
     FreeRefs, AccessOK, TrySteps
<1>3. AccessOK'
  BY Facts DEF IndInv, TypeOK, AccessOK, RefsOK, AcquireSteps, HoldSteps,
     UseSteps, TrySteps, ClearSteps, Steps, CanUse, OwnedBy, LockOK,
     LockedSteps, MayLockSteps, BorrowSteps
<1>4. LockOK'
  BY DEF IndInv, TypeOK, LockOK, LockedSteps, MayLockSteps, BorrowSteps,
     Carry, Transcribes, AccessOK, TrySteps
<1>5. OldOK'
  BY Facts DEF IndInv, TypeOK, OldOK, BorrowSteps, LockOK, LockedSteps,
     MayLockSteps, AccessOK, ClearSteps, Carry, Transcribes
<1>6. IsaOK'
  BY DEF IndInv, TypeOK, IsaOK, OldOK, Moving, LockOK, LockedSteps,
     MayLockSteps, BorrowSteps, RawIsa, NoEntry, FreedOK
<1>7. FreedOK'
  BY Facts DEF IndInv, TypeOK, FreedOK, Touches, Steps, Owned, AccessOK,
     UseSteps, CanUse
<1>8. InFlight' = InFlight
  BY DEF IndInv, TypeOK, LockOK, InFlight, LockedSteps, MayLockSteps,
     BorrowSteps
<1>9. Deallocating' <=> Deallocating
  BY DEF IndInv, TypeOK, LockOK, LockedSteps, MayLockSteps, BorrowSteps,
     Deallocating, rootIsDeallocating
<1>10. CountOK' /\ DeallocOnce'
  BY <1>8, <1>9, CountFrame
<1> QED BY <1>1, <1>2, <1>3, <1>4, <1>5, <1>6, <1>7, <1>10 DEF IndInv

GiveLock(t) ==
    \/ RetainLoadRaw(t)
    \/ RetainLoadDeallocating(t)
    \/ ReleaseLoadRaw(t)

(* The loads that give the lock back: a raw isa, or tryRetain of a         *)
(* deallocating object.                                                    *)
LEMMA GiveLockInv ==
    ASSUME IndInv, NEW t \in Threads, GiveLock(t)
    PROVE  IndInv'
<1> USE ThreadsAssumption, RefsAssumption
    DEF GiveLock, RetainLoadRaw, RetainLoadDeallocating, ReleaseLoadRaw,
       Goto, Load, Unlock, client, locals, Return
<1>1. TypeOK'
  <2>1. pc' \in [Threads -> Steps]
    BY DEF IndInv, TypeOK, Steps
  <2>2. old' \in [Threads -> isa_t]
    BY NullIsaType DEF IndInv, TypeOK
  <2>3. lock' \in Threads \cup {NoThread}
    BY DEF IndInv, TypeOK
  <2> QED BY <2>1, <2>2, <2>3, NullIsaType DEF IndInv, TypeOK
<1>2. RefsOK'
  BY DEF IndInv, TypeOK, RefsOK, AcquireSteps, HoldSteps, Steps, OwnedBy,
     FreeRefs, AccessOK, TrySteps
<1>3. AccessOK'
  BY Facts DEF IndInv, TypeOK, AccessOK, RefsOK, AcquireSteps, HoldSteps,
     UseSteps, TrySteps, ClearSteps, Steps, CanUse, OwnedBy, LockOK,
     LockedSteps, MayLockSteps, BorrowSteps
<1>4. LockOK'
  BY DEF IndInv, TypeOK, LockOK, LockedSteps, MayLockSteps, BorrowSteps,
     Carry, Transcribes, AccessOK, TrySteps
<1>5. OldOK'
  BY Facts DEF IndInv, TypeOK, OldOK, BorrowSteps, LockOK, LockedSteps,
     MayLockSteps, AccessOK, ClearSteps, Carry, Transcribes
<1>6. IsaOK'
  BY DEF IndInv, TypeOK, IsaOK, OldOK, Moving, LockOK, LockedSteps,
     MayLockSteps, BorrowSteps, RawIsa, NoEntry, FreedOK
<1>7. FreedOK'
  BY Facts DEF IndInv, TypeOK, FreedOK, Touches, Steps, Owned, AccessOK,
     UseSteps, CanUse
<1>8. InFlight' = InFlight
  BY DEF IndInv, TypeOK, LockOK, InFlight, LockedSteps, MayLockSteps,
     BorrowSteps
<1>9. Deallocating' <=> Deallocating
  BY DEF IndInv, TypeOK, LockOK, LockedSteps, MayLockSteps, BorrowSteps,
     Deallocating, rootIsDeallocating
<1>10. CountOK' /\ DeallocOnce'
  BY <1>8, <1>9, CountFrame
<1> QED BY <1>1, <1>2, <1>3, <1>4, <1>5, <1>6, <1>7, <1>10 DEF IndInv

Retry(t) ==
    \/ RetainStoreFails(t)
    \/ ReleaseStoreFails(t)
    \/ ReleaseDeallocFails(t)
    \/ ChangeStoreFails(t)
    \/ SetWeakStoreFails(t)

(* The exclusive stores that fail.                                         *)
LEMMA RetryInv ==
    ASSUME IndInv, NEW t \in Threads, Retry(t)
    PROVE  IndInv'
<1> USE ThreadsAssumption, RefsAssumption
    DEF Retry, RetainStoreFails, ReleaseStoreFails, ReleaseDeallocFails,
       ChangeStoreFails, SetWeakStoreFails, Goto, StoreFails, client, locals
<1>1. TypeOK'
  BY NullIsaType DEF IndInv, TypeOK, Steps
<1>2. RefsOK'
  BY DEF IndInv, TypeOK, RefsOK, AcquireSteps, HoldSteps, Steps, OwnedBy,
     FreeRefs, AccessOK, TrySteps
<1>3. AccessOK'
  BY Facts DEF IndInv, TypeOK, AccessOK, RefsOK, AcquireSteps, HoldSteps,
     UseSteps, TrySteps, ClearSteps, Steps, CanUse, OwnedBy, LockOK,
     LockedSteps, MayLockSteps, BorrowSteps
<1>4. LockOK'
  BY DEF IndInv, TypeOK, LockOK, LockedSteps, MayLockSteps, BorrowSteps,
     Carry, Transcribes, AccessOK, TrySteps
<1>5. OldOK'
  BY Facts DEF IndInv, TypeOK, OldOK, BorrowSteps, LockOK, LockedSteps,
     MayLockSteps, AccessOK, ClearSteps, Carry, Transcribes
<1>6. IsaOK'
  BY DEF IndInv, TypeOK, IsaOK, OldOK, Moving, LockOK, LockedSteps,
     MayLockSteps, BorrowSteps, RawIsa, NoEntry, FreedOK
<1>7. FreedOK'
  BY Facts DEF IndInv, TypeOK, FreedOK, Touches, Steps, Owned, AccessOK,
     UseSteps, CanUse
<1>8. InFlight' = InFlight
  BY DEF IndInv, TypeOK, LockOK, InFlight, LockedSteps, MayLockSteps,
     BorrowSteps
<1>9. Deallocating' <=> Deallocating
  BY DEF IndInv, TypeOK, LockOK, LockedSteps, MayLockSteps, BorrowSteps,
     Deallocating, rootIsDeallocating
<1>10. CountOK' /\ DeallocOnce'
  BY <1>8, <1>9, CountFrame
<1> QED BY <1>1, <1>2, <1>3, <1>4, <1>5, <1>6, <1>7, <1>10 DEF IndInv

BorrowAgain(t) ==
    \/ BorrowStoreFails(t)
    \/ BorrowReload(t)
    \/ BorrowRetryFails(t)

(* The retries of a release that has borrowed from the side table.         *)
LEMMA BorrowAgainInv ==
    ASSUME IndInv, NEW t \in Threads, BorrowAgain(t)
    PROVE  IndInv'
<1> USE ThreadsAssumption, RefsAssumption
    DEF BorrowAgain, BorrowStoreFails, BorrowReload, BorrowRetryFails, Goto,
       StoreFails, client, locals, Load
<1>1. TypeOK'
  BY NullIsaType DEF IndInv, TypeOK, Steps
<1>2. RefsOK'
  BY DEF IndInv, TypeOK, RefsOK, AcquireSteps, HoldSteps, Steps, OwnedBy,
     FreeRefs, AccessOK, TrySteps
<1>3. AccessOK'
  BY Facts DEF IndInv, TypeOK, AccessOK, RefsOK, AcquireSteps, HoldSteps,
     UseSteps, TrySteps, ClearSteps, Steps, CanUse, OwnedBy, LockOK,
     LockedSteps, MayLockSteps, BorrowSteps
<1>4. LockOK'
  BY DEF IndInv, TypeOK, LockOK, LockedSteps, MayLockSteps, BorrowSteps,
     Carry, Transcribes, AccessOK, TrySteps
<1>5. OldOK'
  BY Facts DEF IndInv, TypeOK, OldOK, BorrowSteps, LockOK, LockedSteps,
     MayLockSteps, AccessOK, ClearSteps, Carry, Transcribes
<1>6. IsaOK'
  BY DEF IndInv, TypeOK, IsaOK, OldOK, Moving, LockOK, LockedSteps,
     MayLockSteps, BorrowSteps, RawIsa, NoEntry, FreedOK
<1>7. FreedOK'
  BY Facts DEF IndInv, TypeOK, FreedOK, Touches, Steps, Owned, AccessOK,
     UseSteps, CanUse
<1>8. InFlight' = InFlight
  BY DEF IndInv, TypeOK, LockOK, InFlight, LockedSteps, MayLockSteps,
     BorrowSteps
<1>9. Deallocating' <=> Deallocating
  BY DEF IndInv, TypeOK, LockOK, LockedSteps, MayLockSteps, BorrowSteps,
     Deallocating, rootIsDeallocating
<1>10. CountOK' /\ DeallocOnce'
  BY <1>8, <1>9, CountFrame
<1> QED BY <1>1, <1>2, <1>3, <1>4, <1>5, <1>6, <1>7, <1>10 DEF IndInv

Dispose(t) ==
    \/ RootDealloc(t)
    \/ ClearDeallocating(t)

(* -dealloc reaches object_dispose and looks at the isa.                   *)
LEMMA DisposeInv ==
    ASSUME IndInv, NEW t \in Threads, Dispose(t)
    PROVE  IndInv'
<1> USE ThreadsAssumption, RefsAssumption
    DEF Dispose, RootDealloc, ClearDeallocating, Goto, client, locals,
       OwnedBy, InDealloc
<1>a. /\ allocated /\ deallocator = t /\ pc[t] \in {"idle", "clearDeallocating"}
      /\ pc[t] = "idle" \/ OwnedBy(t) = {}
  BY DEF IndInv, AccessOK, ClearSteps, FreedOK, TypeOK
<1>b. Deallocating
  BY <1>a DEF IndInv, DeallocOnce
<1>c. \A u \in Threads : pc'[u] = "changeMove" <=> pc[u] = "changeMove"
  BY <1>a DEF IndInv, TypeOK
<1>d. Moving <=> Moving'
  BY <1>c DEF IndInv, TypeOK, Moving
<1>1. TypeOK'
  BY NullIsaType DEF IndInv, TypeOK, Steps
<1>2. RefsOK'
  BY DEF IndInv, TypeOK, RefsOK, AcquireSteps, HoldSteps, Steps, AccessOK,
     TrySteps
<1>3. AccessOK'
  BY Facts DEF IndInv, TypeOK, AccessOK, RefsOK, AcquireSteps, HoldSteps,
     UseSteps, TrySteps, ClearSteps, CanUse, OwnedBy, LockOK, LockedSteps,
     MayLockSteps, BorrowSteps
<1>4. LockOK'
  BY DEF IndInv, TypeOK, LockOK, LockedSteps, MayLockSteps, BorrowSteps,
     Carry, Transcribes, AccessOK, TrySteps
<1>5. OldOK'
  BY Facts DEF IndInv, TypeOK, OldOK, BorrowSteps, LockOK, LockedSteps,
     MayLockSteps, AccessOK, ClearSteps
<1>6. IsaOK'
  BY DEF IndInv, TypeOK, IsaOK, OldOK, Moving, LockOK, LockedSteps,
     MayLockSteps, BorrowSteps, RawIsa, NoEntry, FreedOK
<1>7. FreedOK'
  BY Facts DEF IndInv, TypeOK, FreedOK, Touches, Steps, Owned, AccessOK,
     UseSteps, CanUse
<1>8. InFlight' = InFlight
  BY DEF IndInv, TypeOK, LockOK, InFlight, LockedSteps, MayLockSteps,
     BorrowSteps
<1>9. Deallocating' <=> Deallocating
  BY <1>a, <1>b, <1>d DEF Moving, Deallocating, rootIsDeallocating
<1>10. CountOK' /\ DeallocOnce'
  BY <1>8, <1>9, CountFrame
<1> QED BY <1>1, <1>2, <1>3, <1>4, <1>5, <1>6, <1>7, <1>10 DEF IndInv

(* rootRetain: the store of extra_rc + 1.                                  *)
LEMMA RetainStoreInv ==
    ASSUME IndInv, NEW t \in Threads, RetainStore(t)
    PROVE  IndInv'
<1> USE ThreadsAssumption, RefsAssumption
    DEF RetainStore, Goto, Stores, Unlock, Return, client, Carry
<1> DEFINE r == ref[t]
<1>a. /\ pc[t] = "retainStore" /\ r \in Refs /\ owner[r] = NoThread
      /\ isa = old[t] /\ isa.nonpointer /\ isa \in isa_t
      /\ allocated
      /\ Deallocating => deallocator = t
  BY Facts DEF IndInv, RefsOK, AcquireSteps, OldOK, TypeOK, TrySteps,
     AccessOK, Deallocating, rootIsDeallocating
<1>b. isa' \in isa_t
  BY <1>a, HalfAssumption DEF isa_t, RC_MAX
<1>c. \A u \in Threads \ {t} : pc[u] = "releaseBorrow" => ~old[u].deallocating
  BY <1>a, BorrowerDeallocating
<1>1. TypeOK'
  BY <1>a, <1>b, NullIsaType DEF IndInv, TypeOK, Steps
<1>2. RefsOK'
  BY DEF IndInv, TypeOK, RefsOK, AcquireSteps, HoldSteps, Steps, AccessOK,
     TrySteps
<1>3. AccessOK'
  BY Facts DEF IndInv, TypeOK, AccessOK, RefsOK, AcquireSteps, HoldSteps,
     UseSteps, TrySteps, ClearSteps, CanUse, OwnedBy, LockOK, LockedSteps,
     MayLockSteps, BorrowSteps
<1>4. LockOK'
  BY DEF IndInv, TypeOK, LockOK, LockedSteps, MayLockSteps, BorrowSteps,
     Carry, Transcribes, AccessOK, TrySteps
<1>5. OldOK'
  BY <1>a, <1>c DEF IndInv, TypeOK, OldOK, BorrowSteps, LockOK, LockedSteps,
     isa_t
<1>6. IsaOK'
  BY DEF IndInv, TypeOK, IsaOK, OldOK, Moving, LockOK, LockedSteps,
     MayLockSteps, BorrowSteps, RawIsa, NoEntry, FreedOK
<1>7. FreedOK'
  BY Facts DEF IndInv, TypeOK, FreedOK, Touches, Steps, Owned, AccessOK,
     UseSteps, CanUse
<1>8. InFlight' = InFlight
  BY DEF IndInv, TypeOK, LockOK, InFlight, LockedSteps, MayLockSteps,
     BorrowSteps
<1>9. Deallocating' <=> Deallocating
  BY DEF IndInv, TypeOK, LockOK, LockedSteps, MayLockSteps, BorrowSteps,
     Deallocating, rootIsDeallocating
<1>10. CountOK' /\ DeallocOnce'
  <2>1. isa'.extra_rc = isa.extra_rc + 1
    BY <1>a DEF isa_t
  <2>2. InFlight \in Nat /\ owner' = [owner EXCEPT ![r] = t]
    BY InFlightType
  <2>3. isa'.extra_rc + side'.rc + InFlight' = isa.extra_rc + side.rc + InFlight + 1
    BY <2>1, <2>2, <1>8, <1>a DEF IndInv, TypeOK, isa_t, SideEntry
  <2> QED BY <1>1, <1>8, <1>9, <1>a, <2>2, <2>3, CountGain
<1> QED BY <1>1, <1>2, <1>3, <1>4, <1>5, <1>6, <1>7, <1>10 DEF IndInv

(* rootRelease: the store of extra_rc - 1.                                 *)
LEMMA ReleaseStoreInv ==
    ASSUME IndInv, NEW t \in Threads, ReleaseStore(t)
    PROVE  IndInv'
<1> USE ThreadsAssumption, RefsAssumption
    DEF ReleaseStore, Goto, Stores, Unlock, Return, client, Drop
<1>a. /\ pc[t] = "releaseStore" /\ pc[t] \in HoldSteps /\ ref[t] \in Refs
      /\ isa = old[t] /\ isa.nonpointer /\ isa \in isa_t
      /\ allocated /\ isa.extra_rc > 0
      /\ Deallocating => deallocator = t
  BY Facts, HalfAssumption DEF IndInv, RefsOK, HoldSteps, OldOK, TypeOK,
     AccessOK, TrySteps, InFlight, BorrowSteps, LockOK, LockedSteps
<1>b. isa' \in isa_t
  BY <1>a, HalfAssumption DEF isa_t, RC_MAX
<1>c. \A u \in Threads \ {t} : pc[u] = "releaseBorrow" => ~old[u].deallocating
  BY <1>a, BorrowerDeallocating
<1>1. TypeOK'
  BY <1>a, <1>b, NullIsaType DEF IndInv, TypeOK, Steps
<1>2. RefsOK'
  BY DEF IndInv, TypeOK, RefsOK, AcquireSteps, HoldSteps, Steps, AccessOK,
     TrySteps
<1>3. AccessOK'
  BY Facts DEF IndInv, TypeOK, AccessOK, RefsOK, AcquireSteps, HoldSteps,
     UseSteps, TrySteps, ClearSteps, CanUse, OwnedBy, LockOK, LockedSteps,
     MayLockSteps, BorrowSteps
<1>4. LockOK'
  BY DEF IndInv, TypeOK, LockOK, LockedSteps, MayLockSteps, BorrowSteps,
     Carry, Transcribes, AccessOK, TrySteps
<1>5. OldOK'
  BY <1>a, <1>c DEF IndInv, TypeOK, OldOK, BorrowSteps, LockOK, LockedSteps,
     isa_t
<1>6. IsaOK'
  BY DEF IndInv, TypeOK, IsaOK, OldOK, Moving, LockOK, LockedSteps,
     MayLockSteps, BorrowSteps, RawIsa, NoEntry, FreedOK
<1>7. FreedOK'
  BY Facts DEF IndInv, TypeOK, FreedOK, Touches, Steps, Owned, AccessOK,
     UseSteps, CanUse
<1>8. InFlight' = InFlight
  BY <1>a DEF IndInv, TypeOK, LockOK, InFlight, LockedSteps, MayLockSteps,
     BorrowSteps
<1>9. Deallocating' <=> Deallocating
  BY DEF IndInv, TypeOK, LockOK, LockedSteps, MayLockSteps, BorrowSteps,
     Deallocating, rootIsDeallocating
<1>10. CountOK' /\ DeallocOnce'
  <2>1. isa'.extra_rc = isa.extra_rc - 1
    BY <1>a DEF isa_t
  <2>0. InFlight \in Nat
    BY InFlightType
  <2>2. isa'.extra_rc + side'.rc + InFlight' = isa.extra_rc + side.rc + InFlight - 1
    BY <2>0, <2>1, <1>8, <1>a, HalfAssumption DEF IndInv, TypeOK, isa_t,
       SideEntry
  <2> QED BY <1>1, <1>8, <1>9, <1>a, <2>0, <2>2, CountDrop
<1> QED BY <1>1, <1>2, <1>3, <1>4, <1>5, <1>6, <1>7, <1>10 DEF IndInv

(* rootRelease: the store of the borrowed count, less the released         *)
(* reference.                                                              *)
LEMMA BorrowStoreInv ==
    ASSUME IndInv, NEW t \in Threads, BorrowStore(t)
    PROVE  IndInv'
<1> USE ThreadsAssumption, RefsAssumption
    DEF BorrowStore, Goto, Stores, Unlock, Return, client, Drop
<1>a. /\ pc[t] = "borrowStore" /\ pc[t] \in HoldSteps /\ ref[t] \in Refs
      /\ isa = old[t] /\ isa.nonpointer /\ isa \in isa_t
      /\ allocated /\ isa.extra_rc = 0
      /\ InFlight = RC_HALF
      /\ Deallocating => deallocator = t
  BY Facts, HalfAssumption DEF IndInv, RefsOK, HoldSteps, OldOK, TypeOK,
     AccessOK, TrySteps, InFlight, BorrowSteps, LockOK, LockedSteps
<1>b. isa' \in isa_t
  BY <1>a, HalfAssumption DEF isa_t, RC_MAX
<1>c. \A u \in Threads \ {t} : pc[u] = "releaseBorrow" => ~old[u].deallocating
  BY <1>a, BorrowerDeallocating
<1>1. TypeOK'
  BY <1>a, <1>b, NullIsaType DEF IndInv, TypeOK, Steps
<1>2. RefsOK'
  BY DEF IndInv, TypeOK, RefsOK, AcquireSteps, HoldSteps, Steps, AccessOK,
     TrySteps
<1>3. AccessOK'
  BY Facts DEF IndInv, TypeOK, AccessOK, RefsOK, AcquireSteps, HoldSteps,
     UseSteps, TrySteps, ClearSteps, CanUse, OwnedBy, LockOK, LockedSteps,
     MayLockSteps, BorrowSteps
<1>4. LockOK'
  BY DEF IndInv, TypeOK, LockOK, LockedSteps, MayLockSteps, BorrowSteps,
     Carry, Transcribes, AccessOK, TrySteps
<1>5. OldOK'
  BY <1>a, <1>c DEF IndInv, TypeOK, OldOK, BorrowSteps, LockOK, LockedSteps,
     isa_t
<1>6. IsaOK'
  BY DEF IndInv, TypeOK, IsaOK, OldOK, Moving, LockOK, LockedSteps,
     MayLockSteps, BorrowSteps, RawIsa, NoEntry, FreedOK
<1>7. FreedOK'
  BY Facts DEF IndInv, TypeOK, FreedOK, Touches, Steps, Owned, AccessOK,
     UseSteps, CanUse
<1>8. InFlight' = 0
  BY <1>a DEF IndInv, TypeOK, LockOK, InFlight, LockedSteps, MayLockSteps,
     BorrowSteps
<1>9. Deallocating' <=> Deallocating
  BY DEF IndInv, TypeOK, LockOK, LockedSteps, MayLockSteps, BorrowSteps,
     Deallocating, rootIsDeallocating
<1>10. CountOK' /\ DeallocOnce'
  <2>1. isa'.extra_rc = RC_HALF - 1
    BY <1>a DEF isa_t
  <2>2. isa'.extra_rc + side'.rc + InFlight' = isa.extra_rc + side.rc + InFlight - 1
    BY <2>1, <1>8, <1>a, HalfAssumption DEF IndInv, TypeOK, isa_t, SideEntry
  <2> QED BY <1>1, <1>8, <1>9, <1>a, <2>2, CountDrop
<1> QED BY <1>1, <1>2, <1>3, <1>4, <1>5, <1>6, <1>7, <1>10 DEF IndInv

(* rootRelease: the second attempt of that store.                          *)
LEMMA BorrowRetryInv ==
    ASSUME IndInv, NEW t \in Threads, BorrowRetry(t)
    PROVE  IndInv'
<1> USE ThreadsAssumption, RefsAssumption
    DEF BorrowRetry, Goto, Stores, Unlock, Return, client, Drop
<1>a. /\ pc[t] = "borrowRetry" /\ pc[t] \in HoldSteps /\ ref[t] \in Refs
      /\ isa = old[t] /\ isa.nonpointer /\ isa \in isa_t
      /\ allocated /\ isa.extra_rc + (RC_HALF - 1) =< RC_MAX
      /\ InFlight = RC_HALF
      /\ Deallocating => deallocator = t
  BY Facts, HalfAssumption DEF IndInv, RefsOK, HoldSteps, OldOK, TypeOK,
     AccessOK, TrySteps, InFlight, BorrowSteps, LockOK, LockedSteps
<1>b. isa' \in isa_t
  BY <1>a, HalfAssumption DEF isa_t, RC_MAX
<1>c. \A u \in Threads \ {t} : pc[u] = "releaseBorrow" => ~old[u].deallocating
  BY <1>a, BorrowerDeallocating
<1>1. TypeOK'
  BY <1>a, <1>b, NullIsaType DEF IndInv, TypeOK, Steps
<1>2. RefsOK'
  BY DEF IndInv, TypeOK, RefsOK, AcquireSteps, HoldSteps, Steps, AccessOK,
     TrySteps
<1>3. AccessOK'
  BY Facts DEF IndInv, TypeOK, AccessOK, RefsOK, AcquireSteps, HoldSteps,
     UseSteps, TrySteps, ClearSteps, CanUse, OwnedBy, LockOK, LockedSteps,
     MayLockSteps, BorrowSteps
<1>4. LockOK'
  BY DEF IndInv, TypeOK, LockOK, LockedSteps, MayLockSteps, BorrowSteps,
     Carry, Transcribes, AccessOK, TrySteps
<1>5. OldOK'
  BY <1>a, <1>c DEF IndInv, TypeOK, OldOK, BorrowSteps, LockOK, LockedSteps,
     isa_t
<1>6. IsaOK'
  BY DEF IndInv, TypeOK, IsaOK, OldOK, Moving, LockOK, LockedSteps,
     MayLockSteps, BorrowSteps, RawIsa, NoEntry, FreedOK
<1>7. FreedOK'
  BY Facts DEF IndInv, TypeOK, FreedOK, Touches, Steps, Owned, AccessOK,
     UseSteps, CanUse
<1>8. InFlight' = 0
  BY <1>a DEF IndInv, TypeOK, LockOK, InFlight, LockedSteps, MayLockSteps,
     BorrowSteps
<1>9. Deallocating' <=> Deallocating
  BY DEF IndInv, TypeOK, LockOK, LockedSteps, MayLockSteps, BorrowSteps,
     Deallocating, rootIsDeallocating
<1>10. CountOK' /\ DeallocOnce'
  <2>1. isa'.extra_rc = isa.extra_rc + (RC_HALF - 1)
    BY <1>a DEF isa_t
  <2>2. isa'.extra_rc + side'.rc + InFlight' = isa.extra_rc + side.rc + InFlight - 1
    BY <2>1, <1>8, <1>a, HalfAssumption DEF IndInv, TypeOK, isa_t, SideEntry
  <2> QED BY <1>1, <1>8, <1>9, <1>a, <2>2, CountDrop
<1> QED BY <1>1, <1>2, <1>3, <1>4, <1>5, <1>6, <1>7, <1>10 DEF IndInv

(* rootRetain: the store that leaves half of the counts inline and puts    *)
(* the other half in flight.                                               *)
LEMMA RetainStoreOverflowInv ==
    ASSUME IndInv, NEW t \in Threads, RetainStoreOverflow(t)
    PROVE  IndInv'
<1> USE ThreadsAssumption, RefsAssumption
    DEF RetainStoreOverflow, Goto, Stores, client, locals, Carry
<1> DEFINE r == ref[t]
<1>a. /\ pc[t] = "retainStore" /\ r \in Refs /\ owner[r] = NoThread
      /\ isa = old[t] /\ isa.nonpointer /\ isa \in isa_t
      /\ isa.extra_rc = RC_MAX /\ lock = t /\ InFlight = 0
      /\ allocated
      /\ Deallocating => deallocator = t
  BY Facts DEF IndInv, RefsOK, AcquireSteps, OldOK, TypeOK, TrySteps,
     AccessOK, LockOK, InFlight, BorrowSteps, Deallocating, rootIsDeallocating
<1>b. isa' \in isa_t
  <2>1. RC_HALF \in 0..RC_MAX
    BY HalfAssumption DEF RC_MAX
  <2> QED BY <1>a, <2>1 DEF isa_t
<1>c. \A u \in Threads \ {t} : pc[u] = "releaseBorrow" => ~old[u].deallocating
  BY <1>a, BorrowerDeallocating
<1>1. TypeOK'
  BY <1>a, <1>b, NullIsaType DEF IndInv, TypeOK, Steps
<1>2. RefsOK'
  BY DEF IndInv, TypeOK, RefsOK, AcquireSteps, HoldSteps, Steps, AccessOK,
     TrySteps
<1>3. AccessOK'
  BY Facts DEF IndInv, TypeOK, AccessOK, RefsOK, AcquireSteps, HoldSteps,
     UseSteps, TrySteps, ClearSteps, CanUse, OwnedBy, LockOK, LockedSteps,
     MayLockSteps, BorrowSteps
<1>4. LockOK'
  BY DEF IndInv, TypeOK, LockOK, LockedSteps, MayLockSteps, BorrowSteps,
     Carry, Transcribes, AccessOK, TrySteps
<1>5. OldOK'
  BY <1>a, <1>c DEF IndInv, TypeOK, OldOK, BorrowSteps, LockOK, LockedSteps,
     isa_t
<1>6. IsaOK'
  BY DEF IndInv, TypeOK, IsaOK, OldOK, Moving, LockOK, LockedSteps,
     MayLockSteps, BorrowSteps, RawIsa, NoEntry, FreedOK
<1>7. FreedOK'
  BY Facts DEF IndInv, TypeOK, FreedOK, Touches, Steps, Owned, AccessOK,
     UseSteps, CanUse
<1>8. InFlight' = RC_HALF
  BY <1>a DEF IndInv, TypeOK, InFlight
<1>9. Deallocating' <=> Deallocating
  BY DEF IndInv, TypeOK, LockOK, LockedSteps, MayLockSteps, BorrowSteps,
     Deallocating, rootIsDeallocating
<1>10. CountOK' /\ DeallocOnce'
  <2>1. isa'.extra_rc = RC_HALF
    BY <1>a DEF isa_t
  <2>2. owner' = [owner EXCEPT ![r] = t]
    OBVIOUS
  <2>3. isa'.extra_rc + side'.rc + InFlight' = isa.extra_rc + side.rc + InFlight + 1
    BY <2>1, <1>8, <1>a, HalfAssumption DEF IndInv, TypeOK, isa_t, SideEntry,
       RC_MAX
  <2> QED BY <1>1, <1>8, <1>9, <1>a, <2>2, <2>3, HalfAssumption, CountGain
<1> QED BY <1>1, <1>2, <1>3, <1>4, <1>5, <1>6, <1>7, <1>10 DEF IndInv

(* rootRelease: the deallocating decrement.                                *)
LEMMA ReleaseDeallocInv ==
    ASSUME IndInv, NEW t \in Threads, ReleaseDealloc(t)
    PROVE  IndInv'
<1> USE ThreadsAssumption, RefsAssumption
    DEF ReleaseDealloc, Goto, Stores, Unlock, Return, Drop
<1>a. /\ pc[t] = "releaseDealloc" /\ pc[t] \in HoldSteps
      /\ isa = old[t] /\ isa.nonpointer /\ isa \in isa_t
      /\ isa.extra_rc = 0 /\ allocated /\ ref[t] \in Refs
  BY Facts DEF IndInv, RefsOK, HoldSteps, OldOK, TypeOK
<1>b. side.rc = 0 /\ InFlight = 0
  BY <1>a, NoneInFlight DEF IndInv, OldOK, InFlight, BorrowSteps
<1>c. ~Deallocating /\ Owned = {ref[t]}
  BY <1>a, <1>b, Last
<1>d. Owned' = {}
  BY <1>a, <1>c DEF IndInv, TypeOK, Owned
<1>e. deallocator = NoThread
  BY <1>a, <1>c DEF IndInv, DeallocOnce
<1>h. \A u \in Threads \ {t} : OwnedBy(u) = {}
  BY <1>a, <1>c DEF IndInv, RefsOK, HoldSteps, Owned, OwnedBy
<1>f. isa' \in isa_t /\ isa'.deallocating /\ isa'.extra_rc = 0 /\ isa'.nonpointer
  BY <1>a DEF isa_t
<1>g. \A u \in Threads \ {t} : pc[u] = "releaseBorrow" => ~old[u].deallocating
  BY <1>c, BorrowerDeallocating
<1>1. TypeOK'
  BY <1>a, <1>f, NullIsaType DEF IndInv, TypeOK, Steps
<1>2. RefsOK'
  BY DEF IndInv, TypeOK, RefsOK, AcquireSteps, HoldSteps, Steps, AccessOK,
     TrySteps
<1>3. AccessOK'
  BY <1>a, <1>e, <1>h DEF IndInv, TypeOK, AccessOK, UseSteps, TrySteps,
     ClearSteps, CanUse, OwnedBy, LockOK, LockedSteps, BorrowSteps
<1>4. LockOK'
  BY DEF IndInv, TypeOK, LockOK, LockedSteps, MayLockSteps, BorrowSteps,
     Carry, Transcribes, AccessOK, TrySteps
<1>5. OldOK'
  BY <1>a, <1>g DEF IndInv, TypeOK, OldOK, BorrowSteps, LockOK, LockedSteps,
     isa_t
<1>6. IsaOK'
  BY DEF IndInv, TypeOK, IsaOK, OldOK, Moving, LockOK, LockedSteps,
     MayLockSteps, BorrowSteps, RawIsa, NoEntry, FreedOK
<1>7. FreedOK'
  BY Facts DEF IndInv, TypeOK, FreedOK, Touches, Steps, Owned, AccessOK,
     UseSteps, CanUse
<1>8. InFlight' = 0
  BY <1>a, <1>b DEF IndInv, TypeOK, LockOK, InFlight, LockedSteps,
     MayLockSteps, BorrowSteps
<1>9. Deallocating' /\ deallocator' = t
  BY <1>a, <1>f DEF IndInv, TypeOK, Deallocating, rootIsDeallocating, OldOK,
     LockOK, LockedSteps
<1>10. CountOK' /\ DeallocOnce'
  BY <1>a, <1>b, <1>d, <1>f, <1>8, <1>9, FS_EmptySet DEF IndInv, CountOK,
     DeallocOnce
<1> QED BY <1>1, <1>2, <1>3, <1>4, <1>5, <1>6, <1>7, <1>10 DEF IndInv

(* A release through the side table, the last one included.                *)
LEMMA sidetable_releaseInv ==
    ASSUME IndInv, NEW t \in Threads, sidetable_release(t)
    PROVE  IndInv'
<1> USE ThreadsAssumption, RefsAssumption
    DEF sidetable_release, Goto, Return, Drop
<1>a. /\ pc[t] = "sideRelease" /\ pc[t] \in HoldSteps /\ lock = NoThread
      /\ ~isa.nonpointer /\ isa.extra_rc = 0 /\ allocated /\ ref[t] \in Refs
      /\ InFlight = 0 /\ ~Moving
  BY Facts, UnlockedInFlight DEF IndInv, RefsOK, HoldSteps, OldOK, IsaOK,
     RawIsa
<1>b. side.rc = 0 => ~Deallocating /\ Owned = {ref[t]} /\ deallocator = NoThread /\ Owned' = {}
  <2> SUFFICES ASSUME side.rc = 0
               PROVE  ~Deallocating /\ Owned = {ref[t]} /\ deallocator = NoThread /\ Owned' = {}
    OBVIOUS
  <2>1. ~Deallocating /\ Owned = {ref[t]}
    BY <1>a, Last
  <2> QED BY <1>a, <2>1 DEF IndInv, DeallocOnce, TypeOK, Owned
<1>c. /\ side' \in SideEntry /\ side'.present
      /\ side'.weakly_referenced = side.weakly_referenced
      /\ side.rc = 0 => side'.rc = 0 /\ side'.deallocating
      /\ side.rc # 0 => side'.rc = side.rc - 1 /\ side'.deallocating = side.deallocating
  <2>1. side \in SideEntry /\ (~side.present => side.rc = 0)
    BY DEF IndInv, TypeOK, IsaOK, NoEntry
  <2>2. CASE side.rc = 0
    BY <2>1, <2>2 DEF SideEntry
  <2>3. CASE side.rc # 0
    <3>1. side.rc - 1 \in Nat
      BY <2>1, <2>3 DEF SideEntry
    <3> QED BY <2>1, <2>3, <3>1 DEF SideEntry
  <2> QED BY <2>2, <2>3
<1>d. side.rc = 0 => deallocator' = t
  OBVIOUS
<1>e. side.rc # 0 => deallocator' = deallocator
  OBVIOUS
<1>1. TypeOK'
  BY <1>a, <1>c, NullIsaType DEF IndInv, TypeOK, Steps
<1>2. RefsOK'
  BY DEF IndInv, TypeOK, RefsOK, AcquireSteps, HoldSteps, Steps, AccessOK,
     TrySteps
<1>3. AccessOK'
  BY <1>a, <1>b, Facts DEF IndInv, TypeOK, AccessOK, RefsOK, UseSteps,
     TrySteps, HoldSteps, ClearSteps, CanUse, OwnedBy, LockOK, LockedSteps,
     BorrowSteps
<1>4. LockOK'
  BY DEF IndInv, TypeOK, LockOK, LockedSteps, MayLockSteps, BorrowSteps,
     Carry, Transcribes, AccessOK, TrySteps
<1>5. OldOK'
  BY Facts DEF IndInv, TypeOK, OldOK, BorrowSteps, LockOK, LockedSteps,
     MayLockSteps, AccessOK, ClearSteps
<1>6. IsaOK'
  BY <1>a, <1>b, <1>c DEF IndInv, TypeOK, IsaOK, Moving, AccessOK,
     ClearSteps, NoEntry, SideEntry
<1>7. FreedOK'
  BY Facts DEF IndInv, TypeOK, FreedOK, Touches, Steps, Owned, AccessOK,
     UseSteps, CanUse
<1>8. InFlight' = 0 /\ ~Moving'
  BY <1>a DEF InFlight, Moving
<1>9. Deallocating' <=> Deallocating \/ side.rc = 0
  BY <1>a, <1>b, <1>c DEF IndInv, TypeOK, Deallocating, rootIsDeallocating,
     AccessOK, ClearSteps, Moving, DeallocOnce
<1>10. CountOK' /\ DeallocOnce'
  <2>1. CASE side.rc = 0
    <3>1. Cardinality(Owned') = 0
      BY <1>b, <2>1, FS_EmptySet
    <3>2. isa'.extra_rc = 0 /\ side'.rc = 0 /\ Deallocating'
      BY <1>a, <1>c, <1>9, <2>1
    <3>3. CountOK'
      BY <3>1, <3>2, <1>8 DEF CountOK
    <3>4. DeallocOnce'
      BY <1>b, <1>d, <3>2, <2>1 DEF DeallocOnce
    <3> QED BY <3>3, <3>4
  <2>2. CASE side.rc # 0
    <3>1. isa'.extra_rc + side'.rc + InFlight' = isa.extra_rc + side.rc + InFlight - 1
      BY <1>a, <1>c, <1>8, <2>2 DEF IndInv, TypeOK, SideEntry
    <3>2. owner' = [owner EXCEPT ![ref[t]] = NoThread]
      OBVIOUS
    <3> QED BY <1>1, <1>a, <1>e, <1>8, <1>9, <2>2, <3>1, <3>2, CountDrop
  <2> QED BY <2>1, <2>2
<1> QED BY <1>1, <1>2, <1>3, <1>4, <1>5, <1>6, <1>7, <1>10 DEF IndInv

(* rootRetain: the half in flight arrives in the side table.               *)
LEMMA RetainAddInv ==
    ASSUME IndInv, NEW t \in Threads, RetainAdd(t)
    PROVE  IndInv'
<1> USE ThreadsAssumption, RefsAssumption
    DEF RetainAdd, Goto, Unlock, Return, client, sidetable_addExtraRC
<1>a. /\ pc[t] = "retainAdd" /\ lock = t /\ InFlight = RC_HALF /\ ~Moving
      /\ isa.nonpointer /\ isa.has_sidetable_rc
  BY HalfAssumption DEF IndInv, OldOK, LockOK, LockedSteps, InFlight,
     BorrowSteps, Moving
<1>b. /\ side' \in SideEntry /\ side'.present /\ side'.rc = side.rc + RC_HALF
      /\ side'.deallocating = side.deallocating
      /\ side'.weakly_referenced = side.weakly_referenced
  <2>1. side.rc + RC_HALF \in Nat
    BY HalfAssumption DEF IndInv, TypeOK, SideEntry
  <2> QED BY <2>1 DEF IndInv, TypeOK, SideEntry
<1>c. \E k \in 0..side'.rc : side'.rc = k * RC_HALF
  <2>1. PICK k \in 0..side.rc : side.rc = k * RC_HALF
    BY <1>a DEF IndInv, IsaOK
  <2>2. side'.rc = (k + 1) * RC_HALF /\ k + 1 \in 0..side'.rc
    BY <1>b, <2>1, HalfAssumption DEF IndInv, TypeOK, SideEntry
  <2> QED BY <2>2
<1>1. TypeOK'
  BY <1>a, <1>b, NullIsaType DEF IndInv, TypeOK, Steps
<1>2. RefsOK'
  BY DEF IndInv, TypeOK, RefsOK, AcquireSteps, HoldSteps, Steps, AccessOK,
     TrySteps
<1>3. AccessOK'
  BY Facts DEF IndInv, TypeOK, AccessOK, RefsOK, AcquireSteps, HoldSteps,
     UseSteps, TrySteps, ClearSteps, CanUse, OwnedBy, LockOK, LockedSteps,
     MayLockSteps, BorrowSteps
<1>4. LockOK'
  BY DEF IndInv, TypeOK, LockOK, LockedSteps, MayLockSteps, BorrowSteps,
     Carry, Transcribes, AccessOK, TrySteps
<1>5. OldOK'
  BY Facts DEF IndInv, TypeOK, OldOK, BorrowSteps, LockOK, LockedSteps,
     MayLockSteps, AccessOK, ClearSteps
<1>6. IsaOK'
  BY <1>a, <1>b, <1>c, NotFree DEF IndInv, TypeOK, IsaOK, Moving, HoldSteps
<1>7. FreedOK'
  BY Facts DEF IndInv, TypeOK, FreedOK, Touches, Steps, Owned, AccessOK,
     UseSteps, CanUse
<1>8. InFlight' = 0
  BY DEF InFlight, TypeOK, IndInv, LockOK, LockedSteps
<1>9. Deallocating' <=> Deallocating
  BY DEF IndInv, TypeOK, LockOK, LockedSteps, MayLockSteps, BorrowSteps,
     Deallocating, rootIsDeallocating
<1>10. CountOK' /\ DeallocOnce'
  <2>1. isa'.extra_rc + side'.rc + InFlight' = isa.extra_rc + side.rc + InFlight
    BY <1>a, <1>b, <1>8, HalfAssumption DEF IndInv, TypeOK, SideEntry, isa_t,
       RC_MAX
  <2>2. UNCHANGED <<owner, allocated, deallocator>>
    OBVIOUS
  <2>3. isa'.extra_rc \in Nat /\ side'.rc \in Nat
    BY <1>b, HalfAssumption DEF IndInv, TypeOK, SideEntry, isa_t, RC_MAX
  <2> QED BY <1>8, <1>9, <2>1, <2>2, <2>3, CountSame
<1> QED BY <1>1, <1>2, <1>3, <1>4, <1>5, <1>6, <1>7, <1>10 DEF IndInv

(* A retain through the side table.                                        *)
LEMMA sidetable_retainInv ==
    ASSUME IndInv, NEW t \in Threads, sidetable_retain(t)
    PROVE  IndInv'
<1> USE ThreadsAssumption, RefsAssumption
    DEF sidetable_retain, Goto, Return, client
<1>a. /\ pc[t] = "sideRetain" /\ lock = NoThread /\ ref[t] \in Refs /\ owner[ref[t]] = NoThread
      /\ ~isa.nonpointer /\ allocated /\ InFlight = 0 /\ ~Moving
      /\ Deallocating => deallocator = t
  BY Facts, UnlockedInFlight DEF IndInv, RefsOK, AcquireSteps, UseSteps,
     OldOK, AccessOK
<1>b. /\ side' \in SideEntry /\ side'.present /\ side'.rc = side.rc + 1
      /\ side'.deallocating = side.deallocating
      /\ side'.weakly_referenced = side.weakly_referenced
  <2>1. side.rc + 1 \in Nat
    BY DEF IndInv, TypeOK, SideEntry
  <2> QED BY <2>1 DEF IndInv, TypeOK, SideEntry
<1>1. TypeOK'
  BY <1>a, <1>b, NullIsaType DEF IndInv, TypeOK, Steps
<1>2. RefsOK'
  BY DEF IndInv, TypeOK, RefsOK, AcquireSteps, HoldSteps, Steps, AccessOK,
     TrySteps
<1>3. AccessOK'
  BY Facts DEF IndInv, TypeOK, AccessOK, RefsOK, AcquireSteps, HoldSteps,
     UseSteps, TrySteps, ClearSteps, CanUse, OwnedBy, LockOK, LockedSteps,
     MayLockSteps, BorrowSteps
<1>4. LockOK'
  BY DEF IndInv, TypeOK, LockOK, LockedSteps, MayLockSteps, BorrowSteps,
     Carry, Transcribes, AccessOK, TrySteps
<1>5. OldOK'
  BY Facts DEF IndInv, TypeOK, OldOK, BorrowSteps, LockOK, LockedSteps,
     MayLockSteps, AccessOK, ClearSteps
<1>6. IsaOK'
  BY <1>a, <1>b, NotFree DEF IndInv, TypeOK, IsaOK, Moving, UseSteps
<1>7. FreedOK'
  BY Facts DEF IndInv, TypeOK, FreedOK, Touches, Steps, Owned, AccessOK,
     UseSteps, CanUse
<1>8. InFlight' = 0
  BY <1>a DEF InFlight
<1>9. Deallocating' <=> Deallocating
  BY <1>a, <1>b, NotFree DEF IndInv, TypeOK, Deallocating,
     rootIsDeallocating, UseSteps
<1>10. CountOK' /\ DeallocOnce'
  <2>1. isa'.extra_rc + side'.rc + InFlight' = isa.extra_rc + side.rc + InFlight + 1
    BY <1>a, <1>b, <1>8, HalfAssumption DEF IndInv, TypeOK, SideEntry, isa_t,
       RC_MAX
  <2>2. /\ owner' = [owner EXCEPT ![ref[t]] = t]
        /\ UNCHANGED <<allocated, deallocator>>
    OBVIOUS
  <2> QED BY <1>1, <1>a, <1>8, <1>9, <2>1, <2>2, CountGain
<1> QED BY <1>1, <1>2, <1>3, <1>4, <1>5, <1>6, <1>7, <1>10 DEF IndInv

(* A weak load's retain through the side table.                            *)
LEMMA sidetable_tryRetainInv ==
    ASSUME IndInv, NEW t \in Threads, sidetable_tryRetain(t)
    PROVE  IndInv'
<1> USE ThreadsAssumption, RefsAssumption
    DEF sidetable_tryRetain, Goto, Unlock, Return, client
<1>a. /\ pc[t] = "sideTryRetain" /\ tryRetain[t] /\ lock = t /\ location
      /\ ref[t] \in Refs /\ owner[ref[t]] = NoThread
      /\ ~isa.nonpointer /\ isa.extra_rc = 0 /\ allocated /\ InFlight = 0 /\ ~Moving
  BY Facts DEF IndInv, RefsOK, AcquireSteps, TrySteps, OldOK, AccessOK,
     LockOK, LockedSteps, InFlight, Moving, BorrowSteps, IsaOK, RawIsa
<1>b. Deallocating <=> side.deallocating
  BY <1>a, NotFree DEF IndInv, TypeOK, Moving, Deallocating,
     rootIsDeallocating, TrySteps
<1>c. ~side.deallocating =>
      /\ side' \in SideEntry /\ side'.present /\ side'.rc = side.rc + 1
      /\ side'.deallocating = side.deallocating
      /\ side'.weakly_referenced = side.weakly_referenced
  <2>1. side.rc + 1 \in Nat
    BY DEF IndInv, TypeOK, SideEntry
  <2> QED BY <2>1 DEF IndInv, TypeOK, SideEntry
<1>d. side.deallocating => UNCHANGED <<side, owner>>
  OBVIOUS
<1>e. ~side.deallocating => owner' = [owner EXCEPT ![ref[t]] = t]
  OBVIOUS
<1>f. side' \in SideEntry
  BY <1>c, <1>d DEF IndInv, TypeOK
<1>1. TypeOK'
  BY <1>a, <1>f, NullIsaType DEF IndInv, TypeOK, Steps
<1>2. RefsOK'
  BY DEF IndInv, TypeOK, RefsOK, AcquireSteps, HoldSteps, Steps, AccessOK,
     TrySteps
<1>3. AccessOK'
  BY Facts DEF IndInv, TypeOK, AccessOK, RefsOK, AcquireSteps, HoldSteps,
     UseSteps, TrySteps, ClearSteps, CanUse, OwnedBy, LockOK, LockedSteps,
     MayLockSteps, BorrowSteps
<1>4. LockOK'
  BY DEF IndInv, TypeOK, LockOK, LockedSteps, MayLockSteps, BorrowSteps,
     Carry, Transcribes, AccessOK, TrySteps
<1>5. OldOK'
  BY Facts DEF IndInv, TypeOK, OldOK, BorrowSteps, LockOK, LockedSteps,
     MayLockSteps, AccessOK, ClearSteps
<1>6. IsaOK'
  BY <1>a, <1>c, <1>d, NotFree DEF IndInv, TypeOK, IsaOK, Moving, TrySteps,
     LockOK, LockedSteps, NoEntry
<1>7. FreedOK'
  BY Facts DEF IndInv, TypeOK, FreedOK, Touches, Steps, Owned, AccessOK,
     UseSteps, CanUse
<1>8. InFlight' = 0 /\ ~Moving'
  BY <1>a DEF IndInv, TypeOK, InFlight, Moving, LockOK, LockedSteps
<1>9. Deallocating' <=> Deallocating
  BY <1>a, <1>b, <1>c, <1>d, <1>8, NotFree DEF IndInv, TypeOK, Moving,
     Deallocating, rootIsDeallocating, TrySteps
<1>10. CountOK' /\ DeallocOnce'
  <2>0. UNCHANGED <<isa, allocated, deallocator>>
    OBVIOUS
  <2>1. CASE side.deallocating
    BY <1>a, <1>d, <1>8, <1>9, <2>0, <2>1, CountFrame
  <2>2. CASE ~side.deallocating
    <3>1. isa'.extra_rc + side'.rc + InFlight' = isa.extra_rc + side.rc + InFlight + 1
      BY <1>a, <1>c, <1>8, <2>2 DEF IndInv, TypeOK, SideEntry
    <3> QED BY <1>1, <1>a, <1>b, <1>e, <1>8, <1>9, <2>0, <2>2, <3>1, CountGain
  <2> QED BY <2>1, <2>2
<1> QED BY <1>1, <1>2, <1>3, <1>4, <1>5, <1>6, <1>7, <1>10 DEF IndInv

(* rootRelease: half of extra_rc's range leaves the side table, if there   *)
(* is any.                                                                 *)
LEMMA ReleaseBorrowInv ==
    ASSUME IndInv, NEW t \in Threads, ReleaseBorrow(t)
    PROVE  IndInv'
<1> USE ThreadsAssumption, RefsAssumption
    DEF ReleaseBorrow, Goto, client, locals
<1>a. /\ pc[t] = "releaseBorrow" /\ lock = t /\ InFlight = 0 /\ ~Moving
      /\ isa.nonpointer /\ isa.has_sidetable_rc
      /\ old[t].nonpointer /\ old[t].extra_rc = 0 /\ old[t].has_sidetable_rc
  BY DEF IndInv, OldOK, LockOK, LockedSteps, InFlight, BorrowSteps, Moving
<1>b. side.rc = 0 => ~old[t].deallocating
  BY <1>a, Last, BorrowerDeallocating DEF IndInv, OldOK, HoldSteps
<1>c. PICK k \in 0..side.rc : side.rc = k * RC_HALF
  BY <1>a DEF IndInv, IsaOK
<1>d. side.rc # 0 =>
      /\ side.rc - RC_HALF \in Nat
      /\ \E j \in 0..(side.rc - RC_HALF) : side.rc - RC_HALF = j * RC_HALF
  <2> SUFFICES ASSUME side.rc # 0
               PROVE  /\ side.rc - RC_HALF \in Nat
                      /\ \E j \in 0..(side.rc - RC_HALF) : side.rc - RC_HALF = j * RC_HALF
    OBVIOUS
  <2>1. k \in Nat /\ k >= 1 /\ side.rc \in Nat
    BY <1>c, HalfAssumption DEF IndInv, TypeOK, SideEntry
  <2>2. side.rc - RC_HALF = (k - 1) * RC_HALF
    BY <1>c, <2>1, HalfAssumption
  <2>3. (k - 1) * RC_HALF >= k - 1
    BY <2>1, HalfAssumption, Multiple
  <2> QED BY <2>1, <2>2, <2>3, HalfAssumption
<1>e. side.rc # 0 =>
      /\ side' \in SideEntry /\ side'.rc = side.rc - RC_HALF
      /\ side'.deallocating = side.deallocating
      /\ side'.weakly_referenced = side.weakly_referenced
      /\ side.present /\ side'.present
  BY <1>d DEF IndInv, TypeOK, SideEntry, IsaOK, NoEntry
<1>f. side.rc = 0 => side' = side
  OBVIOUS
<1>g. side' \in SideEntry
  BY <1>e, <1>f DEF IndInv, TypeOK
<1>1. TypeOK'
  BY <1>a, <1>g DEF IndInv, TypeOK, Steps
<1>2. RefsOK'
  BY DEF IndInv, TypeOK, RefsOK, AcquireSteps, HoldSteps, Steps, AccessOK,
     TrySteps
<1>3. AccessOK'
  BY Facts DEF IndInv, TypeOK, AccessOK, RefsOK, AcquireSteps, HoldSteps,
     UseSteps, TrySteps, ClearSteps, CanUse, OwnedBy, LockOK, LockedSteps,
     MayLockSteps, BorrowSteps
<1>4. LockOK'
  BY DEF IndInv, TypeOK, LockOK, LockedSteps, MayLockSteps, BorrowSteps,
     Carry, Transcribes, AccessOK, TrySteps
<1>5. OldOK'
  BY <1>a, <1>b, <1>f DEF IndInv, TypeOK, OldOK, BorrowSteps, LockOK,
     LockedSteps
<1>6. IsaOK'
  BY <1>a, <1>d, <1>e, <1>f, NotFree DEF IndInv, TypeOK, IsaOK, Moving,
     HoldSteps
<1>7. FreedOK'
  BY Facts DEF IndInv, TypeOK, FreedOK, Touches, Steps, Owned, AccessOK,
     UseSteps, CanUse
<1>8. InFlight' = IF side.rc = 0 THEN 0 ELSE RC_HALF
  BY <1>a DEF IndInv, TypeOK, InFlight, BorrowSteps
<1>9. Deallocating' <=> Deallocating
  BY <1>a, NotFree DEF IndInv, TypeOK, Moving, Deallocating,
     rootIsDeallocating, HoldSteps
<1>10. CountOK' /\ DeallocOnce'
  <2>1. UNCHANGED <<owner, allocated, deallocator>>
    OBVIOUS
  <2>2. isa'.extra_rc + side'.rc + InFlight' = isa.extra_rc + side.rc + InFlight
    BY <1>a, <1>e, <1>f, <1>8, HalfAssumption DEF IndInv, TypeOK, SideEntry,
       isa_t, RC_MAX
  <2>3. isa'.extra_rc \in Nat /\ side'.rc \in Nat /\ InFlight' \in Nat
    BY <1>g, <1>8, HalfAssumption DEF IndInv, TypeOK, SideEntry, isa_t, RC_MAX
  <2> QED BY <1>9, <2>1, <2>2, <2>3, CountSame
<1> QED BY <1>1, <1>2, <1>3, <1>4, <1>5, <1>6, <1>7, <1>10 DEF IndInv

(* rootRelease: the borrowed counts go back.                               *)
LEMMA BorrowUndoInv ==
    ASSUME IndInv, NEW t \in Threads, BorrowUndo(t)
    PROVE  IndInv'
<1> USE ThreadsAssumption, RefsAssumption
    DEF BorrowUndo, Goto, client, locals, sidetable_addExtraRC
<1>a. /\ pc[t] = "borrowUndo" /\ lock = t /\ InFlight = RC_HALF /\ ~Moving
      /\ isa.nonpointer /\ isa.has_sidetable_rc
  BY HalfAssumption DEF IndInv, OldOK, LockOK, LockedSteps, InFlight,
     BorrowSteps, Moving
<1>b. /\ side' \in SideEntry /\ side'.present /\ side'.rc = side.rc + RC_HALF
      /\ side'.deallocating = side.deallocating
      /\ side'.weakly_referenced = side.weakly_referenced
  <2>1. side.rc + RC_HALF \in Nat
    BY HalfAssumption DEF IndInv, TypeOK, SideEntry
  <2> QED BY <2>1 DEF IndInv, TypeOK, SideEntry
<1>c. \E k \in 0..side'.rc : side'.rc = k * RC_HALF
  <2>1. PICK k \in 0..side.rc : side.rc = k * RC_HALF
    BY <1>a DEF IndInv, IsaOK
  <2>2. side'.rc = (k + 1) * RC_HALF /\ k + 1 \in 0..side'.rc
    BY <1>b, <2>1, HalfAssumption DEF IndInv, TypeOK, SideEntry
  <2> QED BY <2>2
<1>1. TypeOK'
  BY <1>a, <1>b DEF IndInv, TypeOK, Steps
<1>2. RefsOK'
  BY DEF IndInv, TypeOK, RefsOK, AcquireSteps, HoldSteps, Steps, AccessOK,
     TrySteps
<1>3. AccessOK'
  BY Facts DEF IndInv, TypeOK, AccessOK, RefsOK, AcquireSteps, HoldSteps,
     UseSteps, TrySteps, ClearSteps, CanUse, OwnedBy, LockOK, LockedSteps,
     MayLockSteps, BorrowSteps
<1>4. LockOK'
  BY DEF IndInv, TypeOK, LockOK, LockedSteps, MayLockSteps, BorrowSteps,
     Carry, Transcribes, AccessOK, TrySteps
<1>5. OldOK'
  BY Facts DEF IndInv, TypeOK, OldOK, BorrowSteps, LockOK, LockedSteps,
     MayLockSteps, AccessOK, ClearSteps
<1>6. IsaOK'
  BY <1>a, <1>b, <1>c, NotFree DEF IndInv, TypeOK, IsaOK, Moving, HoldSteps
<1>7. FreedOK'
  BY Facts DEF IndInv, TypeOK, FreedOK, Touches, Steps, Owned, AccessOK,
     UseSteps, CanUse
<1>8. InFlight' = 0 /\ ~Moving'
  BY <1>a DEF IndInv, TypeOK, InFlight, BorrowSteps, Moving
<1>9. Deallocating' <=> Deallocating
  BY <1>a, <1>b, NotFree DEF IndInv, TypeOK, Moving, Deallocating,
     rootIsDeallocating, HoldSteps
<1>10. CountOK' /\ DeallocOnce'
  <2>1. UNCHANGED <<owner, allocated, deallocator>>
    OBVIOUS
  <2>2. isa'.extra_rc + side'.rc + InFlight' = isa.extra_rc + side.rc + InFlight
    BY <1>a, <1>b, <1>8, HalfAssumption DEF IndInv, TypeOK, SideEntry, isa_t,
       RC_MAX
  <2>3. isa'.extra_rc \in Nat /\ side'.rc \in Nat
    BY <1>b, HalfAssumption DEF IndInv, TypeOK, SideEntry, isa_t, RC_MAX
  <2> QED BY <1>8, <1>9, <2>1, <2>2, <2>3, CountSame
<1> QED BY <1>1, <1>2, <1>3, <1>4, <1>5, <1>6, <1>7, <1>10 DEF IndInv

(* changeIsa: the class alone changes.                                     *)
LEMMA ChangeStoreInv ==
    ASSUME IndInv, NEW t \in Threads, ChangeStore(t)
    PROVE  IndInv'
<1> USE ThreadsAssumption, RefsAssumption
    DEF ChangeStore, Goto, Stores, Unlock, Return, client, Transcribes
<1>a. /\ pc[t] = "changeStore" /\ isa = old[t] /\ isa \in isa_t /\ allocated
      /\ ~Moving /\ isa.nonpointer => newCls[t] \notin RawClasses
      /\ Deallocating => deallocator = t
  BY Facts DEF IndInv, TypeOK, OldOK, LockOK, LockedSteps, MayLockSteps,
     AccessOK, TrySteps, UseSteps, Moving
<1>b. /\ isa' \in isa_t /\ isa'.nonpointer = isa.nonpointer
      /\ isa'.extra_rc = isa.extra_rc
      /\ isa'.has_sidetable_rc = isa.has_sidetable_rc
      /\ isa'.deallocating = isa.deallocating
      /\ isa'.weakly_referenced = isa.weakly_referenced
  BY <1>a DEF IndInv, TypeOK, isa_t
<1>d. ~isa.nonpointer => isa' = RawIsa(isa'.cls)
  <2> SUFFICES ASSUME ~isa.nonpointer
               PROVE  isa' = RawIsa(isa'.cls)
    OBVIOUS
  <2>1. PICK c : isa = RawIsa(c)
    BY DEF IndInv, IsaOK
  <2>2. isa' = [RawIsa(c) EXCEPT !.cls = newCls[t]]
    BY <1>a, <2>1
  <2>3. isa' = RawIsa(newCls[t])
    BY <2>2 DEF RawIsa
  <2> QED BY <2>3 DEF RawIsa
<1>c. \A u \in Threads \ {t} : pc[u] = "releaseBorrow" => ~old[u].deallocating
  BY <1>a, BorrowerDeallocating
<1>1. TypeOK'
  BY <1>a, <1>b, NullIsaType DEF IndInv, TypeOK, Steps
<1>2. RefsOK'
  BY DEF IndInv, TypeOK, RefsOK, AcquireSteps, HoldSteps, Steps, AccessOK,
     TrySteps
<1>3. AccessOK'
  BY Facts DEF IndInv, TypeOK, AccessOK, RefsOK, AcquireSteps, HoldSteps,
     UseSteps, TrySteps, ClearSteps, CanUse, OwnedBy, LockOK, LockedSteps,
     MayLockSteps, BorrowSteps
<1>4. LockOK'
  BY DEF IndInv, TypeOK, LockOK, LockedSteps, MayLockSteps, BorrowSteps,
     Carry, Transcribes, AccessOK, TrySteps
<1>5. OldOK'
  BY <1>a, <1>b, <1>c DEF IndInv, TypeOK, OldOK, BorrowSteps, LockOK,
     LockedSteps
<1>6. IsaOK'
  BY <1>a, <1>b, <1>d, NotFree DEF IndInv, TypeOK, IsaOK, Moving, UseSteps,
     LockOK, LockedSteps, MayLockSteps
<1>7. FreedOK'
  BY Facts DEF IndInv, TypeOK, FreedOK, Touches, Steps, Owned, AccessOK,
     UseSteps, CanUse
<1>8. InFlight' = InFlight
  BY DEF IndInv, TypeOK, LockOK, InFlight, LockedSteps, MayLockSteps,
     BorrowSteps
<1>9. Deallocating' <=> Deallocating
  BY <1>a, <1>b, NotFree DEF IndInv, TypeOK, Moving, Deallocating,
     rootIsDeallocating, UseSteps, LockOK, LockedSteps
<1>10. CountOK' /\ DeallocOnce'
  <2>1. UNCHANGED <<owner, allocated, deallocator>>
    OBVIOUS
  <2>2. isa'.extra_rc + side'.rc + InFlight' = isa.extra_rc + side.rc + InFlight
    BY <1>b, <1>8
  <2>3. isa'.extra_rc \in Nat /\ side'.rc \in Nat /\ InFlight' \in Nat
    BY <1>b, <1>8, InFlightType, HalfAssumption DEF IndInv, TypeOK,
       SideEntry, isa_t, RC_MAX
  <2> QED BY <1>9, <2>1, <2>2, <2>3, CountSame
<1> QED BY <1>1, <1>2, <1>3, <1>4, <1>5, <1>6, <1>7, <1>10 DEF IndInv

(* changeIsa: the isa becomes a raw pointer and its count is in flight.    *)
LEMMA ChangeStoreRawInv ==
    ASSUME IndInv, NEW t \in Threads, ChangeStoreRaw(t)
    PROVE  IndInv'
<1> USE ThreadsAssumption, RefsAssumption
    DEF ChangeStoreRaw, Goto, Stores, client, locals, RawIsa, Transcribes
<1>a. /\ pc[t] = "changeStore" /\ isa = old[t] /\ isa \in isa_t /\ allocated
      /\ isa.nonpointer /\ lock = t /\ InFlight = 0 /\ ~Moving
      /\ newCls[t] \in Classes
      /\ Deallocating => deallocator = t
  BY Facts DEF IndInv, TypeOK, OldOK, LockOK, LockedSteps, InFlight,
     BorrowSteps, AccessOK, TrySteps, UseSteps, Moving
<1>b. /\ isa' \in isa_t /\ ~isa'.nonpointer /\ isa'.extra_rc = 0
      /\ isa' = RawIsa(isa'.cls)
  BY <1>a, HalfAssumption DEF isa_t, RawIsa, RC_MAX
<1>c. Moving' /\ lock' = t /\ old'[t] = isa
  BY <1>a DEF IndInv, TypeOK, Moving
<1>d. ~side.deallocating /\ ~side.weakly_referenced
  BY <1>a DEF IndInv, IsaOK
<1>1. TypeOK'
  BY <1>a, <1>b, NullIsaType DEF IndInv, TypeOK, Steps
<1>2. RefsOK'
  BY DEF IndInv, TypeOK, RefsOK, AcquireSteps, HoldSteps, Steps, AccessOK,
     TrySteps
<1>3. AccessOK'
  BY Facts DEF IndInv, TypeOK, AccessOK, RefsOK, AcquireSteps, HoldSteps,
     UseSteps, TrySteps, ClearSteps, CanUse, OwnedBy, LockOK, LockedSteps,
     MayLockSteps, BorrowSteps
<1>4. LockOK'
  BY DEF IndInv, TypeOK, LockOK, LockedSteps, MayLockSteps, BorrowSteps,
     Carry, Transcribes, AccessOK, TrySteps
<1>5. OldOK'
  <2> USE <1>a, <1>b
  <2>1. \A u \in Threads \ {t} : pc'[u] = pc[u] /\ pc[u] \notin LockedSteps
    BY DEF IndInv, TypeOK, LockOK
  <2>2. \A u \in Threads : pc[u] # "clearSlow"
    BY Facts DEF IndInv, DeallocOnce, AccessOK, ClearSteps, TypeOK
  <2> QED BY <2>1, <2>2 DEF IndInv, TypeOK, OldOK, BorrowSteps, LockedSteps,
      LockOK, MayLockSteps
<1>6. IsaOK'
  BY <1>a, <1>b, <1>c, <1>d, NotFree DEF IndInv, TypeOK, IsaOK, Moving,
     UseSteps
<1>7. FreedOK'
  BY Facts DEF IndInv, TypeOK, FreedOK, Touches, Steps, Owned, AccessOK,
     UseSteps, CanUse
<1>8. InFlight' = isa.extra_rc
  BY <1>a, <1>c DEF IndInv, TypeOK, InFlight, Moving, BorrowSteps
<1>9. Deallocating' <=> Deallocating
  BY <1>a, <1>c, <1>d, NotFree DEF IndInv, TypeOK, Moving, Deallocating,
     rootIsDeallocating, UseSteps
<1>10. CountOK' /\ DeallocOnce'
  <2>1. UNCHANGED <<owner, allocated, deallocator>>
    OBVIOUS
  <2>2. isa'.extra_rc \in Nat /\ side'.rc \in Nat /\ InFlight' \in Nat /\ isa.extra_rc \in Nat
    BY <1>a, <1>b, <1>8, HalfAssumption DEF IndInv, TypeOK, SideEntry, isa_t,
       RC_MAX
  <2>3. isa'.extra_rc + side'.rc + InFlight' = isa.extra_rc + side.rc + InFlight
    BY <1>a, <1>b, <1>8, <2>2
  <2> QED BY <1>9, <2>1, <2>2, <2>3, CountSame
<1> QED BY <1>1, <1>2, <1>3, <1>4, <1>5, <1>6, <1>7, <1>10 DEF IndInv

(* changeIsa: the count and the two bits arrive in the side table.         *)
LEMMA ChangeMoveInv ==
    ASSUME IndInv, NEW t \in Threads, ChangeMove(t)
    PROVE  IndInv'
<1> USE ThreadsAssumption, RefsAssumption
    DEF ChangeMove, Goto, Unlock, Return, client
<1>a. /\ pc[t] = "changeMove" /\ lock = t /\ Moving /\ ~isa.nonpointer
      /\ old[t] \in isa_t /\ InFlight = old[t].extra_rc
      /\ ~side.deallocating /\ ~side.weakly_referenced
  BY ThreadsAssumption DEF IndInv, TypeOK, OldOK, LockOK, LockedSteps,
     InFlight, BorrowSteps, Moving, IsaOK
<1>b. /\ side' \in SideEntry /\ side'.present /\ side'.rc = side.rc + old[t].extra_rc
      /\ side'.deallocating <=> old[t].deallocating
      /\ side'.weakly_referenced <=> old[t].weakly_referenced
  <2>1. side.rc + old[t].extra_rc \in Nat
    BY <1>a, HalfAssumption DEF IndInv, TypeOK, SideEntry, isa_t, RC_MAX
  <2>2. /\ (side.deallocating \/ old[t].deallocating) \in BOOLEAN
        /\ (side.weakly_referenced \/ old[t].weakly_referenced) \in BOOLEAN
    OBVIOUS
  <2> QED BY <1>a, <2>1, <2>2 DEF SideEntry
<1>c. lock' = NoThread /\ ~Moving'
  BY <1>a DEF Moving
<1>1. TypeOK'
  BY <1>a, <1>b, NullIsaType DEF IndInv, TypeOK, Steps
<1>2. RefsOK'
  BY DEF IndInv, TypeOK, RefsOK, AcquireSteps, HoldSteps, Steps, AccessOK,
     TrySteps
<1>3. AccessOK'
  BY Facts DEF IndInv, TypeOK, AccessOK, RefsOK, AcquireSteps, HoldSteps,
     UseSteps, TrySteps, ClearSteps, CanUse, OwnedBy, LockOK, LockedSteps,
     MayLockSteps, BorrowSteps
<1>4. LockOK'
  BY DEF IndInv, TypeOK, LockOK, LockedSteps, MayLockSteps, BorrowSteps,
     Carry, Transcribes, AccessOK, TrySteps
<1>5. OldOK'
  BY Facts DEF IndInv, TypeOK, OldOK, BorrowSteps, LockOK, LockedSteps,
     MayLockSteps, AccessOK, ClearSteps
<1>6. IsaOK'
  BY <1>a, <1>b, <1>c, NotFree DEF IndInv, TypeOK, IsaOK, Moving, UseSteps
<1>7. FreedOK'
  BY Facts DEF IndInv, TypeOK, FreedOK, Touches, Steps, Owned, AccessOK,
     UseSteps, CanUse
<1>8. InFlight' = 0
  BY <1>c DEF InFlight
<1>9. Deallocating' <=> Deallocating
  BY <1>a, <1>b, <1>c, NotFree DEF IndInv, TypeOK, Moving, Deallocating,
     rootIsDeallocating, UseSteps
<1>10. CountOK' /\ DeallocOnce'
  <2>1. UNCHANGED <<owner, allocated, deallocator>>
    OBVIOUS
  <2>2. isa'.extra_rc \in Nat /\ side'.rc \in Nat /\ side.rc \in Nat /\ old[t].extra_rc \in Nat
    BY <1>a, <1>b, HalfAssumption DEF IndInv, TypeOK, SideEntry, isa_t, RC_MAX
  <2>3. isa'.extra_rc + side'.rc + InFlight' = isa.extra_rc + side.rc + InFlight
    BY <1>a, <1>b, <1>8, <2>2
  <2> QED BY <1>8, <1>9, <2>1, <2>2, <2>3, CountSame
<1> QED BY <1>1, <1>2, <1>3, <1>4, <1>5, <1>6, <1>7, <1>10 DEF IndInv

(* setWeaklyReferenced_nolock of a raw object.                             *)
LEMMA SetWeakLoadRawInv ==
    ASSUME IndInv, NEW t \in Threads, SetWeakLoadRaw(t)
    PROVE  IndInv'
<1> USE ThreadsAssumption, RefsAssumption
    DEF SetWeakLoadRaw, Goto, Unlock, Return
<1>a. /\ pc[t] = "setWeakLoad" /\ lock = t /\ ~Moving /\ ~isa.nonpointer /\ InFlight = 0 /\ allocated
  BY Facts DEF IndInv, TypeOK, LockOK, LockedSteps, Moving, UseSteps,
     InFlight, BorrowSteps
<1>b. /\ side' \in SideEntry /\ side'.present /\ side'.rc = side.rc
      /\ side'.deallocating = side.deallocating /\ side'.weakly_referenced
  BY DEF IndInv, TypeOK, SideEntry
<1>c. lock' = NoThread /\ ~Moving'
  BY <1>a DEF Moving
<1>1. TypeOK'
  BY <1>a, <1>b, NullIsaType DEF IndInv, TypeOK, Steps
<1>2. RefsOK'
  BY DEF IndInv, TypeOK, RefsOK, AcquireSteps, HoldSteps, Steps, AccessOK,
     TrySteps
<1>3. AccessOK'
  BY <1>a DEF IndInv, TypeOK, AccessOK, UseSteps, TrySteps, ClearSteps,
     CanUse, OwnedBy
<1>4. LockOK'
  BY DEF IndInv, TypeOK, LockOK, LockedSteps, MayLockSteps, BorrowSteps,
     Carry, Transcribes, AccessOK, TrySteps
<1>5. OldOK'
  BY Facts DEF IndInv, TypeOK, OldOK, BorrowSteps, LockOK, LockedSteps,
     MayLockSteps, AccessOK, ClearSteps
<1>6. IsaOK'
  BY <1>a, <1>b, <1>c, NotFree DEF IndInv, TypeOK, IsaOK, Moving, UseSteps
<1>7. FreedOK'
  BY Facts DEF IndInv, TypeOK, FreedOK, Touches, Steps, Owned, AccessOK,
     UseSteps, CanUse
<1>8. InFlight' = 0
  BY <1>c DEF InFlight
<1>9. Deallocating' <=> Deallocating
  BY <1>a, <1>b, <1>c, NotFree DEF IndInv, TypeOK, Moving, Deallocating,
     rootIsDeallocating, UseSteps
<1>10. CountOK' /\ DeallocOnce'
  <2>1. UNCHANGED <<owner, allocated, deallocator>>
    OBVIOUS
  <2>2. isa'.extra_rc \in Nat /\ side'.rc \in Nat
    BY <1>a, <1>b, HalfAssumption DEF IndInv, TypeOK, SideEntry, isa_t, RC_MAX
  <2>3. isa'.extra_rc + side'.rc + InFlight' = isa.extra_rc + side.rc + InFlight
    BY <1>a, <1>b, <1>8
  <2> QED BY <1>8, <1>9, <2>1, <2>2, <2>3, CountSame
<1> QED BY <1>1, <1>2, <1>3, <1>4, <1>5, <1>6, <1>7, <1>10 DEF IndInv

(* setWeaklyReferenced_nolock: the load, and the early return.             *)
LEMMA SetWeakLoadInv ==
    ASSUME IndInv, NEW t \in Threads, SetWeakLoad(t)
    PROVE  IndInv'
<1> USE ThreadsAssumption, RefsAssumption
    DEF SetWeakLoad, Goto, Load, Unlock, Return, locals
<1>a. /\ pc[t] = "setWeakLoad" /\ lock = t /\ ~Moving /\ isa.nonpointer /\ allocated
  BY Facts DEF IndInv, TypeOK, LockOK, LockedSteps, Moving, UseSteps
<1>b. location' => location \/ isa.weakly_referenced
  OBVIOUS
<1>c. ~Moving'
  BY <1>a DEF IndInv, TypeOK, Moving
<1>d. location \in BOOLEAN /\ location' \in BOOLEAN /\ (location => location')
  BY DEF IndInv, TypeOK
<1>1. TypeOK'
  <2>1. pc' \in [Threads -> Steps]
    BY DEF IndInv, TypeOK, Steps
  <2>2. old' \in [Threads -> isa_t]
    BY NullIsaType DEF IndInv, TypeOK
  <2>3. lock' \in Threads \cup {NoThread}
    BY DEF IndInv, TypeOK
  <2> QED BY <2>1, <2>2, <2>3, <1>d, NullIsaType DEF IndInv, TypeOK
<1>2. RefsOK'
  BY DEF IndInv, TypeOK, RefsOK, AcquireSteps, HoldSteps, Steps, AccessOK,
     TrySteps
<1>3. AccessOK'
  BY Facts DEF IndInv, TypeOK, AccessOK, RefsOK, AcquireSteps, HoldSteps,
     UseSteps, TrySteps, ClearSteps, CanUse, OwnedBy, LockOK, LockedSteps,
     MayLockSteps, BorrowSteps
<1>4. LockOK'
  BY DEF IndInv, TypeOK, LockOK, LockedSteps, MayLockSteps, BorrowSteps,
     Carry, Transcribes, AccessOK, TrySteps
<1>5. OldOK'
  BY Facts DEF IndInv, TypeOK, OldOK, BorrowSteps, LockOK, LockedSteps,
     MayLockSteps, AccessOK, ClearSteps
<1>6. IsaOK'
  <2>1. location' => isa'.weakly_referenced
    BY <1>a, <1>b DEF IndInv, IsaOK
  <2> QED BY <1>a, <1>c, <2>1, NotFree DEF IndInv, TypeOK, IsaOK, UseSteps
<1>7. FreedOK'
  BY Facts DEF IndInv, TypeOK, FreedOK, Touches, Steps, Owned, AccessOK,
     UseSteps, CanUse
<1>8. InFlight' = InFlight
  BY DEF IndInv, TypeOK, LockOK, InFlight, LockedSteps, MayLockSteps,
     BorrowSteps
<1>9. Deallocating' <=> Deallocating
  BY DEF IndInv, TypeOK, LockOK, LockedSteps, MayLockSteps, BorrowSteps,
     Deallocating, rootIsDeallocating
<1>10. CountOK' /\ DeallocOnce'
  BY <1>8, <1>9, CountFrame
<1> QED BY <1>1, <1>2, <1>3, <1>4, <1>5, <1>6, <1>7, <1>10 DEF IndInv

(* setWeaklyReferenced_nolock: the store.                                  *)
LEMMA SetWeakStoreInv ==
    ASSUME IndInv, NEW t \in Threads, SetWeakStore(t)
    PROVE  IndInv'
<1> USE ThreadsAssumption, RefsAssumption
    DEF SetWeakStore, Goto, Stores, Unlock, Return
<1>a. /\ pc[t] = "setWeakStore" /\ lock = t /\ ~Moving /\ InFlight = 0
      /\ isa = old[t] /\ isa.nonpointer /\ isa \in isa_t /\ allocated
      /\ Deallocating => deallocator = t
  BY Facts DEF IndInv, TypeOK, OldOK, LockOK, LockedSteps, Moving, UseSteps,
     InFlight, BorrowSteps, AccessOK, TrySteps
<1>b. /\ isa' \in isa_t /\ isa'.nonpointer
      /\ isa'.extra_rc = isa.extra_rc
      /\ isa'.has_sidetable_rc = isa.has_sidetable_rc
      /\ isa'.deallocating = isa.deallocating
      /\ isa'.weakly_referenced
  BY <1>a DEF isa_t
<1>c. \A u \in Threads \ {t} : pc[u] = "releaseBorrow" => ~old[u].deallocating
  BY <1>a, BorrowerDeallocating
<1>d. lock' = NoThread /\ ~Moving'
  BY <1>a DEF Moving
<1>1. TypeOK'
  BY <1>a, <1>b, NullIsaType DEF IndInv, TypeOK, Steps
<1>2. RefsOK'
  BY DEF IndInv, TypeOK, RefsOK, AcquireSteps, HoldSteps, Steps, AccessOK,
     TrySteps
<1>3. AccessOK'
  BY Facts DEF IndInv, TypeOK, AccessOK, RefsOK, AcquireSteps, HoldSteps,
     UseSteps, TrySteps, ClearSteps, CanUse, OwnedBy, LockOK, LockedSteps,
     MayLockSteps, BorrowSteps
<1>4. LockOK'
  BY DEF IndInv, TypeOK, LockOK, LockedSteps, MayLockSteps, BorrowSteps,
     Carry, Transcribes, AccessOK, TrySteps
<1>5. OldOK'
  BY <1>a, <1>b, <1>c DEF IndInv, TypeOK, OldOK, BorrowSteps, LockOK,
     LockedSteps
<1>6. IsaOK'
  BY <1>a, <1>b, <1>d, NotFree DEF IndInv, TypeOK, IsaOK, UseSteps
<1>7. FreedOK'
  BY Facts DEF IndInv, TypeOK, FreedOK, Touches, Steps, Owned, AccessOK,
     UseSteps, CanUse
<1>8. InFlight' = 0
  BY <1>d DEF InFlight
<1>9. Deallocating' <=> Deallocating
  BY <1>a, <1>b, <1>d, NotFree DEF IndInv, TypeOK, Moving, Deallocating,
     rootIsDeallocating, UseSteps
<1>10. CountOK' /\ DeallocOnce'
  <2>1. UNCHANGED <<owner, allocated, deallocator>>
    OBVIOUS
  <2>2. isa'.extra_rc \in Nat /\ side'.rc \in Nat
    BY <1>b, HalfAssumption DEF IndInv, TypeOK, SideEntry, isa_t, RC_MAX
  <2>3. isa'.extra_rc + side'.rc + InFlight' = isa.extra_rc + side.rc + InFlight
    BY <1>a, <1>b, <1>8
  <2> QED BY <1>8, <1>9, <2>1, <2>2, <2>3, CountSame
<1> QED BY <1>1, <1>2, <1>3, <1>4, <1>5, <1>6, <1>7, <1>10 DEF IndInv

(* storeWeak takes the lock, or stores nil for a deallocating object.      *)
LEMMA StoreWeakLockInv ==
    ASSUME IndInv, NEW t \in Threads, StoreWeakLock(t)
    PROVE  IndInv'
<1> USE ThreadsAssumption, RefsAssumption
    DEF StoreWeakLock, Goto, Return, locals, rootIsDeallocating
<1>1. TypeOK'
  <2>1. pc' \in [Threads -> Steps]
    BY DEF IndInv, TypeOK, Steps
  <2>2. lock' \in Threads \cup {NoThread} /\ location' \in BOOLEAN
    BY DEF IndInv, TypeOK
  <2>3. /\ ref' \in [Threads -> Refs \cup {NoRef}] /\ old' \in [Threads -> isa_t]
        /\ tryRetain' \in [Threads -> BOOLEAN] /\ slow' \in [Threads -> BOOLEAN]
        /\ newCls' \in [Threads -> Classes]
    BY NullIsaType DEF IndInv, TypeOK
  <2> QED BY <2>1, <2>2, <2>3 DEF IndInv, TypeOK
<1>2. RefsOK'
  BY DEF IndInv, TypeOK, RefsOK, AcquireSteps, HoldSteps, Steps, AccessOK,
     TrySteps
<1>3. AccessOK'
  BY Facts DEF IndInv, TypeOK, AccessOK, RefsOK, AcquireSteps, HoldSteps,
     UseSteps, TrySteps, ClearSteps, CanUse, OwnedBy, LockOK, LockedSteps,
     MayLockSteps, BorrowSteps
<1>4. LockOK'
  BY DEF IndInv, TypeOK, LockOK, LockedSteps, MayLockSteps, BorrowSteps,
     Carry, Transcribes, AccessOK, TrySteps
<1>5. OldOK'
  BY Facts DEF IndInv, TypeOK, OldOK, BorrowSteps, LockOK, LockedSteps,
     MayLockSteps, AccessOK, ClearSteps
<1>6. IsaOK'
  BY DEF IndInv, TypeOK, IsaOK, OldOK, Moving, LockOK, LockedSteps,
     MayLockSteps, BorrowSteps, RawIsa, NoEntry, FreedOK
<1>7. FreedOK'
  BY Facts DEF IndInv, TypeOK, FreedOK, Touches, Steps, Owned, AccessOK,
     UseSteps, CanUse
<1>8. InFlight' = InFlight
  BY DEF IndInv, TypeOK, LockOK, InFlight, LockedSteps, MayLockSteps,
     BorrowSteps
<1>9. Deallocating' <=> Deallocating
  BY DEF IndInv, TypeOK, LockOK, LockedSteps, MayLockSteps, BorrowSteps,
     Deallocating, rootIsDeallocating
<1>10. CountOK' /\ DeallocOnce'
  BY <1>8, <1>9, CountFrame
<1> QED BY <1>1, <1>2, <1>3, <1>4, <1>5, <1>6, <1>7, <1>10 DEF IndInv

(* The weak variable is destroyed.                                         *)
LEMMA DestroyWeakInv ==
    ASSUME IndInv, NEW t \in Threads, DestroyWeak(t)
    PROVE  IndInv'
<1> USE ThreadsAssumption, RefsAssumption
    DEF DestroyWeak, locals
<1>1. TypeOK'
  BY NullIsaType DEF IndInv, TypeOK, Steps
<1>2. RefsOK'
  BY DEF IndInv, TypeOK, RefsOK, AcquireSteps, HoldSteps, Steps, AccessOK,
     TrySteps
<1>3. AccessOK'
  BY Facts DEF IndInv, TypeOK, AccessOK, RefsOK, AcquireSteps, HoldSteps,
     UseSteps, TrySteps, ClearSteps, CanUse, OwnedBy, LockOK, LockedSteps,
     MayLockSteps, BorrowSteps
<1>4. LockOK'
  BY DEF IndInv, TypeOK, LockOK, LockedSteps, MayLockSteps, BorrowSteps,
     Carry, Transcribes, AccessOK, TrySteps
<1>5. OldOK'
  BY Facts DEF IndInv, TypeOK, OldOK, BorrowSteps, LockOK, LockedSteps,
     MayLockSteps, AccessOK, ClearSteps
<1>6. IsaOK'
  BY DEF IndInv, TypeOK, IsaOK, OldOK, Moving, LockOK, LockedSteps,
     MayLockSteps, BorrowSteps, RawIsa, NoEntry, FreedOK
<1>7. FreedOK'
  BY Facts DEF IndInv, TypeOK, FreedOK, Touches, Steps, Owned, AccessOK,
     UseSteps, CanUse
<1>8. InFlight' = InFlight
  BY DEF IndInv, TypeOK, LockOK, InFlight, LockedSteps, MayLockSteps,
     BorrowSteps
<1>9. Deallocating' <=> Deallocating
  BY DEF IndInv, TypeOK, LockOK, LockedSteps, MayLockSteps, BorrowSteps,
     Deallocating, rootIsDeallocating
<1>10. CountOK' /\ DeallocOnce'
  BY <1>8, <1>9, CountFrame
<1> QED BY <1>1, <1>2, <1>3, <1>4, <1>5, <1>6, <1>7, <1>10 DEF IndInv

(* rootDealloc's fast path frees an object that left nothing in the side   *)
(* table.                                                                  *)
LEMMA RootDeallocFastInv ==
    ASSUME IndInv, NEW t \in Threads, RootDeallocFast(t)
    PROVE  IndInv'
<1> USE ThreadsAssumption, RefsAssumption
    DEF RootDeallocFast, locals, OwnedBy, InDealloc
<1>a. /\ allocated /\ deallocator = t /\ pc[t] = "idle" /\ OwnedBy(t) = {}
      /\ isa.nonpointer /\ ~isa.weakly_referenced /\ ~isa.has_sidetable_rc
  BY DEF IndInv, FreedOK
<1>b. Deallocating /\ Owned = {}
  BY <1>a DEF IndInv, DeallocOnce, Owned, OwnedBy, TypeOK
<1>c. \A u \in Threads : pc[u] \notin ClearSteps
  BY <1>a DEF IndInv, AccessOK, ClearSteps
<1>d. \A u \in Threads : ~tryRetain[u] /\ ~(pc[u] \in TrySteps \cup HoldSteps \cup UseSteps)
  <2>1. side = NoEntry /\ ~location
    BY <1>a DEF IndInv, TypeOK, OldOK, IsaOK, Moving
  <2>2. \A u \in Threads : ~tryRetain[u]
    BY <2>1 DEF IndInv, AccessOK
  <2>3. \A u \in Threads : pc[u] \in TrySteps \cup HoldSteps \cup UseSteps => u = t
    BY <1>b, <2>2, <1>a, Facts
  <2> QED BY <2>2, <2>3, <1>a DEF TrySteps, HoldSteps, UseSteps
<1>e. \A u \in Threads : pc[u] \notin Touches
  BY <1>c, <1>d DEF Touches, Steps, ClearSteps, TrySteps, HoldSteps, UseSteps
<1>f. side = NoEntry /\ ~location
  BY <1>a DEF IndInv, TypeOK, OldOK, IsaOK, Moving
<1>1. TypeOK'
  BY NullIsaType DEF IndInv, TypeOK, Steps
<1>2. RefsOK'
  BY DEF IndInv, TypeOK, RefsOK, AcquireSteps, HoldSteps, Steps, AccessOK,
     TrySteps
<1>3. AccessOK'
  BY <1>c, <1>d DEF IndInv, TypeOK, AccessOK, OwnedBy
<1>4. LockOK'
  BY DEF IndInv, TypeOK, LockOK, LockedSteps, MayLockSteps, BorrowSteps,
     Carry, Transcribes, AccessOK, TrySteps
<1>5. OldOK'
  BY Facts DEF IndInv, TypeOK, OldOK, BorrowSteps, LockOK, LockedSteps,
     MayLockSteps, AccessOK, ClearSteps
<1>6. IsaOK'
  BY DEF IndInv, IsaOK, Moving
<1>7. FreedOK'
  BY <1>b, <1>e, <1>f DEF FreedOK, Owned
<1>10. CountOK' /\ DeallocOnce'
  BY DEF CountOK, DeallocOnce
<1> QED BY <1>1, <1>2, <1>3, <1>4, <1>5, <1>6, <1>7, <1>10 DEF IndInv

(* The raw object's entry is erased.                                       *)
LEMMA sidetable_clearDeallocatingInv ==
    ASSUME IndInv, NEW t \in Threads, sidetable_clearDeallocating(t)
    PROVE  IndInv'
<1> USE ThreadsAssumption, RefsAssumption
    DEF sidetable_clearDeallocating, Goto, locals, NoEntry
<1>a. /\ allocated /\ deallocator = t /\ OwnedBy(t) = {} /\ pc[t] \in ClearSteps
  BY DEF IndInv, AccessOK, ClearSteps, FreedOK, Touches, Steps
<1>b. Deallocating /\ Owned = {}
  BY <1>a DEF IndInv, DeallocOnce, Owned, OwnedBy, TypeOK
<1>c. /\ Cardinality(Owned) = 0 /\ isa.extra_rc \in Nat /\ side.rc \in Nat /\ InFlight \in Nat
      /\ Cardinality(Owned) = isa.extra_rc + side.rc + InFlight
  BY <1>a, <1>b, FS_EmptySet, InFlightType, HalfAssumption DEF IndInv,
     CountOK, TypeOK, isa_t, SideEntry, RC_MAX
<1>d. isa.extra_rc = 0 /\ side.rc = 0 /\ InFlight = 0
  BY <1>c
<1>e. lock = NoThread /\ ~Moving
  BY DEF Moving
<1>f. \A u \in Threads : ~tryRetain[u]
  BY <1>e DEF IndInv, AccessOK
<1>1. TypeOK'
  BY <1>e, NullIsaType DEF IndInv, TypeOK, Steps, SideEntry
<1>2. RefsOK'
  BY DEF IndInv, TypeOK, RefsOK, AcquireSteps, HoldSteps, Steps, AccessOK,
     TrySteps
<1>3. AccessOK'
  BY <1>a, <1>f DEF IndInv, TypeOK, AccessOK, UseSteps, TrySteps, ClearSteps,
     CanUse, OwnedBy
<1>4. LockOK'
  BY DEF IndInv, TypeOK, LockOK, LockedSteps, MayLockSteps, BorrowSteps,
     Carry, Transcribes, AccessOK, TrySteps
<1>5. OldOK'
  BY Facts DEF IndInv, TypeOK, OldOK, BorrowSteps, LockOK, LockedSteps,
     MayLockSteps, AccessOK, ClearSteps
<1>6. IsaOK'
  <2>1. ~isa.nonpointer /\ ~location' /\ side' = NoEntry
    BY <1>e DEF IndInv, OldOK, IsaOK
  <2> QED BY <1>e, <2>1 DEF IndInv, TypeOK, IsaOK, Moving
<1>7. FreedOK'
  BY Facts DEF IndInv, TypeOK, FreedOK, Touches, Steps, Owned, AccessOK,
     UseSteps, CanUse
<1>8. InFlight' = InFlight
  BY DEF IndInv, TypeOK, LockOK, InFlight, LockedSteps, MayLockSteps,
     BorrowSteps
<1>9. Deallocating'
  BY <1>a, <1>e DEF IndInv, TypeOK, Deallocating
<1>10. CountOK' /\ DeallocOnce'
  <2>1. UNCHANGED <<owner, allocated, deallocator>>
    OBVIOUS
  <2>2. isa'.extra_rc = 0 /\ side'.rc = 0
    BY <1>d
  <2>3. isa'.extra_rc + side'.rc + InFlight' = isa.extra_rc + side.rc + InFlight
    BY <1>d, <1>8, <2>2
  <2> QED BY <1>b, <1>d, <1>8, <1>9, <2>1, <2>2, <2>3, CountSame
<1> QED BY <1>1, <1>2, <1>3, <1>4, <1>5, <1>6, <1>7, <1>10 DEF IndInv

(* The nonpointer object's entry is erased.                                *)
LEMMA clearDeallocating_slowInv ==
    ASSUME IndInv, NEW t \in Threads, clearDeallocating_slow(t)
    PROVE  IndInv'
<1> USE ThreadsAssumption, RefsAssumption
    DEF clearDeallocating_slow, Goto, locals, NoEntry
<1>a. /\ allocated /\ deallocator = t /\ OwnedBy(t) = {} /\ pc[t] \in ClearSteps
  BY DEF IndInv, AccessOK, ClearSteps, FreedOK, Touches, Steps
<1>b. Deallocating /\ Owned = {}
  BY <1>a DEF IndInv, DeallocOnce, Owned, OwnedBy, TypeOK
<1>c. /\ Cardinality(Owned) = 0 /\ isa.extra_rc \in Nat /\ side.rc \in Nat /\ InFlight \in Nat
      /\ Cardinality(Owned) = isa.extra_rc + side.rc + InFlight
  BY <1>a, <1>b, FS_EmptySet, InFlightType, HalfAssumption DEF IndInv,
     CountOK, TypeOK, isa_t, SideEntry, RC_MAX
<1>d. isa.extra_rc = 0 /\ side.rc = 0 /\ InFlight = 0
  BY <1>c
<1>e. lock = NoThread /\ ~Moving
  BY DEF Moving
<1>f. \A u \in Threads : ~tryRetain[u]
  BY <1>e DEF IndInv, AccessOK
<1>1. TypeOK'
  BY <1>e, NullIsaType DEF IndInv, TypeOK, Steps, SideEntry
<1>2. RefsOK'
  BY DEF IndInv, TypeOK, RefsOK, AcquireSteps, HoldSteps, Steps, AccessOK,
     TrySteps
<1>3. AccessOK'
  BY <1>a, <1>f DEF IndInv, TypeOK, AccessOK, UseSteps, TrySteps, ClearSteps,
     CanUse, OwnedBy
<1>4. LockOK'
  BY DEF IndInv, TypeOK, LockOK, LockedSteps, MayLockSteps, BorrowSteps,
     Carry, Transcribes, AccessOK, TrySteps
<1>5. OldOK'
  BY Facts DEF IndInv, TypeOK, OldOK, BorrowSteps, LockOK, LockedSteps,
     MayLockSteps, AccessOK, ClearSteps
<1>6. IsaOK'
  <2>1. isa.nonpointer /\ ~location' /\ side' = NoEntry
    BY <1>e DEF IndInv, OldOK, IsaOK
  <2>2. side'.rc = 0 * RC_HALF /\ 0 \in 0..side'.rc
    BY <2>1, HalfAssumption DEF NoEntry
  <2>3. \E k \in 0..side'.rc : side'.rc = k * RC_HALF
    BY <2>2
  <2>4. ~Moving' /\ isa' = isa
    BY <1>e DEF Moving
  <2>5. ~side'.deallocating /\ ~side'.weakly_referenced
    BY <2>1 DEF NoEntry
  <2> QED BY <2>1, <2>3, <2>4, <2>5 DEF IsaOK
<1>7. FreedOK'
  BY Facts DEF IndInv, TypeOK, FreedOK, Touches, Steps, Owned, AccessOK,
     UseSteps, CanUse
<1>8. InFlight' = InFlight
  BY DEF IndInv, TypeOK, LockOK, InFlight, LockedSteps, MayLockSteps,
     BorrowSteps
<1>9. Deallocating'
  BY <1>a, <1>e DEF IndInv, TypeOK, Deallocating
<1>10. CountOK' /\ DeallocOnce'
  <2>1. UNCHANGED <<owner, allocated, deallocator>>
    OBVIOUS
  <2>2. isa'.extra_rc = 0 /\ side'.rc = 0
    BY <1>d
  <2>3. isa'.extra_rc + side'.rc + InFlight' = isa.extra_rc + side.rc + InFlight
    BY <1>d, <1>8, <2>2
  <2> QED BY <1>b, <1>d, <1>8, <1>9, <2>1, <2>2, <2>3, CountSame
<1> QED BY <1>1, <1>2, <1>3, <1>4, <1>5, <1>6, <1>7, <1>10 DEF IndInv

(* object_dispose frees the object.                                        *)
LEMMA FreeInv ==
    ASSUME IndInv, NEW t \in Threads, Free(t)
    PROVE  IndInv'
<1> USE ThreadsAssumption, RefsAssumption
    DEF Free, Goto, locals
<1>a. /\ allocated /\ deallocator = t /\ OwnedBy(t) = {}
      /\ side = NoEntry /\ ~location
  BY DEF IndInv, AccessOK, ClearSteps, FreedOK, Touches, Steps, IsaOK
<1>b. Deallocating /\ Owned = {}
  BY <1>a DEF IndInv, DeallocOnce, Owned, OwnedBy, TypeOK
<1>c. \A u \in Threads \ {t} : pc[u] \notin ClearSteps
  BY <1>a DEF IndInv, AccessOK
<1>d. \A u \in Threads : ~tryRetain[u] /\ ~(pc[u] \in TrySteps \cup HoldSteps \cup UseSteps)
  <2>2. \A u \in Threads : ~tryRetain[u]
    BY <1>a DEF IndInv, AccessOK
  <2>3. \A u \in Threads : pc[u] \in TrySteps \cup HoldSteps \cup UseSteps => u = t
    BY <1>b, <2>2, <1>a, Facts
  <2> QED BY <2>2, <2>3, <1>a DEF TrySteps, HoldSteps, UseSteps
<1>e. \A u \in Threads : pc'[u] \notin Touches
  BY <1>c, <1>d DEF IndInv, TypeOK, Touches, Steps, ClearSteps, TrySteps,
     HoldSteps, UseSteps
<1>1. TypeOK'
  BY NullIsaType DEF IndInv, TypeOK, Steps
<1>2. RefsOK'
  BY DEF IndInv, TypeOK, RefsOK, AcquireSteps, HoldSteps, Steps, AccessOK,
     TrySteps
<1>3. AccessOK'
  BY <1>c, <1>d DEF IndInv, TypeOK, AccessOK, OwnedBy, ClearSteps, UseSteps,
     TrySteps
<1>4. LockOK'
  BY DEF IndInv, TypeOK, LockOK, LockedSteps, MayLockSteps, BorrowSteps,
     Carry, Transcribes, AccessOK, TrySteps
<1>5. OldOK'
  BY Facts DEF IndInv, TypeOK, OldOK, BorrowSteps, LockOK, LockedSteps,
     MayLockSteps, AccessOK, ClearSteps
<1>6. IsaOK'
  BY <1>a DEF IndInv, TypeOK, IsaOK, Moving, LockOK, LockedSteps,
     MayLockSteps, BorrowSteps
<1>7. FreedOK'
  BY <1>a, <1>b, <1>e DEF FreedOK, Owned
<1>10. CountOK' /\ DeallocOnce'
  BY DEF CountOK, DeallocOnce
<1> QED BY <1>1, <1>2, <1>3, <1>4, <1>5, <1>6, <1>7, <1>10 DEF IndInv

(* A new object at the same address.                                       *)
LEMMA AllocInv ==
    ASSUME IndInv, NEW t \in Threads, Alloc(t)
    PROVE  IndInv'
<1> USE ThreadsAssumption, RefsAssumption
    DEF Alloc, locals, FreeRefs, initIsa, RawIsa
<1>a. /\ Owned = {} /\ deallocator = NoThread /\ side = NoEntry /\ ~location
      /\ \A u \in Threads : pc[u] \notin Touches
  BY DEF IndInv, FreedOK
<1>b. /\ isa' \in isa_t /\ isa'.extra_rc = 0 /\ ~isa'.deallocating
      /\ ~isa'.has_sidetable_rc
      /\ ~isa'.nonpointer => isa' = RawIsa(isa'.cls)
  <2>1. PICK c \in Classes : isa' = initIsa(c)
    OBVIOUS
  <2>2. 0 \in 0..RC_MAX
    BY HalfAssumption DEF RC_MAX
  <2>3. CASE c \in RawClasses
    BY <2>1, <2>2, <2>3 DEF isa_t
  <2>4. CASE c \notin RawClasses
    BY <2>1, <2>2, <2>4 DEF isa_t
  <2> QED BY <2>3, <2>4
<1>c. lock = NoThread /\ ~Moving
  BY <1>a DEF IndInv, TypeOK, LockOK, LockedSteps, MayLockSteps, BorrowSteps,
     Touches, Steps, Moving
<1>d. PICK r \in FreeRefs : owner' = [owner EXCEPT ![r] = t]
  OBVIOUS
<1>e. Owned' = {r}
  BY <1>a, <1>d DEF IndInv, TypeOK, Owned
<1>1. TypeOK'
  BY <1>b DEF IndInv, TypeOK
<1>2. RefsOK'
  BY DEF IndInv, TypeOK, RefsOK, AcquireSteps, HoldSteps, Steps, AccessOK,
     TrySteps
<1>3. AccessOK'
  BY <1>a DEF IndInv, TypeOK, AccessOK, UseSteps, TrySteps, ClearSteps,
     Touches, Steps
<1>4. LockOK'
  BY DEF IndInv, TypeOK, LockOK, LockedSteps, MayLockSteps, BorrowSteps,
     Carry, Transcribes, AccessOK, TrySteps
<1>5. OldOK'
  BY <1>a DEF IndInv, TypeOK, OldOK, BorrowSteps, Touches, Steps
<1>6. IsaOK'
  <2>1. side.rc = 0 * RC_HALF /\ 0 \in 0..side.rc
    BY <1>a, HalfAssumption DEF NoEntry
  <2>2. \A u \in Threads : pc[u] # "free"
    BY <1>a DEF Touches, Steps
  <2> QED BY <1>a, <1>b, <1>c, <2>1, <2>2 DEF IsaOK, Moving, NoEntry
<1>7. FreedOK'
  BY DEF FreedOK
<1>8. InFlight' = 0
  BY <1>c DEF InFlight
<1>9. ~Deallocating'
  BY <1>a, <1>b, <1>c DEF Deallocating, rootIsDeallocating, NoEntry
<1>10. CountOK' /\ DeallocOnce'
  <2>1. Cardinality(Owned') = 1
    BY <1>e, FS_Singleton
  <2>2. isa'.extra_rc = 0 /\ side'.rc = 0
    BY <1>a, <1>b DEF NoEntry
  <2>3. CountOK'
    BY <1>8, <1>9, <2>1, <2>2 DEF CountOK
  <2>4. DeallocOnce'
    BY <1>9, <1>a DEF DeallocOnce
  <2> QED BY <2>3, <2>4
<1> QED BY <1>1, <1>2, <1>3, <1>4, <1>5, <1>6, <1>7, <1>10 DEF IndInv

(* A reference passes from one thread to another: it is as many as before, *)
(* and no operation was using it.                                          *)
LEMMA GiveInv ==
    ASSUME IndInv, NEW t \in Threads, Give(t)
    PROVE  IndInv'
<1> USE ThreadsAssumption, RefsAssumption
    DEF Give, locals, client
<1>a. PICK r \in OwnedBy(t), v \in Threads : owner' = [owner EXCEPT ![r] = v]
  OBVIOUS
<1>b. r \in Refs /\ owner[r] = t /\ t # NoThread /\ v # NoThread
  BY <1>a DEF OwnedBy
<1>c. /\ owner' \in [Refs -> Threads \cup {NoThread}]
      /\ \A q \in Refs : owner'[q] = IF q = r THEN v ELSE owner[q]
  BY <1>a, <1>b DEF IndInv, TypeOK
<1>d. Owned' = Owned /\ r \in Owned
  BY <1>b, <1>c DEF Owned
<1>e. allocated /\ ~Deallocating /\ deallocator = NoThread
  BY <1>b, <1>d DEF IndInv, FreedOK, DeallocOnce
<1>f. \A w \in Threads : OwnedBy(w) # {} /\ w # t => OwnedBy(w)' # {}
  BY <1>b, <1>c DEF OwnedBy
<1>1. TypeOK'
  BY <1>c DEF IndInv, TypeOK
<1>2. RefsOK'
  BY <1>b, <1>c DEF IndInv, TypeOK, RefsOK, AcquireSteps, HoldSteps, Steps,
     AccessOK, TrySteps
<1>3. AccessOK'
  BY <1>e, <1>f DEF IndInv, TypeOK, AccessOK, RefsOK, AcquireSteps, HoldSteps,
     UseSteps, TrySteps, ClearSteps, CanUse, LockOK, LockedSteps,
     MayLockSteps, BorrowSteps
<1>4. LockOK'
  BY DEF IndInv, TypeOK, LockOK, LockedSteps, MayLockSteps, BorrowSteps,
     Carry, Transcribes, AccessOK, TrySteps
<1>5. OldOK'
  BY DEF IndInv, TypeOK, OldOK, BorrowSteps, LockOK, LockedSteps,
     MayLockSteps, AccessOK, ClearSteps
<1>6. IsaOK'
  BY DEF IndInv, TypeOK, IsaOK, OldOK, Moving, LockOK, LockedSteps,
     MayLockSteps, BorrowSteps, RawIsa, NoEntry, FreedOK
<1>7. FreedOK'
  BY <1>e DEF FreedOK
<1>8. InFlight' = InFlight
  BY DEF InFlight
<1>9. Deallocating' <=> Deallocating
  BY DEF Deallocating, rootIsDeallocating, Moving
<1>10. CountOK' /\ DeallocOnce'
  BY <1>d, <1>e, <1>8, <1>9 DEF IndInv, CountOK, DeallocOnce
<1> QED BY <1>1, <1>2, <1>3, <1>4, <1>5, <1>6, <1>7, <1>10 DEF IndInv

-----------------------------------------------------------------------------
(* The invariant and what follows from it.                                 *)

(* The invariant holds of a new object.                                    *)
LEMMA InitInv == Init => IndInv
<1> SUFFICES ASSUME NEW c \in Classes, NEW t \in Threads, NEW r \in Refs,
                    isa = initIsa(c),
                    owner = [q \in Refs |-> IF q = r THEN t ELSE NoThread],
                    side = NoEntry, lock = NoThread, location = FALSE,
                    allocated = TRUE, deallocator = NoThread,
                    pc = [u \in Threads |-> "idle"],
                    ref = [u \in Threads |-> NoRef],
                    old = [u \in Threads |-> NullIsa],
                    tryRetain = [u \in Threads |-> FALSE],
                    slow = [u \in Threads |-> FALSE],
                    newCls = [u \in Threads |-> NullIsa.cls]
             PROVE  IndInv
  BY DEF Init
<1> USE ThreadsAssumption, RefsAssumption
<1>1. /\ isa \in isa_t /\ isa.extra_rc = 0 /\ ~isa.deallocating
      /\ ~isa.nonpointer => isa = RawIsa(isa.cls)
  <2>1. 0 \in 0..RC_MAX
    BY HalfAssumption DEF RC_MAX
  <2>2. CASE c \in RawClasses
    BY <2>1, <2>2 DEF isa_t, initIsa, RawIsa
  <2>3. CASE c \notin RawClasses
    BY <2>1, <2>3 DEF isa_t, initIsa, RawIsa
  <2> QED BY <2>2, <2>3
<1>2. TypeOK
  BY <1>1, NullIsaType DEF TypeOK, NoEntry, SideEntry, Steps
<1>3. RefsOK /\ AccessOK /\ LockOK /\ OldOK /\ FreedOK
  BY DEF RefsOK, AcquireSteps, HoldSteps, AccessOK, UseSteps, TrySteps,
         ClearSteps, LockOK, LockedSteps, MayLockSteps, BorrowSteps, OldOK,
         FreedOK
<1>4. ~Moving /\ InFlight = 0 /\ ~Deallocating /\ Owned = {r}
  BY <1>1 DEF Moving, InFlight, Deallocating, rootIsDeallocating, NoEntry,
              Owned
<1>5. IsaOK
  <2>1. side.rc = 0 * RC_HALF /\ 0 \in 0..side.rc
    BY HalfAssumption DEF NoEntry
  <2> QED BY <1>1, <1>4, <2>1 DEF IsaOK, NoEntry
<1>6. CountOK /\ DeallocOnce
  <2>1. Cardinality(Owned) = 1
    BY <1>4, FS_Singleton
  <2> QED BY <1>1, <1>4, <2>1 DEF CountOK, DeallocOnce, NoEntry
<1> QED BY <1>2, <1>3, <1>5, <1>6 DEF IndInv

(* Every action of every thread preserves the invariant.                   *)
LEMMA StepInv ==
    ASSUME IndInv, NEW t \in Threads, Call(t) \/ Step(t)
    PROVE  IndInv'
<1>1. CASE Call(t)
  BY <1>1, AllocInv, GiveInv, BeginInv, DestroyWeakInv DEF Call, Begin
<1>2. CASE RetainStep(t)
  BY <1>2, LookInv, TakeLockInv, GiveLockInv, RetryInv, RetainStoreInv,
     RetainStoreOverflowInv, RetainAddInv, sidetable_retainInv,
     sidetable_tryRetainInv
     DEF RetainStep, Look, TakeLock, GiveLock, Retry
<1>3. CASE ReleaseStep(t)
  BY <1>3, LookInv, LastLoadInv, TakeLockInv, GiveLockInv, RetryInv,
     BorrowAgainInv, ReleaseStoreInv, ReleaseBorrowInv, BorrowStoreInv,
     BorrowRetryInv, BorrowUndoInv, ReleaseDeallocInv, sidetable_releaseInv
     DEF ReleaseStep, Look, TakeLock, GiveLock, Retry, BorrowAgain
<1>4. CASE ChangeStep(t)
  BY <1>4, LookInv, TakeLockInv, RetryInv, ChangeStoreInv,
     ChangeStoreRawInv, ChangeMoveInv
     DEF ChangeStep, Look, TakeLock, Retry
<1>5. CASE WeakStep(t)
  BY <1>5, RetryInv, StoreWeakLockInv, SetWeakLoadRawInv, SetWeakLoadInv,
     SetWeakStoreInv
     DEF WeakStep, Retry
<1>6. CASE DeallocStep(t)
  BY <1>6, DisposeInv, RootDeallocFastInv, sidetable_clearDeallocatingInv,
     clearDeallocating_slowInv, FreeInv
     DEF DeallocStep, Dispose
<1> QED BY <1>1, <1>2, <1>3, <1>4, <1>5, <1>6 DEF Step

(* So does a step that changes nothing.                                    *)
LEMMA StutterInv == IndInv /\ UNCHANGED vars => IndInv'
<1> SUFFICES ASSUME IndInv, UNCHANGED vars
             PROVE  IndInv'
  OBVIOUS
<1> USE DEF vars
<1>1. TypeOK' /\ RefsOK' /\ LockOK' /\ OldOK'
  BY DEF IndInv, TypeOK, RefsOK, LockOK, OldOK, Carry, Transcribes
<1>2. AccessOK' /\ FreedOK'
  BY DEF IndInv, AccessOK, CanUse, OwnedBy, FreedOK, Owned
<1>3. IsaOK' /\ InFlight' = InFlight /\ (Deallocating' <=> Deallocating)
  BY DEF IndInv, IsaOK, Moving, InFlight, Deallocating, rootIsDeallocating
<1>4. CountOK' /\ DeallocOnce'
  BY <1>3, CountFrame
<1> QED BY <1>1, <1>2, <1>3, <1>4 DEF IndInv

(* The inductive invariant holds of every reachable state, for any number  *)
(* of threads and references and any width of extra_rc.                    *)
THEOREM Invariance == Spec => []IndInv
<1>1. IndInv /\ [Next]_vars => IndInv'
  BY StepInv, StutterInv DEF Next
<1> QED BY <1>1, InitInv, PTL DEF Spec

(* Every variable stays in its type; in particular extra_rc + 1, the       *)
(* RC_HALF left inline and the counts borrowed back never leave 0..RC_MAX, *)
(* and a side table count is never negative.                               *)
THEOREM TypeCorrect == Spec => []TypeOK
<1>1. IndInv => TypeOK
  BY DEF IndInv
<1> QED BY <1>1, Invariance, PTL

(* rootRetainCount is the number of strong references whenever the         *)
(* SideTable is unlocked.                                                  *)
THEOREM CountsAreExact == Spec => []RetainCountExact
<1>1. IndInv => RetainCountExact
  <2> SUFFICES ASSUME IndInv, allocated, lock = NoThread
               PROVE  rootRetainCount = Cardinality(Owned)
                                        + (IF Deallocating THEN 1 ELSE 0)
    BY DEF RetainCountExact
  <2>1. Cardinality(Owned) = (IF Deallocating THEN 0 ELSE 1)
                             + isa.extra_rc + side.rc
    <3>1. InFlight = 0
      BY DEF InFlight
    <3>2. isa.extra_rc \in Nat /\ side.rc \in Nat
      BY HalfAssumption DEF IndInv, TypeOK, isa_t, SideEntry, RC_MAX
    <3> QED BY <3>1, <3>2 DEF IndInv, CountOK
  <2>2. ~isa.nonpointer => isa.extra_rc = 0
    BY DEF IndInv, IsaOK, RawIsa
  <2>3. isa.nonpointer /\ ~isa.has_sidetable_rc => side.rc = 0
    BY NoneInFlight
  <2>4. isa.extra_rc \in Nat /\ side.rc \in Nat
    BY HalfAssumption DEF IndInv, TypeOK, isa_t, SideEntry, RC_MAX
  <2> QED BY <2>1, <2>2, <2>3, <2>4 DEF rootRetainCount
<1> QED BY <1>1, Invariance, PTL

(* An object is deallocating if and only if one thread is inside its       *)
(* -dealloc, and only that thread then holds references.                   *)
THEOREM DeallocHappensOnce == Spec => []DeallocOnce
<1>1. IndInv => DeallocOnce
  BY DEF IndInv
<1> QED BY <1>1, Invariance, PTL

(* rootRetain, rootRelease, changeIsa, storeWeak and the side table        *)
(* functions never run on a freed object.                                  *)
THEOREM NobodyUsesAFreedObject == Spec => []NoUseAfterFree
<1>1. IndInv => NoUseAfterFree
  BY DEF IndInv, FreedOK, NoUseAfterFree
<1> QED BY <1>1, Invariance, PTL

(* object_dispose leaves no side table entry and no weak variable.         *)
THEOREM NothingIsLeftBehind == Spec => []FreedLeavesNothing
<1>1. IndInv => FreedLeavesNothing
  BY DEF IndInv, FreedOK, FreedLeavesNothing
<1> QED BY <1>1, Invariance, PTL

(* A program that releases only what it holds never reaches                *)
(* overrelease_error and never wraps a raw count.                          *)
THEOREM NeverOverreleased == Spec => []NoOverrelease
<1>1. IndInv => NoOverrelease
  <2> SUFFICES ASSUME IndInv, NEW t \in Threads
               PROVE  /\ pc[t] = "releaseDealloc" => ~old[t].deallocating
                      /\ pc[t] = "sideRelease" /\ lock = NoThread =>
                             ~(side.rc = 0 /\ side.deallocating)
    BY DEF NoOverrelease
  <2>1. pc[t] = "releaseDealloc" => ~old[t].deallocating
    BY DEF IndInv, OldOK
  <2>2. ASSUME pc[t] = "sideRelease", lock = NoThread,
               side.rc = 0, side.deallocating
        PROVE  FALSE
    <3>1. ~isa.nonpointer /\ isa.extra_rc = 0
      BY <2>2 DEF IndInv, OldOK, IsaOK, RawIsa
    <3>2. InFlight = 0
      BY <2>2 DEF InFlight
    <3>3. Deallocating
      BY <2>2, <3>1 DEF Deallocating, rootIsDeallocating
    <3> QED BY <2>2, <3>1, <3>2, <3>3, Last DEF HoldSteps
  <2> QED BY <2>1, <2>2
<1> QED BY <1>1, Invariance, PTL

(* The asserts of the side table functions (NSObject.mm) hold.             *)
THEOREM SideTableAssertsHold == Spec => []SideTableAsserts
<1>1. IndInv => SideTableAsserts
  <2> SUFFICES ASSUME IndInv, NEW t \in Threads
               PROVE  SideTableAsserts!(t)
    BY DEF SideTableAsserts
  <2>1. pc[t] \in {"retainAdd", "releaseBorrow", "borrowUndo", "changeMove"}
            => ~side.deallocating /\ ~side.weakly_referenced
    BY ThreadsAssumption
       DEF IndInv, LockOK, LockedSteps, BorrowSteps, OldOK, IsaOK, Moving
  <2>2. pc[t] = "releaseBorrow" => side.rc = 0 \/ side.rc >= RC_HALF
    <3> SUFFICES ASSUME pc[t] = "releaseBorrow", side.rc # 0
                 PROVE  side.rc >= RC_HALF
      BY HalfAssumption DEF IndInv, TypeOK, SideEntry
    <3>1. PICK k \in Nat : side.rc = k * RC_HALF
      BY DEF IndInv, TypeOK, SideEntry, OldOK, IsaOK
    <3>2. k # 0
      BY <3>1, HalfAssumption
    <3> QED BY <3>1, <3>2, HalfAssumption
  <2> QED BY <2>1, <2>2 DEF IndInv, OldOK, BorrowSteps
<1> QED BY <1>1, Invariance, PTL

-----------------------------------------------------------------------------
(* The refinement of AbstractRefcount.                                     *)

(* The actions by which the program obtains a reference,                   *)
Acquires(t) ==
    RetainStore(t) \/ RetainStoreOverflow(t) \/ sidetable_retain(t)
    \/ sidetable_tryRetain(t)

(* gives one up,                                                           *)
Relinquishes(t) ==
    ReleaseStore(t) \/ BorrowStore(t) \/ BorrowRetry(t) \/ ReleaseDealloc(t)
    \/ sidetable_release(t)

(* and by which the object's memory is freed.                              *)
Frees(t) == RootDeallocFast(t) \/ Free(t)

(* All other actions leave the references, the memory and the deallocator  *)
(* alone.                                                                  *)
LEMMA Invisible ==
    ASSUME NEW t \in Threads, Call(t) \/ Step(t)
    PROVE  \/ UNCHANGED <<owner, allocated, deallocator>>
           \/ Acquires(t) \/ Relinquishes(t) \/ Frees(t) \/ Alloc(t)
           \/ Give(t)
<1> USE DEF client
<1>1. CASE Call(t)
  BY <1>1 DEF Call, Retain, Release, LoadWeak, StoreWeak, DestroyWeak,
     ChangeIsa
<1>2. CASE RetainStep(t)
  BY <1>2 DEF RetainStep, Acquires, RetainLoadRaw, RetainLoadDeallocating,
     RetainLoad, RetainLoadOverflow, RetainLock, RetainStoreFails, RetainAdd,
     LoadWeakRead, LoadWeakLock
<1>3. CASE ReleaseStep(t)
  BY <1>3 DEF ReleaseStep, Relinquishes, ReleaseLoadRaw, ReleaseLoad,
     ReleaseLoadUnderflow, ReleaseLoadLast, ReleaseLock, ReleaseStoreFails,
     ReleaseBorrow, BorrowStoreFails, BorrowReload, BorrowRetryFails,
     BorrowUndo, ReleaseDeallocFails
<1>4. CASE ChangeStep(t)
  BY <1>4 DEF ChangeStep, ChangeLoad, ChangeLock, ChangeStore,
     ChangeStoreRaw, ChangeStoreFails, ChangeMove
<1>5. CASE WeakStep(t)
  BY <1>5 DEF WeakStep, StoreWeakLock, SetWeakLoadRaw, SetWeakLoad,
     SetWeakStore, SetWeakStoreFails
<1>6. CASE DeallocStep(t)
  BY <1>6 DEF DeallocStep, Frees, RootDealloc, ClearDeallocating,
     sidetable_clearDeallocating, clearDeallocating_slow
<1> QED BY <1>1, <1>2, <1>3, <1>4, <1>5, <1>6 DEF Step

(* The life of the object, read from who runs -dealloc.                    *)
Life ==
    IF ~allocated THEN "free"
    ELSE IF deallocator # NoThread THEN "deallocating" ELSE "live"

(* Between steps the deallocating state is known from who runs -dealloc.   *)
LEMMA LifeIs ==
    ASSUME IndInv, IndInv'
    PROVE  /\ Life = IF ~allocated THEN "free"
                     ELSE IF Deallocating THEN "deallocating" ELSE "live"
           /\ Life' = IF ~allocated' THEN "free"
                      ELSE IF Deallocating' THEN "deallocating" ELSE "live"
  BY DEF IndInv, DeallocOnce, Life

(* While a count is left anywhere the reference being released is not the  *)
(* last.                                                                   *)
LEMMA NotLast ==
    ASSUME IndInv, allocated, ~Deallocating, NEW r, Owned = {r},
           isa.extra_rc + side.rc + InFlight > 0
    PROVE  FALSE
<1>1. Cardinality(Owned) = 1
  BY FS_Singleton
<1>2. isa.extra_rc \in Nat /\ side.rc \in Nat /\ InFlight \in Nat
  BY InFlightType, HalfAssumption DEF IndInv, TypeOK, isa_t, SideEntry, RC_MAX
<1> QED BY <1>1, <1>2 DEF IndInv, CountOK

(* The four ways to obtain a reference implement Retain or LoadWeak.       *)
LEMMA AcquireRefines ==
    ASSUME IndInv, IndInv', NEW t \in Threads, Acquires(t)
    PROVE  UNCHANGED <<owner, allocated, deallocator>>
           \/ Abstract!Retain(t) \/ Abstract!LoadWeak(t)
<1> USE ThreadsAssumption
    DEF Acquires, RetainStore, RetainStoreOverflow, sidetable_retain,
        sidetable_tryRetain, client, Stores
<1>1. /\ ref[t] \in Refs /\ owner[ref[t]] = NoThread
      /\ pc[t] \in {"retainStore", "sideRetain", "sideTryRetain"}
      /\ UNCHANGED <<allocated, deallocator>>
      /\ allocated
  BY Facts DEF IndInv, RefsOK, AcquireSteps, UseSteps, TrySteps
<1>2. owner' = [owner EXCEPT ![ref[t]] = t] \/ UNCHANGED owner
  OBVIOUS
<1>3. CASE owner' = [owner EXCEPT ![ref[t]] = t] /\ ~tryRetain[t]
  <2>1. OwnedBy(t) # {} \/ deallocator = t
    BY <1>1, <1>3 DEF IndInv, AccessOK, UseSteps, CanUse
  <2> QED BY <1>1, <1>3, <2>1, LifeIs
          DEF Abstract!Retain, Abstract!Acquire, Abstract!Held,
              Abstract!HeldBy, OwnedBy, Life, IndInv, DeallocOnce
<1>4. CASE tryRetain[t] /\ owner' # owner
  <2>1. ~rootIsDeallocating
    BY <1>1, <1>4 DEF IndInv, OldOK, rootIsDeallocating, AccessOK, TrySteps
  <2>2. ~Deallocating
    BY <2>1, <1>4, Facts DEF IndInv
  <2> QED BY <1>1, <1>2, <1>4, <2>2, LifeIs
          DEF Abstract!LoadWeak, Abstract!Acquire, Abstract!Held, Life,
              IndInv, DeallocOnce
<1> QED BY <1>1, <1>2, <1>3, <1>4

(* The five ways to give one up implement Release: -dealloc begins exactly *)
(* when it was the last.                                                   *)
LEMMA ReleaseRefines ==
    ASSUME IndInv, IndInv', NEW t \in Threads, Relinquishes(t)
    PROVE  Abstract!Release(t)
<1> USE ThreadsAssumption
    DEF Relinquishes, ReleaseStore, BorrowStore, BorrowRetry, ReleaseDealloc,
        sidetable_release, client, Stores, Drop
<1>1. /\ pc[t] \in HoldSteps /\ ref[t] \in Refs /\ owner[ref[t]] = t
      /\ allocated /\ UNCHANGED allocated
      /\ owner' = [owner EXCEPT ![ref[t]] = NoThread]
  BY Facts DEF IndInv, RefsOK, HoldSteps
<1>2. isa.extra_rc \in Nat /\ side.rc \in Nat /\ InFlight \in Nat
  BY InFlightType, HalfAssumption DEF IndInv, TypeOK, isa_t, SideEntry, RC_MAX
<1>3. CASE UNCHANGED deallocator
  <2>1. isa.extra_rc + side.rc + InFlight > 0 \/ Deallocating
    <3>1. CASE ReleaseStore(t)
      BY <1>2, <3>1 DEF IndInv, OldOK
    <3>2. CASE BorrowStore(t) \/ BorrowRetry(t)
      <4>1. InFlight = RC_HALF
        BY <3>2 DEF IndInv, LockOK, LockedSteps, BorrowSteps, InFlight
      <4> QED BY <1>2, <4>1, HalfAssumption
    <3>3. CASE sidetable_release(t)
      <4>1. CASE side.rc # 0
        BY <1>2, <4>1
      <4>2. CASE side.rc = 0
        <5>1. ~isa.nonpointer /\ isa.extra_rc = 0
          BY <3>3 DEF IndInv, OldOK, IsaOK, RawIsa
        <5>2. InFlight = 0
          BY <3>3 DEF InFlight
        <5>3. deallocator = t
          BY <1>3, <3>3, <4>2
        <5> QED BY <5>3, <1>1 DEF IndInv, DeallocOnce
      <4> QED BY <4>1, <4>2
    <3>4. CASE ReleaseDealloc(t)
      BY <3>4, <1>3, <1>1 DEF IndInv, DeallocOnce
    <3> QED BY <3>1, <3>2, <3>3, <3>4
  <2>2. ~(Life = "live" /\ Owned = {ref[t]})
    BY <1>1, <2>1, NotLast, LifeIs
  <2>3. UNCHANGED Life
    BY <1>1, <1>3 DEF Life
  <2> QED BY <1>1, <1>3, <2>2, <2>3, LifeIs
          DEF Abstract!Release, Abstract!Held, Abstract!HeldBy, Owned
<1>4. CASE deallocator' # deallocator
  <2>1. isa.extra_rc = 0 /\ side.rc = 0 /\ InFlight = 0
    <3>1. CASE ReleaseDealloc(t)
      BY <3>1, NoneInFlight DEF IndInv, OldOK, InFlight, BorrowSteps
    <3>2. CASE sidetable_release(t)
      BY <1>4, <3>2 DEF IndInv, OldOK, IsaOK, RawIsa, InFlight
    <3> QED BY <1>4, <3>1, <3>2
  <2>2. ~Deallocating /\ Owned = {ref[t]}
    BY <1>1, <2>1, Last
  <2>3. deallocator' = t
    BY <1>4
  <2>4. Life = "live" /\ Life' = "deallocating"
    BY <1>1, <2>2, <2>3 DEF Life, IndInv, DeallocOnce
  <2> QED BY <1>1, <2>2, <2>3, <2>4, LifeIs
          DEF Abstract!Release, Abstract!Held, Abstract!HeldBy, Owned
<1> QED BY <1>3, <1>4

(* Both ways to free the object implement Free.                            *)
LEMMA FreeRefines ==
    ASSUME IndInv, IndInv', NEW t \in Threads, Frees(t)
    PROVE  Abstract!Free(t)
<1>1. /\ deallocator = t /\ OwnedBy(t) = {} /\ allocated
      /\ ~allocated' /\ deallocator' = NoThread /\ UNCHANGED owner
  BY ThreadsAssumption
     DEF Frees, RootDeallocFast, Free, InDealloc, IndInv, FreedOK, AccessOK,
         ClearSteps, Touches, Steps
<1>2. Owned = {} /\ Deallocating
  BY <1>1, ThreadsAssumption DEF IndInv, DeallocOnce, Owned, OwnedBy
<1>3. Life = "deallocating" /\ Life' = "free"
  BY <1>1, ThreadsAssumption DEF Life
<1> QED BY <1>1, <1>2, <1>3, LifeIs DEF Abstract!Free, Abstract!Held, Owned

(* Alloc implements Alloc.                                                 *)
LEMMA AllocRefines ==
    ASSUME IndInv, IndInv', NEW t \in Threads, Alloc(t)
    PROVE  Abstract!Alloc(t)
<1>1. ~allocated /\ allocated' /\ deallocator = NoThread /\ UNCHANGED deallocator
  BY DEF Alloc, IndInv, FreedOK
<1>2. Life = "free" /\ Life' = "live"
  BY <1>1 DEF Life
<1>3. Abstract!Acquire(t)
  BY DEF Alloc, FreeRefs, Abstract!Acquire, Abstract!Held
<1> QED BY <1>1, <1>2, <1>3, LifeIs DEF Abstract!Alloc

(* Give implements Give.                                                   *)
LEMMA GiveRefines ==
    ASSUME IndInv, IndInv', NEW t \in Threads, Give(t)
    PROVE  Abstract!Give(t)
<1>1. PICK r \in OwnedBy(t), v \in Threads : owner' = [owner EXCEPT ![r] = v]
  BY DEF Give
<1>2. UNCHANGED <<allocated, deallocator>>
  BY DEF Give, client
<1>3. r \in Refs /\ owner[r] = t /\ r \in Owned /\ deallocator # t
  BY <1>1, ThreadsAssumption DEF OwnedBy, Owned, Give
<1>4. Life = "live" /\ UNCHANGED Life
  BY <1>2, <1>3, ThreadsAssumption DEF Life, IndInv, FreedOK, DeallocOnce
<1> QED BY <1>1, <1>2, <1>3, <1>4, LifeIs
        DEF Abstract!Give, Abstract!HeldBy

(* The whole machinery implements AbstractRefcount: an object begins       *)
(* -dealloc in the release that gives up its last reference and never      *)
(* earlier or later.                                                       *)
THEOREM Refinement == Spec => ImplementsAbstractRefcount
<1>1. Init => Abstract!Init
  <2> SUFFICES ASSUME Init
               PROVE  Abstract!Init
    OBVIOUS
  <2>1. Life = "live" /\ deallocator = NoThread
    BY DEF Init, Life
  <2>2. IndInv
    BY InitInv
  <2>3. ~Deallocating /\ allocated
    BY <2>1, <2>2 DEF Init, IndInv, DeallocOnce
  <2> QED BY <2>1, <2>3 DEF Init, Abstract!Init
<1>2. ASSUME IndInv, IndInv', [Next]_vars
      PROVE  [Abstract!Next]_(Abstract!vars)
  <2>1. UNCHANGED <<owner, allocated, deallocator>> => UNCHANGED Abstract!vars
    <3>1. UNCHANGED <<owner, allocated, deallocator>>
              => UNCHANGED <<owner, Life, deallocator>>
      BY DEF Life
    <3> QED BY <1>2, <3>1, LifeIs DEF Abstract!vars
  <2>2. CASE UNCHANGED vars
    BY <2>1, <2>2 DEF vars
  <2>3. ASSUME NEW t \in Threads, Call(t) \/ Step(t)
        PROVE  Abstract!Next \/ UNCHANGED <<owner, allocated, deallocator>>
    BY <1>2, <2>3, Invisible, AcquireRefines, ReleaseRefines, FreeRefines,
       AllocRefines, GiveRefines DEF Abstract!Next
  <2> QED BY <1>2, <2>1, <2>2, <2>3 DEF Next
<1> QED BY <1>1, <1>2, Invariance, PTL
        DEF Spec, ImplementsAbstractRefcount, Abstract!Spec

-----------------------------------------------------------------------------
(* How the isa word may change.                                            *)

(* The isa word changes in the exclusive stores only, and in all but       *)
(* changeIsa's the nonpointer form and the two sticky bits survive.        *)
LEMMA IsaStep ==
    ASSUME IndInv, NEW t \in Threads, Call(t) \/ Step(t), allocated
    PROVE  \/ UNCHANGED isa
           \/ /\ isa.nonpointer /\ isa'.nonpointer
              /\ isa.has_sidetable_rc => isa'.has_sidetable_rc
              /\ isa.weakly_referenced => isa'.weakly_referenced
           \/ ChangeStore(t) \/ ChangeStoreRaw(t)
<1> USE DEF client, Stores, StoreFails
<1>1. CASE Call(t)
  BY <1>1 DEF Call, Retain, Release, LoadWeak, StoreWeak, DestroyWeak,
     ChangeIsa, Alloc, Give
<1>2. CASE RetainStep(t)
  <2>1. CASE RetainStore(t) \/ RetainStoreOverflow(t)
    BY <2>1 DEF RetainStore, RetainStoreOverflow, IndInv, OldOK, TypeOK, isa_t
  <2>2. CASE ~(RetainStore(t) \/ RetainStoreOverflow(t))
    BY <1>2, <2>2 DEF RetainStep, RetainLoadRaw,
       RetainLoadDeallocating, RetainLoad, RetainLoadOverflow, RetainLock,
       RetainStoreFails, RetainAdd, sidetable_retain, sidetable_tryRetain,
       LoadWeakRead, LoadWeakLock
  <2> QED BY <2>1, <2>2
<1>3. CASE ReleaseStep(t)
  <2>1. CASE \/ ReleaseStore(t) \/ BorrowStore(t) \/ BorrowRetry(t)
             \/ ReleaseDealloc(t)
    BY <2>1 DEF ReleaseStore, BorrowStore, BorrowRetry, ReleaseDealloc,
                IndInv, OldOK, TypeOK, isa_t
  <2>2. CASE ~(\/ ReleaseStore(t) \/ BorrowStore(t) \/ BorrowRetry(t)
               \/ ReleaseDealloc(t))
    BY <1>3, <2>2 DEF ReleaseStep, ReleaseLoadRaw,
       ReleaseLoad, ReleaseLoadUnderflow, ReleaseLoadLast, ReleaseLock,
       ReleaseStoreFails, ReleaseBorrow, BorrowStoreFails, BorrowReload,
       BorrowRetryFails, BorrowUndo, ReleaseDeallocFails, sidetable_release
  <2> QED BY <2>1, <2>2
<1>4. CASE ChangeStep(t)
  BY <1>4 DEF ChangeStep, ChangeLoad, ChangeLock, ChangeStoreFails,
     ChangeMove
<1>5. CASE WeakStep(t)
  <2>1. CASE SetWeakStore(t)
    BY <2>1 DEF SetWeakStore, IndInv, OldOK, TypeOK, isa_t
  <2>2. CASE ~SetWeakStore(t)
    BY <1>5, <2>2 DEF WeakStep, StoreWeakLock,
       SetWeakLoadRaw, SetWeakLoad, SetWeakStoreFails
  <2> QED BY <2>1, <2>2
<1>6. CASE DeallocStep(t)
  BY <1>6 DEF DeallocStep, RootDeallocFast, Free, RootDealloc,
     ClearDeallocating, sidetable_clearDeallocating, clearDeallocating_slow
<1> QED BY <1>1, <1>2, <1>3, <1>4, <1>5, <1>6 DEF Step

(* The isa leaves the nonpointer form only under the SideTable's lock and  *)
(* never returns to it, deallocating is final, and has_sidetable_rc and    *)
(* weakly_referenced are sticky.                                           *)
THEOREM IsaMovesOneWay == Spec => IsaMoves
<1> DEFINE Moves ==
        allocated /\ allocated' =>
            /\ isa'.nonpointer => isa.nonpointer
            /\ isa.nonpointer /\ ~isa'.nonpointer
                   => lock # NoThread /\ lock' = lock
            /\ isa'.nonpointer =>
                   /\ isa.has_sidetable_rc => isa'.has_sidetable_rc
                   /\ isa.weakly_referenced => isa'.weakly_referenced
            /\ Deallocating => Deallocating'
<1>1. ASSUME IndInv, IndInv', [Next]_vars
      PROVE  Moves
  <2> SUFFICES ASSUME allocated, allocated'
               PROVE  Moves
    OBVIOUS
  <2>1. CASE UNCHANGED vars
    BY <2>1 DEF vars, Deallocating, rootIsDeallocating
  <2>2. ASSUME NEW t \in Threads, Call(t) \/ Step(t)
        PROVE  Moves
    <3>1. Deallocating => Deallocating'
      <4>1. ~Frees(t)
        BY DEF Frees, RootDeallocFast, Free
      <4>2. Acquires(t) \/ Relinquishes(t) \/ Alloc(t) \/ Give(t)
                => deallocator' = deallocator \/ deallocator' = t
        BY DEF Acquires, RetainStore, RetainStoreOverflow, sidetable_retain,
               sidetable_tryRetain, Relinquishes, ReleaseStore, BorrowStore,
               BorrowRetry, ReleaseDealloc, sidetable_release, Alloc, Give, client
      <4>3. deallocator' = deallocator \/ deallocator' = t
        BY <2>2, <4>1, <4>2, Invisible
      <4> QED BY <1>1, <4>3, ThreadsAssumption DEF IndInv, DeallocOnce
    <3>2. CASE ChangeStore(t)
      BY <1>1, <3>1, <3>2 DEF ChangeStore, Stores, IndInv, TypeOK, isa_t
    <3>3. CASE ChangeStoreRaw(t)
      BY <1>1, <3>1, <3>3, ThreadsAssumption
         DEF ChangeStoreRaw, Stores, RawIsa, IndInv, LockOK, Transcribes
    <3> QED BY <1>1, <2>2, <3>1, <3>2, <3>3, IsaStep
  <2> QED BY <1>1, <2>1, <2>2 DEF Next
<1>2. IndInv /\ IndInv' /\ [Next]_vars => [Moves]_vars
  BY <1>1
<1> QED BY <1>2, Invariance, PTL DEF Spec, IsaMoves
====
