---- MODULE Locks ----
(***************************************************************************)
(* The runtime's locks: the order declared for them (objc-os.mm), the      *)
(* checks of a debug build (objc-lockdebug.mm), how operations of the      *)
(* runtime nest them, and fork, which takes every lock before and frees    *)
(* or resets it after, so that the child may use the runtime.              *)
(*                                                                         *)
(* A lock is a name and a stripe, which is 1 unless the lock is one of a   *)
(* StripedMap, whose locks have the order of their addresses.  The order   *)
(* is declared before the first lock is taken.  A look-up in the graph is  *)
(* remembered; once the graph is complete, what was remembered while it    *)
(* grew is all that could be wrong.                                        *)
(***************************************************************************)
EXTENDS Integers, SequencesExt, TLC

CONSTANTS
    Threads,
    Nil,
    Stripes,        \* the locks of a StripedMap
    MaxDepth        \* bound: locks that an operation nests

\* What an instance has to give.
LocksAssumption == Nil \notin Threads /\ Stripes \in Nat \ {0} /\ MaxDepth \in Nat

StripedMaps == {"SideTableLocks", "PropertyLocks", "StructLocks", "CppObjectLocks"}
SingleLocks ==
    {"loadMethodLock", "classInitLock", "runtimeLock", "DemangleCacheLock", "selLock",
     "cacheUpdateLock", "objcMsgLogLock", "AltHandlerDebugLock",
     "AssociationsManagerLock", "crashlog_lock"}
LockNames == StripedMaps \cup SingleLocks

StripesOf(name) == IF name \in StripedMaps THEN [i \in 1 .. Stripes |-> <<name, i>>]
                   ELSE <<<<name, 1>>>>
Only(name) == <<name, 1>>

AllLocks == UNION {ToSet(StripesOf(name)) : name \in LockNames}

\* load_images runs in a +load that load_images has called.
Recursive(l) == l = Only("loadMethodLock")

-----------------------------------------------------------------------------
\* The declarations.  A map precedes a lock with its last stripe and succeeds
\* one with its first.
Pair(name, other) == <<Last(StripesOf(name)), StripesOf(other)[1]>>

Before(name, others) == [i \in DOMAIN others |-> Pair(name, others[i])]

SideTableLocksSucceedLocks(name) ==
    [i \in DOMAIN StripesOf(name) |-> <<StripesOf(name)[i], Only("SideTableLocks")>>]

AddressOrder(name) ==
    [i \in 1 .. Stripes - 1 |-> <<<<name, i>>, <<name, i + 1>>>>]

Preceding == <<"runtimeLock", "DemangleCacheLock", "classInitLock", "selLock",
               "cacheUpdateLock", "objcMsgLogLock", "AltHandlerDebugLock">>

defineLockOrder ==
    FlattenSeq(<<
        [i \in 1 .. 13 |-> Pair(
            <<"loadMethodLock", "classInitLock", "runtimeLock", "DemangleCacheLock",
              "selLock", "cacheUpdateLock", "objcMsgLogLock", "AltHandlerDebugLock",
              "AssociationsManagerLock", "SideTableLocks", "PropertyLocks",
              "StructLocks", "CppObjectLocks">>[i], "crashlog_lock")],
        Before("loadMethodLock",
            <<"classInitLock", "runtimeLock", "DemangleCacheLock", "selLock",
              "cacheUpdateLock", "objcMsgLogLock", "AltHandlerDebugLock",
              "AssociationsManagerLock", "SideTableLocks", "PropertyLocks",
              "StructLocks", "CppObjectLocks">>),
        FlattenSeq([i \in DOMAIN Preceding |->
            <<Pair("PropertyLocks", Preceding[i]), Pair("CppObjectLocks", Preceding[i]),
              Pair("AssociationsManagerLock", Preceding[i])>>]),
        SideTableLocksSucceedLocks("PropertyLocks"),
        SideTableLocksSucceedLocks("CppObjectLocks"),
        <<Pair("AssociationsManagerLock", "SideTableLocks"),
          Pair("PropertyLocks", "AssociationsManagerLock"),
          Pair("CppObjectLocks", "AssociationsManagerLock"),
          Pair("classInitLock", "runtimeLock")>>,
        Before("SideTableLocks", <<"runtimeLock", "classInitLock">>),
        Before("runtimeLock", <<"selLock", "cacheUpdateLock", "DemangleCacheLock">>),
        AddressOrder("SideTableLocks"), AddressOrder("PropertyLocks"),
        AddressOrder("StructLocks"), AddressOrder("CppObjectLocks")>>)

\* The locks that an operation takes while it holds one of a name.  A +load
\* method may do anything; a property, an association or a C++ object is
\* locked while objc_retain or a copy runs; a side table while storeWeak looks
\* a method up, which may initialize a class; and anything may fail.
Nested(name) ==
    {"crashlog_lock"} \cup
    CASE name = "loadMethodLock" -> LockNames
      [] name \in {"PropertyLocks", "CppObjectLocks"} ->
            {"AssociationsManagerLock", "SideTableLocks", "classInitLock", "runtimeLock",
             "selLock", "objcMsgLogLock", "AltHandlerDebugLock"}
      [] name = "AssociationsManagerLock" ->
            {"SideTableLocks", "classInitLock", "runtimeLock"}
      [] name = "SideTableLocks" -> {"classInitLock", "runtimeLock"}
      [] name = "classInitLock" -> {"runtimeLock"}
      [] name = "runtimeLock" -> {"selLock", "cacheUpdateLock", "DemangleCacheLock"}
      [] OTHER -> {}

\* Mutant: two locks of one map as they come.
lockBoth(l) ==
    IF l[1] \in StripedMaps \ {"PropertyLocks"} THEN {<<l[1], i>> : i \in 1 .. Stripes} \ {l}
    ELSE {}

\* Two locks of one map are taken in the order of their addresses.  Property
\* locks are taken alone.
lockTwo(l) ==
    IF l[1] \in StripedMaps \ {"PropertyLocks"} THEN {<<l[1], i>> : i \in l[2] + 1 .. Stripes}
    ELSE {}

PrepareNames == <<"loadMethodLock", "PropertyLocks", "CppObjectLocks",
    "AssociationsManagerLock", "SideTableLocks", "classInitLock", "runtimeLock",
    "DemangleCacheLock", "selLock", "cacheUpdateLock", "objcMsgLogLock",
    "AltHandlerDebugLock", "StructLocks", "crashlog_lock">>

PrepareOrder == FlattenSeq([i \in DOMAIN PrepareNames |-> StripesOf(PrepareNames[i])])

VARIABLES
    order,          \* lock -> the locks declared to precede it, and those before them
    memo,           \* <<old lock, new lock>> -> the answer remembered
    fatal,          \* a debug build has called _objc_fatal; another goes on
    owner,          \* lock -> the thread that holds it, or Nil
    held,           \* thread -> sequence of the locks it holds
    want,           \* thread -> the lock it waits for, or Nil
    preparing,      \* thread in _objc_atfork_prepare -> the locks still to take
    alive           \* the threads of the process

lockVars == <<order, memo, fatal, owner, held, want, preparing, alive>>

-----------------------------------------------------------------------------
\* The graph while it is declared: order, memo and fatal.
lockPrecedesLock(g, old, new) ==
    IF <<old, new>> \in DOMAIN g.memo THEN g.memo[<<old, new>>] ELSE old \in g.order[new]

\* The search asks one predecessor after the other, each of which remembers
\* its answer; one that fails has asked them all.
Remember(g, old, new) ==
    LET asked == {<<old, l>> : l \in {new} \cup g.order[new]} \ DOMAIN g.memo
    IN [k \in asked |-> k[1] \in g.order[k[2]]] @@ g.memo

\* A lock is in the list from its first pair.
Listed(g, l) == g.order[l] # {} \/ \E m \in DOMAIN g.order : l \in g.order[m]

\* A contradiction is looked for first, if both locks are known.
lockdebug_lock_precedes_lock(g, pair) ==
    LET old == pair[1]
        new == pair[2]
        known == Listed(g, old) /\ Listed(g, new)
    IN [fatal |-> g.fatal \/ (known /\ lockPrecedesLock(g, new, old)),
        memo |-> IF known THEN Remember(g, new, old) ELSE g.memo,
        order |-> [l \in DOMAIN g.order |->
                     IF l = new \/ new \in g.order[l]
                     THEN g.order[l] \cup {old} \cup g.order[old] ELSE g.order[l]]]

Init ==
    /\ LET g == FoldLeft(lockdebug_lock_precedes_lock,
                    [order |-> [l \in AllLocks |-> {}], memo |-> <<>>, fatal |-> FALSE],
                    defineLockOrder)
       IN order = g.order /\ memo = g.memo /\ fatal = g.fatal
    /\ owner = [l \in AllLocks |-> Nil]
    /\ held = [t \in Threads |-> <<>>] /\ want = [t \in Threads |-> Nil]
    /\ preparing = <<>> /\ alive = Threads

-----------------------------------------------------------------------------
Forks(t) == t \in DOMAIN preparing

Owned(t) == ToSet(held[t])

\* lockdebug_mutex_lock and its like, with setLock: a mutex is not locked
\* twice, and a lock is not taken after one it precedes, nor, but in fork,
\* with one it has no order with.
Accepts(t, l) ==
    IF l \in Owned(t) THEN Recursive(l)
    ELSE \A m \in Owned(t) : l \notin order[m] /\ (Forks(t) \/ m \in order[l])

\* The check comes before the wait.  What the complete graph answers need not
\* be remembered.
Ask(t, l) ==
    /\ want' = [want EXCEPT ![t] = l] /\ fatal' = (fatal \/ ~Accepts(t, l)) /\ memo' = <<>>
    /\ UNCHANGED <<order, owner, held, alive>>

Runs(t) == t \in alive /\ want[t] = Nil

\* The lock that an operation of the runtime starts with, or the next of a nest.
Reached(t) ==
    IF held[t] = <<>> THEN DOMAIN owner
    ELSE {l \in DOMAIN owner : l[1] \in Nested(Last(held[t])[1])
                               /\ (l \in Owned(t) => Recursive(l))}
         \cup (lockTwo(Last(held[t])) \ Owned(t))

lock(t) ==
    /\ Runs(t) /\ ~Forks(t) /\ Len(held[t]) < MaxDepth
    /\ \E l \in Reached(t) : Ask(t, l)
    /\ UNCHANGED preparing

Locked(t) ==
    /\ t \in alive /\ want[t] # Nil /\ owner[want[t]] \in {Nil, t}
    /\ owner' = [owner EXCEPT ![want[t]] = t]
    /\ held' = [held EXCEPT ![t] = Append(@, want[t])]
    /\ want' = [want EXCEPT ![t] = Nil]
    /\ UNCHANGED <<order, memo, fatal, preparing, alive>>

unlock(t) ==
    /\ Runs(t) /\ ~Forks(t) /\ held[t] # <<>>
    /\ held' = [held EXCEPT ![t] = Front(@)]
    /\ owner' = IF Last(held[t]) \in ToSet(Front(held[t])) THEN owner
                ELSE [owner EXCEPT ![Last(held[t])] = Nil]
    /\ UNCHANGED <<order, memo, fatal, want, preparing, alive>>

\* A thread that forks holds no lock, and takes them all.
Fork(t) ==
    /\ Runs(t) /\ ~Forks(t) /\ held[t] = <<>>
    /\ preparing' = (t :> PrepareOrder) @@ preparing
    /\ UNCHANGED <<order, memo, fatal, owner, held, want, alive>>

_objc_atfork_prepare(t) ==
    /\ Runs(t) /\ Forks(t) /\ preparing[t] # <<>>
    /\ Ask(t, Head(preparing[t]))
    /\ preparing' = [preparing EXCEPT ![t] = Tail(@)]

\* lockdebug_assert_all_locks_locked, then all are freed.
Forked(t) ==
    /\ Runs(t) /\ Forks(t) /\ preparing[t] = <<>>
    /\ fatal' = (fatal \/ Owned(t) # DOMAIN owner)
    /\ owner' = [l \in DOMAIN owner |-> IF owner[l] = t THEN Nil ELSE owner[l]]
    /\ held' = [held EXCEPT ![t] = <<>>]
    /\ UNCHANGED <<order, memo, want>>

_objc_atfork_parent(t) ==
    /\ Forked(t)
    /\ preparing' = [u \in DOMAIN preparing \ {t} |-> preparing[u]]
    /\ UNCHANGED alive

\* The other threads are gone.
_objc_atfork_child(t) == Forked(t) /\ preparing' = <<>> /\ alive' = {t}

Next ==
    \E t \in Threads :
        \/ lock(t) \/ Locked(t) \/ unlock(t)
        \/ Fork(t) \/ _objc_atfork_prepare(t) \/ _objc_atfork_parent(t)
        \/ _objc_atfork_child(t)

Spec == Init /\ [][Next]_lockVars

-----------------------------------------------------------------------------
\* The declarations do not contradict each other, no answer remembered while
\* they were made is wrong at the end, and no operation of the runtime and no
\* fork takes a lock in an order that a debug build refuses, or that none was
\* declared for (objc-lockdebug.mm:131-152, :217-252, objc-os.mm:653-806).
OrderKept ==
    /\ ~fatal
    /\ \A k \in DOMAIN memo : memo[k] = (k[1] \in order[k[2]])

Waits(t) == t \in alive /\ want[t] # Nil /\ owner[want[t]] \notin {Nil, t}

\* No threads wait for each other in a circle, with a fork under way or not;
\* and in the child of a fork no thread that is gone has a lock
\* (objc-os.h:812-822, objc-os.mm:771-866).
LocksFree ==
    /\ \A ts \in (SUBSET Threads) \ {{}} :
          ~ \A t \in ts : Waits(t) /\ owner[want[t]] \in ts
    /\ \A l \in DOMAIN owner : owner[l] # Nil => owner[l] \in alive /\ l \in Owned(owner[l])
====
