---- MODULE AbstractRefcount ----
(***************************************************************************)
(* What retain and release promise a program, without saying how: an       *)
(* object lives exactly as long as somebody holds a strong reference to    *)
(* it.  There is no count here, only the references themselves.            *)
(***************************************************************************)
EXTENDS FiniteSets

CONSTANTS
    Threads,
    NoThread,
    Refs

VARIABLES
    owner,        \* the thread behind each strong reference
    life,         \* "live", "deallocating" or "free"
    deallocator   \* the thread running -dealloc

vars == <<owner, life, deallocator>>

Held == {r \in Refs : owner[r] # NoThread}
HeldBy(t) == {r \in Refs : owner[r] = t}

Init ==
    /\ \E t \in Threads, r \in Refs :
           owner = [q \in Refs |-> IF q = r THEN t ELSE NoThread]
    /\ life = "live"
    /\ deallocator = NoThread

Acquire(t) ==
    \E r \in Refs \ Held : owner' = [owner EXCEPT ![r] = t]

(* A strong reference begets another; -dealloc may retain self.            *)
Retain(t) ==
    /\ HeldBy(t) # {} \/ deallocator = t
    /\ Acquire(t)
    /\ UNCHANGED <<life, deallocator>>

(* A weak variable yields a reference only to a live object.               *)
LoadWeak(t) ==
    /\ life = "live"
    /\ Acquire(t)
    /\ UNCHANGED <<life, deallocator>>

Release(t) ==
    \E r \in HeldBy(t) :
        /\ owner' = [owner EXCEPT ![r] = NoThread]
        /\ IF life = "live" /\ Held = {r}
           THEN life' = "deallocating" /\ deallocator' = t
           ELSE UNCHANGED <<life, deallocator>>

(* A strong reference passes from one thread to another.                   *)
Give(t) ==
    /\ life = "live"
    /\ \E r \in HeldBy(t), u \in Threads : owner' = [owner EXCEPT ![r] = u]
    /\ UNCHANGED <<life, deallocator>>

Free(t) ==
    /\ life = "deallocating" /\ deallocator = t /\ Held = {}
    /\ life' = "free" /\ deallocator' = NoThread
    /\ UNCHANGED owner

Alloc(t) ==
    /\ life = "free"
    /\ Acquire(t)
    /\ life' = "live"
    /\ UNCHANGED deallocator

Next ==
    \E t \in Threads :
        \/ Retain(t) \/ LoadWeak(t) \/ Release(t) \/ Give(t)
        \/ Free(t) \/ Alloc(t)

Spec == Init /\ [][Next]_vars
====
