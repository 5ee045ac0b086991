---- MODULE AbstractWeak ----
(***************************************************************************)
(* What __weak variables promise a program: a weak variable holds an       *)
(* object only while the object is alive.  All the weak variables of an    *)
(* object become nil in the very step that gives up its last strong        *)
(* reference, and each load and store of one is a single step.             *)
(***************************************************************************)
EXTENDS Naturals

CONSTANTS
    Objects,
    Locations,   \* the weak variables
    Nil

VARIABLES
    weak,     \* what each weak variable yields when it is read
    strong,   \* the number of strong references to each object
    life      \* "live", "deallocating" or "freed"

vars == <<weak, strong, life>>

Init ==
    /\ weak = [l \in Locations |-> Nil]
    /\ strong \in [Objects -> Nat \ {0}]
    /\ life = [o \in Objects |-> "live"]

Retain(o) ==
    /\ strong[o] > 0
    /\ strong' = [strong EXCEPT ![o] = @ + 1]
    /\ UNCHANGED <<weak, life>>

(* A load of the weak variable l takes a strong reference.                 *)
Load(l) ==
    /\ weak[l] # Nil
    /\ strong' = [strong EXCEPT ![weak[l]] = @ + 1]
    /\ UNCHANGED <<weak, life>>

Store(l, value) ==
    /\ value # Nil => life[value] = "live"
    /\ weak' = [weak EXCEPT ![l] = value]
    /\ UNCHANGED <<strong, life>>

Release(o) ==
    /\ strong[o] > 0
    /\ strong' = [strong EXCEPT ![o] = @ - 1]
    /\ IF strong[o] = 1
       THEN /\ life' = [life EXCEPT ![o] = "deallocating"]
            /\ weak' = [l \in Locations |->
                           IF weak[l] = o THEN Nil ELSE weak[l]]
       ELSE UNCHANGED <<weak, life>>

Free(o) ==
    /\ life[o] = "deallocating"
    /\ life' = [life EXCEPT ![o] = "freed"]
    /\ UNCHANGED <<weak, strong>>

Alloc(o) ==
    /\ life[o] = "freed"
    /\ life' = [life EXCEPT ![o] = "live"]
    /\ strong' = [strong EXCEPT ![o] = 1]
    /\ UNCHANGED weak

Next ==
    \/ \E o \in Objects : Retain(o) \/ Release(o) \/ Free(o) \/ Alloc(o)
    \/ \E l \in Locations :
           Load(l) \/ \E value \in Objects \cup {Nil} : Store(l, value)

Spec == Init /\ [][Next]_vars
====
