---- MODULE ClassNames ----
(***************************************************************************)
(* How the runtime finds a class (objc-runtime-new.mm): by its name, by    *)
(* its metaclass, and where a class structure was reserved before the      *)
(* class was there, from the structure the compiler wrote to the one that  *)
(* is used.  The tables change when images are mapped and unmapped and     *)
(* when classes are made, registered and disposed of, each under           *)
(* runtimeLock in one step; only objc_getFutureClass takes the lock twice. *)
(*                                                                         *)
(* A metaclass is the class it was compiled or made for.  There is no      *)
(* shared cache; Swift's second names and objc_duplicateClass, whose       *)
(* duplicate shares a metaclass, are left out.                             *)
(***************************************************************************)
EXTENDS Integers

CONSTANTS
    Compiled,       \* class structures in images, each in one of its own
    NameOf,         \* compiled class -> its name; two may have the same
    WeakLinked,     \* those whose superclass may be missing
    Futures,        \* structures for future classes
    Made,           \* structures for classes made at run time
    Nil,
    AddressesReused \* an image is mapped again where a class of it was remapped

\* What an instance has to give.
NamesAssumption ==
    /\ Compiled \cap Futures = {} /\ Compiled \cap Made = {} /\ Futures \cap Made = {}
    /\ DOMAIN NameOf = Compiled /\ WeakLinked \subseteq Compiled
    /\ Nil \notin Compiled \cup Futures \cup Made /\ AddressesReused \in BOOLEAN

Names == {NameOf[c] : c \in Compiled}
Classes == Compiled \cup Futures \cup Made

VARIABLES
    status,     \* class -> absent, mapped, ignored, replaced, future,
                \*          constructing or constructed
    name,       \* class -> its name
    meta,       \* class -> its metaclass
    named,      \* gdb_objc_realized_classes: name -> class or Nil
    nonMeta,    \* nonmeta_class_map: metaclass -> class or Nil
    allocated,  \* allocatedClasses
    future,     \* future_named_class_map: name -> class or Nil
    remapped,   \* remapped_class_map: old class -> new one or Nil
    asked       \* names that objc_getFutureClass has not found

nameVars == <<status, name, meta, named, nonMeta, allocated, future, remapped, asked>>

Live(c) == status[c] \in {"mapped", "constructed"}

getClass(n) == named[n]

remapClass(c) == IF c \in DOMAIN remapped THEN remapped[c] ELSE c

\* Within the data segment of an image, or on the heap and in the table.
isKnownClass(c) ==
    \/ c \in Compiled /\ status[c] # "absent"
    \/ c \in allocated

\* A name that is in use stays with the old class, and the new one is found by
\* its metaclass only.
addNamedClass(c, m, n, replacing) ==
    IF getClass(n) # Nil /\ getClass(n) # replacing
    THEN nonMeta' = [nonMeta EXCEPT ![m] = c] /\ UNCHANGED named
    ELSE named' = [named EXCEPT ![n] = c] /\ UNCHANGED nonMeta

addClassTableEntry(c) ==
    allocated' = IF c \in Compiled THEN allocated ELSE allocated \cup {c}

\* Mutant: the name is removed whosever it is.
removeName(c) ==
    /\ named' = [named EXCEPT ![name[c]] = Nil]
    /\ nonMeta' = [nonMeta EXCEPT ![meta[c]] = Nil]

removeNamedClass(c) ==
    IF named[name[c]] = c
    THEN named' = [named EXCEPT ![name[c]] = Nil] /\ UNCHANGED nonMeta
    ELSE nonMeta' = [nonMeta EXCEPT ![meta[c]] = Nil] /\ UNCHANGED named

detach_class(c) == removeNamedClass(c) /\ allocated' = allocated \ {c}

-----------------------------------------------------------------------------
Init ==
    /\ status = [c \in Classes |-> "absent"]
    /\ name = [c \in Classes |-> IF c \in Compiled THEN NameOf[c] ELSE Nil]
    /\ meta = [c \in Classes |-> c]
    /\ named = [n \in Names |-> Nil] /\ nonMeta = [c \in Classes |-> Nil]
    /\ allocated = {} /\ future = [n \in Names |-> Nil]
    /\ remapped = [c \in {} |-> Nil] /\ asked = {}

Mappable(c) ==
    /\ c \in Compiled /\ status[c] = "absent"
    /\ c \in DOMAIN remapped => AddressesReused

addRemappedClass(c, new) ==
    remapped' = [d \in DOMAIN remapped \cup {c} |-> IF d = c THEN new ELSE remapped[d]]

\* readClass of a class whose weak-linked superclass is missing.
readIgnoredClass(c) ==
    /\ Mappable(c) /\ c \in WeakLinked
    /\ addRemappedClass(c, Nil)
    /\ status' = [status EXCEPT ![c] = "ignored"]
    /\ UNCHANGED <<name, meta, named, nonMeta, allocated, future, asked>>

\* readClass of a class whose name was reserved: the future class becomes it.
readFutureClass(c) ==
    LET n == NameOf[c]
        new == future[n]
    IN /\ Mappable(c) /\ new # Nil
       /\ future' = [future EXCEPT ![n] = Nil]
       /\ status' = [status EXCEPT ![c] = "replaced", ![new] = "mapped"]
       /\ meta' = [meta EXCEPT ![new] = c]
       /\ addRemappedClass(c, new)
       /\ addNamedClass(new, c, n, c) /\ addClassTableEntry(new)
       /\ UNCHANGED <<name, asked>>

readClass(c) ==
    /\ Mappable(c) /\ future[NameOf[c]] = Nil
    /\ status' = [status EXCEPT ![c] = "mapped"]
    /\ addNamedClass(c, c, NameOf[c], Nil) /\ addClassTableEntry(c)
    /\ UNCHANGED <<name, meta, future, remapped, asked>>

\* The image is unmapped; what the class was remapped to stays on record.
_unload_image(c) ==
    LET old == remapClass(c) IN
    /\ c \in Compiled /\ status[c] # "absent"
    /\ IF old = Nil THEN UNCHANGED <<named, nonMeta, allocated>> ELSE detach_class(old)
    /\ status' = [d \in Classes |-> IF d \in {c, old} THEN "absent" ELSE status[d]]
    /\ UNCHANGED <<name, meta, future, remapped, asked>>

\* objc_getFutureClass: the lock is free between the look-up of the class and
\* the reservation.
getFutureClass(n) ==
    /\ getClass(n) = Nil
    /\ asked' = asked \cup {n}
    /\ UNCHANGED <<status, name, meta, named, nonMeta, allocated, future, remapped>>

_objc_allocateFutureClass(n) ==
    /\ n \in asked /\ asked' = asked \ {n}
    /\ IF future[n] # Nil THEN UNCHANGED <<status, name, future>>
       ELSE \E f \in Futures :
              /\ status[f] = "absent"
              /\ status' = [status EXCEPT ![f] = "future"]
              /\ name' = [name EXCEPT ![f] = n]
              /\ future' = [future EXCEPT ![n] = f]
    /\ UNCHANGED <<meta, named, nonMeta, allocated, remapped>>

objc_allocateClassPair(c, n) ==
    /\ c \in Made /\ status[c] = "absent" /\ getClass(n) = Nil
    /\ status' = [status EXCEPT ![c] = "constructing"]
    /\ name' = [name EXCEPT ![c] = n]
    /\ addClassTableEntry(c)
    /\ UNCHANGED <<meta, named, nonMeta, future, remapped, asked>>

\* The name may have come into use since.
objc_registerClassPair(c) ==
    /\ status[c] = "constructing" /\ isKnownClass(c)
    /\ status' = [status EXCEPT ![c] = "constructed"]
    /\ addNamedClass(c, c, name[c], Nil)
    /\ UNCHANGED <<name, meta, allocated, future, remapped, asked>>

objc_disposeClassPair(c) ==
    /\ status[c] \in {"constructing", "constructed"} /\ isKnownClass(c)
    /\ detach_class(c)
    /\ status' = [status EXCEPT ![c] = "absent"]
    /\ UNCHANGED <<name, meta, future, remapped, asked>>

Next ==
    \/ \E c \in Classes :
          \/ readIgnoredClass(c) \/ readFutureClass(c) \/ readClass(c) \/ _unload_image(c)
          \/ objc_registerClassPair(c) \/ objc_disposeClassPair(c)
    \/ \E n \in Names :
          \/ getFutureClass(n) \/ _objc_allocateFutureClass(n)
          \/ \E c \in Classes : objc_allocateClassPair(c, n)

Spec == Init /\ [][Next]_nameVars

-----------------------------------------------------------------------------
(* The invariant that keeps NamesExact, where no address is reused.        *)

\* Who is in which table, and in which state (objc-runtime-new.mm:927-1370).
TypeOK ==
    /\ status \in [Classes -> {"absent", "mapped", "ignored", "replaced", "future",
                               "constructing", "constructed"}]
    /\ name \in [Classes -> Names \cup {Nil}] /\ meta \in [Classes -> Classes]
    /\ named \in [Names -> Classes \cup {Nil}]
    /\ nonMeta \in [Classes -> Classes \cup {Nil}]
    /\ allocated \subseteq Futures \cup Made
    /\ future \in [Names -> Futures \cup {Nil}]
    /\ DOMAIN remapped \subseteq Compiled
    /\ remapped \in [DOMAIN remapped -> Futures \cup {Nil}]
    /\ asked \subseteq Names

\* Each kind of structure has its own states, and a name while it is there.
KindsOK ==
    /\ \A c \in Compiled :
          /\ status[c] \in {"absent", "mapped", "ignored", "replaced"}
          /\ name[c] = NameOf[c]
    /\ \A c \in Futures : status[c] \in {"absent", "future", "mapped"}
    /\ \A c \in Made : status[c] \in {"absent", "constructing", "constructed"}
    /\ \A c \in Classes : status[c] # "absent" => name[c] \in Names

\* A future class that was taken has the metaclass of the class it stands for,
\* and that class leads to it and to no other; a class without one, none does.
RemapsOK ==
    /\ \A c \in Compiled \cup Made : meta[c] = c
    /\ \A f \in Futures : status[f] = "mapped" =>
          /\ meta[f] \in Compiled /\ status[meta[f]] = "replaced"
          /\ remapClass(meta[f]) = f
    /\ \A c \in Compiled :
          /\ status[c] = "mapped" => c \notin DOMAIN remapped
          /\ status[c] = "ignored" => c \in DOMAIN remapped /\ remapped[c] = Nil
          /\ status[c] = "replaced" =>
                /\ c \in DOMAIN remapped /\ remapped[c] \in Futures
                /\ status[remapped[c]] = "mapped" /\ meta[remapped[c]] = c

\* What is on the heap is known while it is there.
AllocatedOK ==
    \A c \in Futures \cup Made :
        c \in allocated <=> status[c] \in {"mapped", "constructing", "constructed"}

-----------------------------------------------------------------------------
\* A class that is there is found, by its name or else by its metaclass, and
\* never in both places, though classes with one name, also reserved and made
\* ones, come and go in any order; what a table yields is there; and a class on
\* the heap is known while it is there (objc-runtime-new.mm:1143-1184).
TablesFit ==
    /\ \A c \in Classes : Live(c) =>
          /\ isKnownClass(c)
          /\ (named[name[c]] = c) # (nonMeta[meta[c]] = c)
    /\ \A n \in Names :
          /\ named[n] # Nil => Live(named[n]) /\ name[named[n]] = n
          /\ future[n] # Nil => status[future[n]] = "future" /\ name[future[n]] = n
    /\ \A m \in Classes :
          nonMeta[m] # Nil => Live(nonMeta[m]) /\ meta[nonMeta[m]] = m
    /\ \A c \in allocated : status[c] \in {"mapped", "constructing", "constructed"}

\* What every step keeps.
IndInv == TypeOK /\ KindsOK /\ RemapsOK /\ AllocatedOK /\ TablesFit

\* remapClass yields the live class for a class of an image that is mapped
\* (objc-runtime-new.mm:1334-1340).
RemapsLive ==
    \A c \in Compiled :
        /\ status[c] = "ignored" <=> (status[c] # "absent" /\ remapClass(c) = Nil)
        /\ status[c] \in {"mapped", "replaced"} => Live(remapClass(c))

\* The tables of names fit the classes, and a reference to a class that was
\* taken for a future class leads to a live one
\* (objc-runtime-new.mm:927-1370, 1910-2220).
NamesExact == TablesFit /\ RemapsLive

\* The class of a metaclass, without an instance to start from: first by name,
\* where the class that has it is asked for its metaclass.
getNonMetaClass(m, n) ==
    IF named[n] # Nil /\ meta[named[n]] = m THEN named[n] ELSE nonMeta[m]

\* The look-up by name finds a class to compare (objc-runtime-new.mm:1441-1444).
NonMetaFound ==
    \A c \in Classes : Live(c) => named[name[c]] # Nil /\ getNonMetaClass(meta[c], name[c]) = c
====
