---- MODULE ValueHolders ----
(***************************************************************************)
(* The two places that hold values for a program and hand them out under a *)
(* lock: associated objects (objc-references.mm), until the object they    *)
(* are associated with is deallocated, and properties (objc-accessors.mm). *)
(* Both retain a new value before they take the lock, swap the values      *)
(* under it and release the old one after it, since a release may run any  *)
(* code, also the deallocation of an object with associations of its own.  *)
(*                                                                         *)
(* A thread's todo list is the rest of the call it is in: the swap that is *)
(* to come and the releases and deallocations it will go on with.  The     *)
(* counts themselves are RootRefcount's, here a step each.  The program    *)
(* releases what it holds and passes only objects it holds.  A property is *)
(* atomic; its object lives on.                                            *)
(***************************************************************************)
EXTENDS Integers, FiniteSetsExt, SequencesExt

CONSTANTS
    Threads,
    Objects,        \* the objects, which are each other's values
    Nil,
    Keys,           \* keys of associations
    Properties,     \* the ivars of properties
    Policies,       \* of OBJC_ASSOCIATION_ASSIGN, _RETAIN_NONATOMIC and _RETAIN
    MaxHeld         \* bound: references of a thread to an object

\* What an instance has to give.
HoldersAssumption ==
    /\ Nil \notin Objects /\ MaxHeld \in Nat \ {0}
    /\ Policies \subseteq {"ASSIGN", "RETAIN_NONATOMIC", "RETAIN"}

VARIABLES
    refcount,       \* object -> its count
    freed,          \* the objects whose memory is free
    hasAssoc,       \* the objects with the has_assoc bit
    associations,   \* object -> key -> [value, policy]: its secondary table
    property,       \* property -> its value or Nil
    held,           \* thread -> object -> references of the program
    todo            \* thread -> what is left of its call

holderVars == <<refcount, freed, hasAssoc, associations, property, held, todo>>

Retaining == {"RETAIN_NONATOMIC", "RETAIN"}

\* An entry of a todo list.  A "release" of an object that was only assigned
\* is none.
Call(name, o) == [call |-> name, object |-> o]

NoTable == <<>>

Table(o) == associations[o]

releaseValue(association) ==
    IF association.policy \in Retaining THEN <<Call("release", association.value)>>
    ELSE <<>>

\* Mutant: the old value is released by the policy of the new one.
OldUnder(old, policy) == releaseValue([old EXCEPT !.policy = policy])

\* The old value is released by the policy it was set with.
Old(old, policy) == releaseValue(old)

-----------------------------------------------------------------------------
Init ==
    /\ refcount = [o \in Objects |-> 0] /\ freed = Objects /\ hasAssoc = {}
    /\ associations = [o \in Objects |-> NoTable]
    /\ property = [p \in Properties |-> Nil]
    /\ held = [t \in Threads |-> [o \in Objects |-> 0]]
    /\ todo = [t \in Threads |-> <<>>]

Idle(t) == todo[t] = <<>>

Holds(t, o) == held[t][o] > 0

\* Memory that was freed becomes another object, without the bit.
Alloc(t, o) ==
    /\ Idle(t) /\ o \in freed
    /\ refcount' = [refcount EXCEPT ![o] = 1] /\ freed' = freed \ {o}
    /\ hasAssoc' = hasAssoc \ {o} /\ held' = [held EXCEPT ![t][o] = 1]
    /\ UNCHANGED <<associations, property, todo>>

\* A thread retains an object another one holds, or lets go of one.
Pass(t, o) ==
    /\ Idle(t) /\ held[t][o] < MaxHeld /\ \E u \in Threads : Holds(u, o)
    /\ refcount' = [refcount EXCEPT ![o] = @ + 1] /\ held' = [held EXCEPT ![t][o] = @ + 1]
    /\ UNCHANGED <<freed, hasAssoc, associations, property, todo>>

LetGo(t, o) ==
    /\ Idle(t) /\ Holds(t, o)
    /\ held' = [held EXCEPT ![t][o] = @ - 1]
    /\ todo' = [todo EXCEPT ![t] = <<Call("release", o)>>]
    /\ UNCHANGED <<refcount, freed, hasAssoc, associations, property>>

\* A retained value that a getter returns is in the thread's autorelease pool.
Got(t, v) ==
    /\ held[t][v] < MaxHeld
    /\ refcount' = [refcount EXCEPT ![v] = @ + 1] /\ held' = [held EXCEPT ![t][v] = @ + 1]
    /\ UNCHANGED <<freed, hasAssoc, associations, property, todo>>

\* Only OBJC_ASSOCIATION_RETAIN has the getter retain.  The other policies
\* change nothing and leave the value to the program.
_object_get_associative_reference(t, o, k) ==
    /\ Idle(t) /\ Holds(t, o)
    /\ k \in DOMAIN Table(o) /\ Table(o)[k].policy = "RETAIN"
    /\ Got(t, Table(o)[k].value)

\* Before the lock: the new value is retained.
_object_set_associative_reference(t, o, k, v, policy) ==
    /\ Idle(t) /\ Holds(t, o) /\ (v # Nil => Holds(t, v))
    /\ refcount' = IF v # Nil /\ policy \in Retaining
                   THEN [refcount EXCEPT ![v] = @ + 1] ELSE refcount
    /\ todo' = [todo EXCEPT ![t] = <<[call |-> "associate", object |-> o, key |-> k,
                                      value |-> v, policy |-> policy]>>]
    /\ UNCHANGED <<freed, hasAssoc, associations, property, held>>

objc_removeAssociatedObjects(t, o) ==
    /\ Idle(t) /\ Holds(t, o) /\ o \in hasAssoc
    /\ todo' = [todo EXCEPT ![t] = <<Call("remove", o)>>]
    /\ UNCHANGED <<refcount, freed, hasAssoc, associations, property, held>>

objc_getProperty(t, p) == Idle(t) /\ property[p] # Nil /\ Got(t, property[p])

\* Before the lock: the slot is compared, and the new value retained.
reallySetProperty(t, p, v) ==
    /\ Idle(t) /\ property[p] # v /\ (v # Nil => Holds(t, v))
    /\ refcount' = IF v # Nil THEN [refcount EXCEPT ![v] = @ + 1] ELSE refcount
    /\ todo' = [todo EXCEPT ![t] = <<[call |-> "swap", property |-> p, value |-> v]>>]
    /\ UNCHANGED <<freed, hasAssoc, associations, property, held>>

-----------------------------------------------------------------------------
\* The steps of a call under way.
GoOn(t, calls) == todo' = [todo EXCEPT ![t] = calls \o Tail(@)]

Does(t, name) == ~Idle(t) /\ Head(todo[t]).call = name

\* The last release deallocates: associations, then the memory.
Release(t) ==
    /\ Does(t, "release")
    /\ LET o == Head(todo[t]).object IN
       /\ refcount' = [refcount EXCEPT ![o] = @ - 1]
       /\ GoOn(t, IF refcount[o] # 1 THEN <<>>
                  ELSE IF o \in hasAssoc THEN <<Call("remove", o), Call("free", o)>>
                  ELSE <<Call("free", o)>>)
    /\ UNCHANGED <<freed, hasAssoc, associations, property, held>>

\* Under the lock: the association is made, replaced or erased.  The bit is
\* set with the first one; an empty secondary table stays.
Associate(t) ==
    /\ Does(t, "associate")
    /\ LET c == Head(todo[t])
           has == c.key \in DOMAIN Table(c.object)
       IN /\ associations' = [associations EXCEPT ![c.object] =
                IF c.value # Nil
                THEN (c.key :> [value |-> c.value, policy |-> c.policy]) @@ @
                ELSE [k \in DOMAIN @ \ {c.key} |-> @[k]]]
          /\ hasAssoc' = IF c.value # Nil THEN hasAssoc \cup {c.object} ELSE hasAssoc
          /\ GoOn(t, IF has THEN Old(Table(c.object)[c.key], c.policy) ELSE <<>>)
    /\ UNCHANGED <<refcount, freed, property, held>>

\* Under the lock the secondary table is taken out, to be released after it.
_object_remove_assocations(t) ==
    /\ Does(t, "remove")
    /\ LET o == Head(todo[t]).object IN
       /\ GoOn(t, FoldLeft(LAMBDA s, k : s \o releaseValue(Table(o)[k]), <<>>,
                           SetToSeq(DOMAIN Table(o))))
       /\ associations' = [associations EXCEPT ![o] = NoTable]
    /\ UNCHANGED <<refcount, freed, hasAssoc, property, held>>

Free(t) ==
    /\ Does(t, "free")
    /\ freed' = freed \cup {Head(todo[t]).object}
    /\ GoOn(t, <<>>)
    /\ UNCHANGED <<refcount, hasAssoc, associations, property, held>>

\* Under the lock of the slot.
Swap(t) ==
    /\ Does(t, "swap")
    /\ LET c == Head(todo[t]) IN
       /\ property' = [property EXCEPT ![c.property] = c.value]
       /\ GoOn(t, IF property[c.property] = Nil THEN <<>>
                  ELSE <<Call("release", property[c.property])>>)
    /\ UNCHANGED <<refcount, freed, hasAssoc, associations, held>>

Step(t) ==
    Release(t) \/ Associate(t) \/ _object_remove_assocations(t) \/ Free(t) \/ Swap(t)

Next ==
    \E t \in Threads :
        \/ \E o \in Objects : Alloc(t, o) \/ Pass(t, o) \/ LetGo(t, o)
        \/ \E o \in Objects, k \in Keys :
              \/ _object_get_associative_reference(t, o, k)
              \/ \E v \in Objects \cup {Nil}, policy \in Policies :
                    _object_set_associative_reference(t, o, k, v, policy)
        \/ \E o \in Objects : objc_removeAssociatedObjects(t, o)
        \/ \E p \in Properties :
              \/ objc_getProperty(t, p)
              \/ \E v \in Objects \cup {Nil} : reallySetProperty(t, p, v)
        \/ Step(t)

Spec == Init /\ [][Next]_holderVars

-----------------------------------------------------------------------------
\* The references to an object in a call under way.
InCall(c, o) ==
    \/ c.call = "release" /\ c.object = o
    \/ c.call = "associate" /\ c.value = o /\ c.policy \in Retaining
    \/ c.call = "swap" /\ c.value = o

References(o) ==
    MapThenSumSet(LAMBDA t :
            held[t][o] + Cardinality({i \in DOMAIN todo[t] : InCall(todo[t][i], o)}),
        Threads)
    + Cardinality({<<a, k>> \in Objects \X Keys :
            k \in DOMAIN Table(a) /\ Table(a)[k].value = o
            /\ Table(a)[k].policy \in Retaining})
    + Cardinality({p \in Properties : property[p] = o})

\* Whatever retained a value still has it: the count of an object is the
\* number of the program's references, of the associations and properties that
\* retain it, and of the calls on their way from one to the other; an object
\* with a reference is not freed; and no object starts with the associations
\* of another one whose memory it has (objc-references.mm:216-337,
\* objc-accessors.mm:44-105).
ValuesHeld ==
    \A o \in Objects :
        /\ refcount[o] = References(o)
        /\ o \in freed => refcount[o] = 0 /\ associations[o] = NoTable
====
