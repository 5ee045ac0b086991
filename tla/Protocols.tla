---- MODULE Protocols ----
(***************************************************************************)
(* Protocols (objc-runtime-new.mm): the table of them by name, to which    *)
(* images and the program add; the lists of a protocol, which are sorted   *)
(* for binary search when it is first asked; and the conformance of        *)
(* protocols and classes.  A protocol refers to another by a structure     *)
(* that may have lost to one of the same name or have been reallocated, so *)
(* that every use of a reference looks its name up again.                  *)
(*                                                                         *)
(* Each action is a hold of runtimeLock; class_addProtocol takes it twice. *)
(* A selector is its address.  Images stay mapped, and Swift's names and   *)
(* the shared cache are left out.                                          *)
(***************************************************************************)
EXTENDS Integers, SequencesExt

CONSTANTS
    Images,         \* sequence of images, each the sequence of its structures
    NameOf,         \* structure -> name, of those in images and at run time
    Incorporated,   \* structure of an image -> sequence of structures
    Declared,       \* structure of an image -> kind -> sequence of selectors
    Extended,       \* those with extended method types
    CopyOf,         \* those too small for protocol_t -> the one reallocated
    Made,           \* structures made at run time
    MaxAdded,       \* bound: what is added to one of those or to a class
    Selectors,      \* bound: the selectors that are added
    PropertyNames,  \* bound: the properties that are added
    AddedKinds,     \* bound: the kinds they are added to
    Holders,        \* classes that adopt protocols at run time
    Threads,
    Nil,
    NamesReserved   \* the program registers no name that came into use since

Structures == DOMAIN NameOf
Compiled == DOMAIN Declared

\* What an instance has to give: the protocols an image refers to are in it.
ProtocolsAssumption ==
    /\ Made \cap Compiled = {} /\ Compiled \cup Made = Structures
    /\ Extended \subseteq Compiled /\ DOMAIN CopyOf \subseteq Compiled
    /\ \A i \in DOMAIN Images :
          \A p \in ToSet(Images[i]) : ToSet(Incorporated[p]) \subseteq ToSet(Images[i])
    /\ NamesReserved \in BOOLEAN /\ MaxAdded \in Nat

Names == {NameOf[p] : p \in Structures}

\* The method lists, required then optional, instance then class.
MethodKinds == 1 .. 4
Properties == 5
Kinds == MethodKinds \cup {Properties}

VARIABLES
    read,           \* images whose protocols were read
    protocols,      \* name -> structure or Nil
    fixedUp,        \* structures marked as fixed up
    sorted,         \* <<structure, kind>>: lists marked as uniqued and sorted
    lists,          \* structure -> kind -> sequence of selectors or names
    types,          \* structure with extended types -> sequence of types
    incorporated,   \* structure -> sequence of structures
    made,           \* structure made at run time -> none, incomplete or complete
    adopted,        \* class -> sequence of structures
    adopting        \* thread -> <<class, structure>> checked for, or Nil

protocolVars == <<read, protocols, fixedUp, sorted, lists, types, incorporated,
                  made, adopted, adopting>>

\* The structure whose lists a reallocated copy shares.
Original(p) ==
    IF \E c \in DOMAIN CopyOf : CopyOf[c] = p
    THEN CHOOSE c \in DOMAIN CopyOf : CopyOf[c] = p ELSE p

Name(p) == NameOf[Original(p)]

getProtocol(n) == protocols[n]

remapProtocol(p) == IF getProtocol(Name(p)) # Nil THEN getProtocol(Name(p)) ELSE p

List(p, k) == lists[Original(p)][k]

Subs(p) == [i \in DOMAIN incorporated[Original(p)] |->
                remapProtocol(incorporated[Original(p)][i])]

-----------------------------------------------------------------------------
\* The extended types are one array for the four lists, as they were declared.
TypesOf(p) ==
    FlattenSeq([k \in MethodKinds |->
        [i \in DOMAIN Declared[p][k] |-> <<p, k, Declared[p][k][i]>>]])

getExtendedTypesIndexesForMethod(p, k) ==
    LET n == [j \in MethodKinds |-> IF j < k THEN Len(List(p, j)) ELSE 0]
    IN n[1] + n[2] + n[3] + n[4]

\* Where the method that comes i-th by address stands.
Order(selectors) ==
    SortSeq([i \in DOMAIN selectors |-> i],
            LAMBDA i, j : selectors[i] < selectors[j])

\* The first of the methods with the selector, or 0: the binary search.
findMethodInSortedMethodList(key, list) ==
    LET search[base \in 0 .. Len(list), count \in 0 .. Len(list)] ==
            LET probe == base + count \div 2 IN
            IF count = 0 THEN 0
            ELSE IF list[probe + 1] = key
            THEN CHOOSE i \in 1 .. probe + 1 :
                    list[i] = key /\ (i > 1 => list[i - 1] # key)
            ELSE IF key > list[probe + 1] THEN search[probe + 1, (count - 1) \div 2]
            ELSE search[base, count \div 2]
    IN search[0, Len(list)]

search_method_list(p, k, key) ==
    IF <<Original(p), k>> \in sorted THEN findMethodInSortedMethodList(key, List(p, k))
    ELSE SelectInSeq(List(p, k), LAMBDA s : s = key)

\* The structure and the place in its list where a method is found, or Nil.
RECURSIVE protocol_getMethod_nolock(_, _, _)
protocol_getMethod_nolock(p, k, key) ==
    LET own == search_method_list(p, k, key)
        found == [i \in DOMAIN Subs(p) |-> protocol_getMethod_nolock(Subs(p)[i], k, key)]
        first == SelectInSeq(found, LAMBDA m : m # Nil)
    IN IF own # 0 THEN <<p, own>> ELSE IF first # 0 THEN found[first] ELSE Nil

RECURSIVE protocol_getMethodTypeEncoding_nolock(_, _, _)
protocol_getMethodTypeEncoding_nolock(p, k, key) ==
    LET own == search_method_list(p, k, key)
        found == [i \in DOMAIN Subs(p) |->
                    protocol_getMethodTypeEncoding_nolock(Subs(p)[i], k, key)]
        first == SelectInSeq(found, LAMBDA m : m # Nil)
    IN IF Original(p) \notin Extended THEN Nil
       ELSE IF own # 0 THEN types[Original(p)][getExtendedTypesIndexesForMethod(p, k) + own]
       ELSE IF first # 0 THEN found[first] ELSE Nil

RECURSIVE protocol_getProperty_nolock(_, _)
protocol_getProperty_nolock(p, n) ==
    IF Contains(List(p, Properties), n) THEN TRUE
    ELSE \E i \in DOMAIN Subs(p) : protocol_getProperty_nolock(Subs(p)[i], n)

\* The names of a protocol and of all it incorporates.
RECURSIVE Inherited(_)
Inherited(p) == {Name(p)} \cup UNION {Inherited(q) : q \in ToSet(Subs(p))}

\* By name, so that no structure need be fixed up.
protocol_conformsToProtocol_nolock(p, q) == Name(q) \in Inherited(p)

InheritedByClass(c) ==
    UNION {Inherited(remapProtocol(p)) : p \in ToSet(adopted[c])}

class_conformsToProtocol(c, q) == Name(q) \in InheritedByClass(c)

-----------------------------------------------------------------------------
Init ==
    /\ read = {} /\ protocols = [n \in Names |-> Nil] /\ fixedUp = {} /\ sorted = {}
    /\ lists = [p \in Structures |->
                  [k \in Kinds |-> IF p \in Compiled THEN Declared[p][k] ELSE <<>>]]
    /\ types = [p \in Extended |-> TypesOf(p)]
    /\ incorporated = [p \in Structures |->
                         IF p \in Compiled THEN Incorporated[p] ELSE <<>>]
    /\ made = [p \in Made |-> "none"]
    /\ adopted = [c \in Holders |-> <<>>] /\ adopting = [t \in Threads |-> Nil]

\* Mutant: the last definition wins.
readProtocolLast(table, p) == [table EXCEPT ![NameOf[p]] = p]

\* The first definition of a name wins, in place if it is large enough.
readProtocol(table, p) ==
    IF table[NameOf[p]] # Nil THEN table
    ELSE [table EXCEPT ![NameOf[p]] = IF p \in DOMAIN CopyOf THEN CopyOf[p] ELSE p]

_read_images(i) ==
    /\ i \notin read /\ read' = read \cup {i}
    /\ protocols' = FoldLeft(readProtocol, protocols, Images[i])
    /\ UNCHANGED <<fixedUp, sorted, lists, types, incorporated, made, adopted, adopting>>

\* The protocols one is fixed up with: those it incorporates, unless they are.
RECURSIVE ToFix(_)
ToFix(p) ==
    {p} \cup UNION {ToFix(q) : q \in {q \in ToSet(Subs(p)) : q \notin fixedUp}}

\* A list is sorted once, and with it its part of the extended types.
fixupProtocolMethodList(ps) ==
    LET Sort(p, k) == IF k \in MethodKinds /\ <<p, k>> \notin sorted
                      THEN Order(lists[p][k]) ELSE [i \in DOMAIN lists[p][k] |-> i]
        Sorted(p, k) == LET order == Sort(p, k) IN [i \in DOMAIN order |-> lists[p][k][order[i]]]
        SortedTypes(p, k) ==
            LET prefix == getExtendedTypesIndexesForMethod(p, k)
                order == Sort(p, k)
            IN [i \in DOMAIN order |-> types[p][prefix + order[i]]]
    IN /\ lists' = [p \in Structures |->
            IF p \in ps THEN [k \in Kinds |-> Sorted(p, k)] ELSE lists[p]]
       /\ types' = [p \in Extended |-> IF p \notin ps THEN types[p]
            ELSE SortedTypes(p, 1) \o SortedTypes(p, 2) \o SortedTypes(p, 3)
                 \o SortedTypes(p, 4)]
       /\ sorted' = sorted \cup
            {<<p, k>> \in ps \X MethodKinds : Len(lists[p][k]) # 0}

\* fixupProtocolIfNeeded; a thread that waited for another's finds all done.
fixupProtocol(p) ==
    /\ p \notin fixedUp /\ p = getProtocol(Name(p))
    /\ fixedUp' = fixedUp \cup ToFix(p)
    /\ fixupProtocolMethodList({Original(q) : q \in ToFix(p)})
    /\ UNCHANGED <<read, protocols, incorporated, made, adopted, adopting>>

objc_allocateProtocol(p) ==
    /\ made[p] = "none" /\ getProtocol(NameOf[p]) = Nil
    /\ made' = [made EXCEPT ![p] = "incomplete"]
    /\ UNCHANGED <<read, protocols, fixedUp, sorted, lists, types, incorporated,
                   adopted, adopting>>

\* Its name was free when the protocol was allocated.
objc_registerProtocol(p) ==
    /\ made[p] = "incomplete" /\ NamesReserved => getProtocol(NameOf[p]) = Nil
    /\ made' = [made EXCEPT ![p] = "complete"]
    /\ protocols' = [protocols EXCEPT ![NameOf[p]] = p]
    /\ UNCHANGED <<read, fixedUp, sorted, lists, types, incorporated, adopted, adopting>>

Added(p) == Len(incorporated[p]) + Len(FlattenSeq(lists[p]))

protocol_addProtocol(p, q) ==
    /\ made[p] = "incomplete" /\ Added(p) < MaxAdded
    /\ incorporated' = [incorporated EXCEPT ![p] = Append(@, q)]
    /\ UNCHANGED <<read, protocols, fixedUp, sorted, lists, types, made, adopted, adopting>>

\* The list is marked as sorted from its first method.
protocol_addMethodDescription(p, k, s) ==
    /\ made[p] = "incomplete" /\ Added(p) < MaxAdded
    /\ lists' = [lists EXCEPT ![p][k] = Append(@, s)]
    /\ sorted' = sorted \cup {<<p, k>>}
    /\ UNCHANGED <<read, protocols, fixedUp, types, incorporated, made, adopted, adopting>>

protocol_addProperty(p, n) ==
    /\ made[p] = "incomplete" /\ Added(p) < MaxAdded
    /\ lists' = [lists EXCEPT ![p][Properties] = Append(@, n)]
    /\ UNCHANGED <<read, protocols, fixedUp, sorted, types, incorporated, made,
                   adopted, adopting>>

\* class_addProtocol: the lock is free between the check and the addition.
class_addProtocol(t, c, p) ==
    /\ adopting[t] = Nil /\ Len(adopted[c]) < MaxAdded /\ ~class_conformsToProtocol(c, p)
    /\ adopting' = [adopting EXCEPT ![t] = <<c, p>>]
    /\ UNCHANGED <<read, protocols, fixedUp, sorted, lists, types, incorporated,
                   made, adopted>>

attachLists(t) ==
    /\ adopting[t] # Nil
    /\ adopted' = [adopted EXCEPT ![adopting[t][1]] = <<adopting[t][2]>> \o @]
    /\ adopting' = [adopting EXCEPT ![t] = Nil]
    /\ UNCHANGED <<read, protocols, fixedUp, sorted, lists, types, incorporated, made>>

\* What the program can hold: the protocols in the table.
Registered == {protocols[n] : n \in Names} \ {Nil}

Next ==
    \/ \E i \in DOMAIN Images : _read_images(i)
    \/ \E p \in Registered : fixupProtocol(p)
    \/ \E p \in Made :
          \/ objc_allocateProtocol(p) \/ objc_registerProtocol(p)
          \/ \E q \in Registered : protocol_addProtocol(p, q)
          \/ \E s \in Selectors, k \in AddedKinds : protocol_addMethodDescription(p, k, s)
          \/ \E n \in PropertyNames : protocol_addProperty(p, n)
    \/ \E t \in Threads :
          \/ \E c \in Holders, p \in Registered : class_addProtocol(t, c, p)
          \/ attachLists(t)

Spec == Init /\ [][Next]_protocolVars

-----------------------------------------------------------------------------
Conformed(p) == {q \in Registered : Name(q) \in Inherited(p)}

\* A protocol that is fixed up has all it incorporates fixed up, whichever
\* structures they are now, which the look-ups assert
\* (objc-runtime-new.mm:3331, :3386).
LookupsReady ==
    \A p \in fixedUp \cap Registered : ToSet(Subs(p)) \subseteq fixedUp

\* Whether a list is as the binary search takes it to be; that of a protocol
\* made at run time stays as its methods were added.
Ascending(list) == \A i, j \in DOMAIN list : i < j => list[i] <= list[j]

\* Methods and properties are found from a protocol exactly if it conforms to
\* one that lists them, however the conformance came about; none is found in a
\* structure that lost its name to another, or at another's place.  A type is
\* the one declared for the method in a protocol that lists it, and a protocol
\* with extended types has one for each of its own methods
\* (objc-runtime-new.mm:3157-3427, :3487-3639).  Methods added to a protocol at
\* run time may be missed, though only if they were not added in the order of
\* their addresses (AddedFound); methods of images never are.
DeclaredFound ==
    \A p \in fixedUp \cap Registered :
        /\ \A k \in MethodKinds : \A s \in UNION {ToSet(lists[q][k]) : q \in Structures} :
              LET listing == {q \in Conformed(p) : Contains(List(q, k), s)}
                  found == protocol_getMethod_nolock(p, k, s)
                  type == protocol_getMethodTypeEncoding_nolock(p, k, s)
              IN  /\ IF found = Nil
                     THEN \A q \in listing : q \in Made /\ ~ Ascending(List(q, k))
                     ELSE found[1] \in listing /\ List(found[1], k)[found[2]] = s
                  /\ type # Nil => \E q \in listing : type = <<Original(q), k, s>>
                  /\ (p \in listing /\ Original(p) \in Extended) => type = <<Original(p), k, s>>
        /\ \A n \in UNION {ToSet(lists[q][Properties]) : q \in Structures} :
              protocol_getProperty_nolock(p, n)
                 <=> \E q \in Conformed(p) : Contains(List(q, Properties), n)

\* A protocol and a class still conform to what they conformed to, though
\* images with other definitions of the same names are read
\* (objc-runtime-new.mm:1666-1678, :5654-5675).
KeepsConformance ==
    /\ \A p \in Registered : Inherited(p) \subseteq Inherited(p)'
    /\ \A c \in Holders : InheritedByClass(c) \subseteq InheritedByClass(c)'
ConformanceKept == [][KeepsConformance]_protocolVars

\* A method that was added to a protocol is found in it
\* (objc-runtime-new.mm:706, :3857-3902).
AddedFound ==
    \A p \in Made \cap fixedUp : \A k \in MethodKinds : \A s \in ToSet(List(p, k)) :
        protocol_getMethod_nolock(p, k, s) # Nil

\* No class lists a protocol twice (objc-runtime-new.mm:5936).
AdoptedOnce == \A c \in Holders : IsInjective(adopted[c])
====
