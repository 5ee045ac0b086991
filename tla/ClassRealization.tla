---- MODULE ClassRealization ----
(***************************************************************************)
(* Classes, their categories and the two shortcuts that depend on them, of *)
(* objc-runtime-new.mm: classes and categories come with images, a class   *)
(* is realized and initialized when it is first used, and meanwhile the    *)
(* program adds and replaces methods, changes superclasses, duplicates     *)
(* classes and makes new ones.  Each operation runs under runtimeLock, so  *)
(* it is a step; what is hard is the order they come in.                   *)
(*                                                                         *)
(* The shortcuts: an object of a class with "default RR" is retained and   *)
(* released without a message, and a class whose metaclass has "default    *)
(* AWZ" allocates without one.  They are right as long as the message      *)
(* would reach NSObject's own method.  A class is two nodes here, itself   *)
(* ("inst"), where the methods that matter are -retain and its kin, and    *)
(* its metaclass ("meta"), where they are +alloc and +allocWithZone:; on   *)
(* either side all of them are one method.                                 *)
(*                                                                         *)
(* Left out: instance variables, properties and protocols; the default RR  *)
(* of class objects; custom root classes, which have neither default; a    *)
(* duplicate of NSObject and a new superclass for a duplicate, which       *)
(* shares its metaclass.                                                   *)
(***************************************************************************)
EXTENDS Integers, FiniteSets, SequencesExt

CONSTANTS
    Classes,        \* the classes, those made at run time included
    NSObject,
    NoClass,
    CompiledSuper,  \* compiled class -> its superclass
    WeakLinked,     \* the compiled classes whose superclass may be missing
    Categories,
    CategoryClass,  \* category -> its class
    CategoryLists,  \* category -> the sides it has methods for
    Implements,     \* the base lists <<class, side>> and the categories'
                    \* lists <<category, side>> with the method that matters
    MaxChanges      \* bound on what the program changes at run time

Sides == {"inst", "meta"}
Nodes == Classes \X Sides
Compiled == DOMAIN CompiledSuper

\* What an instance has to give.
ClassesAssumption ==
    /\ NSObject \in Compiled /\ Compiled \subseteq Classes /\ NoClass \notin Classes
    /\ CompiledSuper \in [Compiled -> Compiled \cup {NoClass}]
    /\ \A c \in Compiled : CompiledSuper[c] = NoClass <=> c = NSObject
    /\ CategoryClass \in [Categories -> Compiled]
    /\ CategoryLists \in [Categories -> SUBSET Sides]
    /\ NSObject \notin WeakLinked /\ MaxChanges \in Nat

VARIABLES
    status,         \* absent, loaded, constructing, realized, or ignored
    initialized,    \* the classes whose metaclass has RW_INITIALIZED
    superclass,     \* class -> superclass; the metaclasses follow
    owner,          \* class -> the class whose metaclass it has
    subclasses,     \* node -> the nodes in its list of subclasses
    methods,        \* node -> its method lists, the first looked at first
    default,        \* the nodes with the default RR or AWZ bit
    swizzled,       \* sides: ClassNSObjectRRSwizzled, MetaclassNSObjectAWZSwizzled
    unattached,     \* node -> categories waiting for its realization
    loadedCats,     \* the categories found, in order
    changes         \* what the program has changed so far

classVars == <<status, initialized, superclass, owner, subclasses, methods,
               default, swizzled, unattached, loadedCats, changes>>

Meta(c) == <<owner[c], "meta">>
Node(c, side) == IF side = "inst" THEN <<c, side>> ELSE Meta(c)
Own(c) == {<<c, "inst">>, <<c, "meta">>}
SuperNode(n) == Node(superclass[n[1]], n[2])
Realized == {c \in Classes : status[c] \in {"constructing", "realized"}}
isInitialized(n) == owner[n[1]] \in initialized

-----------------------------------------------------------------------------
\* Method lists: where each is from and the method that matters, if any.
NoImp == "none"
List(from, imp) == [from |-> from, imp |-> imp]

BaseList(n) ==
    List("base", IF n[1] = NSObject THEN "original"
                 ELSE IF n \in Implements THEN "other" ELSE NoImp)

CategoryList(k, side) ==
    List(k, IF <<k, side>> \in Implements THEN "other" ELSE NoImp)

ListImplements(l) == l.imp # NoImp

\* getMethodNoSuper_nolock: the first list with the method.
HasMethod(n) == \E i \in DOMAIN methods[n] : ListImplements(methods[n][i])
FirstWith(n) ==
    CHOOSE i \in DOMAIN methods[n] :
        ListImplements(methods[n][i]) /\ \A j \in 1 .. i - 1 : ~ListImplements(methods[n][j])

-----------------------------------------------------------------------------
\* foreach_realized_class_and_subclass, along the lists of subclasses.
Descendants(n) ==
    LET D[i \in 0 .. Cardinality(Classes)] ==
            IF i = 0 THEN {n}
            ELSE D[i - 1] \cup UNION {subclasses[m] : m \in D[i - 1]}
    IN D[Cardinality(Classes)]

\* Mutant: the subclasses are not told.
setHasCustomHere(d, n) == d \ {n}

\* setHasCustomRR and setHasCustomAWZ: a subclass that is not initialized yet
\* will look at its superclass then.
setHasCustom(d, n) ==
    IF n \notin d THEN d
    ELSE d \ {m \in Descendants(n) : m = n \/ isInitialized(m)}

\* What is left of the defaults when lists come to a node.
prepareMethodLists(n, lists) ==
    IF \E i \in DOMAIN lists : ListImplements(lists[i])
    THEN setHasCustom(default, n) ELSE default

\* Into the list of a new superclass, with what the superclass has.
Custom(d, super, n) == IF super \in d THEN d ELSE setHasCustom(d, n)

\* Mutant: in the order they were found.
CategoryListsForward(cats, side) ==
    LET with == SelectSeq(cats, LAMBDA k : side \in CategoryLists[k])
    IN [i \in DOMAIN with |-> CategoryList(with[i], side)]

\* The newest category comes first.
CategoryLists_(cats, side) ==
    LET with == SelectSeq(cats, LAMBDA k : side \in CategoryLists[k])
    IN Reverse([i \in DOMAIN with |-> CategoryList(with[i], side)])

-----------------------------------------------------------------------------
Init ==
    /\ status = [c \in Classes |-> IF c = NSObject THEN "loaded" ELSE "absent"]
    /\ initialized = {} /\ default = {} /\ swizzled = {}
    /\ superclass = [c \in Classes |-> IF c \in Compiled THEN CompiledSuper[c] ELSE NoClass]
    /\ owner = [c \in Classes |-> c]
    /\ subclasses = [n \in Nodes |-> {}]
    /\ methods = [n \in Nodes |-> <<>>]
    /\ unattached = [n \in Nodes |-> <<>>]
    /\ loadedCats = <<>> /\ changes = 0

\* An image is mapped with the class in it.  A class with a missing superclass
\* is ignored from then on.
readClass(c) ==
    /\ c \in Compiled /\ status[c] = "absent"
    /\ LET missing == status[CompiledSuper[c]] \in {"absent", "ignored"} IN
       /\ missing => c \in WeakLinked
       /\ status' = [status EXCEPT ![c] = IF missing THEN "ignored" ELSE "loaded"]
    /\ UNCHANGED <<initialized, superclass, owner, subclasses, methods, default,
                   swizzled, unattached, loadedCats, changes>>

\* An image is mapped with the category in it: it waits for the realization of
\* its class, or is attached at once.
readCategory(k) ==
    LET c == CategoryClass[k]
        S == CategoryLists[k]
        at(side) == <<c, side>>
    IN /\ status[c] \in {"loaded", "realized"} /\ k \notin ToSet(loadedCats)
       /\ loadedCats' = Append(loadedCats, k)
       /\ IF c \notin Realized
          THEN /\ unattached' = [n \in Nodes |-> IF n[1] = c /\ n[2] \in S
                                                 THEN Append(unattached[n], k)
                                                 ELSE unattached[n]]
               /\ UNCHANGED <<methods, default, changes>>
          ELSE /\ methods' = [n \in Nodes |->
                     IF n[1] = c /\ n[2] \in S
                     THEN CategoryLists_(Append(unattached[n], k), n[2]) \o methods[n]
                     ELSE methods[n]]
               /\ default' = {n \in default :
                     \A side \in S :
                        n \in prepareMethodLists(at(side), <<CategoryList(k, side)>>)}
               /\ unattached' = [n \in Nodes |-> IF n[1] = c /\ n[2] \in S THEN <<>>
                                                 ELSE unattached[n]]
       /\ UNCHANGED <<status, initialized, superclass, owner, subclasses, swizzled, changes>>

\* The class and the superclasses it needs, from the root on.  A node gets its
\* base list, then the categories that wait.
realizeClass(c) ==
    /\ status[c] = "loaded"
    /\ LET up[i \in 0 .. Cardinality(Classes)] ==
               IF i = 0 THEN {c}
               ELSE up[i - 1] \cup ({superclass[d] : d \in up[i - 1]} \ {NoClass})
           New == {d \in up[Cardinality(Classes)] : status[d] = "loaded"}
       IN /\ status' = [d \in Classes |-> IF d \in New THEN "realized" ELSE status[d]]
          /\ subclasses' = [n \in Nodes |->
                subclasses[n] \cup {<<d, n[2]>> : d \in {e \in New : superclass[e] = n[1]}}]
          /\ methods' = [n \in Nodes |->
                IF n[1] \in New
                THEN CategoryLists_(unattached[n], n[2]) \o <<BaseList(n)>>
                ELSE methods[n]]
          /\ unattached' = [n \in Nodes |-> IF n[1] \in New THEN <<>> ELSE unattached[n]]
    /\ UNCHANGED <<initialized, superclass, owner, default, swizzled, loadedCats, changes>>

\* The lists a node is scanned for at setInitialized(): of NSObject's only the
\* categories', which stand before its base list.
Scanned(n) == IF n[1] = NSObject THEN Front(methods[n]) ELSE methods[n]

HasDefault(n) ==
    /\ n[2] \notin swizzled
    /\ n[1] # NSObject => SuperNode(n) \in default
    /\ \A i \in DOMAIN Scanned(n) : ~ListImplements(Scanned(n)[i])

\* The first message has been sent: +initialize is done, superclasses first.
setInitialized(c) ==
    /\ status[c] = "realized" /\ ~isInitialized(<<c, "inst">>)
    /\ c # NSObject => isInitialized(<<superclass[c], "inst">>)
    /\ default' = default \cup {n \in {<<c, "inst">>, Meta(c)} : HasDefault(n)}
    /\ initialized' = initialized \cup {owner[c]}
    /\ UNCHANGED <<status, superclass, owner, subclasses, methods, swizzled,
                   unattached, loadedCats, changes>>

\* updateCustomRR_AWZ, for the nodes one of whose methods got another
\* implementation: only NSObject's own ones had been taken for default.
\* Before NSObject is initialized, the change is remembered.
updateCustom(N) ==
    LET Hit == {side \in Sides : <<NSObject, side>> \in N /\ side \notin swizzled}
        Now == {side \in Hit : NSObject \in initialized}
    IN /\ default' = {n \in default :
                         n[2] \in Now => n \in setHasCustom(default, <<NSObject, n[2]>>)}
       /\ swizzled' = swizzled \cup (Hit \ Now)

Change == changes < MaxChanges /\ changes' = changes + 1

\* class_addMethod and class_replaceMethod: a new list in front, or another
\* implementation for the method that is there.
addMethod(n, replace) ==
    /\ Change
    /\ n[1] \in Realized
    /\ IF HasMethod(n)
       THEN /\ replace
            /\ methods' = [methods EXCEPT ![n][FirstWith(n)].imp = "other"]
            /\ updateCustom({n})
       ELSE /\ methods' = [methods EXCEPT ![n] = <<List("added", "other")>> \o @]
            /\ default' = prepareMethodLists(n, <<List("added", "other")>>)
            /\ UNCHANGED swizzled
    /\ UNCHANGED <<status, initialized, superclass, owner, subclasses, unattached,
                   loadedCats>>

\* method_exchangeImplementations, of two methods of the same side; exchanged
\* with a method of no interest, a method is set as by addMethod above.
method_exchangeImplementations(m, i, n, j) ==
    /\ Change
    /\ m[2] = n[2] /\ m # n
    /\ ListImplements(methods[m][i]) /\ ListImplements(methods[n][j])
    /\ methods' = [methods EXCEPT ![m][i].imp = methods[n][j].imp,
                                  ![n][j].imp = methods[m][i].imp]
    /\ updateCustom({m, n})
    /\ UNCHANGED <<status, initialized, superclass, owner, subclasses, unattached,
                   loadedCats>>

\* class_setSuperclass.  The new superclass may not be initialized yet.
setSuperclass(c, super) ==
    /\ Change
    /\ c \in Realized /\ super \in Realized /\ c # NSObject /\ super # superclass[c]
    /\ \A d \in Classes \ {c} : owner[d] # c /\ owner[c] # d
    /\ \A side \in Sides : <<super, side>> \notin Descendants(<<c, side>>)
    /\ superclass' = [superclass EXCEPT ![c] = super]
    /\ subclasses' = [n \in Nodes |->
          (IF n = Node(superclass[c], n[2]) THEN subclasses[n] \ {<<c, n[2]>>}
           ELSE subclasses[n])
          \cup (IF n = Node(super, n[2]) THEN {<<c, n[2]>>} ELSE {})]
    /\ default' = {n \in default :
          n \in Custom(default, Node(super, n[2]), <<c, n[2]>>)}
    /\ UNCHANGED <<status, initialized, owner, methods, swizzled, unattached, loadedCats>>

\* objc_duplicateClass: the bits are copied with the lists, the metaclass is
\* shared, and the duplicate has no subclasses.
objc_duplicateClass(c, d) ==
    /\ Change
    /\ c \in Realized \ {NSObject} /\ d \notin Compiled /\ status[d] = "absent"
    /\ status' = [status EXCEPT ![d] = status[c]]
    /\ superclass' = [superclass EXCEPT ![d] = superclass[c]]
    /\ owner' = [owner EXCEPT ![d] = owner[c]]
    /\ methods' = [methods EXCEPT ![<<d, "inst">>] = methods[<<c, "inst">>]]
    /\ subclasses' = [subclasses EXCEPT ![<<superclass[c], "inst">>] = @ \cup {<<d, "inst">>}]
    /\ default' = LET copied == IF <<c, "inst">> \in default
                                THEN default \cup {<<d, "inst">>} ELSE default
                  IN Custom(copied, <<superclass[c], "inst">>, <<d, "inst">>)
    /\ UNCHANGED <<initialized, swizzled, unattached, loadedCats>>

\* objc_allocateClassPair: realized from the start, with nothing in it yet.
objc_allocateClassPair(c, super) ==
    /\ Change
    /\ c \notin Compiled /\ status[c] = "absent" /\ status[super] = "realized"
    /\ status' = [status EXCEPT ![c] = "constructing"]
    /\ superclass' = [superclass EXCEPT ![c] = super]
    /\ subclasses' = [n \in Nodes |->
          IF n = Node(super, n[2]) THEN subclasses[n] \cup {<<c, n[2]>>} ELSE subclasses[n]]
    /\ UNCHANGED <<initialized, owner, methods, default, swizzled, unattached, loadedCats>>

objc_registerClassPair(c) ==
    /\ status[c] = "constructing" /\ owner[c] = c
    /\ status' = [status EXCEPT ![c] = "realized"]
    /\ UNCHANGED <<initialized, superclass, owner, subclasses, methods, default,
                   swizzled, unattached, loadedCats, changes>>

\* detach_class and free_class of the class and its metaclass.
Gone(c) ==
    /\ status' = [status EXCEPT ![c] = "absent"]
    /\ superclass' = [superclass EXCEPT ![c] =
                        IF c \in Compiled THEN CompiledSuper[c] ELSE NoClass]
    /\ subclasses' = [n \in Nodes |-> IF n \in Own(c) THEN {} ELSE subclasses[n] \ Own(c)]
    /\ methods' = [n \in Nodes |-> IF n \in Own(c) THEN <<>> ELSE methods[n]]
    /\ unattached' = [n \in Nodes |-> IF n \in Own(c) THEN <<>> ELSE unattached[n]]
    /\ default' = default \ Own(c)
    /\ initialized' = initialized \ {c}
    /\ UNCHANGED <<owner, swizzled>>

\* Without subclasses and duplicates.
Unused(c) ==
    /\ \A n \in Own(c) : subclasses[n] = {}
    /\ \A d \in Classes \ {c} : owner[d] # c /\ owner[c] # d
    /\ \A d \in Classes : superclass[d] = c => status[d] = "absent"

objc_disposeClassPair(c) ==
    /\ c \notin Compiled /\ c \in Realized /\ Unused(c)
    /\ Gone(c)
    /\ UNCHANGED <<loadedCats, changes>>

\* A bundle is unmapped, with a class and all the categories of it.
_unload_image(c) ==
    /\ c \in Compiled \ {NSObject} /\ status[c] \in {"loaded", "realized"} /\ Unused(c)
    /\ Gone(c)
    /\ loadedCats' = SelectSeq(loadedCats, LAMBDA k : CategoryClass[k] # c)
    /\ UNCHANGED changes

\* A bundle is unmapped whose category never was attached; one that has class
\* methods would stay in the metaclass's list.
_unload_category(k) ==
    /\ k \in ToSet(loadedCats) /\ status[CategoryClass[k]] = "loaded"
    /\ CategoryLists[k] = {"inst"}
    /\ unattached' = [unattached EXCEPT ![<<CategoryClass[k], "inst">>] =
                         SelectSeq(@, LAMBDA j : j # k)]
    /\ loadedCats' = SelectSeq(loadedCats, LAMBDA j : j # k)
    /\ UNCHANGED <<status, initialized, superclass, owner, subclasses, methods,
                   default, swizzled, changes>>

Next ==
    \/ \E k \in Categories : readCategory(k) \/ _unload_category(k)
    \/ \E n \in Nodes, replace \in BOOLEAN : addMethod(n, replace)
    \/ \E m, n \in Nodes : \E i \in DOMAIN methods[m], j \in DOMAIN methods[n] :
          method_exchangeImplementations(m, i, n, j)
    \/ \E c \in Classes :
          \/ readClass(c) \/ realizeClass(c) \/ setInitialized(c)
          \/ objc_registerClassPair(c) \/ objc_disposeClassPair(c) \/ _unload_image(c)
          \/ \E d \in Classes :
                setSuperclass(c, d) \/ objc_duplicateClass(c, d) \/ objc_allocateClassPair(c, d)

Spec == Init /\ [][Next]_classVars

-----------------------------------------------------------------------------
\* The implementation a message finds from the node on up.
Resolved(n) ==
    LET up[i \in 0 .. Cardinality(Classes)] == IF i = 0 THEN n ELSE SuperNode(up[i - 1])
        depth == CHOOSE i \in 0 .. Cardinality(Classes) :
                    HasMethod(up[i]) /\ \A j \in 0 .. i - 1 : ~HasMethod(up[j])
    IN methods[up[depth]][FirstWith(up[depth])].imp

\* Where the shortcut is taken, the message would have reached NSObject's own
\* implementation: no category, added or replaced method, changed superclass or
\* duplicate, before or after a class is realized or initialized, leaves a bit
\* behind that lets an override be passed over (objc-runtime-new.mm:5081-5482).
DefaultsSafe ==
    \A n \in default : n[1] \in Realized /\ Resolved(n) = "original"

\* A realized class has each category of it that is loaded once, the newest
\* before the older ones and all before its own methods, whether it came before
\* the class was realized or after, and none still waits; one that is not
\* realized has them all waiting in order (objc-runtime-new.mm:762-919).
CategoriesInOrder ==
    \A n \in Nodes :
        LET Mine == SelectSeq(loadedCats, LAMBDA k : CategoryClass[k] = n[1]
                                                     /\ n[2] \in CategoryLists[k])
            lists == SelectSeq(methods[n], LAMBDA l : l.from # "added")
        IN n[1] \in Compiled =>
             IF n[1] \in Realized
             THEN /\ [i \in DOMAIN lists |-> lists[i].from] = Reverse(Mine) \o <<"base">>
                  /\ methods[n][Len(methods[n])].from = "base"
                  /\ unattached[n] = <<>>
             ELSE unattached[n] = Mine
====
