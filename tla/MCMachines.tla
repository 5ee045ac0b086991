---- MODULE MCMachines ----
(***************************************************************************)
(* The small instances of the machines that keep the runtime's registries  *)
(* and the values and locks beside them: MethodCache, ClassRealization,    *)
(* Protocols, ValueHolders and Locks; and of ContactManager.  A behaviour  *)
(* runs one of them, chosen at first; the variables of the others are Nil, *)
(* and those of MethodCache stay as at first.                              *)
(***************************************************************************)
EXTENDS MethodCache, Integers, TLC

CONSTANTS
    Nil,
    Base, Sub, foo, bar, oldImp, newImp,                \* classes, methods
    NSObject, Middle, Leaf, NewClass, NoClass,          \* classes
    RootCategory, MiddleCategory, LateCategory,
    A1, A2, B1, B2, C2, B2Copy,                         \* names, protocols
    NewStructure, A, B, C, NameD,
    t1, t2, x, y, aKey, property,                       \* values, locks
    alice, bob, friends, mates, work, office            \* contacts

VARIABLES
    machine,        \* the machine that runs
    \* ClassRealization
    classStatus, initialized, superclass, classOwner, subclasses, methods,
    default, swizzled, unattached, loadedCats, classChanges,
    \* Protocols
    read, protocols, fixedUp, sorted, lists, types, incorporated, made,
    adopted, adopting,
    \* ValueHolders
    refcount, freed, hasAssoc, associations, values, held, todo,
    \* Locks
    order, memo, fatal, lockOwner, locked, want, preparing, alive,
    \* ContactManager
    contacts, groups, members, newGroups, observing, changed, pendingWork, moving,
    telling, known, knownGroups

classVars == <<classStatus, initialized, superclass, classOwner, subclasses,
    methods, default, swizzled, unattached, loadedCats, classChanges>>
protocolVars == <<read, protocols, fixedUp, sorted, lists, types,
    incorporated, made, adopted, adopting>>
holderVars == <<refcount, freed, hasAssoc, associations, values, held, todo>>
lockVars == <<order, memo, fatal, lockOwner, locked, want, preparing, alive>>
contactVars == <<contacts, groups, members, newGroups, observing, changed,
    pendingWork, moving, telling, known, knownGroups>>

-----------------------------------------------------------------------------
(* The instances.                                                          *)

\* A class and its subclass, and two selectors that share a bucket.
MCSupers == Base :> <<>> @@ Sub :> <<Base>>
MCKey == foo :> 3 @@ bar :> 5
MCMethods == Base :> (foo :> oldImp @@ bar :> None) @@ Sub :> (foo :> None @@ bar :> None)
MCMessages == t1 :> {<<Sub, foo>>} @@ t2 :> {<<Sub, foo>>, <<Sub, bar>>}
MCMaxOps == t1 :> 1 @@ t2 :> 3

MCCompiledSuper == NSObject :> NoClass @@ Middle :> NSObject @@ Leaf :> Middle
MCCategoryClass == RootCategory :> NSObject @@ MiddleCategory :> Middle
                   @@ LateCategory :> Middle
MCCategoryLists == RootCategory :> {"inst", "meta"} @@
                   MiddleCategory :> {"inst", "meta"} @@ LateCategory :> {"inst"}
MCImplements == {<<RootCategory, "inst">>, <<MiddleCategory, "meta">>,
                 <<LateCategory, "inst">>}
MCClasses == {NSObject, Middle, Leaf, NewClass}
MCWeakLinkedClasses == {Leaf}
MCCategories == {RootCategory, MiddleCategory, LateCategory}

K == INSTANCE ClassRealization WITH
        Classes <- MCClasses, CompiledSuper <- MCCompiledSuper,
        WeakLinked <- MCWeakLinkedClasses, Categories <- MCCategories,
        CategoryClass <- MCCategoryClass, CategoryLists <- MCCategoryLists,
        Implements <- MCImplements, MaxChanges <- 2,
        status <- classStatus, owner <- classOwner, changes <- classChanges

\* Two images that both have protocols A and B; one is too small a structure.
MCImages == <<<<A1, B1>>, <<A2, B2, C2>>>>
MCNameOf == A1 :> A @@ B1 :> B @@ A2 :> A @@ B2 :> B @@ C2 :> C @@ NewStructure :> NameD
MCIncorporated ==
    A1 :> <<>> @@ B1 :> <<A1>> @@ A2 :> <<B2>> @@ B2 :> <<>> @@ C2 :> <<A2, B2>>
MCDeclared ==
    A1 :> <<<<2, 1>>, <<1>>, <<>>, <<3, 2>>, <<1>>>>
    @@ B1 :> <<<<1>>, <<>>, <<>>, <<>>, <<>>>>
    @@ A2 :> <<<<3>>, <<>>, <<>>, <<>>, <<>>>>
    @@ B2 :> <<<<2, 3, 1>>, <<2, 1>>, <<1>>, <<>>, <<2>>>>
    @@ C2 :> <<<<>>, <<3>>, <<2, 1>>, <<>>, <<>>>>
MCExtended == {A1, B2, C2}
MCCopyOf == B2 :> B2Copy
MCProtocolSelectors == 1 .. 2
MCPropertyNames == {1}
MCAddedKinds == {2}
MCHolders == {Middle}
MCAdopters == {t1}

Q == INSTANCE Protocols WITH
        Images <- MCImages, NameOf <- MCNameOf, Incorporated <- MCIncorporated,
        Declared <- MCDeclared, Extended <- MCExtended, CopyOf <- MCCopyOf,
        Made <- {NewStructure}, MaxAdded <- 2, Selectors <- MCProtocolSelectors,
        PropertyNames <- MCPropertyNames, AddedKinds <- MCAddedKinds,
        Holders <- MCHolders, Threads <- MCAdopters, NamesReserved <- TRUE

MCThreads == {t1, t2}
MCObjects == {x, y}
MCKeys == {aKey}
MCProperties == {property}
MCPolicies == {"ASSIGN", "RETAIN"}

V == INSTANCE ValueHolders WITH
        Threads <- MCThreads, Objects <- MCObjects, Keys <- MCKeys,
        Properties <- MCProperties, Policies <- MCPolicies, MaxHeld <- 1,
        property <- values

L == INSTANCE Locks WITH
        Threads <- MCThreads, Stripes <- 2, MaxDepth <- 3,
        owner <- lockOwner, held <- locked

MCPeople == {alice, bob}
MCLetter == alice :> 0 @@ bob :> 3
MCOwn == <<mates>>
MCMoves == <<<<friends, mates>>, <<work, office>>>>

G == INSTANCE ContactManager WITH
        People <- MCPeople, Letter <- MCLetter, Own <- MCOwn, Moves <- MCMoves,
        MaxGroups <- 2, made <- newGroups, todo <- pendingWork

ASSUME MachinesAssumption ==
    /\ CacheAssumption /\ K!ClassesAssumption /\ Q!ProtocolsAssumption
    /\ V!HoldersAssumption /\ L!LocksAssumption
    /\ G!ContactsAssumption

-----------------------------------------------------------------------------
(* One of them runs.                                                       *)

ClassesOff ==
    /\ classStatus = Nil /\ initialized = Nil /\ superclass = Nil
    /\ classOwner = Nil /\ subclasses = Nil /\ methods = Nil /\ default = Nil
    /\ swizzled = Nil /\ unattached = Nil /\ loadedCats = Nil /\ classChanges = Nil
ProtocolsOff ==
    /\ read = Nil /\ protocols = Nil /\ fixedUp = Nil /\ sorted = Nil
    /\ lists = Nil /\ types = Nil /\ incorporated = Nil /\ made = Nil
    /\ adopted = Nil /\ adopting = Nil
HoldersOff ==
    /\ refcount = Nil /\ freed = Nil /\ hasAssoc = Nil /\ associations = Nil
    /\ values = Nil /\ held = Nil /\ todo = Nil
LocksOff ==
    /\ order = Nil /\ memo = Nil /\ fatal = Nil /\ lockOwner = Nil
    /\ locked = Nil /\ want = Nil /\ preparing = Nil /\ alive = Nil
ContactsOff ==
    /\ contacts = Nil /\ groups = Nil /\ members = Nil /\ newGroups = Nil
    /\ observing = Nil /\ changed = Nil /\ pendingWork = Nil /\ moving = Nil
    /\ telling = Nil /\ known = Nil /\ knownGroups = Nil

MCInit ==
    /\ machine \in {"cache", "classes", "protocols", "holders", "locks", "contacts"}
    /\ Init
    /\ IF machine = "classes" THEN K!Init ELSE ClassesOff
    /\ IF machine = "protocols" THEN Q!Init ELSE ProtocolsOff
    /\ IF machine = "holders" THEN V!Init ELSE HoldersOff
    /\ IF machine = "locks" THEN L!Init ELSE LocksOff
    /\ IF machine = "contacts" THEN G!Init ELSE ContactsOff

CacheStep ==
    machine = "cache" /\ Next
    /\ UNCHANGED <<machine, classVars, protocolVars, holderVars, lockVars, contactVars>>
ClassStep ==
    machine = "classes" /\ K!Next
    /\ UNCHANGED <<machine, vars, protocolVars, holderVars, lockVars, contactVars>>
ProtocolStep ==
    machine = "protocols" /\ Q!Next
    /\ UNCHANGED <<machine, vars, classVars, holderVars, lockVars, contactVars>>
HolderStep ==
    machine = "holders" /\ V!Next
    /\ UNCHANGED <<machine, vars, classVars, protocolVars, lockVars, contactVars>>
LockStep ==
    machine = "locks" /\ L!Next
    /\ UNCHANGED <<machine, vars, classVars, protocolVars, holderVars, contactVars>>
ContactStep ==
    machine = "contacts" /\ G!Next
    /\ UNCHANGED <<machine, vars, classVars, protocolVars, holderVars, lockVars>>

MCNext ==
    \/ CacheStep \/ ClassStep \/ ProtocolStep \/ HolderStep
    \/ LockStep \/ ContactStep

allVars == <<machine, vars, classVars, protocolVars, holderVars, lockVars, contactVars>>

\* A thread that sends a message or changes methods goes on.
GoesOn(t) ==
    machine = "cache" /\ Step(t)
    /\ UNCHANGED <<machine, classVars, protocolVars, holderVars, lockVars, contactVars>>

MCSpec ==
    /\ MCInit /\ [][MCNext]_allVars
    /\ \A t \in Threads : WF_allVars(GoesOn(t))

-----------------------------------------------------------------------------
(* Properties.                                                             *)

\* No object is retained, released or allocated past an override
\* (objc-runtime-new.mm:5081-5482).
DefaultsSafe == machine = "classes" => K!DefaultsSafe

\* The categories of a class are all there, in their order, or all waiting
\* (objc-runtime-new.mm:762-919).
CategoriesInOrder == machine = "classes" => K!CategoriesInOrder

\* Look-ups find exactly what the protocols that one conforms to declare, in
\* lists that are ready for them, and a protocol that conforms to another goes
\* on to; methods added at run time out of order may be missed
\* (objc-runtime-new.mm:3758-3990).
ProtocolsKept ==
    /\ [](machine = "protocols" => Q!LookupsReady /\ Q!DeclaredFound)
    /\ [][machine = "protocols" => Q!KeepsConformance]_protocolVars

\* No value of an association or a property is freed while it is held
\* (objc-references.mm:206-330, objc-accessors.mm:40-130).
ValuesHeld == machine = "holders" => V!ValuesHeld

\* The locks are taken in their order and are all free when the fork is over
\* (objc-lockdebug.mm, objc-os.mm, objc-runtime.mm:510-640).
LocksOrdered == machine = "locks" => L!OrderKept /\ L!LocksFree

\* The manager's list is the store's when nobody has more to tell it
\* (HHContactManager.m:100-180).
CaughtUp == machine = "contacts" => G!CaughtUp
====
