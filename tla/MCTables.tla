---- MODULE MCTables ----
(***************************************************************************)
(* The small instance of the runtime's tables and layouts: ClassNames,     *)
(* WeakTable, DenseMap, the two of HashTables, Trampolines, Layouts, Ivars *)
(* and AltHandlers, which has the list of alternative handlers, are        *)
(* machines of their own, and a behaviour runs one of them, chosen at      *)
(* first among Machines; the variables of the others are Nil, and those of *)
(* ClassNames stay as at first.  The hashes make the probes collide and    *)
(* wrap around the end of a table; the sizes from which a table grows,     *)
(* compacts or shrinks are small enough to be passed.                      *)
(***************************************************************************)
EXTENDS ClassNames, TLC

CONSTANTS Machines, EmptyKey, Tombstone, NotAKey, b1, b2,
          A1, A2, B1, A, B,   \* classes, and names
          NSException, CustomException, MissingException, NoClass

VARIABLES
    machine,        \* the machine that runs
    \* WeakTable, DenseMap, HashTables
    table, entry, weakVar,
    buckets, entries, tombstones, held,
    pairs, count, mapHeld, hashBuckets, hashCount, hashHeld,
    \* Trampolines, Layouts, Ivars
    groups, blockOf,
    bits, weak, marked,
    ro, ivarStatus, super, debug,
    \* AltHandlers
    stack, handlers, used, registered, ended

weakVars == <<table, entry, weakVar>>
denseVars == <<buckets, entries, tombstones, held>>
tableVars == <<pairs, count, mapHeld, hashBuckets, hashCount, hashHeld>>
trampolineVars == <<groups, blockOf>>
layoutVars == <<bits, weak, marked>>
ivarVars == <<ro, ivarStatus, super, debug>>
excVars == <<stack, handlers, used, registered, ended>>

-----------------------------------------------------------------------------
(* The instances.                                                          *)

\* Two classes with one name, and one whose superclass may be missing.
MCNameOf == A1 :> A @@ A2 :> A @@ B1 :> B

MCObjects == 1 .. 3
MCLocations == 1 .. 4
MCObjectHash == <<1, 1, 0>>
MCLocationHash == <<0, 1, 1, 7>>

W == INSTANCE WeakTable WITH
        Objects <- MCObjects, Locations <- MCLocations,
        ObjectHash <- MCObjectHash, LocationHash <- MCLocationHash,
        WEAK_INLINE_COUNT <- 2, InitialSize <- 2, CompactSize <- 4,
        Sparse <- 4, Shrink <- 2

MCKeys == 1 .. 4
MCKeyHash == <<0, 1, 0, 3>>
MCValues == 0 .. 1

D == INSTANCE DenseMap WITH
        Keys <- MCKeys, Empty <- EmptyKey, KeyHash <- MCKeyHash, Values <- MCValues,
        MIN_BUCKETS <- 4, MIN_COMPACT <- 4, Sparse <- 4

MCMapKeys == 1 .. 5
MCMapValues == 1 .. 2
MCData == 1 .. 6
MCKeyOf == <<1, 2, 3, 4, 4, 5>>
MCHashOf == <<0, 1, 0, 1, 6>>

H == INSTANCE HashTables WITH
        MapKeys <- MCMapKeys, MapValues <- MCMapValues,
        Data <- MCData, KeyOf <- MCKeyOf,
        HashOf <- MCHashOf, MapCapacity <- 2, HashCapacity <- 1

MCBlocks == {b1, b2}

P == INSTANCE Trampolines WITH
        Blocks <- MCBlocks, startIndex <- 1, endIndex <- 3, MaxPages <- 3

Y == INSTANCE Layouts WITH Nibble <- 2, MaxWords <- 8, MaxSource <- 3

\* A double, and a strong and a weak reference; three classes, each of which
\* may have grown by any number of bytes since the next was compiled.
MCTypes == {[size |-> 8, alignment |-> 8, memory |-> "none"],
            [size |-> 4, alignment |-> 4, memory |-> "strong"],
            [size |-> 4, alignment |-> 4, memory |-> "weak"]}

I == INSTANCE Ivars WITH
        WordSize <- 4, Types <- MCTypes, Compiled <- 3, MaxGrowth <- 5, MaxIvars <- 2,
        status <- ivarStatus

\* Two functions: one with a try inside another, of which the inner catches
\* everything; and one with a cleanup, where the functions of handlers start,
\* with a try that names a class that is not there.  An exception may be
\* caught inside the function of a handler, which may add handlers of its
\* own, and call functions that do, while others are in the list.
MCPad == <<0, 1, 2, 1, 3, 4, 0>>
MCFunctionOf == <<1, 1, 1, 1, 2, 2, 2>>
MCClauses == <<{NSException}, {"id"}, {}, {MissingException, CustomException}>>
MCLanding == <<1, 4, 7, 7>>
MCTries == <<{}, {1}, {1, 2}, {1}, {}, {4}, {}>>
MCDoes == <<{}, {"add", "call"}, {"throw"}, {"remove", "throw"}, {"throw"},
            {"add", "throw"}, {"call", "add"}>>
MCSuperOf == NSException :> NoClass @@ CustomException :> NSException
MCMissing == {MissingException}

X == INSTANCE AltHandlers WITH
        Pad <- MCPad, FunctionOf <- MCFunctionOf, Clauses <- MCClauses,
        Landing <- MCLanding, Tries <- MCTries, Does <- MCDoes, Callback <- 7,
        SuperOf <- MCSuperOf, Missing <- MCMissing, InitialSlots <- 1,
        MaxStack <- 5, MaxHandlers <- 3

ASSUME TablesAssumption ==
    /\ NamesAssumption /\ W!WeakTableAssumption /\ D!DenseMapAssumption /\ H!HashTablesAssumption
    /\ P!TrampolinesAssumption /\ Y!LayoutsAssumption /\ I!IvarsAssumption
    /\ X!HandlersAssumption

-----------------------------------------------------------------------------
(* One of them runs.                                                       *)

WeakTableOff == table = Nil /\ entry = Nil /\ weakVar = Nil
DenseMapOff == buckets = Nil /\ entries = Nil /\ tombstones = Nil /\ held = Nil
HashTablesOff ==
    /\ pairs = Nil /\ count = Nil /\ mapHeld = Nil
    /\ hashBuckets = Nil /\ hashCount = Nil /\ hashHeld = Nil
TrampolinesOff == groups = Nil /\ blockOf = Nil
LayoutsOff == bits = Nil /\ weak = Nil /\ marked = Nil
IvarsOff == ro = Nil /\ ivarStatus = Nil /\ super = Nil /\ debug = Nil
HandlersOff ==
    /\ stack = Nil /\ handlers = Nil /\ used = Nil /\ registered = Nil
    /\ ended = Nil

MCInit ==
    /\ machine \in Machines
    /\ Init
    /\ IF machine = "weak" THEN W!Init ELSE WeakTableOff
    /\ IF machine = "dense" THEN D!Init ELSE DenseMapOff
    /\ IF machine \in {"map", "hash"} THEN H!Init ELSE HashTablesOff
    /\ IF machine = "trampolines" THEN P!Init ELSE TrampolinesOff
    /\ IF machine = "layouts" THEN Y!Init ELSE LayoutsOff
    /\ IF machine = "ivars" THEN I!Init ELSE IvarsOff
    /\ IF machine = "handlers" THEN X!Init ELSE HandlersOff

NameStep ==
    machine = "names" /\ Next
    /\ UNCHANGED <<machine, weakVars, denseVars, tableVars, trampolineVars, layoutVars, ivarVars, excVars>>
WeakTableStep ==
    machine = "weak" /\ W!Next
    /\ UNCHANGED <<machine, nameVars, denseVars, tableVars, trampolineVars, layoutVars, ivarVars, excVars>>
DenseMapStep ==
    machine = "dense" /\ D!Next
    /\ UNCHANGED <<machine, nameVars, weakVars, tableVars, trampolineVars, layoutVars, ivarVars, excVars>>
MapTableStep ==
    machine = "map" /\ H!MapNext
    /\ UNCHANGED <<machine, nameVars, weakVars, denseVars, trampolineVars, layoutVars, ivarVars, excVars>>
HashTableStep ==
    machine = "hash" /\ H!HashNext
    /\ UNCHANGED <<machine, nameVars, weakVars, denseVars, trampolineVars, layoutVars, ivarVars, excVars>>
TrampolineStep ==
    machine = "trampolines" /\ P!Next
    /\ UNCHANGED <<machine, nameVars, weakVars, denseVars, tableVars, layoutVars, ivarVars, excVars>>
LayoutStep ==
    machine = "layouts" /\ Y!Next
    /\ UNCHANGED <<machine, nameVars, weakVars, denseVars, tableVars, trampolineVars, ivarVars, excVars>>
IvarStep ==
    machine = "ivars" /\ I!Next
    /\ UNCHANGED <<machine, nameVars, weakVars, denseVars, tableVars, trampolineVars, layoutVars, excVars>>
HandlerStep ==
    machine = "handlers" /\ X!Next
    /\ UNCHANGED <<machine, nameVars, weakVars, denseVars, tableVars, trampolineVars, layoutVars,
                   ivarVars>>

MCNext ==
    \/ NameStep \/ WeakTableStep \/ DenseMapStep \/ MapTableStep \/ HashTableStep
    \/ TrampolineStep \/ LayoutStep \/ IvarStep \/ HandlerStep

vars == <<machine, nameVars, weakVars, denseVars, tableVars, trampolineVars,
          layoutVars, ivarVars, excVars>>

MCSpec == MCInit /\ [][MCNext]_vars

-----------------------------------------------------------------------------
(* Properties.                                                             *)

\* The tables read as what was stored in them, and a search ends: the weak
\* table with its bounds and counts (objc-weak.mm:168-231), the hash tables
\* (llvm-DenseMap.h:441-554, maptable.mm:258-404, hashtable2.mm:250-450), and
\* the pages of trampolines (objc-block-trampolines.mm:206-330, 505-560).
TablesExact ==
    /\ machine = "weak" => W!WeakTableExact
    /\ machine = "dense" => D!DenseMapExact
    /\ machine = "map" => H!MapExact
    /\ machine = "hash" => H!HashExact
    /\ machine = "trampolines" => P!TrampolinesExact

\* A layout says of each word what was set for it, and the ivars of a class
\* follow its superclass's, in their order, aligned and with the layouts of
\* their memory (objc-layout.mm, objc-runtime-new.mm:1700-1900, 6080-6185).
LayoutsFit ==
    /\ machine = "layouts" => Y!LayoutExact
    /\ machine = "ivars" => I!IvarsFit

\* The handlers of the tries that go on are in the list, whatever the functions
\* of others do, and those of the tries that were left are not
\* (objc-exception.mm:1156-1250, :1357-1405).
HandlersKept == machine = "handlers" => X!HandlersKept

\* `called in order registered' (objc-exception.mm:1363).
CalledInOrder == X!CalledInOrder
====
