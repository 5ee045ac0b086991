---- MODULE MCLoadMethods ----
(***************************************************************************)
(* Instances of LoadMethods and of AutoreleasePool for TLC; a behaviour    *)
(* runs one of them, chosen at first: call_load_methods runs its +loads in *)
(* a pool, of which it sees the -deallocs that the pop runs, no more.      *)
(*   The images: a base image with a subclass listed before its            *)
(* superclass, whose own superclass has no +load, and with a category; two *)
(* images that build on it, one of them with a subclass and a category of  *)
(* a class of the base; and one image on its own.                          *)
(*   The pools: pages of four entries, of which the releases fill two and  *)
(* begin a third, and -deallocs that use pools.                            *)
(***************************************************************************)
EXTENDS LoadMethods, TLC

CONSTANTS base, sub, cat, alone,
          Root, Middle, Leaf, Sub, Own,
          MiddleCat, LeafCat, RootCat, OwnCat,
          o1, Boundary

VARIABLES
    machine,        \* the machine that runs
    DebugPoolAllocation, DebugMissingPools, pages, hot, placeholder, pools, pops

poolVars ==
    <<DebugPoolAllocation, DebugMissingPools, pages, hot, placeholder, pools, pops>>

MCDependsOn ==
    (base :> {}) @@ (sub :> {base}) @@ (cat :> {base}) @@ (alone :> {})
MCClassList ==
    (base :> {Root, Middle, Leaf}) @@ (sub :> {Sub}) @@ (cat :> {})
    @@ (alone :> {Own})
MCNonlazyClasses ==
    (base :> <<Leaf, Root>>) @@ (sub :> <<Sub>>) @@ (cat :> <<>>)
    @@ (alone :> <<Own>>)
MCCategoryList ==
    (base :> <<MiddleCat>>) @@ (sub :> <<LeafCat>>) @@ (cat :> <<RootCat>>)
    @@ (alone :> <<OwnCat>>)
MCSuperclass ==
    (Root :> Nil) @@ (Middle :> Root) @@ (Leaf :> Middle) @@ (Sub :> Leaf)
    @@ (Own :> Nil)
MCCategoryClass ==
    (MiddleCat :> Middle) @@ (LeafCat :> Leaf) @@ (RootCat :> Root)
    @@ (OwnCat :> Own)

P == INSTANCE AutoreleasePool WITH
        Objects <- {o1}, PageSize <- 4, LeavesInDebug <- FALSE,
        MaxEntries <- 9, MaxDepth <- 2

ASSUME PoolAssumption == P!PoolAssumption

MCInit ==
    /\ Init /\ P!Init
    /\ \/ machine = "load" /\ ~DebugPoolAllocation /\ ~DebugMissingPools
       \/ machine = "pool"

ProgramStep == machine = "load" /\ Program /\ UNCHANGED <<machine, poolVars>>
LoadStep == machine = "load" /\ Step /\ UNCHANGED <<machine, poolVars>>
PoolStep == machine = "pool" /\ P!Next /\ UNCHANGED <<machine, vars>>
PopGoesOn == machine = "pool" /\ P!GoesOn /\ UNCHANGED <<machine, vars>>

MCNext == ProgramStep \/ LoadStep \/ PoolStep

MCSpec == MCInit /\ [][MCNext]_<<machine, vars, poolVars>>

MCFairSpec ==
    /\ MCSpec
    /\ WF_<<machine, vars, poolVars>>(LoadStep)
    /\ WF_<<machine, vars, poolVars>>(PopGoesOn)

\* Pools that are pushed stay where they are, and pages do not leak
\* (NSObject.mm:794-880).
TokensLive == P!TokensLive

\* The pages are one stack (NSObject.mm:670-1150).
ImplementsAbstractPool == P!ImplementsAbstractPool

\* The pops in progress end (NSObject.mm:794-835).
PopsEnd == P!PopsEnd
====
