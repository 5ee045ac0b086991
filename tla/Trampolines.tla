---- MODULE Trampolines ----
(***************************************************************************)
(* imp_implementationWithBlock, imp_getBlock and imp_removeBlock           *)
(* (objc-block-trampolines.mm): pages of trampolines, in each a free list  *)
(* that runs through the payloads and on into the part never used, and a   *)
(* list, from the first page on, of the pages with a free slot.  An        *)
(* operation holds the runtime's lock but for Block_copy before and        *)
(* Block_release after it, so it is a step.                                *)
(*                                                                         *)
(* A page is its number in the list of all pages, 0 is nil.  An IMP is     *)
(* page and index: the trampolines of an index for the two argument modes  *)
(* share the payload.  The program removes only an IMP it has.             *)
(***************************************************************************)
EXTENDS Integers, FiniteSets, SequencesExt

CONSTANTS
    Blocks,                 \* copied blocks
    startIndex, endIndex,   \* the slots of a page: startIndex .. endIndex - 1
    MaxPages                \* bound: pages the program makes

\* What an instance has to give.
TrampolinesAssumption ==
    /\ startIndex \in Nat \ {0} /\ endIndex \in Nat /\ startIndex < endIndex
    /\ MaxPages \in Nat

VARIABLES
    groups,     \* the page groups: nextAvailable, nextAvailablePage, payload
    blockOf     \* the IMPs in use -> the block each was made for

trampolineVars == <<groups, blockOf>>

Slots == startIndex .. endIndex - 1

NewGroup == [nextAvailable |-> startIndex, nextAvailablePage |-> 0,
             payload |-> [i \in Slots |-> 0]]

\* The pages on the list of available pages, the head first; on a list that
\* closed to a cycle, as far as there are pages.
AvailablePages(g) ==
    LET walk[n \in Nat] ==
            IF n = 0 THEN <<1>>
            ELSE LET s == walk[n - 1]
                     next == g[Last(s)].nextAvailablePage
                 IN IF next = 0 THEN s ELSE Append(s, next)
    IN walk[Len(g)]

_allocateTrampolinesAndData(g) ==
    IF g = <<>> THEN <<NewGroup>>
    ELSE Append([g EXCEPT ![1].nextAvailablePage = Len(g) + 1], NewGroup)

\* The head page is filled first, then the next page on the list; 0 where a
\* page has to be allocated.
PageWithNextAvailable(g) ==
    IF g = <<>> THEN 0
    ELSE IF g[1].nextAvailable # endIndex THEN 1 ELSE g[1].nextAvailablePage

\* The index behind i on the free list: unused slots are 0 and filled
\* sequentially, the last of them leads to endIndex.
NextIndex(group, i) == IF group.payload[i] = 0 THEN i + 1 ELSE group.payload[i]

\* Mutant: a page found full stays on the list.
StillAvailable(g, p) == g

\* A page that has become full leaves the list, unless it is the head.
Full(g, p) ==
    LET list == AvailablePages(g)
        Before == {i \in 1 .. Len(list) : g[list[i]].nextAvailablePage = p}
    IN IF g[p].nextAvailable # endIndex \/ Before = {} THEN g
       ELSE LET i == CHOOSE j \in Before : \A k \in Before : j <= k
            IN [g EXCEPT ![list[i]].nextAvailablePage = g[p].nextAvailablePage,
                         ![p].nextAvailablePage = 0]

\* The last two steps in the order of the code: where the page is the head,
\* the list ends behind the head whatever stood there.
ListedAgain(g, p) ==
    LET list == AvailablePages(g)
        Before == {q \in ToSet(list) : g[q].nextAvailablePage = p}
    IN IF Before # {} THEN g
       ELSE [[g EXCEPT ![Last(list)].nextAvailablePage = p]
                EXCEPT ![p].nextAvailablePage = 0]

imp_getBlock(imp) ==
    LET b == groups[imp[1]].payload[imp[2]] IN {b} \cap Blocks

-----------------------------------------------------------------------------
Init == groups = <<>> /\ blockOf = <<>>

imp_implementationWithBlock(b) ==
    /\ PageWithNextAvailable(groups) = 0 => Len(groups) < MaxPages
    /\ LET page == PageWithNextAvailable(groups)
           g == IF page = 0 THEN _allocateTrampolinesAndData(groups) ELSE groups
           p == IF page = 0 THEN Len(g) ELSE page
           i == g[p].nextAvailable
           taken == Full([g EXCEPT ![p].nextAvailable = NextIndex(g[p], i)], p)
       IN /\ groups' = [taken EXCEPT ![p].payload[i] = b]
          /\ blockOf' = (<<p, i>> :> b) @@ blockOf

imp_removeBlock(imp) ==
    /\ groups' = ListedAgain([groups EXCEPT
                    ![imp[1]].payload[imp[2]] = groups[imp[1]].nextAvailable,
                    ![imp[1]].nextAvailable = imp[2]], imp[1])
    /\ blockOf' = [i \in DOMAIN blockOf \ {imp} |-> blockOf[i]]

Next ==
    \/ \E b \in Blocks : imp_implementationWithBlock(b)
    \/ \E imp \in DOMAIN blockOf : imp_removeBlock(imp)

Spec == Init /\ [][Next]_trampolineVars

-----------------------------------------------------------------------------
\* The free list of a page from its next available slot on.
FreeList(group) ==
    LET walk[n \in Nat] ==
            IF n = 0 THEN <<group.nextAvailable>>
            ELSE LET s == walk[n - 1] IN
                 IF Last(s) \notin Slots THEN s ELSE Append(s, NextIndex(group, Last(s)))
    IN walk[endIndex - startIndex]

\* Every IMP in use yields the block it was made for and no other slot is
\* lost or given out twice: the free list of a page runs over exactly the
\* slots without a block, and no full page waits on the list from which the
\* next trampoline is taken (objc-block-trampolines.mm:374-475).
TrampolinesExact ==
    /\ \A imp \in DOMAIN blockOf : imp[2] \in Slots /\ imp_getBlock(imp) = {blockOf[imp]}
    /\ \A p \in 1 .. Len(groups) :
          LET free == Front(FreeList(groups[p])) IN
          /\ Last(FreeList(groups[p])) = endIndex
          /\ ToSet(free) = {i \in Slots : <<p, i>> \notin DOMAIN blockOf}
          /\ Len(free) = Cardinality(ToSet(free))
    /\ groups # <<>> =>
          \A p \in ToSet(Tail(AvailablePages(groups))) : groups[p].nextAvailable # endIndex

\* The list has every page with an available slot but the head
\* (objc-block-trampolines.mm:203, 543).
AvailablePagesListed ==
    \A p \in 2 .. Len(groups) :
        groups[p].nextAvailable # endIndex => p \in ToSet(AvailablePages(groups))
====
