---- MODULE AutoreleasePool ----
(***************************************************************************)
(* The autorelease pools of one thread (runtime/NSObject.mm, class         *)
(* AutoreleasePoolPage): a stack of pending releases cut into a list of    *)
(* pages of which the thread's TLS names one, the hot page.  A release     *)
(* made by a pop may run a -dealloc, which is program code again: it may   *)
(* autorelease, push and pop pools itself, and leave one pushed.           *)
(***************************************************************************)
EXTENDS Naturals, Sequences

LOCAL INSTANCE SequencesExt

CONSTANTS
    Objects,
    Boundary,     \* POOL_BOUNDARY
    PageSize,     \* the entries of a page
    LeavesInDebug,   \* a -dealloc may leave a pool pushed in page-per-pool
                     \* debugging too
    MaxEntries,   \* bound: pending releases
    MaxDepth      \* bound: program code, its -deallocs, their -deallocs...

PoolAssumption ==
    /\ PageSize \in Nat \ {0, 1}
    /\ Boundary \notin Objects
    /\ LeavesInDebug \in BOOLEAN

VARIABLES
    DebugPoolAllocation,   \* OBJC_DEBUG_POOL_ALLOCATION
    DebugMissingPools,     \* OBJC_DEBUG_MISSING_POOLS
    pages,         \* the pages, coldest first, each the entries below its next
    hot,           \* the hot page, 0 for none
    placeholder,   \* TLS holds EMPTY_POOL_PLACEHOLDER
    pools,         \* the tokens each running piece of program code may pop
    pops           \* the pops in progress, outermost first

settings == <<DebugPoolAllocation, DebugMissingPools>>
store == <<pages, hot, placeholder>>
vars == <<settings, store, pools, pops>>

Entries == Objects \cup {Boundary}
Tokens == [page : Nat, at : Nat]
PlaceholderToken == [page |-> 0, at |-> 0]
ColdBegin == [page |-> 1, at |-> 1]

(* Program code runs when no pop is between two releases.                  *)
Running == Len(pools) > Len(pops)

Pending == Len(FlattenSeq(pages))

Full(page) == Len(pages[page]) = PageSize

lessThanHalfFull(page) == Len(pages[page]) < PageSize \div 2

Init ==
    /\ DebugPoolAllocation \in BOOLEAN
    /\ DebugMissingPools \in BOOLEAN
    /\ pages = <<>>
    /\ hot = 0
    /\ placeholder = FALSE
    /\ pools = << <<>> >>
    /\ pops = <<>>

-----------------------------------------------------------------------------
(* Adding an entry.                                                        *)

autoreleaseFullPage(entry) ==
    LET next == CHOOSE page \in hot + 1 .. Len(pages) + 1 :
                    /\ page <= Len(pages) => ~ Full(page)
                    /\ \A between \in hot + 1 .. page - 1 : Full(between)
    IN  /\ hot # 0
        /\ pages' = IF next > Len(pages)
                    THEN Append(pages, <<entry>>)
                    ELSE [pages EXCEPT ![next] = Append(@, entry)]
        /\ hot' = next
        /\ UNCHANGED placeholder

FirstPage(entries) ==
    /\ pages' = Append(pages, entries)
    /\ hot' = Len(pages')
    /\ placeholder' = FALSE

(* Mutant: the pool the placeholder stands for gets no boundary.           *)
autoreleaseNoPageBare(entry) ==
    /\ hot = 0
    /\ IF ~ placeholder /\ entry = Boundary /\ ~ DebugPoolAllocation
       THEN placeholder' = TRUE /\ UNCHANGED <<pages, hot>>
       ELSE IF ~ placeholder /\ entry # Boundary /\ DebugMissingPools
       THEN UNCHANGED store
       ELSE FirstPage(<<entry>>)

autoreleaseNoPage(entry) ==
    /\ hot = 0
    /\ \/ placeholder /\ FirstPage(<<Boundary, entry>>)
       \/ /\ ~ placeholder /\ entry # Boundary /\ DebugMissingPools
          /\ UNCHANGED store
       \/ /\ ~ placeholder /\ entry = Boundary /\ ~ DebugPoolAllocation
          /\ placeholder' = TRUE
          /\ UNCHANGED <<pages, hot>>
       \/ /\ ~ placeholder
          /\ IF entry = Boundary
             THEN DebugPoolAllocation ELSE ~ DebugMissingPools
          /\ FirstPage(<<entry>>)

autoreleaseFast(entry) ==
    \/ /\ hot # 0 /\ ~ Full(hot)
       /\ pages' = [pages EXCEPT ![hot] = Append(@, entry)]
       /\ UNCHANGED <<hot, placeholder>>
    \/ hot # 0 /\ Full(hot) /\ autoreleaseFullPage(entry)
    \/ autoreleaseNoPage(entry)

autoreleaseNewPage(entry) ==
    autoreleaseFullPage(entry) \/ autoreleaseNoPage(entry)

autorelease(object) ==
    /\ Running
    /\ Pending < MaxEntries
    /\ autoreleaseFast(object)
    /\ UNCHANGED <<settings, pools, pops>>

TokenPushed ==
    IF placeholder' THEN PlaceholderToken
    ELSE [page |-> hot', at |-> Len(pages'[hot'])]

push ==
    /\ Running
    /\ Pending < MaxEntries
    /\ IF DebugPoolAllocation
       THEN autoreleaseNewPage(Boundary)
       ELSE autoreleaseFast(Boundary)
    /\ pools' = [pools EXCEPT ![Len(pools)] = Append(@, TokenPushed)]
    /\ UNCHANGED <<settings, pops>>

-----------------------------------------------------------------------------
(* Popping a pool.  Program code pops a pool it pushed and, with it, those *)
(* it pushed later and left (an exception left their scope).               *)

IsBoundary(token) ==
    /\ token.page \in 1 .. Len(pages)
    /\ token.at \in 1 .. Len(pages[token.page])
    /\ pages[token.page][token.at] = Boundary

(* The checks of pop(): badPop, which is fatal, is reached otherwise.      *)
Poppable(token) == IsBoundary(token) \/ token = ColdBegin

StartPop(token, exiting) ==
    /\ Poppable(token)
    /\ pops' = Append(pops, [stop |-> token, exiting |-> exiting])
    /\ UNCHANGED store

ClearPlaceholder ==
    /\ placeholder' = FALSE
    /\ UNCHANGED <<pages, hot, pops>>

pop(i) ==
    LET own == pools[Len(pools)] IN
    /\ Running
    /\ i \in DOMAIN own
    /\ \/ own[i] = PlaceholderToken /\ hot # 0 /\ StartPop(ColdBegin, FALSE)
       \/ own[i] = PlaceholderToken /\ hot = 0 /\ ClearPlaceholder
       \/ own[i] # PlaceholderToken /\ StartPop(own[i], FALSE)
    /\ pools' = [pools EXCEPT ![Len(pools)] = SubSeq(@, 1, i - 1)]
    /\ UNCHANGED settings

(* Mutant: a pop empties the whole page of its pool.                       *)
AtStopOfPage(p) == pages[p.stop.page] = <<>>

(* The condition that ends the loop of releaseUntil().                     *)
AtStop(p) == Len(pages[p.stop.page]) = p.stop.at - 1

(* The page an entry is taken from: the hottest that is not empty.         *)
LastNonempty ==
    CHOOSE page \in 1 .. hot :
        /\ pages[page] # <<>>
        /\ \A above \in page + 1 .. hot : pages[above] = <<>>

(* Mutant: the entry is released and stays on its page.                    *)
ReleaseEntryKeeps ==
    /\ ~ Running
    /\ ~ AtStop(Last(pops))
    /\ hot' = LastNonempty
    /\ \/ UNCHANGED pools
       \/ /\ Last(pages[LastNonempty]) # Boundary
          /\ Len(pools) < MaxDepth
          /\ pools' = Append(pools, <<>>)
    /\ UNCHANGED <<settings, pages, placeholder, pops>>

(* One round of the loop of releaseUntil(): the last entry of the hottest  *)
(* page that has one is removed and released, which may run a -dealloc.    *)
ReleaseEntry ==
    /\ ~ Running
    /\ ~ AtStop(Last(pops))
    /\ hot' = LastNonempty
    /\ pages' = [pages EXCEPT ![LastNonempty] = Front(@)]
    /\ \/ UNCHANGED pools
       \/ /\ Last(pages[LastNonempty]) # Boundary
          /\ Len(pools) < MaxDepth
          /\ pools' = Append(pools, <<>>)
    /\ UNCHANGED <<settings, placeholder, pops>>

ReleaseReturns ==
    /\ Running
    /\ Len(pools) > 1
    /\ DebugPoolAllocation /\ ~ LeavesInDebug => Last(pools) = <<>>
    /\ pools' = Front(pools)
    /\ UNCHANGED <<settings, store, pops>>

KillsPage(page) ==
    /\ pages[page] = <<>>
    /\ DebugPoolAllocation \/ (DebugMissingPools /\ page = 1)

(* The pages that stay at the end of a pop; one empty child stays below a  *)
(* page that is at least half full.                                        *)
Kept(page) ==
    IF KillsPage(page) THEN page - 1
    ELSE IF lessThanHalfFull(page) \/ Len(pages) = page THEN page
    ELSE page + 1

(* The end of a pop, and of tls_dealloc() for the pop it made.  The page   *)
(* of the pool is hot again.                                               *)
EndOfPop ==
    LET page == Last(pops).stop.page IN
    /\ ~ Running
    /\ AtStop(Last(pops))
    /\ IF Last(pops).exiting
       THEN /\ hot' = 0
            /\ pages' = IF DebugMissingPools \/ DebugPoolAllocation
                        THEN SubSeq(pages, 1, Kept(page)) ELSE <<>>
       ELSE /\ pages' = SubSeq(pages, 1, Kept(page))
            /\ hot' = IF KillsPage(page) THEN page - 1 ELSE page
    /\ pops' = Front(pops)
    /\ UNCHANGED <<settings, placeholder, pools>>

(* The thread ends, with pools popped or not.  What runs afterwards is     *)
(* another destructor of the thread's TLS, which finds no pool.            *)
tls_dealloc ==
    /\ Running
    /\ Len(pools) = 1
    /\ \/ placeholder /\ ClearPlaceholder
       \/ hot # 0 /\ pages[1] # <<>> /\ StartPop(ColdBegin, TRUE)
       \/ /\ hot # 0 /\ pages[1] = <<>>
          /\ pages' = IF DebugMissingPools \/ DebugPoolAllocation
                      THEN pages ELSE <<>>
          /\ hot' = 0
          /\ UNCHANGED <<placeholder, pops>>
    /\ pools' = << <<>> >>
    /\ UNCHANGED settings

-----------------------------------------------------------------------------

Pushing == (\E object \in Objects : autorelease(object)) \/ push

Popping == \E i \in 1 .. MaxEntries : pop(i)

Next ==
    \/ Pushing
    \/ Popping
    \/ tls_dealloc
    \/ ReleaseEntry
    \/ ReleaseReturns
    \/ EndOfPop

Spec == Init /\ [][Next]_vars

(* The loop of a pop runs on, and a -dealloc pops what it pushed and       *)
(* returns, or leaves it and returns.                                      *)
GoesOn ==
    \/ ReleaseEntry
    \/ ReleaseReturns
    \/ EndOfPop
    \/ Len(pools) > 1 /\ Popping

FairSpec == Spec /\ WF_vars(GoesOn)

-----------------------------------------------------------------------------

TypeOK ==
    /\ settings \in BOOLEAN \X BOOLEAN
    /\ pages \in Seq(Seq(Entries))
    /\ \A page \in DOMAIN pages : Len(pages[page]) <= PageSize
    /\ hot \in 0 .. Len(pages)
    /\ placeholder \in BOOLEAN
    /\ pools \in Seq(Seq(Tokens))
    /\ pops \in Seq([stop : Tokens, exiting : BOOLEAN])
    /\ Len(pools) \in {Len(pops), Len(pops) + 1}

(* No pop of the runtime or of a -dealloc it runs takes a boundary away    *)
(* from under a pool that is still pushed: its token names a boundary, in  *)
(* a page that was not deleted, or the placeholder, and a pop in progress  *)
(* has not gone below its stop.  badPop(), "Invalid or prematurely-freed   *)
(* autorelease pool", is out of reach of code that pops what it pushed.    *)
(* Nor do pages leak: between the pops of the outermost code at most one   *)
(* empty page waits for reuse, and none when the thread has no hot page,   *)
(* however deep the pools went, and wherever they and the thread ended.    *)
TokensLive ==
    /\ \A level \in DOMAIN pools : \A i \in DOMAIN pools[level] :
           LET token == pools[level][i] IN
           IF token = PlaceholderToken
           THEN IF hot = 0 THEN placeholder ELSE IsBoundary(ColdBegin)
           ELSE IsBoundary(token)
    /\ \A k \in DOMAIN pops :
           LET stop == pops[k].stop IN
           /\ stop.page \in 1 .. hot
           /\ Len(pages[stop.page]) >= stop.at - 1
    /\ pops = <<>> => Len(pages) <= hot + 1
    /\ hot = 0 => pages = <<>>

(* The pages above the hot one are empty, as the assertions of             *)
(* releaseUntil() and of ~AutoreleasePoolPage() want it, and so a page is  *)
(* never deleted with a release pending.  Those below are full, except     *)
(* where OBJC_DEBUG_POOL_ALLOCATION starts each pool on a page of its own. *)
OneFrontier ==
    /\ \A page \in hot + 1 .. Len(pages) : pages[page] = <<>>
    /\ ~ DebugPoolAllocation => \A page \in 1 .. hot - 1 : Full(page)

(* The loop that looks for a page with an entry goes down one page at      *)
(* most.                                                                   *)
WhileCanBeIf ==
    ~ Running /\ ~ AtStop(Last(pops)) /\ pages[hot] = <<>>
    => hot > 1 /\ pages[hot - 1] # <<>>

(* "I think this `while` can be `if`, but I can't prove it" is right where *)
(* OBJC_DEBUG_POOL_ALLOCATION is off.                                      *)
SkipsOnePage == ~ DebugPoolAllocation => WhileCanBeIf

Height(stop) ==
    Len(FlattenSeq(SubSeq(pages, 1, stop.page - 1))) + stop.at - 1

(* The pages, the placeholder and the hot page together are the one stack  *)
(* of AbstractPool: entries leave it last in first out and exactly once,   *)
(* and a pop ends at the height where its pool was pushed.                 *)
Abstract == INSTANCE AbstractPool WITH
    stack <- IF placeholder THEN <<Boundary>> ELSE FlattenSeq(pages),
    goals <- [k \in DOMAIN pops |-> Height(pops[k].stop)]
ImplementsAbstractPool == Abstract!Spec

(* Once the code the releases run adds no more to the pools, the pops in   *)
(* progress all end: releaseUntil() finds its stop.                        *)
PopsEnd == <>[][~ Pushing]_vars => <>[](pops = <<>>)
====
