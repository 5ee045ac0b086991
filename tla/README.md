# TLA+ models of the Objective-C runtime in HHProjects

The repository is a collection of iOS exercises (`HH*`) around one large program
of its own right: `objc-runtime`, Apple's Objective-C runtime, read and
annotated. That runtime is what most of these modules are about; two more follow
the copy of `CFRunLoop.c` that the exercises study, and one the manager of
contacts in `HHContactsManager`. The other exercises are user interface. Paths
below are relative to `src/objc-runtime/runtime/` unless they start with `src/`.

Contents: 1 inventory, 2 modules and how they follow the code, 3 runs, 4 proofs,
5 where the code and its comments disagree, 6 what is known not to hold, 7 what
is not modelled, 8 plan.

## 1. Inventory

| Component | State | Operations | Hard part | What makes it correct |
|---|---|---|---|---|
| Reference counting (`objc-object.h`, `NSObject.mm`, `isa.h`) | isa word (inline count, flags), entry in the side table, side table lock | retain, release, tryRetain, weak load, changeIsa, dealloc | lock-free updates of a count that is split between two places | no reference lost in a transfer; dealloc once; no use after free |
| Weak references (`NSObject.mm`, `objc-weak.mm`) | weak variables, weak entries, one lock per stripe | store, init, destroy, load, copy, move, clear at dealloc | reads before the lock, two locks at a time, `+initialize` called from inside | a weak variable yields an object only while it lives |
| Weak table (`objc-weak.mm`) | hash tables of entries and of referrers, inline referrers | insert, remove, grow, compact | open addressing without tombstones, the change of representation | the table is the set of registered variables |
| `@synchronized` (`objc-sync.mm`) | lists of SyncData, spinlocks, per-thread caches, recursive mutexes | enter, exit, thread exit | reuse of SyncData without the list's lock, two levels of caches | one recursive lock per object |
| `+load` (`objc-loadmethod.mm`, `objc-runtime-new.mm`) | two loadable lists, RW_LOADED, `loading` | load_images, call_load_methods, unmap | re-entrancy through dlopen/dlclose | each once, superclass first, none forgotten |
| Autorelease pools (`NSObject.mm`) | pages, the hot page in TLS, a placeholder | push, autorelease, pop, thread exit | releases run code that uses pools | the pages are one stack; nothing leaks |
| `+initialize` (`objc-initialize.mm`) | per class: not, being, initialized; the list of each thread; pending subclasses | initialize, wait, finish later, throw, fork | recursion to superclasses, waiting threads, a child without the other threads | superclass first, used by others only afterwards, nobody waits for ever |
| Method caches (`objc-cache.mm`, `objc-msg-x86_64.s`) | buckets and mask, garbage list | scan, fill, expand, erase, collect, change methods | readers without a lock | no reader sees freed buckets, or an implementation that was out of date before it was sent |
| Classes and categories (`objc-runtime-new.mm`) | realized, initialized, subclass lists, method lists, default RR and AWZ bits | map, realize, attach, add and replace methods, set superclass, duplicate, make, dispose, unmap | every order of these | no shortcut passes an override by; the last category wins |
| Class names (`objc-runtime-new.mm`) | names, metaclasses, future and remapped classes, the classes on the heap | read, reserve, take, make, register, dispose, unmap | duplicates and reservations in any order | what is there is found, what is found is there |
| Instance variables, layouts (`objc-runtime-new.mm`, `objc-layout.mm`, `objc-class.mm`) | offsets, sizes, bitmaps, compressed strings | move behind a superclass that grew, add, slide, paste, merge, look up | alignment, words split between strings, a layout that starts elsewhere | ivars do not overlap; a word's layout says what it is |
| Protocols (`objc-runtime-new.mm`) | table by name, lists, sorted and fixed up, lazily | read, remap, look up, make, add, adopt | references to structures that lost | look-ups find what was declared |
| Block trampolines (`objc-block-trampolines.mm`) | pages, free lists, the list of pages with room | make an IMP, remove it | two lists through one array | an IMP leads to its block; a page's slots are used or free, once |
| Associated objects, property accessors (`objc-references.mm`, `objc-accessors.mm`) | object -> key -> value; slots; locks | set, get, remove all; get, set | retain and release outside the lock | no value freed while someone is handed it |
| Hash tables (`maptable.mm`, `hashtable2.mm`, `llvm-DenseMap.h`) | buckets, counts, tombstones | insert, remove, get, grow, reset | what is left behind by a removal | the table is what was stored |
| Exceptions and alt handlers (`objc-exception.mm`) | frames, a list of handlers per thread | throw, catch, rethrow, add, remove, call | handlers that throw and add handlers | the handlers of a frame that was left are gone, the others there |
| Locks (`objc-lockdebug.mm`, `objc-os.mm`, `objc-runtime.mm`) | graph of the order, memo of look-ups, owners | declare, lock, check, fork | every lock at once in fork | order kept; parent and child find all of them free |
| Run loop (`src/HHExercise/HHExercise/RunLoop/CFRunLoop.c`) | loops, modes, sources, observers, timers, blocks, ports | run, sleep, wake up, stop, add, remove, invalidate, fire | wake-ups against sleep, callouts that run the loop again | no wake-up lost; everything is served; timers stay armed |
| Contacts (`src/HHContactsManager/.../HHContactManager.m`) | the manager's lists and the store's | start, move, be told of a change | a store that others change | the lists catch up |
| Selectors, type encodings, the legacy runtime, the other `HH*` exercises | | | | see 7 |

How they interact. A program's `retain` and `release` are the first component.
Its last release sends `-dealloc`, whose end (`objc_destructInstance`,
`clearDeallocating`) removes the associated objects, empties the weak variables
and the side table before the memory is freed; so the weak references hang on
the flags the reference count keeps in the isa word, on the same side table and
on its lock. The side table is a DenseMap for the counts and a weak table. A
message goes to a class that is initialized first and then through the method
cache, whose slow path searches the method lists that categories and
`class_addMethod` change; such a change updates the default RR and AWZ bits, by
which `retain` and `alloc` send no message at all, and flushes the caches. A
weak store may run `+initialize`; a weak load and the autorelease pools end in
retain and release; a pop of a pool runs `-dealloc` methods, which are program
code again. `call_load_methods` runs its loop inside a pool. A run loop runs the
program's callouts, with locks dropped, and they run it again. Most of the
runtime's tables are used under `runtimeLock`, whose place among the other locks
is declared once and held to by `fork`.

The hazards of this code, each at its line and with the properties aimed at it,
are the list `hazards` of `PROJECT.json`.

## 2. Modules

| Module | Is about |
|---|---|
| `AbstractRefcount` | what a reference count promises: a counter whose last release starts dealloc |
| `RootRefcount`, `RootRefcount_proofs` | the reference count of one object, step by step; refines `AbstractRefcount`; the proofs |
| `AbstractWeak`, `WeakReferences`, `WeakReferences_proofs` | weak variables that become nil in the last release; the code, which refines that; the proofs |
| `WeakTable` | the two hash tables behind an entry of `WeakReferences` |
| `AbstractSync`, `ObjcSync`, `ObjcSync_proofs` | one recursive lock per object; the code, which refines that; the proofs |
| `LoadMethods`, `LoadMethods_proofs` | `+load`; the proofs |
| `AbstractPool`, `AutoreleasePool` | one stack of pending releases; the code, which refines that |
| `Initialize`, `Initialize_proofs` | `+initialize`; the proofs |
| `MethodCache`, `MethodCache_proofs` | `objc_msgSend`, the method caches and the changes of methods; the proofs |
| `ClassRealization` | classes, categories and the default RR and AWZ bits |
| `ClassNames`, `ClassNames_proofs` | how classes are found by name, metaclass and reference; the proofs |
| `Protocols` | the table of protocols, their lists, and conformance |
| `Ivars`, `Layouts` | non-fragile ivars; their layouts as bitmaps and strings |
| `Trampolines` | `imp_implementationWithBlock` |
| `ValueHolders` | associated objects and atomic properties |
| `DenseMap`, `HashTables` | the hash tables |
| `AltHandlers` | exceptions and the alternative handlers |
| `Locks` | the lock order, its checks, and fork |
| `RunLoop`, `RunLoop_proofs` | the run of a run loop; the proofs |
| `RunLoopModes` | the items of its modes, and timers |
| `ContactManager` | `HHContactManager` |
| `MC*` | instances of the above, with a `.cfg` per run |

Definitions have the name of the function they stand for where there is one;
otherwise a function is cut into steps named after it, one per access of shared
memory that another thread can see (`RetainLoad`, `RetainStore`, `RetainAdd`).
What runs under one lock from beginning to end is one action. A definition whose
comment begins with "Mutant" is not part of the model: it is a version of the
next definition with a plausible bug, and the list `mutants` of `PROJECT.json`
says which property that bug breaks, so that no property is satisfied by
accident.

What an instance has to give is an operator `...Assumption` of each module; the
instances assume it.

### RootRefcount

One object, any number of threads. `isa` is the isa word (non-pointer or raw,
inline count, `has_sidetable_rc`, `weakly_referenced`, `deallocating`, class);
`side` its side table entry; `lock` the side table's lock. `owner` says which
strong variables of the program hold a counted reference: this is the ghost
against which the count is compared. Each round of a `do { LoadExclusive ...
} while (!StoreExclusive)` loop is two steps, and the store fails when the word
changed (or, with `SpuriousFailure`, for no reason, as it may on LL/SC
hardware). Overflow: a store of half the count, then `sidetable_addExtraRC` as a
step of its own under the lock. Underflow: lock, start over, borrow, store, one
more try in place, undo. `changeIsa` moves the object to a class whose instances
have a raw isa, the inline count to the side table with it. Weak loads and
stores are there as far as they race with the count. Loads of the raw isa and
the operations under the lock are atomic.

### WeakReferences and WeakTable

`WeakReferences`: several objects with side tables of their own. The reference
count is reduced to who holds a reference (`holds`), which the theorem about
`RootRefcount` justifies: its operations are those of an atomic counter. Detail
is on the other side: each weak operation is a stack frame (`stack`), so that
`+initialize`, run by a store or a load, can use weak variables itself up to
`MaxDepth` calls deep. `storeWeak` reads the old object, locks the two side
tables in the order of their addresses one at a time, reads again and starts
over if the variable changed, and gives the locks up to run `+initialize`. The
program keeps to what the comments ask of it ("IS NOT thread-safe with respect
to concurrent modifications", `NSObject.mm:400` and others): two threads may
store to the same variable, but one that is being initialized, copied to, moved
or destroyed is one thread's own.

`WeakTable` is what `WeakReferences` takes for a set: `table` the array of
entries with its count, mask and bound on displacements, `entry` each entry's
referrers, inline (`out_of_line` false) or in an array of their own. An operation
holds the side table's lock and is one action with the growth, compaction or
move out of line it ends in. `weakVar` is what was registered.

### ObjcSync

`data` holds the SyncDatas of each list, `lockp` its spinlock, `fast` and `cache`
each thread's caches. `id2data` is `CacheHit` for the paths that take no lock,
then `LockList`, the walk node by node (`FoundData`, `NextData`, because
`threadCount` changes under it), `ReuseData`, `AllocateData`, `UnlockList` and
`Save`. The program nests its objects in the order `Rank`, without which
`@synchronized` deadlocks by its nature. Up to `MaxStrays` exits of an object that
another thread is inside of model the unmatched `objc_sync_exit` of
`test/synchronized.m`. In the refinement an exit takes effect when its cache entry
is counted down, before the mutex is unlocked.

### LoadMethods and AutoreleasePool

`LoadMethods`: images are mapped, dependencies first; their classes and
categories with `+load` are queued, superclasses first; the outermost
`call_load_methods` calls them, and a `+load` may map and unmap images.
`loadMethodLock` is held throughout, so one thread is enough. The recursion of
`schedule_class_load` through the superclasses is the recursive function of that
name, and `ScheduledOf` the loop of `prepare_load_methods` around it. `UnmapsDetached`
says whether a `+load` may unmap an image whose own `+load` is still due; after
the loop the pool around it is popped (stage `"pop"`), and `DeallocsMap` says
whether a `-dealloc` run then may map images with `+load` (see 5 and 6).

`AutoreleasePool`: the pools of one thread, which are private to it. `pages` is the
linked list, `hot` the page TLS names, `placeholder` the value
`EMPTY_POOL_PLACEHOLDER`. A pop is one step per release (`ReleaseEntry`); a release
may run a `-dealloc` (one more sequence on `pools`), which may autorelease, push
and pop, and return with a pool still pushed, as an exception would leave it.
Both debugging switches are chosen in the initial state. `LeavesInDebug` says
whether a pool may be left like that under `OBJC_DEBUG_POOL_ALLOCATION` too (see 6).

### Initialize and MethodCache

`Initialize`: `state` is the class's "no", "initializing", "initialized", `list` each
thread's `_objc_initializing_classes`, `pending` the `pendingInitializeMap`, and
`stack` each thread's calls. Which classes have a `+initialize` of their own and to
whom it sends messages is the `program`, chosen at first. A message
recurses to the superclass, sets the class to be initializing under the monitor,
calls `+initialize` (which may throw), and then finishes the class or leaves it
pending on its superclass. `isInitializing` and `isInitialized` are two reads
(`objc-initialize.mm:562`). `Fork` leaves one thread, in the child, where classes of
the threads that are gone are taken over or, if they implement `+initialize`, halt
the process. Locks are held for one step.

`MethodCache` begins where `Initialize` ends. The messenger's scan is one load a step
(`ReadMask`, `ReadBuckets`, `ReadKey`, `ReadEnd`, `ReadImp`), with no lock. The slow path
locks (`Lock`), looks up in the method lists and the superclasses' caches
(`Lookup`), asks the resolver once (`Resolve`), and fills: a fill may expand, that
is, store new buckets, then the mask, then put the old ones on the garbage list.
Changes of methods flush under `runtimeLock`, a class a step. A collection looks
at the other threads' program counters one by one, and gives up or, from
`_objc_flush_caches`, insists. `heap` is the memory: `<<>>` when free, so that a
reader inside freed or too few buckets is seen. `send[t].recent` are the
implementations that were current while a message was sent.

### ClassRealization and ClassNames

`ClassRealization`: each operation holds `runtimeLock`. `status` and `initialized` say
how far a class is, `superclass` and `subclasses` the tree that is kept, which is
walked by every change; `methods` are the method lists of a class and its
metaclass, a list per category and one for the class; `default` the
default RR bit of the class and the default AWZ bit of the metaclass;
`unattached` the categories that wait. `class_addMethod`, `method_setImplementation`
(`swizzled`), `class_setSuperclass`, `objc_allocateClassPair` and the rest are
inputs at any time, `MaxChanges` of them.

`ClassNames`: `named` is `gdb_objc_realized_classes`, `nonMeta` the
`nonmeta_class_map`, `future` the `future_named_class_map`, `remapped` the
`remapped_class_map`, `allocated` the `allocatedClasses`. A class whose name is taken
goes to `nonMeta` instead; a class of a name that was reserved moves into the
future class's structure, with its own metaclass. `AddressesReused` says whether an
image may be mapped again at an address where a class was remapped (see 6).

### Protocols

`protocols` is the table by name, `lists` a structure's lists of methods and
properties by kind, `sorted` and `fixedUp` what was done to it, `types` the extended
method types that follow their methods when these are sorted. Every use of a
reference goes through `remapProtocol`. `class_addProtocol` takes the lock twice
(`adopting`); the rest is one action each. Look-ups are functions of the state,
checked in the state they are made in; binary search is written as it searches.

### Ivars and Layouts

`Ivars`: `ro` is what realization works on and may copy: start, size, ivars, the two
layouts; `status` how far a class is, `super` its superclass. An ivar moves
by the growth of its superclass rounded up to the largest alignment of the class
(`moveIvars`), the layouts slide with them. `objc_allocateClassPair`, `class_addIvar`
and `class_setIvarLayout` build a class at run time. `Layouts` has the
same layouts as bitmaps and as the compressed strings the compiler emits, and
every function of `objc-layout.mm` as an action; `marked` is what a bitmap
was told.

### Trampolines, ValueHolders, DenseMap, HashTables

`Trampolines`: `groups` is the list of pages, each with its free list through
`payload`, `nextAvailable` and `nextAvailablePage`; an IMP is page and index.

`ValueHolders`: `associations` and `property` hold values; a
thread's `todo` is the rest of its call, so that a swap is followed by the release
of the old value in a step of its own, whose deallocation (`freed`) removes
associations in turn. Reference counts are counters here, as proved of
`RootRefcount`.

`DenseMap`: `buckets`, `entries`, `tombstones` as the class keeps them, quadratic probing,
and the variant's zero values that may be dropped; `HashTables` the map table's
removal, which puts back what stands behind, and the hash table's arrays. `held`,
`mapHeld`, `hashHeld` are what was stored.

### AltHandlers

One thread; frames, with an instruction each, over call site tables given as
constants; the unwinder's frames stand on top of those it unwinds. `handlers` is the
list with its slots, `registered` what the program was promised, in the order of
registration. A handler's function is program code: it may throw, catch, add
and remove. `Does` says which of these the code at an instruction does.

### Locks

`order` and `memo` are the graph of the declared order and the remembered answers;
`held` the locks each thread has; `want` what it takes next. The operations are the
nestings of the runtime's own code, up to `MaxDepth`. A fork takes all of them as
`_objc_atfork_prepare` does, and parent and child free or reset them.

### RunLoop and RunLoopModes

`RunLoop`: `stack` is the nested activations of `__CFRunLoopRun`, each at a stage of the
function; other threads signal sources (no lock), and post blocks, send to ports,
stop, wake up and remove sources at the stages where the loop has dropped its
locks. The wait is a step that takes what is in a port of the set it waits for.
`__CFRunLoopDoBlocks` takes the whole list into `run`, keeps what is of other modes
in `keep`, one block per step, and puts that back before what came meanwhile.
Program code in callouts runs the loop again. `RunLoopModes`: an activation is its
wait for the timer port; added is the membership of items, the sorted timers of
each mode, `mode` with the deadlines and the kernel's timer, and the order of locks in adding,
removing, invalidating and setting the date of a timer, by other threads and from
callouts. What such a call reads before it has the loop's lock is a step of its own: an
add's test of validity, the modes that a date is set in. An add to the common
modes and `CFRunLoopAddCommonMode` keep the lock over all their modes (`AddingTo`).
Some threads (`Movers`) add, remove and invalidate, others (`Setters`) set dates
and invalidate. Timers have tolerances and repeat. Two ghosts say which races the
properties exempt: `passed` of a mode that a date was set without (see 6), until it is armed
again, and `overlapped`, the items invalidated between an add's test and its lock.

### ContactManager

`contacts`, `groups`, `members` are the store, which other programs change;
`known` and `knownGroups` the manager's lists. Each request to the store is an
action, `moving` and `todo` what is still to do of the start, `changed` and
`telling` the notification on its way. It runs on the main thread. Every reading may
fail, and is then Nil: an empty list of contacts, or groups that the next
addition or query of a group reads again (`RereadGroups`). Every change that the manager
asks for may fail too (`executeSaveRequest`).

### Composites

A behaviour of `MCLoadMethods`, `MCTables` and `MCMachines` runs one of
several machines, chosen at first (`machine`); the variables of the others keep
one value. `MCTables` extends `ClassNames` and `MCMachines` extends `MethodCache`, so
that the properties they check are the ones of the theorems; when that machine
does not run, its variables stay as at first. Their next-state relations are those of the modules, and their
properties are those of the modules for the machine that runs. The machines of
one composite share no state: the composite is a way to check several small
instances in one run, and its state space is the sum of theirs.

## 3. Runs

| Run | Checks | Instance |
|---|---|---|
| `refcount` | `RetainCountExact`, `NoUseAfterFree`, `FreedLeavesNothing`, `IsaMoves`, the refinement, `OperationsFinish` | 2 threads, 3 references, `RC_HALF` 1 |
| `weak` | `Registered`, the refinement | 2 threads, 2 objects with a table each, 2 variables, depth 2 |
| `weak_live` | `OperationsFinish` | one variable, depth 3 |
| `sync` | `OneDataPerObject`, the refinement, `EverybodyLeaves` | 2 threads, 2 objects, 1 slot that doubles, depth 3, a stray exit |
| `load_and_pools` | `SuperclassFirst`, `NoneForgotten`, `Returns`; `TokensLive`, the refinement, `PopsEnd` | 4 images, 5 classes, 4 categories; pages of 4, 9 entries, depth 2 |
| `load_pop` | a counterexample, see 5 | the images, with `DeallocsMap` |
| `runloop` | `NoLostWakeup`, `BlocksInOrder`, `SourcesServed` | 2 modes, 2 sources, 1 observer, one waker, nested up to 2 deep, 6 programs |
| `runloop_modes` | `TimersStayArmed`, `RegisteredWhereItIs`, `TimersFire` | 2 modes, 2 timers, a source, an observer, two other threads, time up to 3, 5 programs |
| `initialize` | `Contiguous`, `OthersWait`, `MessagesReturn` | 4 classes 3 deep, every acyclic program |
| `tables` | `NamesExact`, `TablesExact`, `LayoutsFit`, `HandlersKept` | see below |
| `machines` | `ReadersSafe`, `CallsCurrent`, `SendsReturn`; `DefaultsSafe`, `CategoriesInOrder`, `ProtocolsKept`, `ValuesHeld`, `LocksOrdered`, `CaughtUp` | see below |
| `handlers_order` | a counterexample, see 5 | two functions with nested tries |

What they show. `refcount`: the count is never lost in a transfer, whichever
threads interleave; a thread that is to free the object is the last to touch it.
`weak`: a variable yields an object or nil, never a freed one, and a variable is in
the table if and only if it holds the object; nothing "should never happen" is
reported (`NoWeakError` is a part of `Registered`). `sync`: exactly one SyncData per
object in use, whatever reuse does. `load_and_pools`: see the table in 1.
`runloop`: while the loop is to sleep with work waiting, something is on its way to
wake it; a source that is signalled and the main queue are served even if the
other never rests. `runloop_modes`: a mode with a timer due is armed for it, the
array of timers is sorted when it is searched, and an item that was invalidated is in no mode,
but for the races named in 6. `initialize`: a thread
that sends a message to a class that another is initializing waits, all the way
through superclasses, exceptions and a fork, and always gets on.

`tables` and `machines` run sequential machines, or nearly so, where the order of
operations is the problem: every order is taken; and in `machines` the caches, whose
readers are safe and current while another thread fills, flushes and frees them.
`MethodCache`: 2 classes, 2 selectors of one bucket, 5 arrays, 2 changes. `WeakTable`: 3 objects, 4
variables, tables from 2 slots, which collide and wrap. `DenseMap`: 4 keys, 4 buckets
at first. `HashTables`: 5 keys in 2 buckets that grow. `Trampolines`: pages of 2
slots, 3 pages. `Layouts`: strings of 2 a nibble, up to 8 words. `Ivars`: 3
classes in a chain, 3 types of ivar, growth up to 5 bytes. `ClassRealization`: 4
classes, 3 categories, 2 changes. `ClassNames`: 2 compiled classes of one name, one that
may be ignored, a future class, one made. `Protocols`: 2 images, 5 structures in 3
names, one too small, one made. `ValueHolders`: 2 threads, 2 objects, a key, a
property. `Locks`: 2 threads, 2 stripes, operations of up to 3 locks, fork.
`AltHandlers`: 2 functions, 4 landing pads, stacks of 5 frames, 3 handlers.
`ContactManager`: 2 people, 2 groups ever made.

Why the bounds are enough. `refcount`: three references overflow an inline count of
at most two (one in `extra_rc` and the uncounted last one), so every transfer
happens, and two threads suffice for every pair of steps to interleave; that
nothing new happens with more threads, references or bits is what the theorems
say. `weak`: two objects and two variables are the least with which two stores
take two locks in opposite roles, and one of two weak variables of an object is
cleared before the other. `sync`: with one cache slot the array of the second object
doubles, and depth 3 enters an object again. `load_and_pools`: the images are chosen
so that a subclass is listed before its superclass, an image adds a category to
a class of another, and a class without `+load` stands between two that have it; nine
entries in pages of four are two full pages and a third, the least where a
spare child of a child is deleted, and half full, less than half full and empty
differ. `initialize`: three levels make a class wait for one that waits itself. `MethodCache`: two
selectors in one bucket make a scan go on and wrap, and an insertion come
between two reads; with five arrays the cache grows, is erased and grows again
while a reader still has the first. `runloop_modes`: one thread that moves items and one
that sets dates are what it takes for a snapshot of modes to be stale and for an
item to be invalidated in the middle of an add; each program is about one group of
calls, so that two threads and a callout can be in any of them at once: a date set
while the timer is added elsewhere (`Setting`), also in its callout (`Calling`), runs
inside each other (`Nesting`), invalidation (`Ending`), and membership (`Joining`).
`AltHandlers`: with five frames a handler's function throws, and catches, above the
unwinder that called it, or a function that it calls adds a handler, while another
handler waits; with three handlers the list doubles twice. `tables`: each table passes every size at which
it changes shape, and a larger one reaches no other code. `machines`: two of
each kind that can conflict.

Larger instances were checked once and are not runs: `MethodCache` where the second
thread also sends to the superclass (387,000 states); `Ivars` with more types and more
growth (26.0 million);
`refcount` with 5 references, `RC_HALF` 2 and spurious failures.

Deadlock is checked unless the cfg says why the system may stop: a process that
was halted, threads that have ended, programs that have used up a bound, an
exception nobody catches.

Bounds that are not of the code: `MaxDepth` (nesting of calls, of `-dealloc` in
`AutoreleasePool`, of enters in `ObjcSync`, of locks in `Locks`), `MaxNesting`, `MaxStrays`,
`MaxPending` (what is pending when an image is mapped), `MaxEntries`, `MaxOps`,
`MaxChanges`, `until` (the time at which a program of `RunLoopModes` ends), `MaxAdded`, `MaxHeld`, `MaxGrowth`, `MaxIvars`, `MaxPages`, `MaxWords`,
`MaxSource`, `MaxStack`, `MaxHandlers`, `MaxGroups`. They limit what the program starts,
never what the runtime does once started. `Slots` (4 in the code), `PageSize` (505
entries), `INIT_CACHE_SIZE`, `WEAK_INLINE_COUNT`, `Nibble` (15) and the table sizes are
scaled down. `Memory` in `MethodCache` is large enough for every array that is
asked for, so that malloc never fails.

Fairness. Each thread's steps inside the runtime are weakly fair: the scheduler
runs every thread, and a thread inside a function does not stop there. What the
program starts is not fair; the liveness properties have the form "once the
program starts nothing more, what is under way ends". A lock is a guard, and
weak fairness is enough for its waiters as only finitely many acquisitions are
left then. Some properties need the program's own code to come back:
`EverybodyLeaves` that it leaves the blocks it is in (`Leave`), `PopsEnd` that a
`-dealloc` returns, `MessagesReturn` and `SendsReturn` that methods return, `SourcesServed`
that callouts do and that a thread that waits for the loop's lock gets it some time
(strong fairness of `Return`, `WakeUp`, `RemoveInvalid`, `TimeoutWakes`), `TimersFire` that
time goes on, the kernel delivers what is due (`Tick`, `KernelFires`), callouts
return, and each thread gets some time a lock that others take again and again
(strong fairness of `LoopStep`, `CalloutReturns` and the threads' `Locked`). `refcount` has no spurious failures where liveness is checked: with
them compare-and-swap may fail for ever, and the code relies on the hardware
there. The retry in place (`objc-object.h:635`), which is there to
end such failures, is therefore checked for safety only.

## 4. Proofs

`RootRefcount_proofs` proves, for any set of threads, finite set of references,
classes, and any `RC_HALF` in 1, 2, ...:

- `Invariance`: `Spec => []IndInv`;
- from it `TypeCorrect`, `CountsAreExact` (`RetainCountExact`), `DeallocHappensOnce`,
  `NobodyUsesAFreedObject`, `NothingIsLeftBehind`, `NeverOverreleased`,
  `SideTableAssertsHold`;
- `IsaMovesOneWay`, the action property `IsaMoves`;
- `Refinement`: every step of `RootRefcount` is a step of `AbstractRefcount` or
  leaves its variables alone.

The assumptions are those in the module: `NoThread` and `NoRef` are not threads and
references, `Refs` is finite, there is a class, `RC_HALF` is positive.

The argument. None of the properties is inductive, because in the middle of a
transfer part of the count is in a thread's local variables: a thread that
stored half the overflowing count has still to add the other half to the side
table, one that borrowed has to store. `IndInv` adds these up: `CountOK` says that
inline count, side table count, and `InFlight` plus `Moving` (what threads are
carrying) are the references that exist. For a step to preserve it one has to
know that a successful store replaced the very word its thread loaded
(`OldOK`: what an old value seen earlier implies about the present), that a
transfer happens only under the lock and by one thread (`LockOK`), who holds which
reference at which step (`RefsOK`, `AccessOK`) and which flags are set when the
side table has a count (`IsaOK`, with `FreedOK` for an object that is gone). The
preservation proof has one lemma per action.

`ClassNames_proofs` proves for any sets of compiled, future and made classes and any
names, under `NamesAssumption` and where no address is reused:

- `NamesStayExact`: `Spec => []NamesExact`;
- `RemapsStayLive`: `Spec => []RemapsLive`.

The argument. That a removal leaves every other class findable needs that no other
class that is there has the same metaclass (`MetasDiffer`), which is not so by
construction: a future class takes over the metaclass of the structure it stands
for. `RemapsOK` says that this structure is then "replaced", not there itself,
and leads back to that class and no other; `KindsOK` and `AllocatedOK` say which
states each kind of structure goes through and what of it is on the heap.
`NamesExact` is `TablesFit` and `RemapsLive`, and `IndInv` the conjunction of these
invariants with `TablesFit`; TLC has checked it on the instance of the run `tables`.
With reused addresses `NamesExact` is false: TLC finds it in five steps (see 6).

`WeakReferences_proofs`, for any finite set of threads, any objects, variables and
classes, any assignment of objects to side tables, and calls nested to any depth:

- `Invariance`, and from it `TypeCorrect`, `VariablesRegistered` (`Registered`),
  `NoLocksInProgram`, `ReferencesAreLive`;
- `Refinement`: `WeakReferences` implements `AbstractWeak`.

The argument. `Registered` is not inductive: at the end of a store the variable
moves from one entry to another, which is right only if it is in use (or, for an
initialization, not yet) and no other call has it to itself. `FrameOK` says so of
the call and `Apart` of every two calls, wherever they stand in the stacks of
their threads. That `-dealloc` frees an object whose entry it cleared needs that a
store refuses a deallocating object. For the refinement a variable stands for
what a load of it would yield (`Yields`): so the last release is the abstract step
that empties all variables, and clearing the entry is none.

`ObjcSync_proofs`, for any finite set of threads, any objects, lists, SyncDatas and
size of a cache:

- `Invariance`, and from it `TypeCorrect`, `OneLockPerObject` (`OneDataPerObject`),
  `CountsAreUsers`, `MutexesMatch`, `RoomInCaches`, `ChecksNeverFire` (none of the calls
  of `_objc_fatal` in `id2data` is reached);
- `Refinement`: `ObjcSync` implements `AbstractSync`.

The argument. `OneDataPerObject` depends on what the walk along a list has
established when it ends, while nobody else may add to the list: `WalkOK` says that
what it has passed does not serve its object, and that the unused SyncData it
found is still unused. That is so because `threadCount` is changed under the list's
lock but for the decrements, and is the number of users (`UsersAreCounted`), which the caches know
(`ItemsOK`). `MutexMatchesCaches` is why an exit succeeds exactly if the thread is
inside. In the refinement an exit is the step that counts down, for from then on
the SyncData may serve another object.

`Initialize_proofs`, for any threads, any class hierarchy without a cycle and any
programs (`HierarchyAssumption`: a root class's `+initialize` sends no message, as
`NSObject`'s does not):

- `Invariance`, `TypeCorrect`, `ContiguousSubtree` (`Contiguous`);
- `OthersMustWait`, the action property `OthersWait`.

The argument. A class whose superclass is still being initialized is finished
with it, by whichever thread does that. `PendingOK` says that it is on the list of
that thread, for then the thread finishes both. In the child of a fork this is
false: the thread of the superclass is gone, another takes the class over, and
the pending ones are on no living thread's list. Such a superclass has a `+initialize`
that had sent a message, and the child halts in `performForkChildInitialize` before
it finishes; `PendingOK` says so much of it. `StackOK` describes the nested calls of
a thread: each is for the superclass of the one below or for a class that its
`+initialize` sends to.

`RunLoop_proofs`, for any modes, sources, observers, threads and programs, and runs
nested to any depth (`RunLoopAssumption`):

- `Invariance`, `TypeCorrect`, `NoWakeupLost` (`NoLostWakeup`), `BlocksStayInOrder`
  (`BlocksInOrder`), `NeverReentered`.

The argument. A wake-up is dropped while the loop ignores them, and the port
holds one message, so nothing can be said of single wake-ups. `Noticed` says
instead: what came since an activation looked for its kind in this iteration
(`Unseen`) has a wake-up delivered or on its way (`Notice`), unless the activation will
not sleep in this iteration (`Excused`). Which kinds it has looked for depends on the
stage. It ignores wake-ups only at stages where it has looked for none. The lower
activations have to be excused, for the innermost one takes the messages; so
`NoLostWakeup` is about programs that nest runs only in the callouts of `IgnoredNests`,
and false of others (see 6). The blocks stay in order since an inner activation took its
blocks while the outer ones held older ones (`IdsOK`, and the last part of
`BlocksInOrder`). `NeverReentered` needs besides that an observer in its callout is on
no inner activation's list (`CalloutsOK`).

`LoadMethods_proofs`, for any images, class hierarchy without a cycle, and lists of
nonlazy classes and categories in any order, where no `+load` unmaps an image whose
own `+load` is due (`~ UnmapsDetached`; see 6 for what happens otherwise):

- `Invariance`, `TypeCorrect`, and `OnlyMappedCalled`: the class or category whose `+load`
  runs is in a mapped image;
- `SuperclassesFirst`, the action property `SuperclassFirst`;
- `NobodyForgotten` (`NoneForgotten`), which assumes besides that the pop of the pool maps
  no images (`~ DeallocsMap`): without that the run `load_pop` refutes it (see 5).

The assumptions `LoadAssumption` and `ImageAssumption` are what the linker and dyld
see to: a class is in one image, its superclass in that image or one it depends on,
and the nonlazy classes are those with `+load` and perhaps others.

The argument. Scheduling recurses to the superclass, so its result is first shown to
be what the recursion says (`AncestorsDef` and its like use that the hierarchy is
well-founded): a list that has, before each class, every ancestor with `+load`
that was not scheduled earlier. A list keeps this property when classes of an image
that is unmapped are taken out of it, because no class that stays has an ancestor
in that image. The loop calls the classes of a detached list while `+load` methods
put others on a new one, and the categories only when no class is left. `DetachedOK`
says that what has to come before an entry was called or is running, or stands
before it in the detached list; `Settled` adds up what
was called, is being called and is due, and with every mapped class in it there is
nothing forgotten when both lists are empty.

`MethodCache_proofs`, for any threads, classes, selectors, superclass lists, method
lists, messages and changes, and any sizes of caches (`CacheAssumption`: the
superclasses of a superclass are the rest of the list, a selector's key is its own
and more than 1, an array has at least two buckets, which is 4 in the code):

- `Invariance`, `TypeCorrect`, `NoReaderHarmed` (`ReadersSafe`), `CallsStayCurrent`
  (`CallsCurrent`).

The argument, for the readers. A reader loads mask and buckets apart, and a writer
stores them apart, so a reader may have a mask and buckets that never belonged
together. It is in bounds nevertheless, since buckets are stored before a larger mask
and a mask never shrinks (`Bystanders` asks that of every step of a writer), so that
the buckets loaded are at least as many as the mask loaded before says (`ReaderOK`,
`CacheOK`); and a scan ends or wraps at the end marker, which is the last of an array
and never overwritten (`IsArray`), so that an index that is not past it stays in. That
an array it has is not freed is not a matter of locks: the collection looks at each
thread's program counter once, and a thread that it found outside of a scan
may begin one right then. What it then loads from a cache is no garbage, which is
the part of `ArrayOK` that relates each reader to each thread that is collecting.
For what it calls: an array is one class's from its allocation to its
reuse (`CacheOK`, `ArrayOK`), an entry's implementation is stored before its key, and
what is in a cache is current, or was current before the change under way and the
class is still to be flushed (`EntriesOK`). A flush passes by the caches that are
empty; `NothingLeft` is why it may. What the slow path finds through the superclasses'
caches is what the class would find by itself (`SearchCurrent`), and nobody changes
that before it is cached, as `runtimeLock` is held from the look-up to the fill
(`FillOK`). TLC has checked `IndInv` on the instance of the run `machines`.

Only model-checked:

- all liveness (`EverybodyLeaves`, `PopsEnd`, `MessagesReturn`, `SendsReturn`, `SourcesServed`,
  `TimersFire`, `OperationsFinish`, `Returns`), which is out of this prover's reach;
- the machines whose properties compare a recursive definition with a
  reference: the hash tables, layouts, ivars and trampolines (`TablesExact`,
  `LayoutsFit`), and `Protocols`, which has a RECURSIVE operator;
- what is not proved yet: `TokensLive` and the refinement of `AbstractPool`,
  `TimersStayArmed` and `RegisteredWhereItIs` of the modes, and those of class realization,
  value holders, locks, handlers and contacts.

## 5. Where the code and its comments disagree

- `load_pop`. "Re-entrant calls do nothing; the outermost call will finish the job."
  (`objc-loadmethod.mm:344`): not when the re-entrant call comes from the pop of the
  pool at `:361`, which is after the loop and before `loading` is cleared. The
  `+load` methods scheduled then wait until some other image with `+load` is mapped.
  The run `load_and_pools` assumes that the `-dealloc` methods run by that pop map no
  image that has one.
- `handlers_order`. "called in order registered" (`objc-exception.mm:1363`): handlers
  are called in the order of their slots (`:1374`), and a new one takes the first
  slot that is free (`:1175`), which may lie before an older one's.

## 6. What is known not to hold

Each of these was seen in a counterexample with the constants or the operator
named; none is a run: the runs exclude the case by an assumption, or a property
exempts it, as said here.

- `@synchronized`: `objc-sync.mm:36` calls `threadCount` the "number of THREADS using
  this block". An exit by a thread that is not inside, while another thread is,
  is counted at `:211` and not counted back when `id2data` returns nil at `:251`. The
  SyncData is then never reused. It does no other harm: the refinement holds
  with stray exits.
- `+load`: one that unmaps an image whose classes are on the list being called
  (`UnmapsDetached`). `remove_class_from_loadable_list` (`objc-loadmethod.mm:128`) does not
  find them, since the list was detached at `:189`, and the class is sent `+load`
  afterwards.
- Autorelease pools: "we expect any children to be completely empty" (`NSObject.mm:812`)
  does not hold under `OBJC_DEBUG_POOL_ALLOCATION` when a thread ends with an object
  autoreleased outside of any pool whose `-dealloc` leaves a pool pushed: the loop of
  `releaseUntil` looks at its own page only (`LeavesInDebug`). And of "I think this
  `while` can be `if`, but I can't prove it" (`:793`): `SkipsOnePage` says it can, unless
  that setting is on: a `-dealloc` that starts a pool while the hot page has just
  become empty puts it on a further page, and if it leaves that pool two empty
  pages are above the next entry.
- Class names: an image that is mapped again where a class of it was remapped meets
  the stale entry (`AddressesReused`; `objc-runtime-new.mm:1342-1346` only adds). A class
  can be there and its name lead nowhere, after an older class of that name was
  unmapped (`NonMetaFound`; the look-up of a metaclass's class by name at `:1441-1443`
  does not expect nil).
- Classes: a category with class methods that is unmapped before its class came
  stays on the metaclass's list of unattached categories (`:2914`), and attached
  categories stay attached; the instance unmaps neither.
- Protocols: the methods added to a protocol that is being made are appended to a
  list that is marked as sorted and never is, so the binary search may miss one
  (`AddedFound`, `:706` and `:3865`; `ProtocolsKept` excepts a method missed in a list that
  is not in the order of the addresses, and no other); two threads that adopt one
  protocol at once may both add it (`AdoptedOnce`, `:5936`); a name that an image brings
  while the program makes a protocol of it is taken from it (`NamesReserved`).
- Trampolines: `nextAvailablePage` is the "linked list of pages with available slots"
  (`objc-block-trampolines.mm:213`), but freeing a slot of the first page, which is no
  page's next, appends it to its own list and cuts off the pages behind it
  (`:542-554`): they are used again only once a slot of theirs is freed
  (`AvailablePagesListed`).
- Layouts: `nil` and the empty layout are told apart by some functions and not by
  others.
- Locks: a fork in a `+load` finds `loadMethodLock` taken, and the child's check that
  no lock is held fails in a debug build.
- Alt handlers: a handler added by a handler's function for the frame that is being
  unwound may stay registered; a try that is around another one of the same
  function with a landing pad of its own is excluded by `HandlersAssumption`.
- Run loop: should the kernel's timer fire before its time, the comment at
  `CFRunLoop.c:2549` has it armed again, but `__CFArmNextTimerInMode` does nothing where the
  deadline is the one it armed last (`:1916`). `TimersStayArmed` is violated by the
  programs `MCEarly` of `MCRunLoopModes`; those of the run have a kernel that is never
  early.
- Run loop: a run nested in a callout before the sleep, an observer of
  `kCFRunLoopBeforeWaiting` for one, may take the wake-up message that was meant for
  the activation around it, which then sleeps over what it was woken up for.
  `WakesUp`, which says nothing of the nesting, is violated by the programs `MCEarly` of
  `MCRunLoop`.
- Run loop: a timer that is added to another mode between the halves of
  `CFRunLoopTimerSetNextFireDate`, which reads the timer's modes (`CFRunLoop.c:3776-3778`) before
  it takes the lock of the loop (`:3788`), keeps its old place in that mode's array and its
  kernel timer there is not set anew: the array is not sorted, until the mode
  is armed the next time with it in order. And a timer that is set to a later date
  in its own callout is armed in the mode that runs alone (`:2068`): while it was firing the
  others passed it by (`:1894`), so that in them it may fire late or, with no other
  timer, not until something else arms them. `SetInAllItsModes` is violated in both ways;
  `TimersStayArmed` and `TimersFire` exempt such a mode until it is armed again (`passed`).
- Run loop: an add tests that an item is valid before it takes the lock of the loop
  and not again (`CFRunLoop.c:2827`, `:3015`, `:3117`). An item that another thread invalidates
  in between is put in the mode afterwards and stays there, no call of
  the invalidation being left to take it out (`InvalidatedAreGone`). `RegisteredWhereItIs`
  exempts these items (`overlapped`) and no others.
- Weak table: an entry whose referrers are out of line and all gone stays until
  its object is deallocated (`objc-weak.mm:361` tests the inline ones only).
- Contacts: a group may be made twice, since the list looked through was read before
  the request to make it (`AddedOnce`, `HHContactManager.m:89`); a contact is removed
  from the old group before the new one is looked up, which may be missing, and
  is then in none (`:55-58`), "工作" being never made (`:63`); `updateContactWithPerson`
  saves nothing (`:336-349`); `queryAllContacts` completes once per contact (`:298-305`).
  No error of the store is looked at. When a reading of the contacts fails (`:179-181`) the list
  is empty until the store tells of the next change (`:38`, `:74`); groups that could not be
  read (`:81`) are nil, for which `groupWithName` finds nothing, until an addition or a query
  of a group reads them again (`:87`, `:139`). So `ReadAtLast` is violated, and `CaughtUp` says what
  holds of lists that were read. With nil groups `addGroupWithName` makes another group of
  a name that is there. A move that fails half-way leaves a contact in both groups or in none (`:56-58`).

## 7. What is not modelled

- Reference counting: the side table count's PINNED state (2^62 references),
  releases of references one does not hold, tagged pointers, overridden
  retain/release (but for the default RR bit). `objc_destructInstance` is one step.
- Weak references: `-retainWeakReference` and `-allowsWeakReference` that refuse;
  the `OrNil` variants differ from the others only in that the others halt;
  concurrent moves of one variable, which the code excludes by comment.
- `@synchronized`: nil and fork. `+load`: images of the legacy runtime; `isLoadable` is
  always true. Autorelease pools: high-water marks, printing, protection;
  `badPop` for tokens the program no longer owns; `objc_autoreleaseReturnValue`'s
  optimization, which is the caller's instructions.
- `+initialize`: programs whose methods wait for each other in a circle, a deadlock of
  theirs; a root class's `+initialize` is taken for empty in a fork child.
- Method caches: preoptimized caches, `cache_delete`, statistics, other layouts than
  x86_64's; selectors' own table, which is one lock around a set.
- Classes: the shared cache, Swift's names, duplicates of `NSObject`, a new superclass
  for a class that shares its metaclass, the default RR of class objects, nil class
  lists. Protocols stay mapped.
- Property accessors: nonatomic ones, which promise nothing between threads, copies,
  structures and C++ objects (their locks are in `Locks`).
- Hash tables: copies and comparisons of whole tables, the prototypes and their
  unique strings, `SmallDenseMap`. Type encodings are strings that are parsed.
- Exceptions: the personality routine of the C++ library is external; uncaught
  handlers and the setjmp exceptions of the legacy runtime, which is compiled only
  without `__OBJC2__`, are left out.
- Run loop: the Windows and the no-dispatch variants, retain and description
  callbacks.
- The other `HH*` applications: views and demonstrations without state worth a model.

## 8. Plan

Done, the most used and most concurrent first: `RootRefcount`, `WeakReferences` and `ObjcSync`
with their proofs, `LoadMethods` with its proofs, `AutoreleasePool`; `RunLoop`, `Initialize`
and `MethodCache` with their proofs, `RunLoopModes`, `WeakTable`, `ClassRealization`, `ClassNames` with its
proofs, `ValueHolders`, `DenseMap`, `HashTables`, `Trampolines`, `Layouts`, `Ivars`, `Protocols`,
`Locks`, `AltHandlers`, `ContactManager`.

To be proved next: `RunLoopModes` (`TimersStayArmed`, `RegisteredWhereItIs`),
`ClassRealization` (`DefaultsSafe`), `AutoreleasePool` (`TokensLive` and the refinement).

Left: unloading of images in `ClassRealization` with attached categories; the shared
cache's tables (`objc-opt.mm`), selectors; `WeakReferences` composed with `Initialize`
in place of its one-class version.
