---- MODULE LoadMethods ----
(***************************************************************************)
(* The calling of +load: load_images, unmap_image (objc-runtime-new.mm)    *)
(* and call_load_methods (objc-loadmethod.mm).                             *)
(*                                                                         *)
(* loadMethodLock is held throughout, but it is recursive: a +load may map *)
(* images, and unmap them, in the middle of the loops that call the +load  *)
(* methods.  The inner load_images only adds to the lists of pending       *)
(* methods, the outermost call_load_methods works them off, from lists it  *)
(* has detached.  Other threads wait for the lock, so that one thread is   *)
(* enough here.                                                            *)
(*                                                                         *)
(* The dynamic linker announces an image after those it depends on, and    *)
(* keeps these mapped.                                                     *)
(***************************************************************************)
EXTENDS Naturals, Sequences, FiniteSets

CONSTANTS
    Images,
    Classes,
    Categories,
    Nil,
    DependsOn,       \* per image: the images that must be there before it
    ClassList,       \* per image: its classes
    NonlazyClasses,  \* per image: those that need +load, as they are listed
    CategoryList,    \* per image: its categories with +load
    Superclass,      \* per class, Nil for a root class
    CategoryClass,   \* per category: its class
    HasLoad,         \* the classes that implement +load themselves
    UnmapsDetached,  \* may a +load unmap an image whose +load is due?
    DeallocsMap,     \* may the final pop of the pool map an image with +load?
    MaxPending       \* bound: how many are pending when an image is mapped

ASSUME LoadAssumption ==
    /\ Nil \notin Classes \cup Categories
    /\ Classes \cap Categories = {}
    /\ DependsOn \in [Images -> SUBSET Images]
    /\ ClassList \in [Images -> SUBSET Classes]
    /\ NonlazyClasses \in [Images -> Seq(Classes)]
    /\ CategoryList \in [Images -> Seq(Categories)]
    /\ Superclass \in [Classes -> Classes \cup {Nil}]
    /\ CategoryClass \in [Categories -> Classes]
    /\ HasLoad \subseteq Classes
    /\ UnmapsDetached \in BOOLEAN
    /\ DeallocsMap \in BOOLEAN
    /\ MaxPending \in Nat

Entries(s) == {s[k] : k \in DOMAIN s}
Content(i) == ClassList[i] \cup Entries(CategoryList[i])

(* The classes that an image can refer to.                                 *)
Visible(i) == ClassList[i] \cup UNION {ClassList[j] : j \in DependsOn[i]}

(* What compiler and linker see to: the hierarchy has no cycle, a class or *)
(* category is in one image and listed there once, a class with a +load    *)
(* is listed as nonlazy, and an image is linked with those it refers to.   *)
ASSUME ImageAssumption ==
    /\ \A S \in SUBSET Classes : S # {} => \E c \in S : Superclass[c] \notin S
    /\ \A i, j \in Images : i # j => Content(i) \cap Content(j) = {}
    /\ \A i \in Images :
           /\ Entries(NonlazyClasses[i]) \subseteq ClassList[i]
           /\ ClassList[i] \cap HasLoad \subseteq Entries(NonlazyClasses[i])
           /\ \A k, l \in DOMAIN CategoryList[i] :
                  CategoryList[i][k] = CategoryList[i][l] => k = l
           /\ \A c \in ClassList[i] : Superclass[c] \in Visible(i) \cup {Nil}
           /\ \A m \in Entries(CategoryList[i]) : CategoryClass[m] \in Visible(i)

VARIABLES
    mapped,               \* the images
    RW_LOADED,            \* the classes with this flag
    loadable_classes,     \* the pending classes, Nil for one that is gone
    loadable_categories,
    loading,              \* the flag of call_load_methods
    stage,                \* where the outermost call_load_methods is
    detached,             \* the list it has detached ...
    next,                 \* ... and the index it has come to
    running,              \* the class or category whose +load runs
    called                \* those whose +load has returned (auxiliary)

vars == <<mapped, RW_LOADED, loadable_classes, loadable_categories,
          loading, stage, detached, next, running, called>>
lists == <<loadable_classes, loadable_categories>>
loop == <<loading, stage, detached, next>>

Init ==
    /\ mapped = {}
    /\ RW_LOADED = {}
    /\ loadable_classes = <<>>
    /\ loadable_categories = <<>>
    /\ loading = FALSE
    /\ stage = "none"
    /\ detached = <<>>
    /\ next = 1
    /\ running = Nil
    /\ called = {}

-----------------------------------------------------------------------------
(* The program, outside of call_load_methods, in a +load, or in a -dealloc *)
(* run by the pop of the pool around the +loads, maps an image.            *)

InProgram == stage \in {"none", "pop"} \/ running # Nil

(* The superclasses of a class, and the class with them.                   *)
Ancestors[c \in Classes] ==
    IF Superclass[c] = Nil THEN {}
    ELSE {Superclass[c]} \cup Ancestors[Superclass[c]]
Line(c) == {c} \cup Ancestors[c]

(* RW_LOADED and loadable_classes as schedule_class_load finds and leaves  *)
(* them.                                                                   *)
Scheduled(loaded, list) == [loaded |-> loaded, list |-> list]

add_class_to_loadable_list(s, c) ==
    Scheduled(s.loaded \cup {c},
              IF c \in HasLoad THEN Append(s.list, c) ELSE s.list)

(* Mutant: the superclasses are not scheduled first.                       *)
schedule_class_loadFlat(s, c) ==
    IF c \in s.loaded THEN s ELSE add_class_to_loadable_list(s, c)

(* From the first superclass that is not RW_LOADED down to the class.      *)
schedule_class_load(s, c) ==
    LET schedule[d \in Line(c) \cup {Nil}] ==
            IF d = Nil \/ d \in s.loaded THEN s
            ELSE add_class_to_loadable_list(schedule[Superclass[d]], d)
    IN  schedule[c]

(* The first k nonlazy classes of an image.                                *)
ScheduledOf(i) ==
    LET scheduled[k \in 0 .. Len(NonlazyClasses[i])] ==
            IF k = 0 THEN Scheduled(RW_LOADED, loadable_classes)
            ELSE schedule_class_load(scheduled[k - 1], NonlazyClasses[i][k])
    IN  scheduled[Len(NonlazyClasses[i])]

prepare_load_methods(i) ==
    /\ loadable_classes' = ScheduledOf(i).list
    /\ RW_LOADED' = ScheduledOf(i).loaded
    /\ loadable_categories' = loadable_categories \o CategoryList[i]

(* Re-entrant calls do nothing.                                            *)
call_load_methods ==
    /\ loading' = TRUE
    /\ stage' = IF loading THEN stage ELSE "loop"
    /\ UNCHANGED <<detached, next>>

hasLoadMethods(i) == NonlazyClasses[i] # <<>> \/ CategoryList[i] # <<>>

load_images(i) ==
    /\ InProgram
    /\ i \notin mapped
    /\ DependsOn[i] \subseteq mapped
    /\ stage = "pop" /\ ~DeallocsMap => ~hasLoadMethods(i)
    /\ Len(loadable_classes) + Len(loadable_categories) <= MaxPending
    /\ mapped' = mapped \cup {i}
    /\ IF hasLoadMethods(i)
       THEN prepare_load_methods(i) /\ call_load_methods
       ELSE UNCHANGED <<RW_LOADED, lists, loop>>
    /\ UNCHANGED <<running, called>>

-----------------------------------------------------------------------------
(* The program unmaps an image that no other image needs and none of whose *)
(* code is running.                                                        *)

Due == {detached[k] : k \in {j \in DOMAIN detached : j >= next}}

(* remove_class_from_loadable_list, remove_category_from_loadable_list     *)
Removed(list, i) ==
    [k \in DOMAIN list |-> IF list[k] \in Content(i) THEN Nil ELSE list[k]]

unmap_image(i) ==
    /\ InProgram
    /\ i \in mapped
    /\ \A j \in mapped : i \notin DependsOn[j]
    /\ running \notin Content(i)
    /\ UnmapsDetached \/ Content(i) \cap Due = {}
    /\ mapped' = mapped \ {i}
    /\ loadable_categories' = Removed(loadable_categories, i)
    /\ loadable_classes' = Removed(loadable_classes, i)
    /\ RW_LOADED' = RW_LOADED \ ClassList[i]
    /\ called' = called \ Content(i)
    /\ UNCHANGED <<loop, running>>

-----------------------------------------------------------------------------
(* call_load_methods: classes as long as there are any, then the           *)
(* categories once.                                                        *)

(* Mutant: the list is copied, and still pending.                          *)
DetachClassesCopies ==
    /\ stage = "loop"
    /\ loadable_classes # <<>>
    /\ stage' = "classes"
    /\ detached' = loadable_classes
    /\ next' = 1
    /\ UNCHANGED <<mapped, RW_LOADED, lists, loading, running, called>>

DetachClasses ==
    /\ stage = "loop"
    /\ loadable_classes # <<>>
    /\ stage' = "classes"
    /\ detached' = loadable_classes
    /\ next' = 1
    /\ loadable_classes' = <<>>
    /\ UNCHANGED <<mapped, RW_LOADED, loadable_categories, loading,
                   running, called>>

DetachCategories ==
    /\ stage = "loop"
    /\ loadable_classes = <<>>
    /\ stage' = "categories"
    /\ detached' = loadable_categories
    /\ next' = 1
    /\ loadable_categories' = <<>>
    /\ UNCHANGED <<mapped, RW_LOADED, loadable_classes, loading,
                   running, called>>

CanLoad(s) == stage = s /\ running = Nil /\ next <= Len(detached)
Finished(s) == stage = s /\ running = Nil /\ next > Len(detached)

(* The body of the loops; an entry that is Nil is passed over.             *)
ClassLoad ==
    /\ CanLoad("classes")
    /\ running' = detached[next]
    /\ next' = next + 1
    /\ UNCHANGED <<mapped, RW_LOADED, lists, loading, stage, detached, called>>

CategoryLoad ==
    /\ CanLoad("categories")
    /\ running' = detached[next]
    /\ next' = next + 1
    /\ UNCHANGED <<mapped, RW_LOADED, lists, loading, stage, detached, called>>

(* A category that has been called leaves the list; a class does not, its  *)
(* list is freed afterwards.                                               *)
LoadReturns ==
    /\ running # Nil
    /\ called' = called \cup {running}
    /\ running' = Nil
    /\ detached' = IF stage = "categories"
                   THEN [detached EXCEPT ![next - 1] = Nil] ELSE detached
    /\ UNCHANGED <<mapped, RW_LOADED, lists, loading, stage, next>>

ClassesDone ==
    /\ Finished("classes")
    /\ stage' = "loop"
    /\ detached' = <<>>
    /\ next' = 1
    /\ UNCHANGED <<mapped, RW_LOADED, lists, loading, running, called>>

(* The detached list without the entries that are Nil, in its order.       *)
Compacted ==
    LET left == {k \in DOMAIN detached : detached[k] # Nil}
        Nth(n) == CHOOSE k \in left : Cardinality({j \in left : j < k}) = n - 1
    IN  [n \in 1 .. Cardinality(left) |-> detached[Nth(n)]]

(* Mutant: new categories are no reason for another turn of the loop.      *)
CategoriesDoneOnce ==
    /\ Finished("categories")
    /\ loadable_categories' = Compacted \o loadable_categories
    /\ detached' = <<>>
    /\ next' = 1
    /\ stage' = IF loadable_classes # <<>> THEN "loop" ELSE "pop"
    /\ UNCHANGED <<mapped, RW_LOADED, loadable_classes, loading, running,
                   called>>

(* What is left of the detached list, and the categories that came         *)
(* meanwhile behind it, are pending; these, or new classes, mean another   *)
(* turn of the loop.                                                       *)
CategoriesDone ==
    /\ Finished("categories")
    /\ loadable_categories' = Compacted \o loadable_categories
    /\ detached' = <<>>
    /\ next' = 1
    /\ LET again == loadable_classes # <<>> \/ loadable_categories # <<>>
       IN  stage' = IF again THEN "loop" ELSE "pop"
    /\ UNCHANGED <<mapped, RW_LOADED, loadable_classes, loading, running,
                   called>>

(* The pool is popped, which runs -deallocs, before loading is cleared.    *)
PopDone ==
    /\ stage = "pop"
    /\ stage' = "none"
    /\ loading' = FALSE
    /\ UNCHANGED <<mapped, RW_LOADED, lists, detached, next, running, called>>

Step ==
    \/ DetachClasses
    \/ DetachCategories
    \/ ClassLoad
    \/ CategoryLoad
    \/ LoadReturns
    \/ ClassesDone
    \/ CategoriesDone
    \/ PopDone

Program == \E i \in Images : load_images(i) \/ unmap_image(i)

Next == Program \/ Step

Spec == Init /\ [][Next]_vars

(* The loops go on, and each +load returns.                                *)
FairSpec == Spec /\ WF_vars(Step)

-----------------------------------------------------------------------------
TypeOK ==
    /\ mapped \subseteq Images
    /\ RW_LOADED \subseteq Classes
    /\ loadable_classes \in Seq(Classes \cup {Nil})
    /\ loadable_categories \in Seq(Categories \cup {Nil})
    /\ loading \in BOOLEAN
    /\ stage \in {"none", "loop", "classes", "categories", "pop"}
    /\ detached \in
           Seq((IF stage = "classes" THEN Classes ELSE Categories) \cup {Nil})
    /\ next \in 1 .. Len(detached) + 1
    /\ running \in Classes \cup Categories \cup {Nil}
    /\ called \subseteq Classes \cup Categories

(* The +loads that come before that of a class or category.               *)
Before(m) ==
    IF m \in Classes THEN Ancestors[m] \cap HasLoad
    ELSE IF m \in Categories THEN Line(CategoryClass[m]) \cap HasLoad
    ELSE {}

(* +load is sent to a class only when that of its superclasses has         *)
(* returned, and to a category only when that of its class and the         *)
(* superclasses of its class has, although a +load brings new classes and  *)
(* categories at any point of the loops.                                   *)
(* And it is sent once while the image is mapped.                          *)
SuperclassFirst ==
    /\ []( Before(running) \subseteq called )
    /\ [][running' # running => running' \notin called]_vars

(* When call_load_methods is over, no +load of a mapped image has been     *)
(* forgotten, those included that were scheduled during it: "Re-entrant    *)
(* calls do nothing; the outermost call will finish the job."  Only those  *)
(* that come in the pop of its pool wait for another load_images.          *)
NoneForgotten ==
    ~loading =>
        \A i \in mapped :
            (ClassList[i] \cap HasLoad) \cup Entries(CategoryList[i])
                \subseteq called

(* No +load is sent to a class or category of an image that is gone: "it   *)
(* is now no longer loadable (because its image is being unmapped)".  The  *)
(* lists it is removed from do not include the detached one.               *)
OnlyMapped ==
    running # Nil => \E i \in mapped : running \in Content(i)

(* Whenever the program stops mapping and unmapping images, the outermost  *)
(* call_load_methods returns.                                              *)
Returns == <>[][~Program]_vars => <>[]~loading

-----------------------------------------------------------------------------
(* The inductive invariant, where no +load unmaps an image whose +load is  *)
(* due.                                                                    *)

(* What is there, and what has been called or will be next.                *)
Mapped == UNION {Content(i) : i \in mapped}
Settled == called \cup Due \cup {running}

(* Every image has those it depends on, and nothing unmapped is marked.    *)
ImagesOK ==
    /\ \A i \in mapped : DependsOn[i] \subseteq mapped
    /\ RW_LOADED \subseteq Mapped
    /\ Mapped \cap HasLoad \subseteq RW_LOADED
    /\ called \subseteq Mapped

StageOK ==
    /\ loading <=> stage # "none"
    /\ stage \in {"none", "loop", "pop"} =>
           detached = <<>> /\ next = 1 /\ running = Nil
    /\ stage = "classes" => running \in Classes \cup {Nil}
    /\ stage = "categories" =>
           \A k \in 1 .. next - 1 :
               detached[k] # Nil => k = next - 1 /\ running = detached[k]
    /\ stage = "categories" /\ running # Nil =>
           next > 1 /\ detached[next - 1] = running

(* Scheduled classes: each RW_LOADED one with a +load is settled or on the *)
(* list, once, and the superclasses before it.                             *)
ScheduledOK(s) ==
    /\ Settled \cap Classes \subseteq s.loaded
    /\ \A c \in s.loaded : Superclass[c] \in s.loaded \cup {Nil}
    /\ \A c \in s.loaded \cap HasLoad : c \in Settled \cup Entries(s.list)
    /\ \A k \in DOMAIN s.list : s.list[k] # Nil =>
           /\ s.list[k] \in s.loaded \ Settled
           /\ \A j \in DOMAIN s.list : s.list[j] = s.list[k] => j = k
           /\ \A c \in Before(s.list[k]) :
                  c \in Settled \/ \E j \in 1 .. k - 1 : s.list[j] = c

CategoriesOK ==
    /\ \A m \in Mapped \cap Categories :
           m \in Settled \cup Entries(loadable_categories)
    /\ \A k \in DOMAIN loadable_categories : loadable_categories[k] # Nil =>
           /\ loadable_categories[k] \in Mapped \ Settled
           /\ \A j \in DOMAIN loadable_categories :
                  loadable_categories[j] = loadable_categories[k] => j = k

DetachedOK ==
    /\ running # Nil => running \in Mapped \ (called \cup Due)
    /\ Before(running) \subseteq called
    /\ \A k \in next .. Len(detached) : detached[k] # Nil =>
           /\ detached[k] \in Mapped \ called
           /\ \A j \in next .. Len(detached) : detached[j] = detached[k] => j = k
           /\ \A c \in Before(detached[k]) :
                  \/ c \in called \cup {running}
                  \/ \E j \in next .. k - 1 : detached[j] = c

(* Outside of the loop nothing is pending.                                 *)
NothingPending ==
    stage \in {"none", "pop"} =>
        loadable_classes = <<>> /\ loadable_categories = <<>>

IndInv ==
    /\ TypeOK
    /\ ImagesOK
    /\ StageOK
    /\ ScheduledOK(Scheduled(RW_LOADED, loadable_classes))
    /\ CategoriesOK
    /\ DetachedOK
    /\ ~DeallocsMap => NothingPending
====
