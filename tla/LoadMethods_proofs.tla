---------------------------- MODULE LoadMethods_proofs ----------------------------
(***************************************************************************)
(* Proofs about LoadMethods, for any images, class hierarchy and lists of  *)
(* nonlazy classes, where no +load unmaps an image whose +load is due:     *)
(* +load is sent to superclasses first, once (SuperclassesFirst), to       *)
(* nothing that is unmapped (OnlyMappedCalled), and to all that is mapped  *)
(* (NobodyForgotten).                                                      *)
(***************************************************************************)
EXTENDS LoadMethods, WellFoundedInduction, SequenceTheorems, FiniteSetTheorems, TLAPS

-----------------------------------------------------------------------------
(* The class hierarchy.                                                    *)

(* What the assumptions say of the constants.                              *)
LEMMA Constants ==
    /\ Nil \notin Classes /\ Nil \notin Categories
    /\ Classes \cap Categories = {}
    /\ HasLoad \subseteq Classes
    /\ \A c \in Classes : Superclass[c] \in Classes \cup {Nil}
    /\ \A m \in Categories : CategoryClass[m] \in Classes
    /\ \A S \in SUBSET Classes : S # {} => \E c \in S : Superclass[c] \notin S
    /\ \A i, j \in Images : i # j => Content(i) \cap Content(j) = {}
    /\ \A i \in Images :
           /\ DependsOn[i] \subseteq Images
           /\ ClassList[i] \subseteq Classes
           /\ NonlazyClasses[i] \in Seq(Classes)
           /\ CategoryList[i] \in Seq(Categories)
           /\ Entries(NonlazyClasses[i]) \subseteq ClassList[i]
           /\ ClassList[i] \cap HasLoad \subseteq Entries(NonlazyClasses[i])
           /\ \A k, l \in DOMAIN CategoryList[i] :
                  CategoryList[i][k] = CategoryList[i][l] => k = l
           /\ \A c \in ClassList[i] : Superclass[c] \in Visible(i) \cup {Nil}
           /\ \A m \in Entries(CategoryList[i]) : CategoryClass[m] \in Visible(i)
  BY LoadAssumption, ImageAssumption

(* The recursive function of the ancestors satisfies its equation: the     *)
(* hierarchy is well-founded.                                              *)
LEMMA AncestorsDef ==
    ASSUME NEW c \in Classes
    PROVE  Ancestors[c] = IF Superclass[c] = Nil THEN {}
                          ELSE {Superclass[c]} \cup Ancestors[Superclass[c]]
<1> DEFINE Closed(S) == \A e \in S : Superclass[e] \in Classes => Superclass[e] \in S
           Up(d) == {e \in Classes : \A S \in SUBSET Classes :
                        (Superclass[d] \in Classes => Superclass[d] \in S)
                        /\ Closed(S) => e \in S}
           F == [d \in Classes |-> Up(d)]
           G(H) == [d \in Classes |->
                       IF Superclass[d] = Nil THEN {}
                       ELSE {Superclass[d]} \cup H[Superclass[d]]]
<1>1. ASSUME NEW d \in Classes
      PROVE  Up(d) = IF Superclass[d] = Nil THEN {}
                     ELSE {Superclass[d]} \cup Up(Superclass[d])
  <2>1. CASE Superclass[d] = Nil
    <3>1. {} \in SUBSET Classes /\ Closed({}) /\ Superclass[d] \notin Classes
      BY <2>1, Constants
    <3> QED BY <2>1, <3>1
  <2>2. CASE Superclass[d] # Nil
    <3>1. PICK s \in Classes : s = Superclass[d]
      BY <2>2, Constants
    <3>2. s \in Up(d)
      BY <3>1
    <3>3. Up(s) \subseteq Up(d)
      <4> SUFFICES ASSUME NEW e \in Up(s), NEW S \in SUBSET Classes,
                          s \in S, Closed(S)
                   PROVE  e \in S
        BY <3>1
      <4>1. Superclass[s] \in Classes => Superclass[s] \in S
        OBVIOUS
      <4> QED BY <4>1
    <3>4. ASSUME NEW e \in Up(d), e # s
          PROVE  e \in Up(s)
      <4> SUFFICES ASSUME NEW S \in SUBSET Classes,
                          Superclass[s] \in Classes => Superclass[s] \in S,
                          Closed(S)
                   PROVE  e \in S
        BY <3>4
      <4>1. PICK T \in SUBSET Classes : T = S \cup {s}
        OBVIOUS
      <4>2. Closed(T) /\ s \in T
        BY <4>1
      <4>3. e \in T
        BY <3>1, <3>4, <4>2
      <4> QED BY <3>4, <4>1, <4>3
    <3>5. Up(d) = {s} \cup Up(s)
      BY <3>2, <3>3, <3>4
    <3> QED BY <2>2, <3>1, <3>5
  <2> QED BY <2>1, <2>2
<1> HIDE DEF Up
<1>2. F = G(F)
  <2>1. \A d \in Classes : F[d] = G(F)[d]
    BY <1>1, Constants
  <2> QED BY <2>1
<1>3. Ancestors = G(Ancestors)
  BY <1>2 DEF Ancestors
<1> QED BY <1>3

(* A set of classes that has the superclass of each of its classes is      *)
(* empty.                                                                  *)
LEMMA NoCycle ==
    ASSUME NEW S \in SUBSET Classes,
           \A c \in Classes : c \in S =>
               Superclass[c] \in Classes /\ Superclass[c] \in S
    PROVE  S = {}
  BY Constants

(* The ancestors of a class are in every set that has its superclass and   *)
(* those of all in it.                                                     *)
LEMMA AncestorsInClosed ==
    ASSUME NEW T, \A c \in T \cap Classes : Superclass[c] \in T \cup {Nil},
           NEW c \in Classes, Superclass[c] \in T \cup {Nil}
    PROVE  Ancestors[c] \subseteq T
<1> DEFINE S == {d \in Classes : Superclass[d] \in T \cup {Nil} /\ ~ Ancestors[d] \subseteq T}
<1>1. ASSUME NEW d \in Classes, d \in S
      PROVE  Superclass[d] \in Classes /\ Superclass[d] \in S
  <2>1. PICK s \in Classes :
            s = Superclass[d] /\ Ancestors[d] = {s} \cup Ancestors[s]
    BY <1>1, AncestorsDef, Constants
  <2>2. s \in T /\ ~ Ancestors[s] \subseteq T
    BY <1>1, <2>1, Constants
  <2>3. Superclass[s] \in T \cup {Nil}
    BY <2>2
  <2> QED BY <2>1, <2>2, <2>3
<1>2. S = {}
  <2> HIDE DEF S
  <2>1. S \in SUBSET Classes
    BY DEF S
  <2> QED BY <1>1, <2>1, NoCycle
<1> QED BY <1>2

LEMMA AncestorsType ==
    ASSUME NEW c \in Classes
    PROVE  Ancestors[c] \subseteq Classes /\ Line(c) \subseteq Classes
  BY AncestorsInClosed, Constants DEF Line

(* The line of a class is that of its superclass and the class.            *)
LEMMA LineStep ==
    ASSUME NEW c \in Classes
    PROVE  /\ c \in Line(c)
           /\ Superclass[c] = Nil => Line(c) = {c}
           /\ Superclass[c] # Nil => Line(c) = {c} \cup Line(Superclass[c])
           /\ Superclass[c] # Nil => Ancestors[c] = Line(Superclass[c])
  BY AncestorsDef DEF Line

(* The superclass of a class in a line is in it.                           *)
LEMMA LineClosed ==
    ASSUME NEW c \in Classes, NEW d \in Line(c)
    PROVE  d \in Classes /\ Superclass[d] \in Line(c) \cup {Nil}
<1> DEFINE S == {e \in Classes : \E a \in Line(e) : Superclass[a] \notin Line(e) \cup {Nil}}
<1>1. ASSUME NEW e \in Classes, e \in S
      PROVE  Superclass[e] \in Classes /\ Superclass[e] \in S
  <2>1. PICK a \in Line(e) : Superclass[a] \notin Line(e) \cup {Nil}
    BY <1>1
  <2>2. CASE Superclass[e] = Nil
    BY <2>1, <2>2, LineStep
  <2>3. CASE Superclass[e] # Nil
    <3>1. PICK s \in Classes : s = Superclass[e]
      BY <2>3, Constants
    <3>2. Line(e) = {e} \cup Line(s) /\ s \in Line(s)
      BY <2>3, <3>1, LineStep
    <3>3. a \in Line(s) /\ Superclass[a] \notin Line(s) \cup {Nil}
      BY <2>1, <3>1, <3>2
    <3> QED BY <3>1, <3>3
  <2> QED BY <2>2, <2>3
<1>2. S = {}
  <2> HIDE DEF S
  <2>1. S \in SUBSET Classes
    BY DEF S
  <2> QED BY <1>1, <2>1, NoCycle
<1> QED BY <1>2, AncestorsType

(* A class is not its own ancestor.                                        *)
LEMMA NoOwnAncestor ==
    ASSUME NEW c \in Classes
    PROVE  c \notin Ancestors[c]
<1> DEFINE S == {e \in Classes : e \in Ancestors[e]}
<1>1. ASSUME NEW e \in Classes, e \in S
      PROVE  Superclass[e] \in Classes /\ Superclass[e] \in S
  <2>1. PICK s \in Classes : s = Superclass[e] /\ Ancestors[e] = Line(s)
    BY <1>1, AncestorsDef, LineStep, Constants
  <2>2. Superclass[e] \in Line(e)
    BY <2>1, LineStep, Constants
  <2>3. CASE e = s
    BY <1>1, <2>1, <2>3
  <2>4. CASE e # s
    <3>1. e \in Ancestors[s]
      BY <1>1, <2>1, <2>4 DEF Line
    <3>2. PICK t \in Classes : t = Superclass[s] /\ Ancestors[s] = Line(t)
      BY <3>1, AncestorsDef, LineStep, Constants
    <3>3. s \in Line(t)
      BY <2>1, <3>1, <3>2, LineClosed, Constants
    <3> QED BY <2>1, <3>2, <3>3
  <2> QED BY <2>3, <2>4
<1>2. S = {}
  <2> HIDE DEF S
  <2>1. S \in SUBSET Classes
    BY DEF S
  <2> QED BY <1>1, <2>1, NoCycle
<1> QED BY <1>2

-----------------------------------------------------------------------------
(* The scheduling of classes.                                              *)

Schedules == [loaded : SUBSET Classes, list : Seq(Classes \cup {Nil})]

LEMMA ScheduledFields ==
    ASSUME NEW loaded, NEW list
    PROVE  /\ Scheduled(loaded, list).loaded = loaded
           /\ Scheduled(loaded, list).list = list
  BY DEF Scheduled

(* A class whose superclass is scheduled is added.                         *)
LEMMA AddKeeps ==
    ASSUME NEW s \in Schedules, ScheduledOK(s),
           NEW c \in Classes, c \notin s.loaded,
           Superclass[c] \in s.loaded \cup {Nil}
    PROVE  /\ add_class_to_loadable_list(s, c) \in Schedules
           /\ ScheduledOK(add_class_to_loadable_list(s, c))
           /\ add_class_to_loadable_list(s, c).loaded = s.loaded \cup {c}
<1>1. PICK r : r = add_class_to_loadable_list(s, c)
  OBVIOUS
<1>2. /\ r.loaded = s.loaded \cup {c}
      /\ r.list = IF c \in HasLoad THEN Append(s.list, c) ELSE s.list
      /\ r = Scheduled(r.loaded, r.list)
  BY <1>1 DEF add_class_to_loadable_list, Scheduled
<1>3. s.loaded \in SUBSET Classes /\ s.list \in Seq(Classes \cup {Nil})
  BY DEF Schedules
<1>4. r \in Schedules
  <2>1. r.list \in Seq(Classes \cup {Nil}) /\ r.loaded \in SUBSET Classes
    BY <1>2, <1>3
  <2> QED BY <1>2, <2>1 DEF Schedules, Scheduled
<1>5. Settled \cap Classes \subseteq s.loaded
  BY DEF ScheduledOK
<1>6. c # Nil /\ c \notin Settled
  BY <1>5, Constants
<1>7. CASE c \notin HasLoad
  <2>1. r.list = s.list /\ r.loaded \cap HasLoad = s.loaded \cap HasLoad
    BY <1>2, <1>7
  <2>2. ScheduledOK(r)
    BY <1>2, <2>1 DEF ScheduledOK
  <2> QED BY <1>1, <1>2, <1>4, <2>2
<1>8. CASE c \in HasLoad
  <2> DEFINE n == Len(s.list)
  <2>1. /\ r.list = Append(s.list, c) /\ n \in Nat
        /\ DOMAIN s.list = 1 .. n /\ DOMAIN r.list = 1 .. n + 1
        /\ \A k \in 1 .. n : r.list[k] = s.list[k]
        /\ r.list[n + 1] = c
    BY <1>2, <1>3, <1>8
  <2> HIDE DEF n
  <2>2. \A d \in r.loaded : Superclass[d] \in r.loaded \cup {Nil}
    BY <1>2 DEF ScheduledOK
  <2>3. \A d \in s.loaded \cap HasLoad : d \in Settled \cup Entries(s.list)
    BY DEF ScheduledOK
  <2>4. Entries(s.list) \subseteq Entries(r.list) /\ c \in Entries(r.list)
    BY <2>1 DEF Entries
  <2>5. \A d \in r.loaded \cap HasLoad : d \in Settled \cup Entries(r.list)
    BY <1>2, <2>3, <2>4
  <2>6. \A k \in 1 .. n : s.list[k] # Nil => s.list[k] \in s.loaded
    BY <2>1 DEF ScheduledOK
  <2>7. ASSUME NEW k \in 1 .. n + 1, r.list[k] # Nil
        PROVE  /\ r.list[k] \in r.loaded \ Settled
               /\ \A j \in 1 .. n + 1 : r.list[j] = r.list[k] => j = k
               /\ \A d \in Before(r.list[k]) :
                      d \in Settled \/ \E j \in 1 .. k - 1 : r.list[j] = d
    <3>1. CASE k = n + 1
      <4>1. \A j \in 1 .. n + 1 : r.list[j] = c => j = k
        BY <1>6, <2>1, <2>6, <3>1
      <4>2. Before(c) \subseteq s.loaded \cap HasLoad
        <5>1. Ancestors[c] \subseteq s.loaded
          BY AncestorsInClosed DEF ScheduledOK
        <5> QED BY <5>1 DEF Before
      <4>3. \A d \in Before(c) : d \in Settled \/ \E j \in 1 .. n : s.list[j] = d
        BY <2>1, <2>3, <4>2 DEF Entries
      <4>4. \A d \in Before(c) : d \in Settled \/ \E j \in 1 .. n : r.list[j] = d
        BY <2>1, <4>3
      <4>5. k - 1 = n
        BY <2>1, <3>1
      <4> QED BY <1>2, <1>6, <2>1, <3>1, <4>1, <4>4, <4>5
    <3>2. CASE k # n + 1
      <4>1. k \in 1 .. n
        BY <2>1, <3>2
      <4>2. r.list[k] = s.list[k]
        BY <2>1, <4>1
      <4>3. /\ s.list[k] \in s.loaded \ Settled
            /\ \A j \in 1 .. n : s.list[j] = s.list[k] => j = k
            /\ \A d \in Before(s.list[k]) :
                   d \in Settled \/ \E j \in 1 .. k - 1 : s.list[j] = d
        BY <2>1, <2>7, <4>1, <4>2 DEF ScheduledOK
      <4>4. \A j \in 1 .. n + 1 : r.list[j] = r.list[k] => j = k
        <5>1. ASSUME NEW j \in 1 .. n + 1, r.list[j] = r.list[k]
              PROVE  j \in 1 .. n
          BY <2>1, <4>2, <4>3, <5>1
        <5> QED BY <2>1, <4>2, <4>3, <5>1
      <4>5. \A j \in 1 .. k - 1 : r.list[j] = s.list[j]
        BY <2>1, <4>1
      <4> QED BY <1>2, <4>2, <4>3, <4>4, <4>5
    <3> QED BY <3>1, <3>2
  <2>8. Settled \cap Classes \subseteq r.loaded
    BY <1>2, <1>5
  <2>9. ScheduledOK(r)
    BY <2>1, <2>2, <2>5, <2>7, <2>8 DEF ScheduledOK
  <2> QED BY <1>1, <1>2, <1>4, <2>9
<1> QED BY <1>7, <1>8

(* The recursive function of schedule_class_load satisfies its equation.   *)
LEMMA ScheduleExists ==
    ASSUME NEW s, NEW c \in Classes
    PROVE  \E f : f = [d \in Line(c) \cup {Nil} |->
                          IF d = Nil \/ d \in s.loaded THEN s
                          ELSE add_class_to_loadable_list(f[Superclass[d]], d)]
<1> DEFINE Eq(f, e) == f = [d \in Line(e) \cup {Nil} |->
                               IF d = Nil \/ d \in s.loaded THEN s
                               ELSE add_class_to_loadable_list(f[Superclass[d]], d)]
           S == {e \in Classes : ~ \E f : Eq(f, e)}
<1>1. ASSUME NEW e \in Classes, e \in S
      PROVE  Superclass[e] \in Classes /\ Superclass[e] \in S
  <2>1. CASE Superclass[e] = Nil
    <3> DEFINE f == [d \in Line(e) \cup {Nil} |->
                        IF d = Nil \/ d \in s.loaded THEN s
                        ELSE add_class_to_loadable_list(s, d)]
    <3>1. Line(e) = {e}
      BY <2>1, LineStep
    <3>2. Nil \in DOMAIN f /\ f[Nil] = s
      OBVIOUS
    <3>3. \A d \in Line(e) \cup {Nil} :
              f[d] = IF d = Nil \/ d \in s.loaded THEN s
                     ELSE add_class_to_loadable_list(f[Superclass[d]], d)
      BY <2>1, <3>1, <3>2
    <3>4. Eq(f, e)
      BY <3>3
    <3> QED BY <1>1, <3>4
  <2>2. CASE Superclass[e] # Nil /\ Superclass[e] \notin S
    <3>1. PICK p \in Classes : p = Superclass[e]
      BY <2>2, Constants
    <3>2. PICK g : Eq(g, p)
      BY <2>2, <3>1
    <3>3. Line(e) = {e} \cup Line(p) /\ e \notin Line(p) /\ e # Nil
      BY <2>2, <3>1, LineStep, NoOwnAncestor, Constants
    <3> DEFINE f == [d \in Line(e) \cup {Nil} |->
                        IF d # e THEN g[d]
                        ELSE IF e \in s.loaded THEN s
                        ELSE add_class_to_loadable_list(g[p], e)]
    <3>4. \A d \in Line(p) \cup {Nil} :
              g[d] = IF d = Nil \/ d \in s.loaded THEN s
                     ELSE add_class_to_loadable_list(g[Superclass[d]], d)
      BY <3>2
    <3>5. p \in Line(p) /\ \A d \in Line(p) : Superclass[d] \in Line(p) \cup {Nil}
      BY LineStep, LineClosed
    <3>6. \A d \in Line(p) \cup {Nil} : f[d] = g[d]
      BY <3>3
    <3>7. ASSUME NEW d \in Line(e) \cup {Nil}
          PROVE  f[d] = IF d = Nil \/ d \in s.loaded THEN s
                        ELSE add_class_to_loadable_list(f[Superclass[d]], d)
      <4>1. CASE d = e
        BY <3>1, <3>3, <3>5, <3>6, <4>1
      <4>2. CASE d # e
        <5>1. d \in Line(p) \cup {Nil}
          BY <3>3, <4>2
        <5>2. d # Nil => f[Superclass[d]] = g[Superclass[d]]
          BY <5>1, <3>5, <3>6
        <5> HIDE DEF f
        <5> QED BY <5>1, <5>2, <3>4, <3>6
      <4> QED BY <4>1, <4>2
    <3>8. Eq(f, e)
      BY <3>7
    <3> QED BY <1>1, <3>8
  <2> QED BY <2>1, <2>2, Constants
<1>2. S = {}
  <2> HIDE DEF S
  <2>1. S \in SUBSET Classes
    BY DEF S
  <2> QED BY <1>1, <2>1, NoCycle
<1> QED BY <1>2

(* schedule_class_load schedules the class, at most its line, and keeps    *)
(* the order.                                                              *)
LEMMA ScheduleClass ==
    ASSUME NEW s \in Schedules, ScheduledOK(s), NEW c \in Classes
    PROVE  LET r == schedule_class_load(s, c) IN
           /\ r \in Schedules
           /\ ScheduledOK(r)
           /\ s.loaded \cup {c} \subseteq r.loaded
           /\ r.loaded \subseteq s.loaded \cup Line(c)
<1> DEFINE f == CHOOSE f : f = [d \in Line(c) \cup {Nil} |->
                          IF d = Nil \/ d \in s.loaded THEN s
                          ELSE add_class_to_loadable_list(f[Superclass[d]], d)]
<1>1. schedule_class_load(s, c) = f[c]
  BY DEF schedule_class_load
<1>2. f = [d \in Line(c) \cup {Nil} |->
              IF d = Nil \/ d \in s.loaded THEN s
              ELSE add_class_to_loadable_list(f[Superclass[d]], d)]
  BY ScheduleExists
<1> HIDE DEF f
<1>3. \A d \in Line(c) \cup {Nil} :
          f[d] = IF d = Nil \/ d \in s.loaded THEN s
                 ELSE add_class_to_loadable_list(f[Superclass[d]], d)
  BY <1>2
<1> DEFINE Good(d) == /\ f[d] \in Schedules
                      /\ ScheduledOK(f[d])
                      /\ s.loaded \cup {d} \subseteq f[d].loaded
                      /\ f[d].loaded \subseteq s.loaded \cup Line(d)
           S == {d \in Line(c) : ~ Good(d)}
<1>4. ASSUME NEW d \in Classes, d \in S
      PROVE  Superclass[d] \in Classes /\ Superclass[d] \in S
  <2>1. d \in Line(c) /\ ~ Good(d) /\ d \in Line(d)
    BY <1>4, LineStep
  <2>2. d # Nil /\ Superclass[d] \in Line(c) \cup {Nil}
    BY <2>1, LineClosed, Constants
  <2>3. d \notin s.loaded
    <3>1. SUFFICES ASSUME d \in s.loaded PROVE FALSE
      OBVIOUS
    <3>2. f[d] = s
      BY <1>3, <2>1, <3>1
    <3> QED BY <2>1, <3>1, <3>2
  <2>4. f[d] = add_class_to_loadable_list(f[Superclass[d]], d)
    BY <1>3, <2>1, <2>2, <2>3
  <2>5. CASE Superclass[d] = Nil
    <3>1. f[Nil] = s
      BY <1>3
    <3>2. f[d] = add_class_to_loadable_list(s, d)
      BY <2>4, <2>5, <3>1
    <3>3. Good(d)
      BY <2>1, <2>3, <2>5, <3>2, AddKeeps
    <3> QED BY <2>1, <3>3
  <2>6. CASE Superclass[d] # Nil /\ Superclass[d] \notin S
    <3>1. PICK p \in Classes : p = Superclass[d]
      BY <2>6, Constants
    <3>2. Good(p) /\ Line(d) = {d} \cup Line(p) /\ d \notin Line(p)
      BY <2>2, <2>6, <3>1, LineStep, NoOwnAncestor
    <3>3. PICK q \in Schedules : q = f[p]
      BY <3>2
    <3>4. /\ ScheduledOK(q) /\ p \in q.loaded /\ d \notin q.loaded
          /\ s.loaded \subseteq q.loaded /\ q.loaded \subseteq s.loaded \cup Line(p)
      BY <2>3, <3>2, <3>3
    <3>5. f[d] = add_class_to_loadable_list(q, d)
      BY <2>4, <3>1, <3>3
    <3>6. /\ f[d] \in Schedules /\ ScheduledOK(f[d])
          /\ f[d].loaded = q.loaded \cup {d}
      BY <3>1, <3>4, <3>5, AddKeeps
    <3>7. Good(d)
      BY <3>2, <3>4, <3>6
    <3> QED BY <2>1, <3>7
  <2> QED BY <2>1, <2>2, <2>5, <2>6, LineClosed
<1>5. S = {}
  <2> HIDE DEF S
  <2>1. S \in SUBSET Classes
    BY AncestorsType DEF S
  <2> QED BY <1>4, <2>1, NoCycle
<1>6. Good(c)
  BY <1>5, LineStep
<1> QED BY <1>1, <1>6

(* A set of numbers that is not empty has a least one.                     *)
LEMMA LeastNat ==
    ASSUME NEW T \in SUBSET Nat, T # {}
    PROVE  \E x \in T : \A y \in T : x <= y
<1>1. PICK R : R = OpToRel(<, Nat)
  OBVIOUS
<1>2. IsWellFoundedOn(R, Nat)
  BY <1>1, NatLessThanWellFounded
<1>3. PICK x \in T : \A y \in T : ~ (<<y, x>> \in R)
  BY <1>2, WFMin
<1>4. \A y \in Nat, z \in Nat : <<y, z>> \in R <=> y < z
  BY <1>1 DEF OpToRel
<1>5. \A y \in T : ~ (y < x)
  BY <1>3, <1>4
<1> QED BY <1>5

(* The recursive function of ScheduledOf satisfies its equation.           *)
LEMMA ScheduledExists ==
    ASSUME NEW b, NEW L, NEW n \in Nat
    PROVE  \E f : f = [k \in 0 .. n |->
                          IF k = 0 THEN b ELSE schedule_class_load(f[k - 1], L[k])]
<1> DEFINE Eq(f, m) == f = [k \in 0 .. m |->
                               IF k = 0 THEN b
                               ELSE schedule_class_load(f[k - 1], L[k])]
           T == {m \in Nat : ~ \E f : Eq(f, m)}
<1>1. ASSUME NEW m \in T, \A y \in T : m <= y
      PROVE  FALSE
  <2>1. m \in Nat /\ ~ \E f : Eq(f, m)
    OBVIOUS
  <2>2. CASE m = 0
    <3> DEFINE f == [k \in 0 .. 0 |-> b]
    <3>1. \A k \in 0 .. 0 : f[k] = IF k = 0 THEN b
                                   ELSE schedule_class_load(f[k - 1], L[k])
      OBVIOUS
    <3>2. Eq(f, 0)
      BY <3>1
    <3> QED BY <2>1, <2>2, <3>2
  <2>3. CASE m # 0
    <3>1. m - 1 \in Nat /\ ~ (m <= m - 1)
      BY <2>1, <2>3
    <3>2. m - 1 \notin T
      BY <1>1, <3>1
    <3>3. PICK g : Eq(g, m - 1)
      BY <3>1, <3>2
    <3>4. \A k \in 0 .. m - 1 : g[k] = IF k = 0 THEN b
                                       ELSE schedule_class_load(g[k - 1], L[k])
      BY <3>3
    <3> DEFINE f == [k \in 0 .. m |-> IF k < m THEN g[k]
                                      ELSE schedule_class_load(g[m - 1], L[m])]
    <3>5. \A k \in 0 .. m - 1 : f[k] = g[k]
      BY <2>1
    <3>6. ASSUME NEW k \in 0 .. m
          PROVE  f[k] = IF k = 0 THEN b ELSE schedule_class_load(f[k - 1], L[k])
      <4>1. CASE k = m
        BY <2>1, <2>3, <3>5, <4>1
      <4>2. CASE k # m
        <5>1. k \in 0 .. m - 1 /\ (k # 0 => k - 1 \in 0 .. m - 1)
          BY <2>1, <4>2
        <5> HIDE DEF f
        <5> QED BY <5>1, <3>4, <3>5
      <4> QED BY <4>1, <4>2
    <3>7. Eq(f, m)
      BY <3>6
    <3> QED BY <2>1, <3>7
  <2> QED BY <2>2, <2>3
<1>2. T = {}
  <2> HIDE DEF T
  <2>1. T \in SUBSET Nat
    BY DEF T
  <2> QED BY <1>1, <2>1, LeastNat
<1> QED BY <1>2

(* prepare_load_methods schedules the nonlazy classes of an image, and     *)
(* nothing outside of their lines.                                         *)
LEMMA ScheduleImage ==
    ASSUME NEW i \in Images,
           Scheduled(RW_LOADED, loadable_classes) \in Schedules,
           ScheduledOK(Scheduled(RW_LOADED, loadable_classes))
    PROVE  LET r == ScheduledOf(i) IN
           /\ r \in Schedules
           /\ ScheduledOK(r)
           /\ RW_LOADED \cup Entries(NonlazyClasses[i]) \subseteq r.loaded
           /\ \A c \in r.loaded :
                  \/ c \in RW_LOADED
                  \/ \E d \in Entries(NonlazyClasses[i]) : c \in Line(d)
<1> DEFINE L == NonlazyClasses[i]
           n == Len(L)
           b == Scheduled(RW_LOADED, loadable_classes)
           f == CHOOSE f : f = [k \in 0 .. n |->
                   IF k = 0 THEN b ELSE schedule_class_load(f[k - 1], L[k])]
<1>1. ScheduledOf(i) = f[n]
  BY DEF ScheduledOf
<1>2. L \in Seq(Classes) /\ n \in Nat /\ DOMAIN L = 1 .. n
      /\ \A k \in 1 .. n : L[k] \in Classes
  BY Constants
<1>3. f = [k \in 0 .. n |->
              IF k = 0 THEN b ELSE schedule_class_load(f[k - 1], L[k])]
  <2> HIDE DEF L, n, b
  <2> QED BY <1>2, ScheduledExists
<1>4. b \in Schedules /\ ScheduledOK(b) /\ b.loaded = RW_LOADED
  BY ScheduledFields
<1> HIDE DEF f, b, n
<1>5. \A k \in 0 .. n : f[k] = IF k = 0 THEN b
                               ELSE schedule_class_load(f[k - 1], L[k])
  BY <1>3
<1> HIDE DEF L
<1> DEFINE Good(k) ==
        /\ f[k] \in Schedules
        /\ ScheduledOK(f[k])
        /\ RW_LOADED \subseteq f[k].loaded
        /\ \A j \in 1 .. k : L[j] \in f[k].loaded
        /\ \A c \in f[k].loaded :
               c \in RW_LOADED \/ \E j \in 1 .. k : c \in Line(L[j])
           T == {k \in 0 .. n : ~ Good(k)}
<1>6. ASSUME NEW k \in T, \A y \in T : k <= y
      PROVE  FALSE
  <2>1. k \in 0 .. n /\ ~ Good(k)
    OBVIOUS
  <2>2. CASE k = 0
    <3>1. f[0] = b
      BY <1>5, <2>1, <2>2
    <3>2. Good(0)
      BY <1>4, <3>1
    <3> QED BY <2>1, <2>2, <3>2
  <2>3. CASE k # 0
    <3>1. k - 1 \in 0 .. n /\ k \in 1 .. n /\ ~ (k <= k - 1)
      BY <1>2, <2>1, <2>3
    <3>2. Good(k - 1)
      BY <1>6, <3>1
    <3>3. PICK q \in Schedules : q = f[k - 1]
      BY <3>2
    <3>4. PICK c \in Classes : c = L[k]
      BY <1>2, <3>1
    <3>5. f[k] = schedule_class_load(q, c)
      BY <1>5, <2>1, <2>3, <3>3, <3>4
    <3>6. /\ f[k] \in Schedules /\ ScheduledOK(f[k])
          /\ q.loaded \cup {c} \subseteq f[k].loaded
          /\ f[k].loaded \subseteq q.loaded \cup Line(c)
      BY <3>2, <3>3, <3>5, ScheduleClass
    <3>7. \A j \in 1 .. k : j \in 1 .. k - 1 \/ j = k
      BY <3>1
    <3>8. \A j \in 1 .. k : L[j] \in f[k].loaded
      BY <3>2, <3>3, <3>4, <3>6, <3>7
    <3>9. \A d \in f[k].loaded :
              d \in RW_LOADED \/ \E j \in 1 .. k : d \in Line(L[j])
      <4> SUFFICES ASSUME NEW d \in f[k].loaded, d \notin RW_LOADED
                   PROVE  \E j \in 1 .. k : d \in Line(L[j])
        OBVIOUS
      <4>1. CASE d \in Line(c)
        BY <3>1, <3>4, <4>1
      <4>2. CASE d \in q.loaded
        <5>1. PICK j \in 1 .. k - 1 : d \in Line(L[j])
          BY <3>2, <3>3, <4>2
        <5>2. j \in 1 .. k
          BY <3>1
        <5> QED BY <5>1, <5>2
      <4> QED BY <3>6, <4>1, <4>2
    <3>10. Good(k)
      BY <3>2, <3>3, <3>6, <3>8, <3>9
    <3> QED BY <2>1, <3>10
  <2> QED BY <2>2, <2>3
<1>7. T = {}
  <2> HIDE DEF T
  <2>1. T \in SUBSET Nat
    BY <1>2 DEF T
  <2> QED BY <1>6, <2>1, LeastNat
<1>8. Good(n)
  BY <1>2, <1>7
<1>9. Entries(L) = {L[j] : j \in 1 .. n}
  BY <1>2 DEF Entries
<1> QED BY <1>1, <1>8, <1>9 DEF L

-----------------------------------------------------------------------------
(* The images.                                                             *)

(* What a mapped image refers to is mapped.                                *)
LEMMA MappedClosed ==
    ASSUME NEW M \in SUBSET Images, \A i \in M : DependsOn[i] \subseteq M,
           NEW T, T = UNION {Content(i) : i \in M}
    PROVE  /\ \A c \in T \cap Classes : Superclass[c] \in T \cup {Nil}
           /\ \A c \in T \cap Classes : Line(c) \subseteq T
           /\ \A m \in T : Before(m) \subseteq T
<1>1. \A i \in M : Visible(i) \subseteq T
  BY DEF Visible, Content
<1>2. ASSUME NEW c \in T \cap Classes
      PROVE  Superclass[c] \in T \cup {Nil}
  <2>1. PICK i \in M : c \in Content(i)
    OBVIOUS
  <2>2. c \in ClassList[i]
    BY <2>1, Constants DEF Content, Entries
  <2> QED BY <1>1, <2>2, Constants
<1>3. ASSUME NEW c \in T \cap Classes
      PROVE  Line(c) \subseteq T
  BY <1>2, AncestorsInClosed DEF Line
<1>4. ASSUME NEW m \in T
      PROVE  Before(m) \subseteq T
  <2>1. CASE m \in Classes
    BY <1>3, <2>1 DEF Before, Line
  <2>2. CASE m \in Categories
    <3>1. PICK i \in M : m \in Content(i)
      OBVIOUS
    <3>2. m \in Entries(CategoryList[i])
      BY <2>2, <3>1, Constants DEF Content
    <3>3. CategoryClass[m] \in T \cap Classes
      BY <1>1, <2>2, <3>1, <3>2, Constants
    <3> QED BY <1>3, <2>2, <3>3, Constants DEF Before
  <2>3. CASE m \notin Classes /\ m \notin Categories
    BY <2>3 DEF Before
  <2> QED BY <2>1, <2>2, <2>3
<1> QED BY <1>2, <1>3, <1>4

(* What is mapped changes by the contents of an image.                     *)
LEMMA MappedChanges ==
    ASSUME NEW M \in SUBSET Images, NEW i \in Images
    PROVE  LET Of(N) == UNION {Content(j) : j \in N} IN
           /\ Of(M \cup {i}) = Of(M) \cup Content(i)
           /\ i \in M => Of(M \ {i}) = Of(M) \ Content(i)
           /\ i \notin M => Content(i) \cap Of(M) = {}
<1> DEFINE Of(N) == UNION {Content(j) : j \in N}
<1>1. \A j \in M : j # i => Content(j) \cap Content(i) = {}
  BY Constants
<1>2. Of(M \cup {i}) = Of(M) \cup Content(i)
  OBVIOUS
<1>3. ASSUME i \in M
      PROVE  Of(M \ {i}) = Of(M) \ Content(i)
  BY <1>1, <1>3
<1>4. ASSUME i \notin M
      PROVE  Content(i) \cap Of(M) = {}
  BY <1>1, <1>4
<1> QED BY <1>2, <1>3, <1>4

(* The contents of an image are classes and categories.                    *)
LEMMA ContentType ==
    ASSUME NEW i \in Images
    PROVE  /\ Content(i) \subseteq Classes \cup Categories
           /\ Content(i) \cap Classes = ClassList[i]
           /\ Content(i) \cap Categories = Entries(CategoryList[i])
           /\ Nil \notin Content(i)
           /\ Entries(CategoryList[i]) \subseteq Categories
<1>1. Entries(CategoryList[i]) \subseteq Categories
  BY Constants DEF Entries
<1> QED BY <1>1, Constants DEF Content

-----------------------------------------------------------------------------
(* The steps.                                                              *)

(* What the invariant says, and what follows of the types.                 *)
LEMMA Facts ==
    ASSUME IndInv
    PROVE  /\ mapped \in SUBSET Images
           /\ RW_LOADED \in SUBSET Classes
           /\ loadable_classes \in Seq(Classes \cup {Nil})
           /\ loadable_categories \in Seq(Categories \cup {Nil})
           /\ detached \in
                  Seq((IF stage = "classes" THEN Classes ELSE Categories) \cup {Nil})
           /\ detached \in Seq(Classes \cup Categories \cup {Nil})
           /\ Scheduled(RW_LOADED, loadable_classes) \in Schedules
           /\ Due = {detached[k] : k \in next .. Len(detached)}
           /\ next \in Nat \ {0} /\ next <= Len(detached) + 1
           /\ DOMAIN detached = 1 .. Len(detached) /\ Len(detached) \in Nat
           /\ DOMAIN loadable_classes = 1 .. Len(loadable_classes)
           /\ DOMAIN loadable_categories = 1 .. Len(loadable_categories)
           /\ Mapped \subseteq Classes \cup Categories
           /\ Settled \subseteq Mapped \cup {Nil}
           /\ called \in SUBSET (Classes \cup Categories)
           /\ running \in Classes \cup Categories \cup {Nil}
           /\ Nil \notin Mapped
<1>1. TypeOK /\ ImagesOK /\ DetachedOK
  BY DEF IndInv
<1>2. /\ mapped \in SUBSET Images
      /\ RW_LOADED \in SUBSET Classes
      /\ loadable_classes \in Seq(Classes \cup {Nil})
      /\ loadable_categories \in Seq(Categories \cup {Nil})
      /\ detached \in
             Seq((IF stage = "classes" THEN Classes ELSE Categories) \cup {Nil})
      /\ next \in 1 .. Len(detached) + 1
      /\ called \in SUBSET (Classes \cup Categories)
      /\ running \in Classes \cup Categories \cup {Nil}
  BY <1>1 DEF TypeOK
<1>3. detached \in Seq(Classes \cup Categories \cup {Nil})
  <2>1. CASE stage = "classes"
    <3>1. detached \in Seq(Classes \cup {Nil})
      BY <1>2, <2>1
    <3> QED BY <3>1
  <2>2. CASE stage # "classes"
    <3>1. detached \in Seq(Categories \cup {Nil})
      BY <1>2, <2>2
    <3> QED BY <3>1
  <2> QED BY <2>1, <2>2
<1>4. /\ DOMAIN detached = 1 .. Len(detached) /\ Len(detached) \in Nat
      /\ DOMAIN loadable_classes = 1 .. Len(loadable_classes)
      /\ DOMAIN loadable_categories = 1 .. Len(loadable_categories)
  BY <1>2, <1>3
<1>5. next \in Nat \ {0} /\ next <= Len(detached) + 1
  BY <1>2, <1>4
<1>6. {j \in 1 .. Len(detached) : j >= next} = next .. Len(detached)
  BY <1>4, <1>5
<1>7. Due = {detached[k] : k \in next .. Len(detached)}
  BY <1>4, <1>6 DEF Due
<1>8. Scheduled(RW_LOADED, loadable_classes) \in Schedules
  BY <1>2 DEF Scheduled, Schedules
<1>9. Mapped \subseteq Classes \cup Categories /\ Nil \notin Mapped
  BY <1>2, ContentType, Constants DEF Mapped
<1>10. Settled \subseteq Mapped \cup {Nil}
  <2>1. called \subseteq Mapped /\ running \in Mapped \cup {Nil}
    BY <1>1 DEF ImagesOK, DetachedOK
  <2>2. Due \subseteq Mapped \cup {Nil}
    BY <1>1, <1>7 DEF DetachedOK
  <2> QED BY <2>1, <2>2 DEF Settled
<1> QED BY <1>2, <1>3, <1>4, <1>5, <1>7, <1>8, <1>9, <1>10

(* The parts about what is pending do not tell nil from nothing.           *)
LEMMA SettledSame ==
    ASSUME Settled' \ {Nil} = Settled \ {Nil},
           UNCHANGED <<RW_LOADED, loadable_classes>>,
           ScheduledOK(Scheduled(RW_LOADED, loadable_classes)), IndInv
    PROVE  ScheduledOK(Scheduled(RW_LOADED, loadable_classes))'
<1>1. \A c : c # Nil => (c \in Settled' <=> c \in Settled)
  BY Zenon
<1>2. \A k \in DOMAIN loadable_classes : \A c \in Before(loadable_classes[k]) : c # Nil
  BY Constants DEF Before
<1>3. RW_LOADED \in SUBSET Classes /\ Nil \notin Classes
  BY Facts, Constants
<1>4. Settled' \cap Classes = Settled \cap Classes
  BY <1>1, <1>3
<1> QED BY <1>1, <1>2, <1>3, <1>4, Constants, ScheduledFields DEF ScheduledOK

LEMMA CategoriesSame ==
    ASSUME Settled' \ {Nil} = Settled \ {Nil},
           UNCHANGED <<mapped, loadable_categories>>, IndInv
    PROVE  CategoriesOK'
<1>1. \A c : c # Nil => (c \in Settled' <=> c \in Settled)
  BY Zenon
<1>2. CategoriesOK /\ Mapped' = Mapped
  BY DEF IndInv, Mapped
<1> QED BY <1>1, <1>2, Constants DEF CategoriesOK

LEMMA InitInv == Init => IndInv
<1> SUFFICES ASSUME Init PROVE IndInv
  OBVIOUS
<1>1. Mapped = {} /\ Due = {} /\ Settled = {Nil}
  BY DEF Init, Mapped, Due, Settled
<1>2. TypeOK
  <2>1. /\ <<>> \in Seq(Classes \cup {Nil}) /\ <<>> \in Seq(Categories \cup {Nil})
        /\ Len(<<>>) = 0
    OBVIOUS
  <2>2. 1 \in 1 .. 0 + 1
    OBVIOUS
  <2> QED BY <2>1, <2>2 DEF Init, TypeOK
<1>3. ImagesOK /\ StageOK /\ NothingPending
  BY <1>1, Constants DEF Init, ImagesOK, StageOK, NothingPending
<1>4. ScheduledOK(Scheduled(RW_LOADED, loadable_classes))
  BY <1>1, Constants, ScheduledFields DEF Init, ScheduledOK
<1>5. CategoriesOK /\ DetachedOK
  BY <1>1, Constants DEF Init, CategoriesOK, DetachedOK, Before
<1> QED BY <1>2, <1>3, <1>4, <1>5 DEF IndInv

(* An image is mapped, with its +loads.                                    *)
LEMMA LoadImages ==
    ASSUME IndInv, NEW i \in Images, load_images(i)
    PROVE  IndInv'
<1>1. /\ mapped' = mapped \cup {i} /\ i \notin mapped
      /\ DependsOn[i] \subseteq mapped
      /\ running' = running /\ called' = called
      /\ detached' = detached /\ next' = next
      /\ InProgram
  BY DEF load_images, prepare_load_methods, call_load_methods, lists, loop
<1>2. PICK r : r = Scheduled(RW_LOADED, loadable_classes)
  OBVIOUS
<1>3. r \in Schedules /\ ScheduledOK(r) /\ r.loaded = RW_LOADED
      /\ r.list = loadable_classes
  BY <1>2, Facts, ScheduledFields DEF IndInv
<1>4. /\ Mapped' = Mapped \cup Content(i)
      /\ Content(i) \cap Mapped = {}
  BY <1>1, Facts, MappedChanges DEF Mapped
<1>5. Settled' = Settled /\ Due' = Due
  BY <1>1 DEF Settled, Due
<1>6. /\ mapped' \in SUBSET Images
      /\ \A j \in mapped' : DependsOn[j] \subseteq mapped'
  BY <1>1, Facts DEF IndInv, ImagesOK
<1>7. /\ \A c \in Mapped' \cap Classes : Superclass[c] \in Mapped' \cup {Nil}
      /\ \A c \in Mapped' \cap Classes : Line(c) \subseteq Mapped'
  BY <1>6, MappedClosed DEF Mapped
<1>8. PICK q \in Schedules :
          /\ q = Scheduled(RW_LOADED, loadable_classes)'
          /\ RW_LOADED' = q.loaded /\ loadable_classes' = q.list
          /\ ScheduledOK(q)
          /\ RW_LOADED \cup Entries(NonlazyClasses[i]) \subseteq q.loaded
          /\ \A c \in q.loaded :
                 \/ c \in RW_LOADED
                 \/ \E d \in Entries(NonlazyClasses[i]) : c \in Line(d)
  <2>1. CASE hasLoadMethods(i)
    <3>1. /\ RW_LOADED' = ScheduledOf(i).loaded
          /\ loadable_classes' = ScheduledOf(i).list
      BY <2>1 DEF load_images, prepare_load_methods
    <3>2. PICK q \in Schedules :
              /\ q = ScheduledOf(i)
              /\ ScheduledOK(q)
              /\ RW_LOADED \cup Entries(NonlazyClasses[i]) \subseteq q.loaded
              /\ \A c \in q.loaded :
                     \/ c \in RW_LOADED
                     \/ \E d \in Entries(NonlazyClasses[i]) : c \in Line(d)
      BY <1>2, <1>3, ScheduleImage
    <3>3. q = Scheduled(q.loaded, q.list)
      BY DEF Schedules, Scheduled
    <3> QED BY <3>1, <3>2, <3>3 DEF Scheduled
  <2>2. CASE ~ hasLoadMethods(i)
    <3>1. UNCHANGED <<RW_LOADED, loadable_classes>>
      BY <2>2 DEF load_images, lists
    <3>2. Entries(NonlazyClasses[i]) = {}
      BY <2>2 DEF hasLoadMethods, Entries
    <3> QED BY <1>2, <1>3, <3>1, <3>2 DEF Scheduled
  <2> QED BY <2>1, <2>2
<1>9. /\ loadable_categories' = loadable_categories \o CategoryList[i]
      /\ loadable_categories' \in Seq(Categories \cup {Nil})
  <2>1. CategoryList[i] \in Seq(Categories \cup {Nil})
    BY Constants
  <2>2. loadable_categories \in Seq(Categories \cup {Nil})
    BY Facts
  <2>3. loadable_categories' = loadable_categories \o CategoryList[i]
    <3>1. CASE hasLoadMethods(i)
      BY <3>1 DEF load_images, prepare_load_methods
    <3>2. CASE ~ hasLoadMethods(i)
      <4>1. CategoryList[i] = <<>> /\ loadable_categories' = loadable_categories
        BY <3>2 DEF hasLoadMethods, load_images, lists
      <4> QED BY <2>2, <4>1
    <3> QED BY <3>1, <3>2
  <2> QED BY <2>1, <2>2, <2>3
<1>10. /\ stage' # stage => stage = "none" /\ stage' = "loop" /\ loading'
       /\ stage' = stage => loading' = loading \/ stage # "none"
       /\ loading' <=> stage' # "none"
       /\ loading' \in BOOLEAN
       /\ stage' \in {"none", "loop", "classes", "categories", "pop"}
  <2>1. (loading <=> stage # "none") /\ loading \in BOOLEAN
        /\ stage \in {"none", "loop", "classes", "categories", "pop"}
    BY DEF IndInv, StageOK, TypeOK
  <2>2. CASE hasLoadMethods(i)
    BY <2>1, <2>2 DEF load_images, call_load_methods
  <2>3. CASE ~ hasLoadMethods(i)
    BY <2>1, <2>3 DEF load_images, loop
  <2> QED BY <2>2, <2>3
<1>11. TypeOK'
  <2>1. q.loaded \in SUBSET Classes /\ q.list \in Seq(Classes \cup {Nil})
    BY DEF Schedules
  <2>2. detached' \in
           Seq((IF stage' = "classes" THEN Classes ELSE Categories) \cup {Nil})
    <3>1. stage' = "classes" <=> stage = "classes"
      BY <1>10
    <3> QED BY <1>1, <3>1, Facts
  <2>3. next' \in 1 .. Len(detached') + 1
    BY <1>1, Facts
  <2>4. mapped' \subseteq Images /\ called' \subseteq Classes \cup Categories
        /\ running' \in Classes \cup Categories \cup {Nil}
    BY <1>1, <1>6, Facts
  <2> QED BY <1>8, <1>9, <1>10, <2>1, <2>2, <2>3, <2>4 DEF TypeOK
<1>12. ImagesOK'
  <2>1. RW_LOADED \subseteq Mapped /\ Mapped \cap HasLoad \subseteq RW_LOADED
        /\ called \subseteq Mapped
    BY DEF IndInv, ImagesOK
  <2>2. /\ Entries(NonlazyClasses[i]) \subseteq Content(i) \cap Classes
        /\ Content(i) \cap HasLoad \subseteq Entries(NonlazyClasses[i])
    BY ContentType, Constants
  <2>3. RW_LOADED' \subseteq Mapped'
    BY <1>4, <1>7, <1>8, <2>1, <2>2
  <2>4. Mapped' \cap HasLoad \subseteq RW_LOADED'
    BY <1>4, <1>8, <2>1, <2>2
  <2> QED BY <1>1, <1>4, <1>6, <2>1, <2>3, <2>4 DEF ImagesOK
<1>13. StageOK'
  <2>1. StageOK
    BY DEF IndInv
  <2> QED BY <1>1, <1>10, <2>1 DEF StageOK
<1>14. ScheduledOK(Scheduled(RW_LOADED, loadable_classes))'
  BY <1>5, <1>8 DEF ScheduledOK
<1>15. CategoriesOK'
  <2> DEFINE a == loadable_categories
             b == CategoryList[i]
             c == a \o b
             l == Len(a)
             n == Len(b)
  <2>1. /\ a \in Seq(Categories \cup {Nil}) /\ b \in Seq(Categories \cup {Nil})
        /\ l \in Nat /\ n \in Nat /\ DOMAIN a = 1 .. l /\ DOMAIN b = 1 .. n
    BY Facts, Constants
  <2>2. /\ DOMAIN c = 1 .. l + n
        /\ \A k \in 1 .. l : c[k] = a[k]
        /\ \A k \in l + 1 .. l + n : c[k] = b[k - l]
    BY <2>1
  <2>3. \A k \in 1 .. n : c[l + k] = b[k]
    BY <2>1, <2>2
  <2>4. \A k \in 1 .. n : b[k] \in Content(i) \cap Categories
    BY <2>1, ContentType DEF Entries
  <2>5. Settled \subseteq Mapped \cup {Nil}
    BY Facts
  <2>6. /\ \A m \in Mapped \cap Categories : m \in Settled \cup Entries(a)
        /\ \A k \in 1 .. l : a[k] # Nil =>
              /\ a[k] \in Mapped \ Settled
              /\ \A j \in 1 .. l : a[j] = a[k] => j = k
    BY <2>1 DEF IndInv, CategoriesOK
  <2>7. \A j, k \in 1 .. n : b[j] = b[k] => j = k
    BY <2>1, Constants
  <2>8. Content(i) \cap Categories = {b[k] : k \in 1 .. n}
    BY <2>1, ContentType DEF Entries
  <2> HIDE DEF c, l, n
  <2>9. \A m \in Mapped' \cap Categories : m \in Settled \cup Entries(c)
    <3>1. \A k \in 1 .. l : a[k] \in Entries(c)
      BY <2>1, <2>2 DEF Entries
    <3>2. \A k \in 1 .. n : b[k] \in Entries(c)
      <4> SUFFICES ASSUME NEW k \in 1 .. n PROVE b[k] \in Entries(c)
        OBVIOUS
      <4>1. l + k \in DOMAIN c
        BY <2>1, <2>2
      <4> QED BY <2>3, <4>1 DEF Entries
    <3>3. Entries(a) \subseteq Entries(c)
      BY <2>1, <3>1 DEF Entries
    <3> QED BY <1>4, <2>6, <2>8, <3>2, <3>3
  <2>10. ASSUME NEW k \in 1 .. l + n, c[k] # Nil
         PROVE  /\ c[k] \in Mapped' \ Settled
                /\ \A j \in 1 .. l + n : c[j] = c[k] => j = k
    <3>1. CASE k \in 1 .. l
      <4>1. \A j \in l + 1 .. l + n : c[j] # c[k]
        <5> SUFFICES ASSUME NEW j \in l + 1 .. l + n PROVE c[j] # c[k]
          OBVIOUS
        <5>1. j - l \in 1 .. n
          BY <2>1
        <5>2. c[j] \in Content(i)
          BY <2>2, <2>4, <5>1
        <5>3. c[k] \in Mapped
          BY <2>2, <2>6, <2>10, <3>1
        <5> QED BY <1>4, <5>2, <5>3
      <4>2. \A j \in 1 .. l + n : j \in 1 .. l \/ j \in l + 1 .. l + n
        BY <2>1
      <4> QED BY <1>4, <2>2, <2>6, <2>10, <3>1, <4>1, <4>2
    <3>2. CASE k \notin 1 .. l
      <4>1. k \in l + 1 .. l + n /\ k - l \in 1 .. n
        BY <2>1, <3>2
      <4>2. c[k] = b[k - l] /\ c[k] \in Content(i) /\ c[k] \notin Settled
        BY <1>4, <2>2, <2>4, <2>5, <2>10, <4>1
      <4>3. \A j \in 1 .. l : c[j] # c[k]
        BY <1>4, <2>2, <2>6, <2>10, <4>2
      <4>4. ASSUME NEW j \in l + 1 .. l + n, c[j] = c[k]
            PROVE  j = k
        <5>1. j - l \in 1 .. n /\ b[j - l] = b[k - l]
          BY <2>1, <2>2, <4>2, <4>4
        <5>2. j - l = k - l
          BY <2>7, <4>1, <5>1
        <5> QED BY <2>1, <4>1, <5>2
      <4>5. \A j \in 1 .. l + n : j \in 1 .. l \/ j \in l + 1 .. l + n
        BY <2>1
      <4> QED BY <1>4, <4>2, <4>3, <4>4, <4>5
    <3> QED BY <3>1, <3>2
  <2>11. loadable_categories' = c
    BY <1>9 DEF c
  <2> QED BY <1>5, <2>2, <2>9, <2>10, <2>11 DEF CategoriesOK
<1>16. DetachedOK'
  <2>1. DetachedOK
    BY DEF IndInv
  <2> QED BY <1>1, <1>4, <1>5, <2>1 DEF DetachedOK
<1>17. (~ DeallocsMap => NothingPending)'
  <2> SUFFICES ASSUME ~ DeallocsMap, stage' \in {"none", "pop"}
               PROVE  loadable_classes' = <<>> /\ loadable_categories' = <<>>
    BY DEF NothingPending
  <2>1. stage' = stage
    BY <1>10
  <2>2. ~ hasLoadMethods(i)
    <3>1. loading <=> stage # "none"
      BY DEF IndInv, StageOK
    <3> QED BY <2>1, <3>1 DEF load_images, call_load_methods
  <2>3. NothingPending
    BY DEF IndInv
  <2> QED BY <2>1, <2>2, <2>3 DEF load_images, NothingPending, lists
<1> QED BY <1>11, <1>12, <1>13, <1>14, <1>15, <1>16, <1>17 DEF IndInv

(* An image is unmapped.                                                   *)
LEMMA UnmapImage ==
    ASSUME IndInv, ~ UnmapsDetached, NEW i \in Images, unmap_image(i)
    PROVE  IndInv'
<1>1. /\ mapped' = mapped \ {i} /\ i \in mapped
      /\ \A j \in mapped : i \notin DependsOn[j]
      /\ running \notin Content(i) /\ Content(i) \cap Due = {}
      /\ loadable_categories' = Removed(loadable_categories, i)
      /\ loadable_classes' = Removed(loadable_classes, i)
      /\ RW_LOADED' = RW_LOADED \ ClassList[i]
      /\ called' = called \ Content(i)
      /\ UNCHANGED <<loading, stage, detached, next, running>>
  BY DEF unmap_image, loop
<1>2. /\ Mapped' = Mapped \ Content(i)
  BY <1>1, Facts, MappedChanges DEF Mapped
<1>3. Due' = Due /\ Settled' = Settled \ Content(i)
  BY <1>1 DEF Due, Settled
<1>4. /\ mapped' \in SUBSET Images
      /\ \A j \in mapped' : DependsOn[j] \subseteq mapped'
  BY <1>1, Facts DEF IndInv, ImagesOK
<1>5. /\ \A c \in Mapped' \cap Classes : Superclass[c] \in Mapped' \cup {Nil}
      /\ \A m \in Mapped' : Before(m) \subseteq Mapped'
  BY <1>4, MappedClosed DEF Mapped
<1>6. RW_LOADED' = RW_LOADED \ Content(i) /\ RW_LOADED \subseteq Mapped
  <2>1. RW_LOADED \subseteq Mapped
    BY DEF IndInv, ImagesOK
  <2> QED BY <1>1, <2>1, Facts, ContentType
<1>7. ASSUME NEW X, NEW l \in Seq(X \cup {Nil})
      PROVE  /\ Removed(l, i) \in Seq(X \cup {Nil})
             /\ DOMAIN Removed(l, i) = DOMAIN l
             /\ \A k \in DOMAIN l :
                    /\ l[k] \in Content(i) => Removed(l, i)[k] = Nil
                    /\ l[k] \notin Content(i) => Removed(l, i)[k] = l[k]
  <2>1. DOMAIN l = 1 .. Len(l) /\ Len(l) \in Nat /\ \A k \in 1 .. Len(l) : l[k] \in X \cup {Nil}
    OBVIOUS
  <2>2. Removed(l, i) \in [1 .. Len(l) -> X \cup {Nil}]
    BY <2>1 DEF Removed
  <2>3. Removed(l, i) \in Seq(X \cup {Nil})
    BY <2>1, <2>2
  <2> QED BY <2>3 DEF Removed
<1>8. /\ loadable_classes' \in Seq(Classes \cup {Nil})
      /\ DOMAIN loadable_classes' = DOMAIN loadable_classes
      /\ \A k \in DOMAIN loadable_classes :
             /\ loadable_classes[k] \in Content(i) => loadable_classes'[k] = Nil
             /\ loadable_classes[k] \notin Content(i) =>
                    loadable_classes'[k] = loadable_classes[k]
  BY <1>1, <1>7, Facts
<1>9. /\ loadable_categories' \in Seq(Categories \cup {Nil})
      /\ DOMAIN loadable_categories' = DOMAIN loadable_categories
      /\ \A k \in DOMAIN loadable_categories :
             /\ loadable_categories[k] \in Content(i) => loadable_categories'[k] = Nil
             /\ loadable_categories[k] \notin Content(i) =>
                    loadable_categories'[k] = loadable_categories[k]
  BY <1>1, <1>7, Facts
<1>10. TypeOK'
  <2>1. TypeOK
    BY DEF IndInv
  <2>2. /\ mapped' \subseteq Images /\ RW_LOADED' \subseteq Classes
        /\ called' \subseteq Classes \cup Categories
    BY <1>1, Facts
  <2> QED BY <1>1, <1>8, <1>9, <2>1, <2>2 DEF TypeOK
<1>11. ImagesOK'
  <2>1. ImagesOK
    BY DEF IndInv
  <2> QED BY <1>1, <1>2, <1>4, <1>6, <2>1 DEF ImagesOK
<1>12. StageOK'
  BY <1>1 DEF IndInv, StageOK
<1>13. ScheduledOK(Scheduled(RW_LOADED, loadable_classes))'
  <2>1. ScheduledOK(Scheduled(RW_LOADED, loadable_classes))
    BY DEF IndInv
  <2>2. Settled' \cap Classes \subseteq RW_LOADED'
    BY <1>3, <1>6, <2>1, ScheduledFields DEF ScheduledOK
  <2>3. \A c \in RW_LOADED' : Superclass[c] \in RW_LOADED' \cup {Nil}
    <3> SUFFICES ASSUME NEW c \in RW_LOADED'
                 PROVE  Superclass[c] \in RW_LOADED' \cup {Nil}
      OBVIOUS
    <3>1. c \in RW_LOADED /\ c \in Mapped' \cap Classes
      BY <1>2, <1>6, Facts
    <3>2. Superclass[c] \in RW_LOADED \cup {Nil}
      BY <2>1, <3>1, ScheduledFields DEF ScheduledOK
    <3>3. Superclass[c] \in Mapped' \cup {Nil}
      BY <1>5, <3>1
    <3> QED BY <1>2, <1>6, <3>2, <3>3
  <2>4. \A c \in RW_LOADED' \cap HasLoad : c \in Settled' \cup Entries(loadable_classes')
    <3> SUFFICES ASSUME NEW c \in RW_LOADED' \cap HasLoad, c \notin Settled'
                 PROVE  c \in Entries(loadable_classes')
      OBVIOUS
    <3>1. c \in RW_LOADED \cap HasLoad /\ c \notin Content(i) /\ c \notin Settled
      BY <1>3, <1>6
    <3>2. c \in Entries(loadable_classes)
      BY <2>1, <3>1, ScheduledFields DEF ScheduledOK
    <3>3. PICK k \in DOMAIN loadable_classes : loadable_classes[k] = c
      BY <3>2 DEF Entries
    <3>4. k \in DOMAIN loadable_classes' /\ loadable_classes'[k] = c
      BY <1>8, <3>1, <3>3
    <3> QED BY <3>4 DEF Entries
  <2>5. ASSUME NEW k \in DOMAIN loadable_classes', loadable_classes'[k] # Nil
        PROVE  /\ loadable_classes'[k] \in RW_LOADED' \ Settled'
               /\ \A j \in DOMAIN loadable_classes' :
                      loadable_classes'[j] = loadable_classes'[k] => j = k
               /\ \A c \in Before(loadable_classes'[k]) :
                      \/ c \in Settled'
                      \/ \E j \in 1 .. k - 1 : loadable_classes'[j] = c
    <3>1. /\ k \in DOMAIN loadable_classes
          /\ loadable_classes'[k] = loadable_classes[k]
          /\ loadable_classes[k] \notin Content(i)
      BY <1>8, <2>5
    <3>2. /\ loadable_classes[k] \in RW_LOADED \ Settled
          /\ \A j \in DOMAIN loadable_classes :
                 loadable_classes[j] = loadable_classes[k] => j = k
          /\ \A c \in Before(loadable_classes[k]) :
                 \/ c \in Settled
                 \/ \E j \in 1 .. k - 1 : loadable_classes[j] = c
      BY <2>1, <2>5, <3>1, ScheduledFields DEF ScheduledOK
    <3>3. loadable_classes[k] \in RW_LOADED' \ Settled'
      BY <1>3, <1>6, <3>1, <3>2
    <3>4. \A j \in DOMAIN loadable_classes' :
              loadable_classes'[j] = loadable_classes'[k] => j = k
      BY <1>8, <2>5, <3>1, <3>2
    <3>5. ASSUME NEW c \in Before(loadable_classes[k])
          PROVE  \/ c \in Settled'
                 \/ \E j \in 1 .. k - 1 : loadable_classes'[j] = c
      <4>1. c \notin Content(i)
        BY <1>2, <1>5, <1>6, <3>1, <3>2
      <4>2. CASE c \in Settled
        BY <1>3, <4>1, <4>2
      <4>3. CASE c \notin Settled
        <5>1. PICK j \in 1 .. k - 1 : loadable_classes[j] = c
          BY <3>2, <4>3
        <5>2. j \in DOMAIN loadable_classes
          BY <3>1, Facts
        <5> QED BY <1>8, <4>1, <5>1, <5>2
      <4> QED BY <4>2, <4>3
    <3> QED BY <3>1, <3>3, <3>4, <3>5
  <2> QED BY <2>2, <2>3, <2>4, <2>5, ScheduledFields DEF ScheduledOK
<1>14. CategoriesOK'
  <2>1. CategoriesOK
    BY DEF IndInv
  <2>2. ASSUME NEW m \in Mapped' \cap Categories, m \notin Settled'
        PROVE  m \in Entries(loadable_categories')
    <3>1. m \in Mapped \cap Categories /\ m \notin Content(i) /\ m \notin Settled
      BY <1>2, <1>3, <2>2
    <3>2. PICK k \in DOMAIN loadable_categories : loadable_categories[k] = m
      BY <2>1, <3>1 DEF CategoriesOK, Entries
    <3>3. k \in DOMAIN loadable_categories' /\ loadable_categories'[k] = m
      BY <1>9, <3>1, <3>2
    <3> QED BY <3>3 DEF Entries
  <2>3. ASSUME NEW k \in DOMAIN loadable_categories', loadable_categories'[k] # Nil
        PROVE  /\ loadable_categories'[k] \in Mapped' \ Settled'
               /\ \A j \in DOMAIN loadable_categories' :
                      loadable_categories'[j] = loadable_categories'[k] => j = k
    <3>1. /\ k \in DOMAIN loadable_categories
          /\ loadable_categories'[k] = loadable_categories[k]
          /\ loadable_categories[k] \notin Content(i)
      BY <1>9, <2>3
    <3>2. /\ loadable_categories[k] \in Mapped \ Settled
          /\ \A j \in DOMAIN loadable_categories :
                 loadable_categories[j] = loadable_categories[k] => j = k
      BY <2>1, <2>3, <3>1 DEF CategoriesOK
    <3> QED BY <1>2, <1>3, <1>9, <2>3, <3>1, <3>2
  <2> QED BY <2>2, <2>3 DEF CategoriesOK
<1>15. DetachedOK'
  <2>1. DetachedOK
    BY DEF IndInv
  <2>2. running' # Nil => running' \in Mapped' \ (called' \cup Due')
    BY <1>1, <1>2, <1>3, <2>1 DEF DetachedOK
  <2>3. Before(running') \subseteq called'
    <3>1. CASE running = Nil
      BY <1>1, <3>1, Constants DEF Before
    <3>2. CASE running # Nil
      <4>1. running \in Mapped'
        BY <1>1, <2>2, <3>2
      <4> QED BY <1>1, <1>2, <1>5, <2>1, <4>1 DEF DetachedOK
    <3> QED BY <3>1, <3>2
  <2>4. ASSUME NEW k \in next .. Len(detached), detached[k] # Nil
        PROVE  /\ detached[k] \in Mapped' \ called'
               /\ \A c \in Before(detached[k]) :
                      \/ c \in called' \cup {running}
                      \/ \E j \in next .. k - 1 : detached[j] = c
    <3>1. detached[k] \in Due
      BY Facts
    <3>2. detached[k] \in Mapped' \ called'
      BY <1>1, <1>2, <2>1, <2>4, <3>1 DEF DetachedOK
    <3>3. Before(detached[k]) \cap Content(i) = {}
      BY <1>2, <1>5, <3>2
    <3> QED BY <1>1, <2>1, <2>4, <3>2, <3>3 DEF DetachedOK
  <2> QED BY <1>1, <2>1, <2>2, <2>3, <2>4 DEF DetachedOK
<1>16. (~ DeallocsMap => NothingPending)'
  <2> SUFFICES ASSUME ~ DeallocsMap, stage' \in {"none", "pop"}
               PROVE  loadable_classes' = <<>> /\ loadable_categories' = <<>>
    BY DEF NothingPending
  <2>1. loadable_classes = <<>> /\ loadable_categories = <<>>
    BY <1>1 DEF IndInv, NothingPending
  <2> QED BY <1>8, <1>9, <2>1
<1> QED BY <1>10, <1>11, <1>12, <1>13, <1>14, <1>15, <1>16 DEF IndInv

(* The list of classes is detached.                                        *)
LEMMA DetachClassesStep ==
    ASSUME IndInv, DetachClasses
    PROVE  IndInv'
<1>1. /\ stage = "loop" /\ stage' = "classes"
      /\ detached' = loadable_classes /\ next' = 1 /\ loadable_classes' = <<>>
      /\ UNCHANGED <<mapped, RW_LOADED, loadable_categories, loading, running, called>>
  BY DEF DetachClasses
<1>2. detached = <<>> /\ next = 1 /\ running = Nil /\ loading
  BY <1>1 DEF IndInv, StageOK
<1>3. Due = {} /\ Settled = called \cup {Nil}
  BY <1>2 DEF Due, Settled
<1>4. /\ loadable_classes \in Seq(Classes \cup {Nil})
      /\ DOMAIN loadable_classes = 1 .. Len(loadable_classes)
      /\ Len(loadable_classes) \in Nat
  BY Facts
<1>5. Due' = Entries(loadable_classes)
  <2>1. {j \in DOMAIN loadable_classes : j >= 1} = DOMAIN loadable_classes
    BY <1>4
  <2> QED BY <1>1, <2>1 DEF Due, Entries
<1>6. /\ Settled' = called \cup Entries(loadable_classes) \cup {Nil}
      /\ Mapped' = Mapped
  BY <1>1, <1>2, <1>5 DEF Settled, Mapped
<1>7. ScheduledOK(Scheduled(RW_LOADED, loadable_classes))
  BY DEF IndInv
<1>8. /\ \A k \in 1 .. Len(loadable_classes) : loadable_classes[k] # Nil =>
            /\ loadable_classes[k] \in RW_LOADED \ called
            /\ \A j \in 1 .. Len(loadable_classes) :
                   loadable_classes[j] = loadable_classes[k] => j = k
            /\ \A c \in Before(loadable_classes[k]) :
                   \/ c \in called \cup {Nil}
                   \/ \E j \in 1 .. k - 1 : loadable_classes[j] = c
  BY <1>3, <1>4, <1>7, ScheduledFields DEF ScheduledOK
<1>9. Entries(loadable_classes) \subseteq RW_LOADED \cup {Nil}
  BY <1>4, <1>8 DEF Entries
<1>10. RW_LOADED \subseteq Classes /\ RW_LOADED \subseteq Mapped
  BY Facts DEF IndInv, ImagesOK
<1>11. TypeOK'
  <2>1. next' \in 1 .. Len(detached') + 1
    BY <1>1, <1>4
  <2>2. TypeOK
    BY DEF IndInv
  <2>3. <<>> \in Seq(Classes \cup {Nil})
    OBVIOUS
  <2> QED BY <1>1, <1>4, <2>1, <2>2, <2>3 DEF TypeOK
<1>12. ImagesOK'
  BY <1>1, <1>6 DEF IndInv, ImagesOK
<1>13. StageOK'
  BY <1>1, <1>2 DEF StageOK
<1>14. ScheduledOK(Scheduled(RW_LOADED, loadable_classes))'
  <2>1. Settled' \cap Classes \subseteq RW_LOADED
    BY <1>3, <1>6, <1>7, <1>9, Constants, ScheduledFields DEF ScheduledOK
  <2>2. \A c \in RW_LOADED \cap HasLoad : c \in Settled'
    BY <1>3, <1>6, <1>7, ScheduledFields DEF ScheduledOK
  <2>3. \A c \in RW_LOADED : Superclass[c] \in RW_LOADED \cup {Nil}
    BY <1>7, ScheduledFields DEF ScheduledOK
  <2>4. DOMAIN loadable_classes' = {}
    BY <1>1
  <2> QED BY <1>1, <2>1, <2>2, <2>3, <2>4, ScheduledFields DEF ScheduledOK
<1>15. CategoriesOK'
  <2>1. CategoriesOK
    BY DEF IndInv
  <2>2. \A k \in DOMAIN loadable_categories :
            loadable_categories[k] # Nil => loadable_categories[k] \in Categories
    <3>1. loadable_categories \in Seq(Categories \cup {Nil})
      BY Facts
    <3> QED BY <3>1
  <2>3. Entries(loadable_classes) \cap Categories = {}
    BY <1>9, <1>10, Constants
  <2> QED BY <1>1, <1>3, <1>6, <2>1, <2>2, <2>3 DEF CategoriesOK
<1>16. DetachedOK'
  <2>1. ASSUME NEW k \in 1 .. Len(loadable_classes), loadable_classes[k] # Nil
        PROVE  /\ loadable_classes[k] \in Mapped \ called
               /\ \A j \in 1 .. Len(loadable_classes) :
                      loadable_classes[j] = loadable_classes[k] => j = k
               /\ \A c \in Before(loadable_classes[k]) :
                      \/ c \in called \cup {Nil}
                      \/ \E j \in 1 .. k - 1 : loadable_classes[j] = c
    BY <1>8, <1>10, <2>1
  <2>2. Before(running) = {}
    BY <1>2, Constants DEF Before
  <2> QED BY <1>1, <1>2, <1>6, <2>1, <2>2 DEF DetachedOK
<1>17. NothingPending'
  BY <1>1 DEF NothingPending
<1> QED BY <1>11, <1>12, <1>13, <1>14, <1>15, <1>16, <1>17 DEF IndInv

(* When no class is pending, the categories are detached.                  *)
LEMMA DetachCategoriesStep ==
    ASSUME IndInv, DetachCategories
    PROVE  IndInv'
<1>1. /\ stage = "loop" /\ stage' = "categories"
      /\ loadable_classes = <<>>
      /\ detached' = loadable_categories /\ next' = 1 /\ loadable_categories' = <<>>
      /\ UNCHANGED <<mapped, RW_LOADED, loadable_classes, loading, running, called>>
  BY DEF DetachCategories
<1>2. detached = <<>> /\ next = 1 /\ running = Nil /\ loading
  BY <1>1 DEF IndInv, StageOK
<1>3. Due = {} /\ Settled = called \cup {Nil}
  BY <1>2 DEF Due, Settled
<1>4. /\ loadable_categories \in Seq(Categories \cup {Nil})
      /\ DOMAIN loadable_categories = 1 .. Len(loadable_categories)
      /\ Len(loadable_categories) \in Nat
  BY Facts
<1>5. Due' = Entries(loadable_categories)
  <2>1. {j \in DOMAIN loadable_categories : j >= 1} = DOMAIN loadable_categories
    BY <1>4
  <2> QED BY <1>1, <2>1 DEF Due, Entries
<1>6. /\ Settled' = called \cup Entries(loadable_categories) \cup {Nil}
      /\ Mapped' = Mapped
  BY <1>1, <1>2, <1>5 DEF Settled, Mapped
<1>7. /\ ScheduledOK(Scheduled(RW_LOADED, loadable_classes))
      /\ CategoriesOK /\ ImagesOK
  BY DEF IndInv
<1>8. \A c \in RW_LOADED \cap HasLoad : c \in called
  <2>1. Entries(loadable_classes) = {}
    BY <1>1 DEF Entries
  <2> QED BY <1>3, <1>7, <2>1, Constants, ScheduledFields DEF ScheduledOK
<1>9. \A k \in 1 .. Len(loadable_categories) : loadable_categories[k] # Nil =>
            /\ loadable_categories[k] \in Mapped \ called
            /\ loadable_categories[k] \in Categories
            /\ \A j \in 1 .. Len(loadable_categories) :
                   loadable_categories[j] = loadable_categories[k] => j = k
            /\ Before(loadable_categories[k]) \subseteq called
  <2> SUFFICES ASSUME NEW k \in 1 .. Len(loadable_categories),
                      loadable_categories[k] # Nil
               PROVE  /\ loadable_categories[k] \in Mapped \ called
                      /\ loadable_categories[k] \in Categories
                      /\ \A j \in 1 .. Len(loadable_categories) :
                             loadable_categories[j] = loadable_categories[k] => j = k
                      /\ Before(loadable_categories[k]) \subseteq called
    OBVIOUS
  <2>1. /\ loadable_categories[k] \in Mapped \ called
        /\ \A j \in 1 .. Len(loadable_categories) :
               loadable_categories[j] = loadable_categories[k] => j = k
    BY <1>3, <1>4, <1>7 DEF CategoriesOK
  <2>2. loadable_categories[k] \in Categories
    BY <1>4
  <2>3. Before(loadable_categories[k]) \subseteq Mapped \cap HasLoad
    <3>1. Before(loadable_categories[k]) \subseteq Mapped
      <4>1. mapped \in SUBSET Images /\ \A i \in mapped : DependsOn[i] \subseteq mapped
        BY <1>7, Facts DEF ImagesOK
      <4>2. \A m \in Mapped : Before(m) \subseteq Mapped
        <5>1. PICK M \in SUBSET Images : M = mapped
          BY <4>1
        <5>2. PICK T : T = UNION {Content(j) : j \in M}
          OBVIOUS
        <5>3. \A m \in T : Before(m) \subseteq T
          BY <4>1, <5>1, <5>2, MappedClosed
        <5> QED BY <5>1, <5>2, <5>3 DEF Mapped
      <4> QED BY <2>1, <4>2
    <3> QED BY <3>1 DEF Before
  <2>4. Before(loadable_categories[k]) \subseteq called
    BY <1>7, <1>8, <2>3 DEF ImagesOK
  <2> QED BY <2>1, <2>2, <2>4
<1>10. TypeOK'
  <2>1. next' \in 1 .. Len(detached') + 1
    BY <1>1, <1>4
  <2>2. TypeOK
    BY DEF IndInv
  <2>3. <<>> \in Seq(Categories \cup {Nil})
    OBVIOUS
  <2> QED BY <1>1, <1>4, <2>1, <2>2, <2>3 DEF TypeOK
<1>11. ImagesOK'
  BY <1>1, <1>6, <1>7 DEF ImagesOK
<1>12. StageOK'
  <2>1. \A k \in 1 .. next' - 1 : FALSE
    BY <1>1
  <2> QED BY <1>1, <1>2, <2>1 DEF StageOK
<1>13. ScheduledOK(Scheduled(RW_LOADED, loadable_classes))'
  <2>1. Entries(loadable_categories) \cap Classes = {}
    BY <1>4, <1>9, Constants DEF Entries
  <2>2. Settled' \cap Classes \subseteq RW_LOADED
    BY <1>3, <1>6, <1>7, <2>1, Constants, ScheduledFields DEF ScheduledOK
  <2>3. \A c \in RW_LOADED \cap HasLoad : c \in Settled'
    BY <1>6, <1>8
  <2>4. \A c \in RW_LOADED : Superclass[c] \in RW_LOADED \cup {Nil}
    BY <1>7, ScheduledFields DEF ScheduledOK
  <2>5. DOMAIN loadable_classes' = {}
    BY <1>1
  <2> QED BY <1>1, <2>2, <2>3, <2>4, <2>5, ScheduledFields DEF ScheduledOK
<1>14. CategoriesOK'
  <2>1. \A m \in Mapped \cap Categories : m \in Settled'
    BY <1>3, <1>6, <1>7 DEF CategoriesOK
  <2>2. DOMAIN loadable_categories' = {}
    BY <1>1
  <2> QED BY <1>6, <2>1, <2>2 DEF CategoriesOK
<1>15. DetachedOK'
  <2>1. Before(running) = {}
    BY <1>2, Constants DEF Before
  <2> QED BY <1>1, <1>2, <1>6, <1>9, <2>1 DEF DetachedOK
<1>16. NothingPending'
  BY <1>1 DEF NothingPending
<1> QED BY <1>10, <1>11, <1>12, <1>13, <1>14, <1>15, <1>16 DEF IndInv

(* The next entry of the detached list is called, or passed over.          *)
LEMMA LoadStep ==
    ASSUME IndInv, ClassLoad \/ CategoryLoad
    PROVE  IndInv'
<1>1. /\ stage \in {"classes", "categories"} /\ running = Nil
      /\ next <= Len(detached)
      /\ running' = detached[next] /\ next' = next + 1
      /\ UNCHANGED <<mapped, RW_LOADED, loadable_classes, loadable_categories,
                     loading, stage, detached, called>>
  BY DEF ClassLoad, CategoryLoad, CanLoad, lists
<1>2. /\ Len(detached) \in Nat /\ next \in 1 .. Len(detached)
      /\ DOMAIN detached = 1 .. Len(detached)
      /\ Due = {detached[k] : k \in next .. Len(detached)}
  BY <1>1, Facts
<1>3. Due' = {detached[k] : k \in next + 1 .. Len(detached)}
  <2>1. {j \in 1 .. Len(detached) : j >= next + 1} = next + 1 .. Len(detached)
    BY <1>2
  <2> QED BY <1>1, <1>2, <2>1 DEF Due
<1>4. next .. Len(detached) = {next} \cup (next + 1 .. Len(detached))
  BY <1>2
<1>5. Due = {detached[next]} \cup Due'
  BY <1>2, <1>3, <1>4
<1>6. Settled' \ {Nil} = Settled \ {Nil} /\ Mapped' = Mapped
  BY <1>1, <1>5 DEF Settled, Mapped
<1>7. detached[next] \in (IF stage = "classes" THEN Classes ELSE Categories) \cup {Nil}
  BY <1>2, Facts
<1>8. TypeOK'
  <2>1. TypeOK
    BY DEF IndInv
  <2>2. next' \in 1 .. Len(detached') + 1
    BY <1>1, <1>2
  <2>3. running' \in Classes \cup Categories \cup {Nil}
    BY <1>1, <1>7
  <2> QED BY <1>1, <2>1, <2>2, <2>3 DEF TypeOK
<1>9. ImagesOK'
  BY <1>1, <1>6 DEF IndInv, ImagesOK
<1>10. StageOK'
  <2>1. StageOK
    BY DEF IndInv
  <2>2. stage = "classes" => running' \in Classes \cup {Nil}
    BY <1>1, <1>7
  <2>3. ASSUME stage = "categories", NEW k \in 1 .. next, detached[k] # Nil
        PROVE  k = next /\ running' = detached[k]
    <3>1. CASE k = next
      BY <1>1, <3>1
    <3>2. CASE k # next
      <4>1. k \in 1 .. next - 1
        BY <1>2, <3>2
      <4> QED BY <1>1, <2>1, <2>3, <4>1 DEF StageOK
    <3> QED BY <3>1, <3>2
  <2>4. next' - 1 = next /\ next' > 1
    BY <1>1, <1>2
  <2> QED BY <1>1, <2>1, <2>2, <2>3, <2>4 DEF StageOK
<1>11. ScheduledOK(Scheduled(RW_LOADED, loadable_classes))'
  BY <1>1, <1>6, SettledSame DEF IndInv
<1>12. CategoriesOK'
  BY <1>1, <1>6, CategoriesSame
<1>13. DetachedOK'
  <2>1. DetachedOK
    BY DEF IndInv
  <2>2. \A k \in next .. Len(detached) : detached[k] # Nil =>
           /\ detached[k] \in Mapped \ called
           /\ \A j \in next .. Len(detached) : detached[j] = detached[k] => j = k
           /\ \A c \in Before(detached[k]) :
                  \/ c \in called \cup {Nil}
                  \/ \E j \in next .. k - 1 : detached[j] = c
    BY <1>1, <2>1 DEF DetachedOK
  <2>3. next \in next .. Len(detached)
    BY <1>2
  <2>4. running' # Nil => running' \in Mapped \ (called \cup Due')
    BY <1>1, <1>2, <1>3, <1>4, <2>2, <2>3
  <2>5. Before(running') \subseteq called
    <3>1. CASE running' = Nil
      BY <3>1, Constants DEF Before
    <3>2. CASE running' # Nil
      <4>1. \A j \in next .. next - 1 : FALSE
        BY <1>2
      <4>2. Before(running') \subseteq called \cup {Nil}
        BY <1>1, <2>2, <2>3, <3>2, <4>1
      <4> QED BY <4>2, Constants DEF Before
    <3> QED BY <3>1, <3>2
  <2>6. ASSUME NEW k \in next + 1 .. Len(detached), detached[k] # Nil
        PROVE  /\ detached[k] \in Mapped \ called
               /\ \A j \in next + 1 .. Len(detached) : detached[j] = detached[k] => j = k
               /\ \A c \in Before(detached[k]) :
                      \/ c \in called \cup {running'}
                      \/ \E j \in next + 1 .. k - 1 : detached[j] = c
    <3>1. /\ detached[k] \in Mapped \ called
          /\ \A j \in next .. Len(detached) : detached[j] = detached[k] => j = k
          /\ \A c \in Before(detached[k]) :
                 \/ c \in called \cup {Nil}
                 \/ \E j \in next .. k - 1 : detached[j] = c
      BY <1>4, <2>2, <2>6
    <3>2. ASSUME NEW c \in Before(detached[k]), c \notin called \cup {running'}
          PROVE  \E j \in next + 1 .. k - 1 : detached[j] = c
      <4>1. c # Nil
        BY Constants DEF Before
      <4>2. PICK j \in next .. k - 1 : detached[j] = c
        BY <3>1, <3>2, <4>1
      <4>3. j # next
        BY <1>1, <3>2, <4>2
      <4>4. j \in next + 1 .. k - 1
        BY <1>2, <4>2, <4>3
      <4> QED BY <4>2, <4>4
    <3>3. \A j \in next + 1 .. Len(detached) : j \in next .. Len(detached)
      BY <1>4
    <3> QED BY <3>1, <3>2, <3>3
  <2> QED BY <1>1, <1>6, <2>4, <2>5, <2>6 DEF DetachedOK
<1>14. NothingPending'
  BY <1>1 DEF NothingPending
<1> QED BY <1>8, <1>9, <1>10, <1>11, <1>12, <1>13, <1>14 DEF IndInv

(* A +load returns.                                                        *)
LEMMA LoadReturnsStep ==
    ASSUME IndInv, LoadReturns
    PROVE  IndInv'
<1>1. /\ running # Nil /\ running' = Nil
      /\ called' = called \cup {running}
      /\ detached' = IF stage = "categories"
                     THEN [detached EXCEPT ![next - 1] = Nil] ELSE detached
      /\ UNCHANGED <<mapped, RW_LOADED, loadable_classes, loadable_categories,
                     loading, stage, next>>
  BY DEF LoadReturns, lists
<1>2. /\ Len(detached) \in Nat /\ next \in Nat \ {0} /\ next <= Len(detached) + 1
      /\ DOMAIN detached = 1 .. Len(detached)
      /\ Due = {detached[k] : k \in next .. Len(detached)}
      /\ running \in Classes \cup Categories
  BY <1>1, Facts
<1>3. StageOK /\ stage \in {"classes", "categories"}
  <2>1. stage \in {"none", "loop", "classes", "categories", "pop"} /\ StageOK
    BY DEF IndInv, TypeOK
  <2> QED BY <1>1, <2>1 DEF StageOK
<1>4. stage = "categories" => next - 1 \in 1 .. Len(detached) /\ detached[next - 1] = running
  <2> SUFFICES ASSUME stage = "categories"
               PROVE  next - 1 \in 1 .. Len(detached) /\ detached[next - 1] = running
    OBVIOUS
  <2>1. next > 1 /\ detached[next - 1] = running
    BY <1>1, <1>3 DEF StageOK
  <2> QED BY <1>2, <2>1
<1>5. /\ Len(detached') = Len(detached)
      /\ DOMAIN detached' = 1 .. Len(detached)
      /\ \A k \in 1 .. Len(detached) : k # next - 1 => detached'[k] = detached[k]
      /\ detached' \in
             Seq((IF stage = "classes" THEN Classes ELSE Categories) \cup {Nil})
      /\ stage = "categories" => detached'[next - 1] = Nil
  <2>1. detached \in
            Seq((IF stage = "classes" THEN Classes ELSE Categories) \cup {Nil})
    BY Facts
  <2>2. CASE stage = "categories"
    <3>1. detached' = [detached EXCEPT ![next - 1] = Nil]
      BY <1>1, <2>2
    <3>2. detached \in Seq(Categories \cup {Nil})
      BY <2>1, <2>2
    <3>3. detached' \in Seq(Categories \cup {Nil}) /\ Len(detached') = Len(detached)
      <4>1. detached \in [1 .. Len(detached) -> Categories \cup {Nil}]
        BY <1>2, <3>2
      <4>2. detached' \in [1 .. Len(detached) -> Categories \cup {Nil}]
        BY <3>1, <4>1
      <4> QED BY <1>2, <4>2
    <3> QED BY <1>2, <1>4, <2>2, <3>1, <3>3
  <2>3. CASE stage # "categories"
    BY <1>1, <1>2, <2>1, <2>3
  <2> QED BY <2>2, <2>3
<1>6. \A k \in next .. Len(detached) : detached'[k] = detached[k]
  BY <1>2, <1>5
<1>7. Due' = Due
  <2>1. {j \in 1 .. Len(detached) : j >= next} = next .. Len(detached)
    BY <1>2
  <2>2. Due' = {detached'[k] : k \in next .. Len(detached)}
    BY <1>1, <1>5, <2>1 DEF Due
  <2> QED BY <1>2, <1>6, <2>2
<1>8. Settled' \ {Nil} = Settled \ {Nil} /\ Mapped' = Mapped
  BY <1>1, <1>7 DEF Settled, Mapped
<1>9. DetachedOK /\ running \in Mapped \ Due
  BY <1>1 DEF IndInv, DetachedOK
<1>10. TypeOK'
  <2>1. TypeOK
    BY DEF IndInv
  <2>2. called' \subseteq Classes \cup Categories
    BY <1>1, <1>2, <2>1 DEF TypeOK
  <2>3. next' \in 1 .. Len(detached') + 1
    BY <1>1, <1>2, <1>5
  <2> QED BY <1>1, <1>5, <2>1, <2>2, <2>3 DEF TypeOK
<1>11. ImagesOK'
  BY <1>1, <1>8, <1>9 DEF IndInv, ImagesOK
<1>12. StageOK'
  <2>1. ASSUME stage = "categories", NEW k \in 1 .. next - 1
        PROVE  detached'[k] = Nil
    <3>1. k \in 1 .. Len(detached)
      BY <1>2
    <3>2. CASE k = next - 1
      BY <1>5, <2>1, <3>2
    <3>3. CASE k # next - 1
      BY <1>3, <1>5, <2>1, <3>1, <3>3 DEF StageOK
    <3> QED BY <3>2, <3>3
  <2> QED BY <1>1, <1>3, <2>1 DEF StageOK
<1>13. ScheduledOK(Scheduled(RW_LOADED, loadable_classes))'
  BY <1>1, <1>8, SettledSame DEF IndInv
<1>14. CategoriesOK'
  BY <1>1, <1>8, CategoriesSame
<1>15. DetachedOK'
  <2>1. Before(running') = {}
    BY <1>1, Constants DEF Before
  <2>2. ASSUME NEW k \in next .. Len(detached), detached[k] # Nil
        PROVE  /\ detached[k] \in Mapped \ called'
               /\ \A j \in next .. Len(detached) : detached[j] = detached[k] => j = k
               /\ \A c \in Before(detached[k]) :
                      \/ c \in called' \cup {Nil}
                      \/ \E j \in next .. k - 1 : detached[j] = c
    <3>1. detached[k] \in Due
      BY <1>2
    <3> QED BY <1>1, <1>9, <2>2, <3>1 DEF DetachedOK
  <2>3. \A k \in next .. Len(detached) : \A j \in next .. k - 1 :
            detached'[j] = detached[j]
    <3>1. \A k \in next .. Len(detached) : \A j \in next .. k - 1 :
              j \in next .. Len(detached)
      BY <1>2
    <3> QED BY <1>6, <3>1
  <2>4. ASSUME NEW k \in next .. Len(detached), detached'[k] # Nil
        PROVE  /\ detached'[k] \in Mapped \ called'
               /\ \A j \in next .. Len(detached) : detached'[j] = detached'[k] => j = k
               /\ \A c \in Before(detached'[k]) :
                      \/ c \in called' \cup {Nil}
                      \/ \E j \in next .. k - 1 : detached'[j] = c
    BY <1>6, <2>2, <2>3, <2>4
  <2> QED BY <1>1, <1>5, <1>8, <2>1, <2>4 DEF DetachedOK
<1>16. NothingPending'
  BY <1>1, <1>3 DEF NothingPending
<1> QED BY <1>10, <1>11, <1>12, <1>13, <1>14, <1>15, <1>16 DEF IndInv

(* All classes of the detached list have been called.                      *)
LEMMA ClassesDoneStep ==
    ASSUME IndInv, ClassesDone
    PROVE  IndInv'
<1>1. /\ stage = "classes" /\ running = Nil /\ next > Len(detached)
      /\ stage' = "loop" /\ detached' = <<>> /\ next' = 1
      /\ UNCHANGED <<mapped, RW_LOADED, loadable_classes, loadable_categories,
                     loading, running, called>>
  BY DEF ClassesDone, Finished, lists
<1>2. Due = {} /\ Due' = {}
  <2>1. \A k \in next .. Len(detached) : FALSE
    BY <1>1, Facts
  <2>2. Due = {}
    BY <2>1, Facts
  <2>3. Due' = {}
    BY <1>1 DEF Due
  <2> QED BY <2>2, <2>3
<1>3. Settled' = Settled /\ Mapped' = Mapped
  BY <1>1, <1>2 DEF Settled, Mapped
<1>4. TypeOK'
  <2>1. TypeOK
    BY DEF IndInv
  <2>2. <<>> \in Seq(Categories \cup {Nil}) /\ 1 \in 1 .. Len(<<>>) + 1
    OBVIOUS
  <2> QED BY <1>1, <2>1, <2>2 DEF TypeOK
<1>5. ImagesOK'
  BY <1>1, <1>3 DEF IndInv, ImagesOK
<1>6. StageOK'
  BY <1>1 DEF IndInv, StageOK
<1>7. ScheduledOK(Scheduled(RW_LOADED, loadable_classes))'
  BY <1>1, <1>3, SettledSame DEF IndInv
<1>8. CategoriesOK'
  BY <1>1, <1>3, CategoriesSame
<1>9. DetachedOK'
  <2>1. \A k \in 1 .. Len(<<>>) : FALSE
    OBVIOUS
  <2> QED BY <1>1, <2>1, Constants DEF DetachedOK, Before
<1>10. NothingPending'
  BY <1>1 DEF NothingPending
<1> QED BY <1>4, <1>5, <1>6, <1>7, <1>8, <1>9, <1>10 DEF IndInv

(* All categories of the detached list have been called, and so none of    *)
(* them is put back.                                                       *)
LEMMA CategoriesDoneStep ==
    ASSUME IndInv, CategoriesDone
    PROVE  IndInv'
<1>1. /\ stage = "categories" /\ running = Nil /\ next > Len(detached)
      /\ loadable_categories' = Compacted \o loadable_categories
      /\ stage' = IF loadable_classes # <<>> \/ loadable_categories # <<>>
                  THEN "loop" ELSE "pop"
      /\ detached' = <<>> /\ next' = 1
      /\ UNCHANGED <<mapped, RW_LOADED, loadable_classes, loading, running, called>>
  BY DEF CategoriesDone, Finished
<1>2. Due = {} /\ Due' = {}
  <2>1. \A k \in next .. Len(detached) : FALSE
    BY <1>1, Facts
  <2>2. Due = {}
    BY <2>1, Facts
  <2>3. Due' = {}
    BY <1>1 DEF Due
  <2> QED BY <2>2, <2>3
<1>3. Settled' = Settled /\ Mapped' = Mapped
  BY <1>1, <1>2 DEF Settled, Mapped
<1>4. Compacted = <<>>
  <2>1. \A k \in DOMAIN detached : k \in 1 .. next - 1
    BY <1>1, Facts
  <2>2. \A k \in DOMAIN detached : detached[k] = Nil
    BY <1>1, <2>1 DEF IndInv, StageOK
  <2>3. {k \in DOMAIN detached : detached[k] # Nil} = {}
    BY <2>2
  <2>4. Cardinality({}) = 0
    BY FS_EmptySet
  <2> DEFINE left == {k \in DOMAIN detached : detached[k] # Nil}
             Nth(n) == CHOOSE k \in left : Cardinality({j \in left : j < k}) = n - 1
  <2>5. Compacted = [n \in 1 .. Cardinality(left) |-> detached[Nth(n)]]
    BY DEF Compacted
  <2>6. 1 .. Cardinality(left) = {}
    BY <2>3, <2>4
  <2>7. Compacted = [n \in {} |-> detached[Nth(n)]]
    BY <2>5, <2>6
  <2> HIDE DEF left, Nth
  <2> QED BY <2>7
<1>5. loadable_categories' = loadable_categories
  BY <1>1, <1>4, Facts
<1>6. TypeOK'
  <2>1. TypeOK
    BY DEF IndInv
  <2>2. <<>> \in Seq(Categories \cup {Nil}) /\ 1 \in 1 .. Len(<<>>) + 1
    OBVIOUS
  <2> QED BY <1>1, <1>5, <2>1, <2>2 DEF TypeOK
<1>7. ImagesOK'
  BY <1>1, <1>3 DEF IndInv, ImagesOK
<1>8. StageOK'
  BY <1>1 DEF IndInv, StageOK
<1>9. ScheduledOK(Scheduled(RW_LOADED, loadable_classes))'
  BY <1>1, <1>3, SettledSame DEF IndInv
<1>10. CategoriesOK'
  BY <1>1, <1>3, <1>5, CategoriesSame
<1>11. DetachedOK'
  <2>1. \A k \in 1 .. Len(<<>>) : FALSE
    OBVIOUS
  <2> QED BY <1>1, <2>1, Constants DEF DetachedOK, Before
<1>12. NothingPending'
  BY <1>1, <1>5 DEF NothingPending
<1> QED BY <1>6, <1>7, <1>8, <1>9, <1>10, <1>11, <1>12 DEF IndInv

(* The pool has been popped.                                               *)
LEMMA PopDoneStep ==
    ASSUME IndInv, PopDone
    PROVE  IndInv'
<1>1. /\ stage = "pop" /\ stage' = "none" /\ loading' = FALSE
      /\ UNCHANGED <<mapped, RW_LOADED, loadable_classes, loadable_categories,
                     detached, next, running, called>>
  BY DEF PopDone, lists
<1>2. Settled' = Settled /\ Due' = Due /\ Mapped' = Mapped
  BY <1>1 DEF Settled, Due, Mapped
<1>3. TypeOK'
  BY <1>1 DEF IndInv, TypeOK
<1>4. ImagesOK' /\ StageOK' /\ DetachedOK'
  BY <1>1, <1>2 DEF IndInv, ImagesOK, StageOK, DetachedOK
<1>5. ScheduledOK(Scheduled(RW_LOADED, loadable_classes))'
  BY <1>1, <1>2, SettledSame DEF IndInv
<1>6. CategoriesOK'
  BY <1>1, <1>2, CategoriesSame
<1>7. (~ DeallocsMap => NothingPending)'
  BY <1>1 DEF IndInv, NothingPending
<1> QED BY <1>3, <1>4, <1>5, <1>6, <1>7 DEF IndInv

-----------------------------------------------------------------------------
(* The theorems.                                                           *)

LEMMA StepInv ==
    ASSUME IndInv, ~ UnmapsDetached, [Next]_vars
    PROVE  IndInv'
<1>1. CASE UNCHANGED vars
  <2>1. UNCHANGED <<mapped, RW_LOADED, loadable_classes, loadable_categories,
                    loading, stage, detached, next, running, called>>
    BY <1>1 DEF vars
  <2>2. Settled' = Settled /\ Due' = Due /\ Mapped' = Mapped
    BY <2>1 DEF Settled, Due, Mapped
  <2>3. TypeOK' /\ ImagesOK' /\ StageOK' /\ DetachedOK'
    BY <2>1, <2>2 DEF IndInv, TypeOK, ImagesOK, StageOK, DetachedOK
  <2>4. ScheduledOK(Scheduled(RW_LOADED, loadable_classes))'
    BY <2>1, <2>2, SettledSame DEF IndInv
  <2>5. CategoriesOK'
    BY <2>1, <2>2, CategoriesSame
  <2>6. (~ DeallocsMap => NothingPending)'
    BY <2>1 DEF IndInv, NothingPending
  <2> QED BY <2>3, <2>4, <2>5, <2>6 DEF IndInv
<1>2. CASE Program
  BY <1>2, LoadImages, UnmapImage DEF Program
<1>3. CASE Step
  BY <1>3, DetachClassesStep, DetachCategoriesStep, LoadStep, LoadReturnsStep,
     ClassesDoneStep, CategoriesDoneStep, PopDoneStep DEF Step
<1> QED BY <1>1, <1>2, <1>3 DEF Next

(* The invariant behind the properties of the +load protocol holds, where  *)
(* no +load unmaps an image whose +load is due.                            *)
THEOREM Invariance ==
    ASSUME ~ UnmapsDetached
    PROVE  Spec => []IndInv
<1>1. Init => IndInv
  BY InitInv
<1>2. IndInv /\ [Next]_vars => IndInv'
  BY StepInv
<1> QED BY <1>1, <1>2, PTL DEF Spec

(* Every variable of load_images and call_load_methods keeps its type.     *)
THEOREM TypeCorrect ==
    ASSUME ~ UnmapsDetached
    PROVE  Spec => []TypeOK
<1>1. IndInv => TypeOK
  BY DEF IndInv
<1> QED BY <1>1, Invariance, PTL

(* SuperclassFirst: +load goes to superclasses before subclasses, to       *)
(* classes before their categories, and to each once while its image is    *)
(* mapped, in whatever order images are listed, mapped and unmapped        *)
(* (objc-runtime-new.mm:2841, objc-loadmethod.mm:307).                     *)
THEOREM SuperclassesFirst ==
    ASSUME ~ UnmapsDetached
    PROVE  Spec => SuperclassFirst
<1>1. IndInv => Before(running) \subseteq called
  BY DEF IndInv, DetachedOK
<1>2. ASSUME IndInv, [Next]_vars
      PROVE  running' # running => running' \notin called
  <2> SUFFICES ASSUME running' # running PROVE running' \notin called
    OBVIOUS
  <2>1. CASE ClassLoad \/ CategoryLoad
    <3>1. running' = detached[next] /\ next \in next .. Len(detached)
      BY <1>2, <2>1, Facts DEF ClassLoad, CategoryLoad, CanLoad
    <3>2. called' = called
      BY <2>1 DEF ClassLoad, CategoryLoad
    <3>3. CASE running' = Nil
      BY <1>2, <3>2, <3>3, Facts, Constants
    <3>4. CASE running' # Nil
      BY <1>2, <3>1, <3>2, <3>4 DEF IndInv, DetachedOK
    <3> QED BY <3>3, <3>4
  <2>2. CASE LoadReturns
    <3>1. running' = Nil /\ called' = called \cup {running} /\ running # Nil
      BY <2>2 DEF LoadReturns
    <3> QED BY <1>2, <3>1, Facts, Constants
  <2>3. CASE ~ (ClassLoad \/ CategoryLoad \/ LoadReturns)
    BY <1>2, <2>3 DEF Next, Program, Step, vars, load_images, unmap_image, lists, loop,
       DetachClasses, DetachCategories, ClassesDone, CategoriesDone, PopDone
  <2> QED BY <2>1, <2>2, <2>3
<1>3. IndInv /\ [Next]_vars => [running' # running => running' \notin called]_vars
  BY <1>2
<1>4. Spec => [](Before(running) \subseteq called)
  BY <1>1, Invariance, PTL
<1>5. Spec => [][running' # running => running' \notin called]_vars
  BY <1>3, Invariance, PTL DEF Spec
<1> QED BY <1>4, <1>5 DEF SuperclassFirst

(* NoneForgotten: when call_load_methods is over, every +load of a mapped  *)
(* image has been called, those included that were scheduled from inside   *)
(* of it (objc-loadmethod.mm:319-331), unless the pop of the pool maps     *)
(* images with +load.                                                      *)
THEOREM NobodyForgotten ==
    ASSUME ~ UnmapsDetached, ~ DeallocsMap
    PROVE  Spec => []NoneForgotten
<1>1. IndInv => NoneForgotten
  <2> SUFFICES ASSUME IndInv, ~ loading, NEW i \in mapped
               PROVE  (ClassList[i] \cap HasLoad) \cup Entries(CategoryList[i])
                          \subseteq called
    BY DEF NoneForgotten
  <2>1. /\ stage = "none" /\ detached = <<>> /\ running = Nil
        /\ loadable_classes = <<>> /\ loadable_categories = <<>>
    BY DEF IndInv, StageOK, NothingPending
  <2>2. Settled = called \cup {Nil} /\ Entries(loadable_classes) = {}
        /\ Entries(loadable_categories) = {}
    BY <2>1 DEF Settled, Due, Entries
  <2>3. i \in Images /\ Content(i) \subseteq Mapped
    BY Facts DEF Mapped
  <2>4. ClassList[i] \cap HasLoad \subseteq RW_LOADED
    BY <2>3, ContentType DEF IndInv, ImagesOK
  <2>5. ClassList[i] \cap HasLoad \subseteq called
    BY <2>2, <2>4, Constants, ScheduledFields DEF IndInv, ScheduledOK
  <2>6. Entries(CategoryList[i]) \subseteq called
    BY <2>2, <2>3, ContentType, Constants DEF IndInv, CategoriesOK
  <2> QED BY <2>5, <2>6
<1> QED BY <1>1, Invariance, PTL

(* OnlyMapped: the class or category whose +load runs is in an image that  *)
(* is mapped (objc-loadmethod.mm:126).                                     *)
THEOREM OnlyMappedCalled ==
    ASSUME ~ UnmapsDetached
    PROVE  Spec => []OnlyMapped
<1>1. IndInv => OnlyMapped
  BY DEF IndInv, DetachedOK, Mapped, OnlyMapped
<1> QED BY <1>1, Invariance, PTL
====
