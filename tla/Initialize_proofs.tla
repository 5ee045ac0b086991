---------------------------- MODULE Initialize_proofs ----------------------------
(***************************************************************************)
(* Proofs about Initialize, for any threads, any class hierarchy and any   *)
(* programs: IndInv of that module is inductive, and so the initialized    *)
(* part of the hierarchy is a contiguous subtree (ContiguousSubtree), and  *)
(* whoever sends a message to a class that another thread initializes      *)
(* waits (OthersMustWait).                                                 *)
(*                                                                         *)
(* The core of the argument is PendingOK: a class that waits for its       *)
(* superclass to be finished is on the list of the thread that initializes *)
(* the superclass, so that finishing the superclass finishes it too, and   *)
(* lockAndFinishInitializing never meets a class that is not its own. The  *)
(* child of a fork is the exception: the initializing thread of the        *)
(* superclass may be gone, and the thread that takes the superclass over   *)
(* (pc "fork") has the pending classes not on its list; but such a         *)
(* superclass has a +initialize that sent a message, is not trivial, and   *)
(* the child halts before it finishes it.                                  *)
(***************************************************************************)
EXTENDS Initialize, FiniteSetTheorems, SequenceTheorems, WellFoundedInduction, TLAPS

-----------------------------------------------------------------------------
(* The class hierarchy: its only assumption is that it has no cycle.       *)

(* What the assumption says of the constants.                              *)
LEMMA Hierarchy ==
    /\ NoClass \notin Classes
    /\ \A c \in Classes : Superclass[c] \in Classes \cup {NoClass}
    /\ \A S \in SUBSET Classes : S # {} => \E c \in S : Superclass[c] \notin S
    /\ \A p \in Programs :
           /\ p.own \subseteq Classes
           /\ \A c \in Classes : p.messages[c] \in SUBSET Classes
           /\ \A c \in Classes : Superclass[c] = NoClass => p.messages[c] = {}
    /\ \A t \in Threads : Sends[t] \in SUBSET Classes
  BY HierarchyAssumption

(* The recursive function of the ancestors satisfies its equation: the     *)
(* hierarchy is well-founded.                                              *)
LEMMA AncestorsDef ==
    ASSUME NEW c \in Classes
    PROVE  Ancestors[c] = IF Superclass[c] = NoClass THEN {}
                          ELSE {Superclass[c]} \cup Ancestors[Superclass[c]]
<1> DEFINE Closed(S) == \A e \in S : Superclass[e] \in Classes => Superclass[e] \in S
           Up(d) == {e \in Classes : \A S \in SUBSET Classes :
                        (Superclass[d] \in Classes => Superclass[d] \in S)
                        /\ Closed(S) => e \in S}
           F == [d \in Classes |-> Up(d)]
           G(H) == [d \in Classes |->
                       IF Superclass[d] = NoClass THEN {}
                       ELSE {Superclass[d]} \cup H[Superclass[d]]]
<1>1. ASSUME NEW d \in Classes
      PROVE  Up(d) = IF Superclass[d] = NoClass THEN {}
                     ELSE {Superclass[d]} \cup Up(Superclass[d])
  <2>1. CASE Superclass[d] = NoClass
    <3>1. {} \in SUBSET Classes /\ Closed({}) /\ Superclass[d] \notin Classes
      BY <2>1, Hierarchy
    <3> QED BY <2>1, <3>1
  <2>2. CASE Superclass[d] # NoClass
    <3>1. PICK s \in Classes : s = Superclass[d]
      BY <2>2, Hierarchy
    <3>2. s \in Up(d)
      BY <3>1
    <3>3. Up(s) \subseteq Up(d)
      <4> SUFFICES ASSUME NEW e \in Up(s), NEW S \in SUBSET Classes,
                          s \in S, Closed(S)
                   PROVE  e \in S
        BY <3>1
      <4>1. Superclass[s] \in Classes => Superclass[s] \in S
        OBVIOUS
      <4> QED BY <4>1
    <3>4. ASSUME NEW e \in Up(d), e # s
          PROVE  e \in Up(s)
      <4> SUFFICES ASSUME NEW S \in SUBSET Classes,
                          Superclass[s] \in Classes => Superclass[s] \in S,
                          Closed(S)
                   PROVE  e \in S
        BY <3>4
      <4>1. PICK T \in SUBSET Classes : T = S \cup {s}
        OBVIOUS
      <4>2. Closed(T) /\ s \in T
        BY <4>1
      <4>3. e \in T
        BY <3>1, <3>4, <4>2
      <4> QED BY <3>4, <4>1, <4>3
    <3>5. Up(d) = {s} \cup Up(s)
      BY <3>2, <3>3, <3>4
    <3> QED BY <2>2, <3>1, <3>5
  <2> QED BY <2>1, <2>2
<1> HIDE DEF Up
<1>2. F = G(F)
  <2>1. \A d \in Classes : F[d] = G(F)[d]
    BY <1>1, Hierarchy
  <2> QED BY <2>1
<1>3. Ancestors = G(Ancestors)
  BY <1>2 DEF Ancestors
<1> QED BY <1>3

(* A set of classes that has the superclass of each of its classes is      *)
(* empty.                                                                  *)
LEMMA NoCycle ==
    ASSUME NEW S \in SUBSET Classes,
           \A c \in Classes : c \in S =>
               Superclass[c] \in Classes /\ Superclass[c] \in S
    PROVE  S = {}
  BY Hierarchy

(* The ancestors of a class are classes.                                   *)
LEMMA AncestorsType ==
    ASSUME NEW c \in Classes
    PROVE  Ancestors[c] \subseteq Classes
<1> DEFINE S == {d \in Classes : ~ Ancestors[d] \subseteq Classes}
<1>1. ASSUME NEW d \in Classes, d \in S
      PROVE  Superclass[d] \in Classes /\ Superclass[d] \in S
  <2>1. PICK s \in Classes :
            /\ s = Superclass[d]
            /\ Ancestors[d] = {s} \cup Ancestors[s]
    BY <1>1, AncestorsDef, Hierarchy
  <2> QED BY <1>1, <2>1
<1>2. S = {}
  <2> HIDE DEF S
  <2>1. S \in SUBSET Classes
    BY DEF S
  <2> QED BY <1>1, <2>1, NoCycle
<1> QED BY <1>2

(* The ancestors of an ancestor are ancestors.                             *)
LEMMA AncestorsTransitive ==
    ASSUME NEW c \in Classes, NEW d \in Ancestors[c]
    PROVE  d \in Classes /\ Ancestors[d] \subseteq Ancestors[c]
<1> DEFINE S == {e \in Classes :
                    \E a \in Ancestors[e] : ~ Ancestors[a] \subseteq Ancestors[e]}
<1>1. ASSUME NEW e \in Classes, e \in S
      PROVE  Superclass[e] \in Classes /\ Superclass[e] \in S
  <2>1. PICK a \in Ancestors[e] : ~ Ancestors[a] \subseteq Ancestors[e]
    BY <1>1
  <2>2. PICK s \in Classes :
            /\ s = Superclass[e]
            /\ Ancestors[e] = {s} \cup Ancestors[s]
    BY <2>1, AncestorsDef, Hierarchy
  <2>3. a \in Ancestors[s] /\ ~ Ancestors[a] \subseteq Ancestors[s]
    BY <2>1, <2>2
  <2> QED BY <2>2, <2>3
<1>2. S = {}
  <2> HIDE DEF S
  <2>1. S \in SUBSET Classes
    BY DEF S
  <2> QED BY <1>1, <2>1, NoCycle
<1> QED BY <1>2, AncestorsType

(* A class is not its own ancestor.                                        *)
LEMMA NoOwnAncestor ==
    ASSUME NEW c \in Classes
    PROVE  c \notin Ancestors[c]
<1> DEFINE S == {e \in Classes : e \in Ancestors[e]}
<1>1. ASSUME NEW e \in Classes, e \in S
      PROVE  Superclass[e] \in Classes /\ Superclass[e] \in S
  <2>1. PICK s \in Classes :
            /\ s = Superclass[e]
            /\ Ancestors[e] = {s} \cup Ancestors[s]
    BY <1>1, AncestorsDef, Hierarchy
  <2>2. s \in Ancestors[s]
    BY <1>1, <2>1, AncestorsTransitive
  <2> QED BY <2>1, <2>2
<1>2. S = {}
  <2> HIDE DEF S
  <2>1. S \in SUBSET Classes
    BY DEF S
  <2> QED BY <1>1, <2>1, NoCycle
<1> QED BY <1>2

(* How the line of a class relates to that of its superclass.              *)
LEMMA LineFacts ==
    ASSUME NEW c \in Classes, NEW d \in Classes
    PROVE  /\ Line(c) \subseteq Classes
           /\ c \in Line(c)
           /\ c \in Line(d) /\ c # d =>
                 /\ d \notin Line(c)
                 /\ Superclass[d] \in Classes
                 /\ c \in Line(Superclass[d])
           /\ Superclass[d] \in Classes =>
                 /\ Line(d) = {d} \cup Line(Superclass[d])
                 /\ Superclass[d] # d
<1>1. Line(c) \subseteq Classes /\ c \in Line(c)
  BY AncestorsType DEF Line
<1>2. ASSUME c \in Line(d), c # d
      PROVE  /\ d \notin Line(c)
             /\ Superclass[d] \in Classes
             /\ c \in Line(Superclass[d])
  <2>1. c \in Ancestors[d]
    BY <1>2 DEF Line
  <2>2. d \notin Ancestors[c]
    BY <2>1, AncestorsTransitive, NoOwnAncestor
  <2>3. Superclass[d] \in Classes /\ c \in Line(Superclass[d])
    BY <2>1, AncestorsDef, Hierarchy DEF Line
  <2> QED BY <1>2, <2>2, <2>3 DEF Line
<1>3. ASSUME Superclass[d] \in Classes
      PROVE  /\ Line(d) = {d} \cup Line(Superclass[d])
             /\ Superclass[d] # d
  <2>1. Ancestors[d] = {Superclass[d]} \cup Ancestors[Superclass[d]]
    BY <1>3, AncestorsDef, Hierarchy
  <2> QED BY <2>1, NoOwnAncestor DEF Line
<1> QED BY <1>1, <1>2, <1>3

(* A class is finished with itself.                                        *)
LEMMA FinishedSelf ==
    ASSUME NEW c \in Classes
    PROVE  c \in Finished(c) /\ Finished(c) \subseteq Classes
  BY LineFacts DEF Finished

(* Another class finished with it is pending under one that is.            *)
LEMMA FinishedDown ==
    ASSUME NEW c \in Classes, NEW d \in Finished(c), d # c
    PROVE  /\ d \in Classes /\ d \in pending
           /\ Superclass[d] \in Classes
           /\ Superclass[d] \in Finished(c)
<1>1. d \in Classes /\ c \in Line(d) /\ Line(d) \ Line(c) \subseteq pending
  BY DEF Finished
<1>2. PICK s \in Classes : s = Superclass[d] /\ c \in Line(s) /\ d \notin Line(c)
                           /\ Line(d) = {d} \cup Line(s) /\ d \in Line(d)
  BY <1>1, LineFacts
<1> QED BY <1>1, <1>2 DEF Finished

(* A class pending under a finished one is finished.                       *)
LEMMA FinishedUp ==
    ASSUME NEW c \in Classes, NEW d \in Classes, d \in pending,
           Superclass[d] \in Finished(c)
    PROVE  d \in Finished(c)
<1>1. PICK s \in Classes :
          /\ s = Superclass[d]
          /\ c \in Line(s) /\ Line(s) \ Line(c) \subseteq pending
  BY DEF Finished
<1>2. Line(d) = {d} \cup Line(s)
  BY <1>1, LineFacts
<1> QED BY <1>1, <1>2 DEF Finished

(* A trivial +initialize sends no message.                                 *)
LEMMA TrivialBody ==
    ASSUME NEW c \in Classes, program \in Programs,
           classHasTrivialInitialize(c)
    PROVE  Body(c) = {}
<1>1. ASSUME NEW d \in Implementers(program, c)
      PROVE  program.messages[d] = {}
  <2>1. d \in Classes /\ Superclass[d] = NoClass
    BY LineFacts DEF Implementers, classHasTrivialInitialize
  <2> QED BY <2>1, Hierarchy
<1> QED BY <1>1 DEF Body

(* The messages of a +initialize are to classes.                           *)
LEMMA BodyType ==
    ASSUME NEW c \in Classes, program \in Programs
    PROVE  Body(c) \in SUBSET Classes
<1>1. ASSUME NEW d \in Implementers(program, c)
      PROVE  program.messages[d] \in SUBSET Classes
  <2>1. d \in Classes
    BY LineFacts DEF Implementers
  <2> QED BY <2>1, Hierarchy
<1> QED BY <1>1 DEF Body

-----------------------------------------------------------------------------
(* Frames, stacks and threads.                                             *)

(* A stack that is not empty has an innermost frame.                       *)
LEMMA TopFacts ==
    ASSUME TypeOK, NEW t \in Threads, stack[t] # <<>>
    PROVE  \E s \in Seq(Frames) : \E n \in Nat \ {0} : \E f \in Frames :
               /\ s = stack[t] /\ n = Len(s) /\ f = s[n]
               /\ f = Last(stack[t]) /\ DOMAIN s = 1..n
               /\ \A i \in 1..n : s[i] \in Frames
  BY DEF TypeOK, Last

(* What a step must leave alone of the thread t for FrameOK of its frame f *)
(* to stay true.                                                           *)
FrameKept(t, f) ==
    f.cls # NoClass =>
        /\ f.pc # "super" => (SuperReady(t, f.cls) => SuperReady(t, f.cls)')
        /\ f.pc = "body" => f.cls \notin pending'
        /\ f.pc = "fork" => f.cls \notin pending'
        /\ Initializes(f, f.cls) => f.cls \in list'[t]

(* States of classes only go forward, and a child stays one.               *)
Forward ==
    /\ program' = program
    /\ \A c \in Classes : state[c] # "no" => state'[c] # "no"
    /\ \A c \in Classes : state[c] = "initialized" => state'[c] = "initialized"
    /\ MultithreadedForkChild => MultithreadedForkChild'

(* These two keep a frame right.                                           *)
LEMMA FrameStays ==
    ASSUME NEW t \in Threads, NEW f \in Frames, FrameOK(t, f), Forward,
           FrameKept(t, f)
    PROVE  FrameOK(t, f)'
<1> SUFFICES ASSUME f.cls # NoClass
             PROVE  FrameOK(t, f)'
  BY DEF FrameOK
<1>1. PICK c \in Classes : c = f.cls
  BY DEF Frames
<1>2. Body(c)' = Body(c)
  BY DEF Forward, Body
<1>3. f.pc # "super" => SuperReady(t, c)'
  BY <1>1 DEF FrameOK, FrameKept
<1>4. f.pc = "initializing" => state'[c] # "no"
  BY <1>1 DEF FrameOK, Forward
<1>5. f.pc = "initialized" => state'[c] = "initialized"
  BY <1>1 DEF FrameOK, Forward
<1>6. Initializes(f, c) => c \in list'[t]
  BY <1>1 DEF FrameKept
<1>7. f.pc = "body" => f.todo \subseteq Body(c)' /\ c \notin pending'
  BY <1>1, <1>2 DEF FrameOK, FrameKept
<1>8. f.pc = "fork" => MultithreadedForkChild' /\ c \notin pending'
  BY <1>1 DEF FrameOK, FrameKept, Forward
<1> HIDE DEF Initializes, SuperReady, Body, MultithreadedForkChild
<1> QED BY <1>1, <1>3, <1>4, <1>5, <1>6, <1>7, <1>8 DEF FrameOK

(* The sequence with one element replaced,                                 *)
LEMMA Replaced ==
    ASSUME NEW S, NEW s \in Seq(S), NEW n \in 1..Len(s), NEW e \in S
    PROVE  /\ [s EXCEPT ![n] = e] \in Seq(S)
           /\ Len([s EXCEPT ![n] = e]) = Len(s)
           /\ [s EXCEPT ![n] = e][n] = e
           /\ \A i \in 1..Len(s) : i # n => [s EXCEPT ![n] = e][i] = s[i]
  BY ExceptSeq

(* ... with one more,                                                      *)
LEMMA Appended ==
    ASSUME NEW S, NEW s \in Seq(S), NEW e \in S
    PROVE  /\ Append(s, e) \in Seq(S)
           /\ Len(Append(s, e)) = Len(s) + 1
           /\ Append(s, e)[Len(s) + 1] = e
           /\ \A i \in 1..Len(s) : Append(s, e)[i] = s[i]
  OBVIOUS

(* ... and with the first ones only.                                       *)
LEMMA Shortened ==
    ASSUME NEW S, NEW s \in Seq(S), NEW k \in 1..Len(s)
    PROVE  /\ SubSeq(s, 1, k) \in Seq(S)
           /\ Len(SubSeq(s, 1, k)) = k
           /\ \A i \in 1..k : SubSeq(s, 1, k)[i] = s[i]
<1>1. k \in Nat /\ 1 <= k /\ \A i \in 1..k : s[i] \in S
  OBVIOUS
<1>2. /\ SubSeq(s, 1, k) \in Seq(S)
      /\ Len(SubSeq(s, 1, k)) = IF 1 <= k THEN k - 1 + 1 ELSE 0
      /\ \A i \in 1..(k - 1 + 1) : SubSeq(s, 1, k)[i] = s[1 + i - 1]
  BY <1>1, SubSeqProperties
<1> QED BY <1>1, <1>2

(* g may be the innermost frame of s: no other one initializes the class.  *)
Lone(s, n, g) ==
    /\ g.cls = s[n].cls
    /\ n = 1 => g.pc = "body"
    /\ Initializes(g, g.cls) =>
           \A i \in 1..n : i # n => ~ Initializes(s[i], g.cls)

(* The innermost frame of s goes on with a call for the class c.           *)
CallsFor(s, n, c) ==
    s[n].pc = "body" \/ (s[n].pc = "super" /\ c = Superclass[s[n].cls])

(* StackOK where the innermost frame is replaced,                          *)
LEMMA StackTop ==
    ASSUME NEW s \in Seq(Frames), NEW n \in Nat \ {0}, n = Len(s), StackOK(s),
           NEW g \in Frames, Lone(s, n, g)
    PROVE  \E z \in Seq(Frames) :
               /\ z = [s EXCEPT ![n] = g]
               /\ Len(z) = n /\ z[n] = g
               /\ \A i \in 1..n : i # n => z[i] = s[i]
               /\ StackOK(z)
<1>1. n \in DOMAIN s /\ DOMAIN s = 1..n /\ n \in Nat \ {0}
  BY DEF StackOK
<1>2. PICK z \in Seq(Frames) : z = [s EXCEPT ![n] = g]
  BY <1>1, Replaced
<1>3. Len(z) = n /\ z[n] = g /\ \A i \in 1..n : i # n => z[i] = s[i]
  BY <1>1, <1>2, Replaced
<1>4. DOMAIN z = 1..n
  BY <1>3
<1>5. /\ z # <<>> /\ \A i \in 1..n : z[i].cls = s[i].cls
      /\ z[1].cls = NoClass /\ z[1].pc = "body"
  <2>1. s[1].cls = NoClass /\ s[1].pc = "body" /\ 1 \in 1..n
    BY <1>1 DEF StackOK
  <2>2. z # <<>> /\ \A i \in 1..n : z[i].cls = s[i].cls
    BY <1>1, <1>3 DEF Lone
  <2> QED BY <1>3, <2>1, <2>2 DEF Lone
<1>6. \A i \in 1..n : i # n =>
          \/ z[i].pc = "body"
          \/ z[i].pc = "super" /\ z[i + 1].cls = Superclass[z[i].cls]
  <2> TAKE i \in 1..n
  <2>1. i # n => i + 1 \in 1..n
    OBVIOUS
  <2> QED BY <1>1, <1>3, <1>5, <2>1 DEF StackOK
<1>7. \A i, j \in 1..n : i # j =>
          ~ (Initializes(z[i], z[i].cls) /\ Initializes(z[j], z[i].cls))
  <2> SUFFICES ASSUME NEW i \in 1..n, NEW j \in 1..n, i # j,
                      Initializes(z[i], z[i].cls), Initializes(z[j], z[i].cls)
               PROVE  FALSE
    OBVIOUS
  <2>1. CASE i # n /\ j # n
    BY <1>1, <1>3, <2>1 DEF StackOK
  <2>2. CASE i = n
    BY <1>1, <1>3, <2>2 DEF Lone
  <2>3. CASE j = n
    BY <1>1, <1>3, <2>3 DEF Initializes, Lone
  <2> QED BY <2>1, <2>2, <2>3
<1>8. StackOK(z)
  BY <1>1, <1>3, <1>4, <1>5, <1>6, <1>7 DEF StackOK
<1> QED BY <1>2, <1>3, <1>8

(* The frame of a new call of _class_initialize.                           *)
LEMMA CallFrame ==
    ASSUME NEW c \in Classes
    PROVE  \E g \in Frames :
               g = Frame(c, "super", {}) /\ g.pc = "super" /\ g.cls = c
<1>1. Frame(c, "super", {}) \in Frames
  BY DEF Frame, Frames
<1> QED BY <1>1 DEF Frame

(* ... where a call begins,                                                *)
LEMMA StackPush ==
    ASSUME NEW s \in Seq(Frames), NEW n \in Nat \ {0}, n = Len(s), StackOK(s),
           NEW g \in Frames, g.pc = "super", g.cls \in Classes,
           CallsFor(s, n, g.cls)
    PROVE  \E z \in Seq(Frames) :
               /\ z = Append(s, g)
               /\ Len(z) = n + 1 /\ z[n + 1] = g
               /\ \A i \in 1..n : z[i] = s[i]
               /\ StackOK(z)
<1>1. PICK c \in Classes : c = g.cls /\ CallsFor(s, n, c)
  OBVIOUS
<1>2. PICK z \in Seq(Frames) :
          /\ z = Append(s, g) /\ Len(z) = n + 1 /\ z[n + 1] = g
          /\ \A i \in 1..n : z[i] = s[i]
  <2>1. PICK z \in Seq(Frames) : z = Append(s, g)
    BY Appended
  <2>2. Len(z) = n + 1 /\ z[n + 1] = g /\ \A i \in 1..n : z[i] = s[i]
    BY <2>1, Appended
  <2> QED BY <2>1, <2>2
<1>3. DOMAIN z = 1..(n + 1) /\ DOMAIN s = 1..n /\ z # <<>>
  BY <1>2
<1>4. \A i \in 1..(n + 1) : i # n + 1 =>
          \/ z[i].pc = "body"
          \/ z[i].pc = "super" /\ z[i + 1].cls = Superclass[z[i].cls]
  <2> TAKE i \in 1..(n + 1)
  <2>1. CASE i \in 1..n /\ i # n
    <3>1. i + 1 \in 1..n
      BY <2>1
    <3> QED BY <1>2, <1>3, <2>1, <3>1 DEF StackOK
  <2>2. CASE i = n
    BY <1>1, <1>2, <2>2 DEF CallsFor
  <2> QED BY <2>1, <2>2
<1>5. \A i, j \in 1..(n + 1) : i # j =>
          ~ (Initializes(z[i], z[i].cls) /\ Initializes(z[j], z[i].cls))
  <2> SUFFICES ASSUME NEW i \in 1..(n + 1), NEW j \in 1..(n + 1), i # j,
                      Initializes(z[i], z[i].cls), Initializes(z[j], z[i].cls)
               PROVE  FALSE
    OBVIOUS
  <2>1. i # n + 1 /\ j # n + 1
    BY <1>1, <1>2 DEF Initializes
  <2> QED BY <1>2, <1>3, <2>1 DEF StackOK
<1>6. \A i \in 1..(n + 1) : i # 1 => z[i].cls \in Classes
  BY <1>1, <1>2, <1>3 DEF StackOK
<1>7. z[1] = s[1]
  BY <1>2
<1>8. StackOK(z)
  BY <1>2, <1>3, <1>4, <1>5, <1>6, <1>7 DEF StackOK
<1> QED BY <1>2, <1>8

(* ... and where calls end.                                                *)
LEMMA StackPrefix ==
    ASSUME NEW s \in Seq(Frames), NEW k \in 1..Len(s), StackOK(s)
    PROVE  \E z \in Seq(Frames) :
               /\ z = SubSeq(s, 1, k)
               /\ Len(z) = k /\ \A i \in 1..k : z[i] = s[i]
               /\ StackOK(z)
<1>1. PICK z \in Seq(Frames) :
          z = SubSeq(s, 1, k) /\ Len(z) = k /\ \A i \in 1..k : z[i] = s[i]
  BY Shortened
<1>2. DOMAIN z = 1..k /\ z # <<>> /\ z[1] = s[1] /\ 1..k \subseteq DOMAIN s
      /\ k \in Nat
  BY <1>1
<1>3. \A i \in 1..k : i # k =>
          \/ z[i].pc = "body"
          \/ z[i].pc = "super" /\ z[i + 1].cls = Superclass[z[i].cls]
  <2> TAKE i \in 1..k
  <2>1. i # k => i + 1 \in 1..k /\ i # Len(s)
    OBVIOUS
  <2> QED BY <1>1, <1>2, <2>1 DEF StackOK
<1>4. StackOK(z)
  BY <1>1, <1>2, <1>3 DEF StackOK
<1> QED BY <1>1, <1>4

(* ThreadOK after a step, from what the step makes of the stack.           *)
LEMMA NewThread ==
    ASSUME NEW t \in Threads, NEW z \in Seq(Frames), z = stack'[t],
           program' = program, StackOK(z),
           \A i \in 1..Len(z) : \E f \in Frames :
               /\ f = z[i] /\ FrameOK(t, f)'
               /\ f.pc = "body" /\ f.cls # NoClass /\ i # Len(z) =>
                      Body(f.cls) # {}
    PROVE  ThreadOK(t)'
<1>1. ASSUME NEW i \in DOMAIN stack'[t]
      PROVE  /\ FrameOK(t, stack[t][i])'
             /\ stack'[t][i].pc = "body" /\ stack'[t][i].cls # NoClass
                    /\ i # Len(stack'[t]) => Body(stack[t][i].cls)' # {}
  <2>1. PICK f \in Frames :
            /\ f = stack'[t][i] /\ FrameOK(t, f)'
            /\ f.pc = "body" /\ f.cls # NoClass /\ i # Len(stack'[t]) =>
                   Body(f.cls) # {}
    BY <1>1
  <2>2. Body(f.cls) = Body(stack[t][i].cls)'
    BY <2>1 DEF Body
  <2>3. FrameOK(t, stack[t][i])'
    BY <2>1 DEF FrameOK
  <2> QED BY <2>1, <2>2, <2>3
<1>2. StackOK(stack[t])'
  BY DEF StackOK
<1> QED BY <1>1, <1>2 DEF ThreadOK

(* The frames s of t, n many, the innermost of which is f, and what the    *)
(* invariant says of them.                                                 *)
TopIs(t, s, n, f) ==
    /\ s = stack[t] /\ n = Len(s) /\ f = s[n]
    /\ f = Last(stack[t]) /\ DOMAIN s = 1..n
    /\ \A i \in 1..n : s[i] \in Frames /\ FrameOK(t, s[i])
    /\ \A i \in 1..n : i # n /\ s[i].pc = "body" /\ s[i].cls # NoClass
           => Body(s[i].cls) # {}
    /\ StackOK(s)
    /\ n = 1 <=> f.cls = NoClass

(* There are such frames.                                                  *)
LEMMA ThreadFacts ==
    ASSUME TypeOK, NEW t \in Threads, ThreadOK(t)
    PROVE  \E s \in Seq(Frames), n \in Nat \ {0}, f \in Frames :
               TopIs(t, s, n, f)
<1>1. stack[t] # <<>> /\ StackOK(stack[t])
  BY DEF ThreadOK, StackOK
<1>2. PICK s \in Seq(Frames), n \in Nat \ {0}, f \in Frames :
               /\ s = stack[t] /\ n = Len(s) /\ f = s[n]
               /\ f = Last(stack[t]) /\ DOMAIN s = 1..n
               /\ \A i \in 1..n : s[i] \in Frames
  BY <1>1, TopFacts
<1>3. \A i \in 1..n : FrameOK(t, s[i])
  BY <1>2 DEF ThreadOK
<1>4. \A i \in 1..n : i # n /\ s[i].pc = "body" /\ s[i].cls # NoClass
           => Body(s[i].cls) # {}
  BY <1>2 DEF ThreadOK
<1>5. n = 1 <=> f.cls = NoClass
  <2>1. StackOK(s) /\ n \in DOMAIN s /\ n = Len(s)
    BY <1>1, <1>2
  <2>2. s[1].cls = NoClass /\ (n # 1 => s[n].cls \in Classes)
    BY <2>1 DEF StackOK
  <2> QED BY <1>2, <2>2, Hierarchy
<1>6. StackOK(s)
  BY <1>1, <1>2
<1>7. TopIs(t, s, n, f)
  BY <1>2, <1>3, <1>4, <1>5, <1>6 DEF TopIs
<1> QED BY <1>7

(* What the frames of t up to k say stays true.                            *)
LowerKept(t, k) ==
    \A i \in 1..k : FrameKept(t, stack[t][i])

(* So these frames are right after the step.                               *)
LEMMA LowerFrames ==
    ASSUME TypeOK, NEW t \in Threads, ThreadOK(t), Forward, NEW k \in Nat,
           k <= Len(stack[t]), LowerKept(t, k), NEW i \in 1..k
    PROVE  \E f \in Frames :
               /\ f = stack[t][i] /\ FrameOK(t, f)'
               /\ f.pc = "body" /\ f.cls # NoClass /\ i # Len(stack[t]) =>
                      Body(f.cls) # {}
<1>1. i \in DOMAIN stack[t] /\ stack[t][i] \in Frames
  BY DEF TypeOK
<1>2. PICK f \in Frames : f = stack[t][i]
  BY <1>1
<1>3. FrameOK(t, f) /\ FrameKept(t, f)
  BY <1>1, <1>2 DEF ThreadOK, LowerKept
<1>4. FrameOK(t, f)'
  BY <1>3, FrameStays
<1> QED BY <1>1, <1>2, <1>4 DEF ThreadOK

(* ThreadOK after a step that replaces the innermost frame,                *)
LEMMA TopStep ==
    ASSUME TypeOK, NEW t \in Threads, ThreadOK(t), Forward,
           NEW n \in Nat \ {0}, n = Len(stack[t]), LowerKept(t, n - 1),
           NEW g \in Frames, Lone(stack[t], n, g),
           stack'[t] = [stack[t] EXCEPT ![n] = g],
           FrameOK(t, g)'
    PROVE  /\ ThreadOK(t)' /\ stack'[t] \in Seq(Frames)
           /\ Len(stack'[t]) = n /\ stack'[t][n] = g
           /\ \A i \in 1..n : i # n => stack'[t][i] = stack[t][i]
<1>1. PICK s \in Seq(Frames) : s = stack[t] /\ n = Len(s) /\ StackOK(s)
                               /\ Last(stack[t]) = s[n]
  BY ThreadFacts DEF TopIs
<1>2. PICK z \in Seq(Frames) :
               /\ z = [s EXCEPT ![n] = g]
               /\ Len(z) = n /\ z[n] = g
               /\ \A i \in 1..n : i # n => z[i] = s[i]
               /\ StackOK(z)
  <2>1. Lone(s, n, g)
    BY <1>1
  <2> QED BY <1>1, <2>1, StackTop
<1>3. z = stack'[t]
  BY <1>1, <1>2
<1>4. ASSUME NEW i \in 1..n
      PROVE  \E f \in Frames :
               /\ f = z[i] /\ FrameOK(t, f)'
               /\ f.pc = "body" /\ f.cls # NoClass /\ i # Len(z) =>
                      Body(f.cls) # {}
  <2>1. CASE i = n
    BY <1>2, <2>1
  <2>2. CASE i # n
    <3>1. n - 1 \in Nat /\ n - 1 <= Len(stack[t]) /\ i \in 1..(n - 1)
      BY <2>2
    <3>2. z[i] = stack[t][i]
      BY <1>1, <1>2, <2>2
    <3>3. PICK k \in Nat : k = n - 1
      BY <3>1
    <3>4. PICK f \in Frames :
               /\ f = stack[t][i] /\ FrameOK(t, f)'
               /\ f.pc = "body" /\ f.cls # NoClass /\ i # Len(stack[t]) =>
                      Body(f.cls) # {}
      <4>1. LowerKept(t, k) /\ k <= Len(stack[t]) /\ i \in 1..k
        BY <3>1, <3>3 DEF LowerKept
      <4> QED BY <4>1, LowerFrames
    <3> QED BY <3>2, <3>4, <2>2, <1>2
  <2> QED BY <2>1, <2>2
<1>5. program' = program
  BY DEF Forward
<1>6. ThreadOK(t)'
  BY <1>2, <1>3, <1>4, <1>5, NewThread
<1> QED BY <1>1, <1>2, <1>3, <1>6

(* ... after one that calls for the superclass,                            *)
LEMMA PushStep ==
    ASSUME TypeOK, NEW t \in Threads, ThreadOK(t), Forward,
           NEW n \in Nat \ {0}, n = Len(stack[t]), LowerKept(t, n),
           NEW c \in Classes,
           Last(stack[t]).pc = "super" /\ c = Superclass[Last(stack[t]).cls],
           stack'[t] = Append(stack[t], Frame(c, "super", {}))
    PROVE  /\ ThreadOK(t)' /\ stack'[t] \in Seq(Frames)
           /\ Len(stack'[t]) = n + 1
           /\ \A i \in 1..n : stack'[t][i] = stack[t][i]
<1>1. PICK s \in Seq(Frames) : s = stack[t] /\ n = Len(s) /\ StackOK(s)
                               /\ Last(stack[t]) = s[n]
  BY ThreadFacts DEF TopIs
<1>2. PICK g \in Frames :
          g = Frame(c, "super", {}) /\ g.pc = "super" /\ g.cls = c
  BY CallFrame
<1>3. PICK z \in Seq(Frames) :
               /\ z = Append(s, g)
               /\ Len(z) = n + 1 /\ z[n + 1] = g
               /\ \A i \in 1..n : z[i] = s[i]
               /\ StackOK(z)
  <2>1. CallsFor(s, n, g.cls) /\ g.cls \in Classes
    BY <1>1, <1>2 DEF CallsFor
  <2> QED BY <1>1, <1>2, <2>1, StackPush
<1>4. z = stack'[t]
  BY <1>1, <1>2, <1>3
<1>5. ASSUME NEW i \in 1..(n + 1)
      PROVE  \E f \in Frames :
               /\ f = z[i] /\ FrameOK(t, f)'
               /\ f.pc = "body" /\ f.cls # NoClass /\ i # Len(z) =>
                      Body(f.cls) # {}
  <2>1. CASE i = n + 1
    <3>1. FrameOK(t, g)'
      BY <1>2 DEF FrameOK, Initializes
    <3> QED BY <1>2, <1>3, <2>1, <3>1
  <2>2. CASE i # n + 1
    <3>1. i \in 1..n /\ n <= Len(stack[t]) /\ n \in Nat
      BY <2>2
    <3>2. z[i] = stack[t][i]
      BY <1>1, <1>3, <3>1
    <3>3. PICK f \in Frames :
               /\ f = z[i] /\ FrameOK(t, f)'
               /\ f.pc = "body" /\ f.cls # NoClass /\ i # Len(stack[t]) =>
                      Body(f.cls) # {}
      BY <3>1, <3>2, LowerFrames
    <3>4. i = n => f.pc = "super"
      BY <1>1, <3>2, <3>3
    <3> QED BY <3>3, <3>4
  <2> QED BY <2>1, <2>2
<1>6. program' = program
  BY DEF Forward
<1>7. ThreadOK(t)'
  BY <1>3, <1>4, <1>5, <1>6, NewThread
<1> QED BY <1>1, <1>3, <1>4, <1>7

(* ... and after one that drops frames.                                    *)
LEMMA PrefixStep ==
    ASSUME TypeOK, NEW t \in Threads, ThreadOK(t), Forward,
           NEW k \in Nat \ {0}, k <= Len(stack[t]), LowerKept(t, k),
           stack'[t] = SubSeq(stack[t], 1, k)
    PROVE  /\ ThreadOK(t)' /\ stack'[t] \in Seq(Frames)
           /\ Len(stack'[t]) = k
           /\ \A i \in 1..k : stack'[t][i] = stack[t][i]
<1>1. PICK s \in Seq(Frames) : s = stack[t] /\ StackOK(s) /\ k \in 1..Len(s)
  BY ThreadFacts DEF TopIs
<1>2. PICK z \in Seq(Frames) :
               /\ z = SubSeq(s, 1, k)
               /\ Len(z) = k /\ \A i \in 1..k : z[i] = s[i]
               /\ StackOK(z)
  BY <1>1, StackPrefix
<1>3. z = stack'[t]
  BY <1>1, <1>2
<1>4. ASSUME NEW i \in 1..k
      PROVE  \E f \in Frames :
               /\ f = z[i] /\ FrameOK(t, f)'
               /\ f.pc = "body" /\ f.cls # NoClass /\ i # Len(z) =>
                      Body(f.cls) # {}
  <2>1. PICK f \in Frames :
               /\ f = stack[t][i] /\ FrameOK(t, f)'
               /\ f.pc = "body" /\ f.cls # NoClass /\ i # Len(stack[t]) =>
                      Body(f.cls) # {}
    BY LowerFrames
  <2>2. f = z[i]
    BY <1>1, <1>2, <2>1
  <2>3. i # k => i # Len(stack[t])
    BY <1>1
  <2> QED BY <1>2, <2>1, <2>2, <2>3
<1>5. program' = program
  BY DEF Forward
<1>6. ThreadOK(t)'
  BY <1>2, <1>3, <1>4, <1>5, NewThread
<1> QED BY <1>1, <1>2, <1>3, <1>6

-----------------------------------------------------------------------------
(* Returning from calls.                                                   *)

(* A set of natural numbers has a least element ...                        *)
LEMMA LeastNat ==
    ASSUME NEW T \in SUBSET Nat, T # {}
    PROVE  \E x \in T : \A y \in T : x <= y
<1>1. PICK R : R = OpToRel(<, Nat)
  OBVIOUS
<1>2. IsWellFoundedOn(R, Nat)
  BY <1>1, NatLessThanWellFounded
<1>3. PICK x \in T : \A y \in T : ~ (<<y, x>> \in R)
  BY <1>2, WFMin
<1>4. \A y \in Nat, z \in Nat : <<y, z>> \in R <=> y < z
  BY <1>1 DEF OpToRel
<1>5. \A y \in T : ~ (y < x)
  BY <1>3, <1>4
<1> QED BY <1>5

(* ... and a bounded one a greatest.                                       *)
LEMMA GreatestNat ==
    ASSUME NEW n \in Nat, NEW T \in SUBSET (0..n), T # {}
    PROVE  \E x \in T : \A y \in T : y <= x
<1>1. PICK U \in SUBSET Nat : U = {k \in 0..n : n - k \in T}
  <2>1. {k \in 0..n : n - k \in T} \in SUBSET Nat
    OBVIOUS
  <2> QED BY <2>1
<1>2. PICK y \in T : y \in 0..n
  OBVIOUS
<1>3. n - y \in U
  BY <1>1, <1>2
<1>4. PICK k \in U : \A j \in U : k <= j
  BY <1>3, LeastNat
<1>5. k \in 0..n /\ n - k \in T
  BY <1>1, <1>4
<1>6. ASSUME NEW z \in T
      PROVE  z <= n - k
  <2>1. z \in 0..n /\ n - z \in U
    BY <1>1
  <2> QED BY <1>4, <1>5, <2>1
<1> QED BY <1>5, <1>6

(* A number above one has a predecessor.                                   *)
LEMMA OneLess ==
    ASSUME NEW n \in Nat \ {0}, n # 1
    PROVE  n - 1 \in Nat \ {0} /\ n - 1 \in 1..n /\ (n - 1) + 1 = n
  OBVIOUS

(* An exception ends in the innermost code of the program below.           *)
LEMMA UnwindPlace ==
    ASSUME NEW s \in Seq(Frames), StackOK(s), Len(s) # 1
    PROVE  \E k \in 1..(Len(s) - 1) :
               /\ Unwound(s) = SubSeq(s, 1, k)
               /\ s[k].pc = "body"
               /\ \A j \in (k + 1)..(Len(s) - 1) : s[j].pc # "body"
<1>1. PICK n \in Nat \ {0} : n = Len(s) /\ n # 1
  <2>1. s # <<>>
    BY DEF StackOK
  <2>2. Len(s) \in Nat \ {0}
    BY <2>1
  <2> QED BY <2>2
<1>2. PICK m \in Nat \ {0} : m = n - 1
  BY <1>1
<1>3. PICK T \in SUBSET (0..m) : T = {i \in 1..m : s[i].pc = "body"}
  <2>1. {i \in 1..m : s[i].pc = "body"} \in SUBSET (0..m)
    OBVIOUS
  <2> QED BY <2>1
<1>4. 1 \in T
  BY <1>3 DEF StackOK
<1>5. PICK x \in T : \A y \in T : y <= x
  BY <1>4, GreatestNat
<1>6. x \in 1..m /\ s[x].pc = "body" /\ \A j \in (x + 1)..m : s[j].pc # "body"
  <2>1. x \in 1..m /\ s[x].pc = "body"
    BY <1>3
  <2>2. ASSUME NEW j \in (x + 1)..m, s[j].pc = "body"
        PROVE  FALSE
    <3>1. j \in T /\ ~ (j <= x)
      BY <1>3, <2>1, <2>2
    <3> QED BY <1>5, <3>1
  <2> QED BY <2>1, <2>2
<1> DEFINE P(i) == s[i].pc = "body" /\ \A j \in (i + 1)..m : s[j].pc # "body"
           k == CHOOSE i \in 1..m : P(i)
<1>7. k \in 1..m /\ P(k)
  <2> HIDE DEF P
  <2>1. \E i \in 1..m : P(i)
    BY <1>6 DEF P
  <2> QED BY <2>1
<1>8. Len(s) - 1 = m
  BY <1>1, <1>2
<1>9. Unwound(s) = SubSeq(s, 1, k)
  BY <1>8 DEF Unwound
<1> HIDE DEF k
<1> QED BY <1>7, <1>8, <1>9

(* ThreadOK after an exception: only calls for superclasses are dropped    *)
(* between the +initialize that threw and the code it arrives at.          *)
LEMMA UnwindStep ==
    ASSUME TypeOK, NEW t \in Threads, ThreadOK(t), Forward,
           NEW n \in Nat \ {0}, n = Len(stack[t]), n # 1, LowerKept(t, n - 1),
           stack'[t] = Unwound(stack[t])
    PROVE  /\ ThreadOK(t)' /\ stack'[t] \in Seq(Frames)
           /\ \E k \in 1..(n - 1) :
                 /\ Len(stack'[t]) = k
                 /\ \A i \in 1..k : stack'[t][i] = stack[t][i]
                 /\ \A i \in (k + 1)..(n - 1) : stack[t][i].pc = "super"
                 /\ stack[t][k].pc = "body"
<1>1. PICK s \in Seq(Frames) : s = stack[t] /\ n = Len(s) /\ StackOK(s)
                               /\ DOMAIN s = 1..n
  BY ThreadFacts DEF TopIs
<1>2. PICK k \in 1..(n - 1) :
               /\ Unwound(s) = SubSeq(s, 1, k)
               /\ s[k].pc = "body"
               /\ \A j \in (k + 1)..(n - 1) : s[j].pc # "body"
  BY <1>1, UnwindPlace
<1>3. k \in Nat \ {0} /\ k <= n - 1 /\ k <= Len(stack[t])
  BY <1>1
<1>4. LowerKept(t, k) /\ stack'[t] = SubSeq(stack[t], 1, k)
  BY <1>1, <1>2, <1>3 DEF LowerKept
<1>5. /\ ThreadOK(t)' /\ stack'[t] \in Seq(Frames)
      /\ Len(stack'[t]) = k
      /\ \A i \in 1..k : stack'[t][i] = stack[t][i]
  BY <1>3, <1>4, PrefixStep
<1>6. ASSUME NEW i \in (k + 1)..(n - 1)
      PROVE  s[i].pc = "super"
  <2>1. i \in DOMAIN s /\ i # Len(s)
    BY <1>1
  <2> QED BY <1>2, <2>1, <1>1 DEF StackOK
<1> QED BY <1>1, <1>2, <1>5, <1>6

(* ThreadOK after a return from a call for the class c: a call that waited *)
(* for c goes on, with c initialized or on the list.                       *)
LEMMA ReturnStep ==
    ASSUME TypeOK, NEW t \in Threads, ThreadOK(t), Forward,
           NEW n \in Nat \ {0}, n = Len(stack[t]), n # 1, LowerKept(t, n - 1),
           NEW c \in Classes, c = Last(stack[t]).cls,
           state'[c] = "initialized" \/ c \in list'[t],
           stack'[t] = Popped(stack[t])
    PROVE  /\ ThreadOK(t)' /\ stack'[t] \in Seq(Frames)
           /\ Len(stack'[t]) = n - 1
           /\ \A i \in 1..(n - 1) :
                  \/ stack'[t][i] = stack[t][i]
                  \/ stack[t][i].pc = "super" /\ stack'[t][i].pc = "lock"
<1>1. PICK s \in Seq(Frames) :
          /\ s = stack[t] /\ n = Len(s) /\ StackOK(s)
          /\ Last(stack[t]) = s[n] /\ DOMAIN s = 1..n
  BY ThreadFacts DEF TopIs
<1>2. PICK m \in Nat \ {0} : m = n - 1 /\ m \in 1..Len(s) /\ m + 1 = n
  <2>1. n - 1 \in Nat \ {0} /\ n - 1 \in 1..n /\ (n - 1) + 1 = n
    BY OneLess
  <2> QED BY <1>1, <2>1
<1>3. PICK z \in Seq(Frames) :
               /\ z = SubSeq(s, 1, m)
               /\ Len(z) = m /\ \A i \in 1..m : z[i] = s[i]
               /\ StackOK(z)
  BY <1>1, <1>2, StackPrefix
<1>4. z = Front(s) /\ Last(Front(s)) = z[m]
  BY <1>1, <1>2, <1>3 DEF Front, Last
<1>5. CASE z[m].pc # "super"
  <2>1. stack'[t] = SubSeq(stack[t], 1, m)
    BY <1>1, <1>3, <1>4, <1>5 DEF Popped
  <2>2. LowerKept(t, m) /\ m <= Len(stack[t])
    BY <1>1, <1>2 DEF LowerKept
  <2> QED BY <1>2, <2>1, <2>2, PrefixStep
<1>6. CASE z[m].pc = "super"
  <2>1. PICK f \in Frames : f = z[m] /\ f.pc = "super"
    BY <1>2, <1>3, <1>6
  <2>2. PICK g \in Frames : g = [f EXCEPT !.pc = "lock"]
    BY DEF Frames
  <2>3. g.pc = "lock" /\ g.cls = f.cls
    BY <2>2 DEF Frames
  <2>4. Lone(z, m, g)
    BY <2>1, <2>3, <1>3 DEF Lone, Initializes, StackOK
  <2>5. PICK y \in Seq(Frames) :
               /\ y = [z EXCEPT ![m] = g]
               /\ Len(y) = m /\ y[m] = g
               /\ \A i \in 1..m : i # m => y[i] = z[i]
               /\ StackOK(y)
    <3>1. m = Len(z) /\ StackOK(z)
      BY <1>3
    <3> QED BY <2>4, <3>1, StackTop
  <2>6. y = stack'[t]
    <3>1. Len(s) - 1 = m
      BY <1>1, <1>2
    <3>2. stack'[t] = [z EXCEPT ![m].pc = "lock"]
      BY <1>1, <1>4, <1>6, <3>1 DEF Popped
    <3> QED BY <2>1, <2>2, <2>5, <3>2
  <2>7. FrameOK(t, g)'
    <3>1. c = Superclass[g.cls]
      <4>1. m \in DOMAIN s /\ m # Len(s) /\ s[m] = f /\ s[m + 1].cls = c
        BY <1>1, <1>2, <1>3, <2>1
      <4>2. s[m + 1].cls = Superclass[s[m].cls]
        BY <4>1, <1>1, <2>1 DEF StackOK
      <4> QED BY <4>1, <4>2, <2>3
    <3>2. SuperReady(t, g.cls)'
      BY <3>1 DEF SuperReady, SuperIsInitialized
    <3> HIDE DEF SuperReady
    <3> QED BY <2>3, <3>2 DEF FrameOK, Initializes
  <2>8. ASSUME NEW i \in 1..m
        PROVE  \E h \in Frames :
               /\ h = y[i] /\ FrameOK(t, h)'
               /\ h.pc = "body" /\ h.cls # NoClass /\ i # Len(y) =>
                      Body(h.cls) # {}
    <3>1. CASE i = m
      BY <2>5, <2>7, <3>1
    <3>2. CASE i # m
      <4>1. LowerKept(t, m) /\ m <= Len(stack[t])
        BY <1>1, <1>2 DEF LowerKept
      <4>2. PICK h \in Frames :
               /\ h = stack[t][i] /\ FrameOK(t, h)'
               /\ h.pc = "body" /\ h.cls # NoClass /\ i # Len(stack[t]) =>
                      Body(h.cls) # {}
        BY <4>1, LowerFrames
      <4>3. h = y[i] /\ i # Len(stack[t])
        BY <1>1, <1>2, <1>3, <2>5, <3>2, <4>2
      <4> QED BY <4>2, <4>3
    <3> QED BY <3>1, <3>2
  <2>9. program' = program
    BY DEF Forward
  <2>10. ThreadOK(t)'
    BY <2>5, <2>6, <2>8, <2>9, NewThread
  <2>11. \A i \in 1..m : \/ y[i] = s[i]
                         \/ s[i].pc = "super" /\ y[i].pc = "lock"
    BY <1>3, <2>1, <2>3, <2>5
  <2> QED BY <1>1, <1>2, <2>5, <2>6, <2>10, <2>11
<1> QED BY <1>5, <1>6

-----------------------------------------------------------------------------
(* Steps that change stacks only.                                          *)

(* The parts of the invariant.                                             *)
LEMMA IndParts ==
    ASSUME IndInv
    PROVE  /\ TypeOK /\ halted # "fatal" /\ ForkOK /\ ListOK /\ PendingOK
           /\ SubtreeOK /\ \A t \in live : ThreadOK(t)
  BY DEF IndInv

(* A thread whose stack stays, in a step that disturbs no frame.           *)
LEMMA SameThread ==
    ASSUME TypeOK, NEW u \in Threads, ThreadOK(u), Forward,
           LowerKept(u, Len(stack[u])), stack'[u] = stack[u]
    PROVE  ThreadOK(u)'
<1>2. PICK s \in Seq(Frames), n \in Nat \ {0} :
          s = stack[u] /\ n = Len(s) /\ StackOK(s)
  BY ThreadFacts DEF TopIs
<1>3. ASSUME NEW i \in 1..Len(s)
      PROVE  \E f \in Frames :
               /\ f = s[i] /\ FrameOK(u, f)'
               /\ f.pc = "body" /\ f.cls # NoClass /\ i # Len(s) =>
                      Body(f.cls) # {}
  <2>1. LowerKept(u, n) /\ n \in Nat /\ n <= Len(stack[u]) /\ i \in 1..n
    BY <1>2
  <2>2. PICK f \in Frames :
               /\ f = stack[u][i] /\ FrameOK(u, f)'
               /\ f.pc = "body" /\ f.cls # NoClass /\ i # Len(stack[u]) =>
                      Body(f.cls) # {}
    BY <2>1, LowerFrames
  <2> QED BY <1>2, <2>2
<1>4. program' = program
  BY DEF Forward
<1> QED BY <1>2, <1>3, <1>4, NewThread

(* The step changes stacks only.                                           *)
Quiet == UNCHANGED <<program, state, list, pending, live>>

(* Then the classes do not go back ...                                     *)
LEMMA QuietForward ==
    ASSUME Quiet
    PROVE  Forward
  BY DEF Quiet, Forward, MultithreadedForkChild

(* ... and no frame is disturbed.                                          *)
LEMMA QuietKept ==
    ASSUME TypeOK, NEW t \in Threads, ThreadOK(t), Quiet, NEW k,
           1..k \subseteq DOMAIN stack[t]
    PROVE  LowerKept(t, k)
<1> SUFFICES ASSUME NEW i \in 1..k
             PROVE  FrameKept(t, stack[t][i])
  BY DEF LowerKept
<1>1. PICK f \in Frames : f = stack[t][i] /\ FrameOK(t, f)
  BY DEF TypeOK, ThreadOK
<1>2. FrameKept(t, f)
  BY <1>1 DEF FrameOK, FrameKept, Quiet, SuperReady, SuperIsInitialized
<1> QED BY <1>1, <1>2

(* A call of t initializes c.                                              *)
Runs(t, c) == \E i \in DOMAIN stack[t] : Initializes(stack[t][i], c)

(* No pending class under one of the list of t is missing there.           *)
ChildrenListed(t) == \A d \in pending : Superclass[d] \in list[t] => d \in list[t]

(* So it is for a thread that does not take a class over in a child.       *)
LEMMA NoFork ==
    ASSUME IndInv, NEW t \in live, Last(stack[t]).pc # "fork"
    PROVE  ChildrenListed(t)
  BY IndParts DEF PendingOK, ChildrenListed

(* What a quiet step of t must show of t.                                  *)
LEMMA QuietStep ==
    ASSUME IndInv, NEW t \in live, Quiet, halted' \in {"no", "forked"},
           stack' \in [Threads -> Seq(Frames)],
           \A u \in Threads \ {t} : stack'[u] = stack[u],
           ThreadOK(t)', \A c \in Classes : Runs(t, c) => Runs(t, c)',
           ChildrenListed(t)
    PROVE  IndInv'
<1>1. TypeOK /\ ForkOK /\ ListOK /\ PendingOK /\ SubtreeOK
      /\ \A u \in live : ThreadOK(u)
  BY IndParts
<1>2. live \subseteq Threads /\ live' = live /\ program' = program
      /\ state' = state /\ list' = list /\ pending' = pending
  BY <1>1 DEF TypeOK, Quiet
<1>3. TypeOK'
  BY <1>1, <1>2 DEF TypeOK
<1>4. \A u \in live' : ThreadOK(u)'
  <2>1. ASSUME NEW u \in live, u # t
        PROVE  ThreadOK(u)'
    <3>1. u \in Threads /\ ThreadOK(u) /\ stack'[u] = stack[u]
      BY <1>1, <1>2, <2>1
    <3>2. 1..Len(stack[u]) \subseteq DOMAIN stack[u]
      BY <1>1, <3>1 DEF TypeOK
    <3>3. LowerKept(u, Len(stack[u]))
      BY <1>1, <3>1, <3>2, QuietKept
    <3> QED BY <1>1, <3>1, <3>3, QuietForward, SameThread
  <2> QED BY <1>2, <2>1
<1>5. ForkOK'
  BY <1>1, <1>2 DEF ForkOK, MultithreadedForkChild
<1>6. ListOK'
  <2>1. ASSUME NEW u \in Threads, NEW c \in list[u]
        PROVE  c \in pending \/ Runs(u, c)'
    <3>1. c \in pending \/ Runs(u, c)
      BY <1>1, <2>1 DEF ListOK, Runs
    <3>2. c \in Classes
      BY <1>1, <2>1 DEF TypeOK
    <3>3. CASE u = t
      BY <3>1, <3>2, <3>3
    <3>4. CASE u # t
      <4>1. stack'[u] = stack[u]
        BY <3>4
      <4>2. Runs(u, c)' <=> Runs(u, c)
        BY <4>1 DEF Runs
      <4> QED BY <3>1, <4>2
    <3> QED BY <3>3, <3>4
  <2> QED BY <1>1, <1>2, <2>1 DEF ListOK, Runs
<1>7. PendingOK'
  <2> SUFFICES ASSUME NEW d \in pending
               PROVE  /\ state[d] = "initializing"
                      /\ Superclass[d] # NoClass
                      /\ state[Superclass[d]] = "initializing"
                      /\ Superclass[d] \notin pending => Body(Superclass[d])' # {}
                      /\ \A u \in live : Superclass[d] \in list[u] =>
                            \/ d \in list[u]
                            \/ /\ Last(stack[u])'.pc = "fork"
                               /\ Last(stack[u])'.cls = Superclass[d]
    BY <1>2 DEF PendingOK
  <2>1. Body(Superclass[d])' = Body(Superclass[d])
    BY <1>2 DEF Body
  <2>2. ASSUME NEW u \in live, Superclass[d] \in list[u], u # t
        PROVE  \/ d \in list[u]
               \/ /\ Last(stack[u])'.pc = "fork"
                  /\ Last(stack[u])'.cls = Superclass[d]
    <3>1. Last(stack[u])' = Last(stack[u])
      BY <1>2, <2>2 DEF Last
    <3> QED BY <1>1, <2>2, <3>1 DEF PendingOK
  <2>3. Superclass[d] \in list[t] => d \in list[t]
    BY DEF ChildrenListed
  <2> QED BY <1>1, <2>1, <2>2, <2>3 DEF PendingOK
<1>8. SubtreeOK'
  BY <1>1, <1>2 DEF SubtreeOK
<1> QED BY <1>3, <1>4, <1>5, <1>6, <1>7, <1>8 DEF IndInv

(* What is known where a thread takes a step from pc p.                    *)
LEMMA AtFacts ==
    ASSUME IndInv, NEW t \in Threads, NEW p, At(t, p)
    PROVE  /\ t \in live /\ TypeOK /\ ThreadOK(t) /\ halted = "no"
           /\ \E s \in Seq(Frames), n \in Nat \ {0}, f \in Frames :
                 /\ TopIs(t, s, n, f)
                 /\ f.pc = p /\ f.cls = Cls(t)
                 /\ p # "body" => f.cls \in Classes
<1>1. t \in live /\ TypeOK /\ ThreadOK(t) /\ halted = "no"
  BY IndParts DEF At
<1>2. PICK s \in Seq(Frames), n \in Nat \ {0}, f \in Frames :
               TopIs(t, s, n, f)
  BY <1>1, ThreadFacts
<1>3. f.pc = p /\ f.cls = Cls(t)
  BY <1>2 DEF At, Cls, TopIs
<1>4. p # "body" => f.cls \in Classes
  <2>1. f.cls \in Classes \cup {NoClass}
    BY DEF Frames
  <2>2. f.cls = NoClass => f.pc = "body"
    BY <1>2 DEF StackOK, TopIs
  <2> QED BY <1>3, <2>1, <2>2
<1> QED BY <1>1, <1>2, <1>3, <1>4

(* The places in a call.                                                   *)
Pcs == {"super", "lock", "initializing", "initialized", "wait", "waiting",
        "fork", "body", "finish", "throw"}

(* The frame after Goto.                                                   *)
LEMMA GotoFrame ==
    ASSUME NEW f \in Frames, NEW pc \in Pcs
    PROVE  \E g \in Frames :
               /\ g = [f EXCEPT !.pc = pc]
               /\ g.pc = pc /\ g.cls = f.cls /\ g.todo = f.todo
<1>1. [f EXCEPT !.pc = pc] \in Frames
  BY DEF Frames, Pcs
<1>2. PICK g \in Frames : g = [f EXCEPT !.pc = pc]
  BY <1>1
<1>3. g.pc = pc /\ g.cls = f.cls /\ g.todo = f.todo
  BY <1>2 DEF Frames
<1> QED BY <1>2, <1>3

(* The stacks after a step of t.                                           *)
LEMMA NewStacks ==
    ASSUME TypeOK, NEW t \in Threads, NEW z \in Seq(Frames),
           stack' = [stack EXCEPT ![t] = z]
    PROVE  /\ stack' \in [Threads -> Seq(Frames)] /\ stack'[t] = z
           /\ \A u \in Threads \ {t} : stack'[u] = stack[u]
  BY DEF TypeOK

(* No other frame of t initializes the class of the innermost one, if that *)
(* does or the class is not on the list of t.                              *)
LEMMA OthersRunNot ==
    ASSUME NEW t \in Threads, NEW s, NEW n \in Nat \ {0}, NEW f,
           TopIs(t, s, n, f), f.cls # NoClass,
           Initializes(f, f.cls) \/ f.cls \notin list[t],
           NEW i \in 1..n, i # n
    PROVE  ~ Initializes(s[i], f.cls)
<1> SUFFICES ASSUME Initializes(s[i], f.cls)
             PROVE  FALSE
  OBVIOUS
<1>1. n \in 1..n /\ s[n] = f /\ DOMAIN s = 1..n
  BY DEF TopIs
<1>2. CASE Initializes(f, f.cls)
  BY <1>1, <1>2 DEF TopIs, StackOK
<1>3. CASE f.cls \notin list[t]
  BY <1>3 DEF TopIs, FrameOK, Initializes
<1> QED BY <1>2, <1>3

(* The class of the frame f stays, and begins to be initialized by g only  *)
(* if it was not on the list of t.                                         *)
MayBecome(t, f, g) ==
    /\ g.cls = f.cls
    /\ \/ Initializes(f, f.cls) \/ f.cls \notin list[t]
       \/ ~ Initializes(g, g.cls)

(* What a step that changes the innermost frame of t to g must show.       *)
LEMMA ReplaceStep ==
    ASSUME TypeOK, NEW t \in Threads, ThreadOK(t), Forward,
           NEW s \in Seq(Frames), NEW n \in Nat \ {0}, NEW f \in Frames,
           TopIs(t, s, n, f), f.cls # NoClass, LowerKept(t, n - 1),
           NEW g \in Frames, MayBecome(t, f, g), FrameOK(t, g)',
           stack' = [stack EXCEPT ![t] = [s EXCEPT ![n] = g]]
    PROVE  /\ ThreadOK(t)' /\ stack' \in [Threads -> Seq(Frames)]
           /\ \A u \in Threads \ {t} : stack'[u] = stack[u]
           /\ Len(stack'[t]) = n /\ stack'[t][n] = g /\ Last(stack[t])' = g
           /\ DOMAIN stack'[t] = 1..n
           /\ \A i \in 1..n : i # n => stack'[t][i] = stack[t][i]
<1>1. s = stack[t] /\ n = Len(s) /\ f = s[n] /\ n \in 1..Len(s) /\ n # 1
  BY DEF TopIs
<1>2. PICK z \in Seq(Frames) : z = [s EXCEPT ![n] = g]
  BY <1>1, Replaced
<1>3. /\ stack' \in [Threads -> Seq(Frames)] /\ stack'[t] = z
      /\ \A u \in Threads \ {t} : stack'[u] = stack[u]
  BY <1>2, NewStacks
<1>4. Lone(stack[t], n, g)
  BY <1>1, OthersRunNot DEF Lone, MayBecome
<1>5. stack'[t] = [stack[t] EXCEPT ![n] = g] /\ n = Len(stack[t])
  BY <1>1, <1>2, <1>3
<1>6. /\ ThreadOK(t)'
      /\ Len(stack'[t]) = n /\ stack'[t][n] = g
      /\ \A i \in 1..n : i # n => stack'[t][i] = stack[t][i]
  BY <1>4, <1>5, TopStep, ZenonT(60)
<1>7. Last(stack[t])' = g /\ DOMAIN stack'[t] = 1..n
  BY <1>3, <1>6 DEF Last
<1> QED BY <1>3, <1>6, <1>7

(* A quiet step that changes the innermost frame only.                     *)
LEMMA QuietReplace ==
    ASSUME IndInv, NEW t \in live, NEW s \in Seq(Frames), NEW n \in Nat \ {0},
           NEW f \in Frames, TopIs(t, s, n, f), f.cls # NoClass,
           NEW g \in Frames, g.cls = f.cls, Quiet, halted' \in {"no", "forked"},
           stack' = [stack EXCEPT ![t] = [s EXCEPT ![n] = g]],
           FrameOK(t, g), ChildrenListed(t),
           Initializes(f, f.cls) <=> Initializes(g, g.cls)
    PROVE  IndInv'
<1>1. t \in Threads /\ TypeOK /\ ThreadOK(t)
  BY IndParts DEF TypeOK
<1>2. FrameOK(t, g)'
  BY DEF Quiet, FrameOK, SuperReady, SuperIsInitialized, Initializes, Body,
         MultithreadedForkChild
<1>3. Forward /\ LowerKept(t, n - 1)
  <2>1. 1..(n - 1) \subseteq DOMAIN stack[t]
    BY DEF TopIs
  <2> QED BY <1>1, <2>1, QuietForward, QuietKept
<1>4. /\ ThreadOK(t)' /\ stack' \in [Threads -> Seq(Frames)]
      /\ \A u \in Threads \ {t} : stack'[u] = stack[u]
      /\ Len(stack'[t]) = n /\ stack'[t][n] = g
      /\ DOMAIN stack'[t] = 1..n
      /\ \A i \in 1..n : i # n => stack'[t][i] = stack[t][i]
  <2>1. MayBecome(t, f, g)
    BY DEF MayBecome
  <2>2. /\ ThreadOK(t)' /\ stack' \in [Threads -> Seq(Frames)]
        /\ \A u \in Threads \ {t} : stack'[u] = stack[u]
        /\ Len(stack'[t]) = n /\ stack'[t][n] = g /\ Last(stack[t])' = g
        /\ DOMAIN stack'[t] = 1..n
        /\ \A i \in 1..n : i # n => stack'[t][i] = stack[t][i]
    BY <1>1, <1>2, <1>3, <2>1, ReplaceStep, ZenonT(60)
  <2> QED BY <2>2
<1>5. ASSUME NEW c \in Classes, Runs(t, c)
      PROVE  Runs(t, c)'
  <2>1. PICK i \in 1..n : Initializes(stack[t][i], c)
    BY <1>5 DEF Runs, TopIs
  <2>2. CASE i = n
    <3>1. Initializes(f, c) /\ f.cls = c
      BY <2>1, <2>2 DEF TopIs, Initializes
    <3>2. Initializes(stack'[t][n], c)
      BY <1>4, <3>1
    <3> QED BY <1>4, <3>2 DEF Runs
  <2>3. CASE i # n
    <3>1. Initializes(stack'[t][i], c)
      BY <1>4, <2>1, <2>3
    <3> QED BY <1>4, <3>1 DEF Runs
  <2> QED BY <2>2, <2>3
<1> QED BY <1>4, <1>5, QuietStep

(* A quiet step that goes to pc.                                           *)
LEMMA QuietGoto ==
    ASSUME IndInv, NEW t \in Threads, NEW p, At(t, p), NEW pc \in Pcs,
           Cls(t) # NoClass, Goto(t, pc), Quiet, halted' \in {"no", "forked"},
           ChildrenListed(t), pc \notin {"body", "fork", "super"},
           p = "super" => SuperReady(t, Cls(t)),
           pc = "initializing" => state[Cls(t)] # "no",
           pc = "initialized" => state[Cls(t)] = "initialized",
           p \in {"body", "fork", "finish", "throw"} <=> pc \in {"finish", "throw"}
    PROVE  IndInv'
<1>1. /\ t \in live
      /\ \E s \in Seq(Frames), n \in Nat \ {0}, f \in Frames :
           TopIs(t, s, n, f) /\ f.pc = p /\ f.cls = Cls(t)
  BY AtFacts
<1>2. PICK s \in Seq(Frames), n \in Nat \ {0}, f \in Frames :
           TopIs(t, s, n, f) /\ f.pc = p /\ f.cls = Cls(t)
  BY <1>1
<1>3. PICK g \in Frames :
               /\ g = [f EXCEPT !.pc = pc]
               /\ g.pc = pc /\ g.cls = f.cls /\ g.todo = f.todo
  BY GotoFrame
<1>4. stack' = [stack EXCEPT ![t] = [s EXCEPT ![n] = g]]
  <2>1. stack' = [stack EXCEPT ![t] = [stack[t] EXCEPT ![Len(stack[t])] =
                     [stack[t][Len(stack[t])] EXCEPT !.pc = pc]]]
    BY DEF Goto
  <2>2. stack[t] = s /\ Len(stack[t]) = n /\ stack[t][Len(stack[t])] = f
    BY <1>2 DEF TopIs
  <2> QED BY <1>3, <2>1, <2>2
<1>5. FrameOK(t, g)
  <2>1. FrameOK(t, f)
    <3>1. n \in 1..n
      OBVIOUS
    <3> QED BY <1>2, <3>1 DEF TopIs
  <2>2. SuperReady(t, g.cls)
    BY <1>2, <1>3, <2>1 DEF FrameOK
  <2> QED BY <1>2, <1>3, <2>1, <2>2 DEF FrameOK, Initializes
<1>6. Initializes(f, f.cls) <=> Initializes(g, g.cls)
  BY <1>2, <1>3 DEF Initializes
<1> HIDE DEF Initializes
<1> QED BY <1>1, <1>2, <1>3, <1>4, <1>5, <1>6, QuietReplace

(* A quiet step that returns from a call for a class that is initialized   *)
(* or on the list of t.                                                    *)
LEMMA QuietReturn ==
    ASSUME IndInv, NEW t \in Threads, NEW p, At(t, p),
           p \in {"initializing", "initialized", "wait"},
           state[Cls(t)] = "initialized" \/ Cls(t) \in list[t],
           Return(t), Quiet, halted' = halted
    PROVE  IndInv'
<1>1. t \in live /\ TypeOK /\ ThreadOK(t) /\ halted = "no"
  BY AtFacts
<1>2. PICK s \in Seq(Frames), n \in Nat \ {0}, f \in Frames :
           TopIs(t, s, n, f) /\ f.pc = p /\ f.cls = Cls(t) /\ f.cls \in Classes
  BY AtFacts
<1>3. n = Len(stack[t]) /\ n # 1 /\ f = Last(stack[t])
  BY <1>2, Hierarchy DEF TopIs
<1>4. Forward /\ LowerKept(t, n - 1)
  <2>1. 1..(n - 1) \subseteq DOMAIN stack[t]
    BY <1>2 DEF TopIs
  <2> QED BY <1>1, <2>1, QuietForward, QuietKept
<1>5. PICK c \in Classes :
          c = Last(stack[t]).cls /\ (state'[c] = "initialized" \/ c \in list'[t])
  BY <1>2, <1>3 DEF Quiet
<1>6. stack'[t] = Popped(stack[t]) /\ \A u \in Threads \ {t} : stack'[u] = stack[u]
  BY <1>1 DEF Return, TypeOK
<1>7. /\ ThreadOK(t)' /\ stack'[t] \in Seq(Frames)
      /\ Len(stack'[t]) = n - 1
      /\ \A i \in 1..(n - 1) :
             \/ stack'[t][i] = stack[t][i]
             \/ stack[t][i].pc = "super" /\ stack'[t][i].pc = "lock"
  BY <1>1, <1>3, <1>4, <1>5, <1>6, ReturnStep, ZenonT(60)
<1>8. stack' \in [Threads -> Seq(Frames)]
  BY <1>1, <1>6, <1>7 DEF TypeOK, Return
<1>9. ASSUME NEW d \in Classes, Runs(t, d)
      PROVE  Runs(t, d)'
  <2>1. PICK i \in 1..n : Initializes(stack[t][i], d)
    BY <1>2, <1>9 DEF Runs, TopIs
  <2>2. i # n
    BY <2>1, <1>2 DEF TopIs, Initializes
  <2>3. i \in 1..(n - 1) /\ DOMAIN stack'[t] = 1..(n - 1)
    BY <1>7, <2>2
  <2>4. Initializes(stack'[t][i], d)
    BY <1>7, <2>1, <2>3 DEF Initializes
  <2> QED BY <2>3, <2>4 DEF Runs
<1>10. ChildrenListed(t) /\ halted' \in {"no", "forked"}
  BY <1>1, <1>2, NoFork DEF TopIs
<1> QED BY <1>1, <1>6, <1>7, <1>8, <1>9, <1>10, QuietStep

(* ChildrenListed where a step begins.                                     *)
LEMMA Listed ==
    ASSUME IndInv, NEW t \in Threads, NEW p, At(t, p), p # "fork"
    PROVE  ChildrenListed(t)
<1>1. t \in live /\ Last(stack[t]).pc # "fork"
  BY AtFacts DEF TopIs
<1> QED BY <1>1, NoFork

(* A call of _class_initialize has a class.                                *)
LEMMA CallClass ==
    ASSUME IndInv, NEW t \in Threads, NEW p, At(t, p), p # "body"
    PROVE  Cls(t) \in Classes /\ Cls(t) # NoClass
  BY AtFacts, Hierarchy

-----------------------------------------------------------------------------
(* The actions that change stacks only.                                    *)

(* Each action keeps the invariant; first those that change stacks only.   *)
LEMMA ReturnsInd ==
    ASSUME IndInv, NEW t \in Threads, InitializeReturns(t)
    PROVE  IndInv'
  BY QuietGoto, Listed, AtFacts DEF InitializeReturns, Quiet, Pcs

(* An exception leaves +initialize.                                        *)
LEMMA ThrowsInd ==
    ASSUME IndInv, NEW t \in Threads, InitializeThrows(t)
    PROVE  IndInv'
  BY QuietGoto, Listed, AtFacts DEF InitializeThrows, Quiet, Pcs

(* RW_INITIALIZING is set already.                                         *)
LEMMA AlreadyInd ==
    ASSUME IndInv, NEW t \in Threads, SetAlready(t)
    PROVE  IndInv'
  BY QuietGoto, Listed, AtFacts, CallClass DEF SetAlready, Quiet, Pcs

(* waitForInitializeToComplete.                                            *)
LEMMA WaitInd ==
    ASSUME IndInv, NEW t \in Threads, waitForInitializeToComplete(t)
    PROVE  IndInv'
<1>1. At(t, "wait") /\ Quiet /\ halted' = halted /\ halted' \in {"no", "forked"}
  BY AtFacts DEF waitForInitializeToComplete, Quiet
<1>2. CASE state[Cls(t)] = "initialized"
  BY <1>1, <1>2, QuietReturn DEF waitForInitializeToComplete
<1>3. CASE state[Cls(t)] # "initialized"
  BY <1>1, <1>3, QuietGoto, Listed, CallClass
  DEF waitForInitializeToComplete, Pcs
<1> QED BY <1>2, <1>3

(* isInitialized(): the fatal branch needs a class that is neither, which  *)
(* FrameOK excludes.                                                       *)
LEMMA IsInitializedInd ==
    ASSUME IndInv, NEW t \in Threads, IsInitialized(t)
    PROVE  IndInv'
<1>1. At(t, "initialized")
  BY DEF IsInitialized
<1>2. PICK s \in Seq(Frames), n \in Nat \ {0}, f \in Frames :
           /\ TopIs(t, s, n, f) /\ f.pc = "initialized" /\ f.cls = Cls(t)
           /\ f.cls \in Classes
  BY <1>1, AtFacts
<1>3. FrameOK(t, f)
  <2>1. n \in 1..n
    OBVIOUS
  <2> QED BY <1>2, <2>1 DEF TopIs
<1>4. state[Cls(t)] = "initialized"
  BY <1>2, <1>3, Hierarchy DEF FrameOK
<1> QED BY <1>1, <1>4, QuietReturn DEF IsInitialized, Quiet

(* FrameOK of the innermost frame.                                         *)
LEMMA TopOK ==
    ASSUME NEW t, NEW s, NEW n \in Nat \ {0}, NEW f, TopIs(t, s, n, f)
    PROVE  FrameOK(t, f)
<1>1. n \in 1..n
  OBVIOUS
<1> QED BY <1>1 DEF TopIs

(* The child finishes a class with a trivial +initialize: no class is      *)
(* pending under it, for one that is has sent a message.                   *)
LEMMA PerformForkInd ==
    ASSUME IndInv, NEW t \in Threads, performForkChildInitialize(t)
    PROVE  IndInv'
<1>1. At(t, "fork") /\ Quiet /\ Cls(t) \in Classes /\ Cls(t) # NoClass
  BY CallClass DEF performForkChildInitialize, Quiet
<1>2. PICK s \in Seq(Frames), n \in Nat \ {0}, f \in Frames :
           TopIs(t, s, n, f) /\ f.pc = "fork" /\ f.cls = Cls(t)
  BY <1>1, AtFacts
<1>3. t \in live /\ TypeOK /\ halted = "no" /\ PendingOK
  BY <1>1, AtFacts, IndParts
<1>4. Cls(t) \notin pending
  <2>1. FrameOK(t, f)
    BY <1>2, TopOK
  <2> QED BY <1>1, <1>2, <2>1 DEF FrameOK
<1>5. CASE classHasTrivialInitialize(Cls(t))
  <2>1. Body(Cls(t)) = {}
    BY <1>1, <1>3, <1>5, TrivialBody DEF TypeOK
  <2>2. ASSUME NEW d \in pending, Superclass[d] \in list[t], d \notin list[t]
        PROVE  FALSE
    <3>1. Last(stack[t]).cls = Superclass[d]
      BY <1>3, <2>2 DEF PendingOK
    <3>2. Superclass[d] = Cls(t)
      BY <3>1 DEF Cls
    <3> QED BY <1>3, <1>4, <2>1, <3>2 DEF PendingOK
  <2>3. ChildrenListed(t)
    BY <2>2 DEF ChildrenListed
  <2>4. Goto(t, "finish") /\ halted' \in {"no", "forked"}
    BY <1>3, <1>5 DEF performForkChildInitialize
  <2> QED BY <1>1, <2>3, <2>4, QuietGoto DEF Pcs
<1>6. CASE ~ classHasTrivialInitialize(Cls(t))
  <2>1. UNCHANGED <<program, state, list, pending, stack, live>>
        /\ halted' = "forked"
    BY <1>6 DEF performForkChildInitialize
  <2>2. ASSUME NEW u \in live
        PROVE  ThreadOK(u)'
    <3>1. ThreadOK(u)
      BY IndParts
    <3> QED BY <2>1, <3>1 DEF ThreadOK, FrameOK, SuperReady, SuperIsInitialized,
                    MultithreadedForkChild, Body
  <2>3. TypeOK' /\ ForkOK' /\ ListOK' /\ SubtreeOK'
    BY <2>1, IndParts DEF TypeOK, ForkOK, ListOK, SubtreeOK,
                          MultithreadedForkChild
  <2>4. PendingOK'
    BY <2>1, <1>3 DEF PendingOK, Body
  <2> QED BY <2>1, <2>2, <2>3, <2>4 DEF IndInv
<1> QED BY <1>5, <1>6

(* A message.                                                              *)
LEMMA SendInd ==
    ASSUME IndInv, NEW t \in Threads, Send(t)
    PROVE  IndInv'
<1>1. At(t, "body") /\ Quiet /\ halted' = halted
  BY DEF Send, Quiet
<1>2. t \in live /\ TypeOK /\ ThreadOK(t) /\ halted = "no"
  BY <1>1, AtFacts
<1>3. PICK s \in Seq(Frames), n \in Nat \ {0}, f \in Frames :
           TopIs(t, s, n, f) /\ f.pc = "body" /\ f.cls = Cls(t)
  BY <1>1, AtFacts
<1>4. /\ s = stack[t] /\ n = Len(s) /\ f = s[n] /\ f = Last(stack[t])
      /\ DOMAIN s = 1..n /\ StackOK(s) /\ FrameOK(t, f)
  BY <1>3, TopOK DEF TopIs
<1>5. PICK c \in f.todo :
           LET sent == [stack[t] EXCEPT ![Len(stack[t])].todo = @ \ {c}]
           IN  stack' = [stack EXCEPT
                   ![t] = IF state[c] = "initialized" THEN sent
                          ELSE Append(sent, Frame(c, "super", {}))]
  BY <1>4 DEF Send
<1>6. c \in Classes
  BY DEF Frames
<1>7. PICK g \in Frames :
          /\ g = [f EXCEPT !.todo = @ \ {c}]
          /\ g.pc = "body" /\ g.cls = f.cls /\ g.todo = f.todo \ {c}
  <2>1. [f EXCEPT !.todo = @ \ {c}] \in Frames
    BY DEF Frames
  <2>2. PICK g \in Frames : g = [f EXCEPT !.todo = @ \ {c}]
    BY <2>1
  <2>3. g.pc = "body" /\ g.cls = f.cls /\ g.todo = f.todo \ {c}
    BY <1>3, <2>2 DEF Frames
  <2> QED BY <2>2, <2>3
<1>8. Lone(s, n, g)
  <2>1. ASSUME NEW i \in 1..n, i # n
        PROVE  ~ Initializes(s[i], g.cls)
    <3>1. Initializes(f, f.cls) /\ n \in 1..n
      BY <1>3 DEF Initializes
    <3>2. ~ (Initializes(s[n], s[n].cls) /\ Initializes(s[i], s[n].cls))
      BY <1>4, <2>1, <3>1 DEF StackOK
    <3> QED BY <1>4, <1>7, <3>1, <3>2
  <2> QED BY <1>3, <1>4, <1>7, <2>1 DEF Lone
<1>9. PICK z \in Seq(Frames) :
               /\ z = [s EXCEPT ![n] = g]
               /\ Len(z) = n /\ z[n] = g
               /\ \A i \in 1..n : i # n => z[i] = s[i]
               /\ StackOK(z)
  <2>1. n = Len(s) /\ StackOK(s)
    BY <1>4
  <2> QED BY <1>8, <2>1, StackTop
<1>10. /\ state[c] = "initialized" => stack' = [stack EXCEPT ![t] = z]
       /\ state[c] # "initialized" =>
              stack' = [stack EXCEPT ![t] = Append(z, Frame(c, "super", {}))]
  <2>1. [stack[t] EXCEPT ![Len(stack[t])].todo = @ \ {c}] = z
    BY <1>4, <1>7, <1>9
  <2> QED BY <1>5, <2>1
<1>11. FrameOK(t, g)'
  BY <1>1, <1>3, <1>4, <1>7 DEF Quiet, FrameOK, SuperReady, SuperIsInitialized,
     Initializes, Body, MultithreadedForkChild
<1>12. f.cls # NoClass => Body(f.cls) # {}
  BY <1>3, <1>4 DEF FrameOK
<1>13. Forward /\ LowerKept(t, n) /\ n <= Len(stack[t]) /\ n \in Nat
  <2>1. 1..n \subseteq DOMAIN stack[t]
    BY <1>4
  <2> QED BY <1>1, <1>2, <1>4, <2>1, QuietForward, QuietKept
<1>14. ASSUME NEW i \in 1..n
       PROVE  \E h \in Frames :
                 /\ h = z[i] /\ FrameOK(t, h)'
                 /\ h.pc = "body" /\ h.cls # NoClass => i = n \/ Body(h.cls) # {}
                 /\ i = n => h = g
  <2>1. CASE i = n
    BY <1>9, <1>11, <2>1
  <2>2. CASE i # n
    <3>1. PICK h \in Frames :
               /\ h = stack[t][i] /\ FrameOK(t, h)'
               /\ h.pc = "body" /\ h.cls # NoClass /\ i # Len(stack[t]) =>
                      Body(h.cls) # {}
      BY <1>2, <1>13, LowerFrames
    <3> QED BY <1>4, <1>9, <2>2, <3>1
  <2> QED BY <2>1, <2>2
<1>15. program' = program
  BY <1>1 DEF Quiet
<1>16. /\ ThreadOK(t)' /\ stack' \in [Threads -> Seq(Frames)]
       /\ \A u \in Threads \ {t} : stack'[u] = stack[u]
       /\ 1..n \subseteq DOMAIN stack'[t]
       /\ \A i \in 1..n : stack'[t][i] = z[i]
  <2>1. CASE state[c] = "initialized"
    <3>1. /\ stack' \in [Threads -> Seq(Frames)] /\ stack'[t] = z
          /\ \A u \in Threads \ {t} : stack'[u] = stack[u]
      BY <1>2, <1>10, <2>1, NewStacks
    <3>2. \A i \in 1..Len(z) : \E h \in Frames :
               /\ h = z[i] /\ FrameOK(t, h)'
               /\ h.pc = "body" /\ h.cls # NoClass /\ i # Len(z) =>
                      Body(h.cls) # {}
      BY <1>9, <1>14
    <3>3. ThreadOK(t)'
      BY <1>9, <1>15, <3>1, <3>2, NewThread
    <3> QED BY <1>9, <3>1, <3>3
  <2>2. CASE state[c] # "initialized"
    <3>1. PICK h \in Frames :
               h = Frame(c, "super", {}) /\ h.pc = "super" /\ h.cls = c
      BY <1>6, CallFrame
    <3>2. CallsFor(z, n, h.cls) /\ n = Len(z) /\ h.cls \in Classes
      BY <1>6, <1>7, <1>9, <3>1 DEF CallsFor
    <3>3. PICK y \in Seq(Frames) :
               /\ y = Append(z, h)
               /\ Len(y) = n + 1 /\ y[n + 1] = h
               /\ \A i \in 1..n : y[i] = z[i]
               /\ StackOK(y)
      <4>1. StackOK(z) /\ h.pc = "super"
        BY <1>9, <3>1
      <4> QED BY <3>2, <4>1, StackPush
    <3>4. /\ stack' \in [Threads -> Seq(Frames)] /\ stack'[t] = y
          /\ \A u \in Threads \ {t} : stack'[u] = stack[u]
      BY <1>2, <1>10, <2>2, <3>1, <3>3, NewStacks
    <3>5. FrameOK(t, h)'
      BY <3>1 DEF FrameOK, Initializes
    <3>6. ASSUME NEW i \in 1..(n + 1)
          PROVE  \E e \in Frames :
               /\ e = y[i] /\ FrameOK(t, e)'
               /\ e.pc = "body" /\ e.cls # NoClass /\ i # Len(y) =>
                      Body(e.cls) # {}
      <4>1. CASE i = n + 1
        BY <3>1, <3>3, <3>5, <4>1
      <4>2. CASE i # n + 1
        <5>1. i \in 1..n /\ y[i] = z[i]
          BY <3>3, <4>2
        <5>2. PICK e \in Frames :
                 /\ e = z[i] /\ FrameOK(t, e)'
                 /\ e.pc = "body" /\ e.cls # NoClass =>
                        i = n \/ Body(e.cls) # {}
                 /\ i = n => e = g
          BY <1>14, <5>1
        <5> QED BY <1>7, <1>12, <5>1, <5>2
      <4> QED BY <4>1, <4>2
    <3>7. \A i \in 1..Len(y) : \E e \in Frames :
               /\ e = y[i] /\ FrameOK(t, e)'
               /\ e.pc = "body" /\ e.cls # NoClass /\ i # Len(y) =>
                      Body(e.cls) # {}
      BY <3>3, <3>6
    <3>8. ThreadOK(t)'
      BY <1>15, <3>3, <3>4, <3>7, NewThread
    <3> QED BY <3>3, <3>4, <3>8
  <2> QED BY <2>1, <2>2
<1>17. ASSUME NEW d \in Classes, Runs(t, d)
       PROVE  Runs(t, d)'
  <2>1. PICK i \in 1..n : Initializes(s[i], d)
    BY <1>4, <1>17 DEF Runs
  <2>2. Initializes(z[i], d)
    BY <1>3, <1>4, <1>7, <1>9, <2>1 DEF Initializes
  <2> QED BY <1>16, <2>2 DEF Runs
<1>18. ChildrenListed(t) /\ halted' \in {"no", "forked"}
  BY <1>1, <1>2, Listed
<1> QED BY <1>1, <1>2, <1>16, <1>17, <1>18, QuietStep

(* The superclass first.                                                   *)
LEMMA InitializeSuperInd ==
    ASSUME IndInv, NEW t \in Threads, InitializeSuper(t)
    PROVE  IndInv'
<1>1. At(t, "super") /\ Quiet /\ halted' = halted
      /\ Cls(t) \in Classes /\ Cls(t) # NoClass
  BY CallClass DEF InitializeSuper, Quiet
<1>2. t \in live /\ TypeOK /\ ThreadOK(t) /\ halted = "no"
  BY <1>1, AtFacts
<1>3. ChildrenListed(t) /\ halted' \in {"no", "forked"}
  BY <1>1, <1>2, Listed
<1>4. CASE SuperIsInitialized(Cls(t))
  <2>1. Goto(t, "lock") /\ SuperReady(t, Cls(t))
    BY <1>4 DEF InitializeSuper, SuperIsInitialized, SuperReady
  <2> QED BY <1>1, <1>3, <2>1, QuietGoto DEF Pcs
<1>5. CASE ~ SuperIsInitialized(Cls(t))
  <2>1. PICK c \in Classes : c = Superclass[Cls(t)] /\ Call(t, c)
    BY <1>1, <1>5, Hierarchy DEF InitializeSuper, SuperIsInitialized
  <2>2. PICK s \in Seq(Frames), n \in Nat \ {0}, f \in Frames :
             TopIs(t, s, n, f) /\ f.pc = "super" /\ f.cls = Cls(t)
    BY <1>1, AtFacts
  <2>3. n = Len(stack[t]) /\ f = Last(stack[t]) /\ 1..n = DOMAIN stack[t]
    BY <2>2 DEF TopIs
  <2>4. Forward /\ LowerKept(t, n)
    BY <1>1, <1>2, <2>3, QuietForward, QuietKept
  <2>5. /\ Last(stack[t]).pc = "super" /\ c = Superclass[Last(stack[t]).cls]
        /\ stack'[t] = Append(stack[t], Frame(c, "super", {}))
        /\ \A u \in Threads \ {t} : stack'[u] = stack[u]
    BY <1>2, <2>1, <2>2, <2>3 DEF Call, TypeOK
  <2>6. /\ ThreadOK(t)' /\ stack'[t] \in Seq(Frames)
        /\ Len(stack'[t]) = n + 1
        /\ \A i \in 1..n : stack'[t][i] = stack[t][i]
    BY <1>2, <2>3, <2>4, <2>5, PushStep, ZenonT(60)
  <2>7. stack' \in [Threads -> Seq(Frames)]
    BY <1>2, <2>1, <2>5, <2>6 DEF TypeOK, Call
  <2>8. \A d \in Classes : Runs(t, d) => Runs(t, d)'
    <3>1. DOMAIN stack'[t] = 1..(n + 1)
      BY <2>6
    <3>2. \A i \in 1..n : i \in 1..(n + 1)
      OBVIOUS
    <3> QED BY <2>3, <2>6, <3>1, <3>2 DEF Runs
  <2> QED BY <1>1, <1>2, <1>3, <2>5, <2>6, <2>7, <2>8, QuietStep
<1> QED BY <1>4, <1>5

-----------------------------------------------------------------------------
(* Beginning to initialize a class.                                        *)

(* A frame is not disturbed when lists grow and no class becomes pending.  *)
LEMMA KeptFrame ==
    ASSUME NEW u \in Threads, NEW f \in Frames, FrameOK(u, f), Forward,
           list[u] \subseteq list'[u],
           f.cls \in pending' => f.cls \in pending
    PROVE  FrameKept(u, f)
<1>1. SUFFICES ASSUME f.cls # NoClass
               PROVE  FrameKept(u, f)
  BY DEF FrameKept
<1>2. PICK c \in Classes : c = f.cls
  BY <1>1 DEF Frames
<1>3. SuperReady(u, c) => SuperReady(u, c)'
  <2>1. Superclass[c] # NoClass => Superclass[c] \in Classes
    BY Hierarchy
  <2> QED BY <2>1 DEF Forward, SuperReady, SuperIsInitialized
<1> HIDE DEF SuperReady
<1> QED BY <1>1, <1>2, <1>3 DEF FrameKept, FrameOK

(* The same for several frames ...                                         *)
LEMMA KeptFrames ==
    ASSUME TypeOK, NEW u \in Threads, ThreadOK(u), Forward,
           list[u] \subseteq list'[u], pending' \subseteq pending,
           NEW k, 1..k \subseteq DOMAIN stack[u]
    PROVE  LowerKept(u, k)
<1> SUFFICES ASSUME NEW i \in 1..k
             PROVE  FrameKept(u, stack[u][i])
  BY DEF LowerKept
<1>1. PICK f \in Frames : f = stack[u][i] /\ FrameOK(u, f)
  BY DEF TypeOK, ThreadOK
<1>2. FrameKept(u, f)
  BY <1>1, KeptFrame
<1> QED BY <1>1, <1>2

(* ... and for a thread that does nothing.                                 *)
LEMMA ThreadStays ==
    ASSUME TypeOK, NEW u \in Threads, ThreadOK(u), Forward,
           list[u] \subseteq list'[u], pending' \subseteq pending,
           stack'[u] = stack[u]
    PROVE  ThreadOK(u)'
<1>1. 1..Len(stack[u]) \subseteq DOMAIN stack[u]
  BY DEF TypeOK
<1>2. LowerKept(u, Len(stack[u]))
  BY <1>1, KeptFrames
<1> QED BY <1>2, SameThread

(* t begins to initialize the class c, or to take it over in the child of  *)
(* a fork.                                                                 *)
Begins(t, c, g) ==
    /\ g.cls = c /\ c \in Classes /\ c \notin pending
    /\ g.pc = "body" \/ g.pc = "fork"
    /\ g.pc = "body" => g.todo \subseteq Body(c) /\ state[c] = "no"
    /\ g.pc = "fork" => MultithreadedForkChild
    /\ SuperReady(t, c) /\ state[c] # "initialized"
    /\ \A u \in Threads : c \notin list[u]
    /\ state' = [state EXCEPT ![c] = "initializing"]
    /\ list' = [list EXCEPT ![t] = @ \cup {c}]
    /\ UNCHANGED <<program, pending, live>>

(* What that changes.                                                      *)
LEMMA BeginForward ==
    ASSUME TypeOK, NEW t \in Threads, NEW c, NEW g, Begins(t, c, g)
    PROVE  /\ Forward /\ \A u \in Threads : list[u] \subseteq list'[u]
           /\ \A u \in Threads \ {t} : list'[u] = list[u]
           /\ list'[t] = list[t] \cup {c}
           /\ \A d \in Classes \ {c} : state'[d] = state[d]
           /\ state'[c] = "initializing"
           /\ list' \in [Threads -> SUBSET Classes]
           /\ state' \in [Classes -> {"no", "initializing", "initialized"}]
  BY DEF Begins, Forward, TypeOK, MultithreadedForkChild

(* SubtreeOK after that: the superclass is initialized, or on the list of  *)
(* t as well.                                                              *)
LEMMA BeginSubtree ==
    ASSUME TypeOK, SubtreeOK, ListOK,
           NEW t \in Threads, NEW c, NEW g, Begins(t, c, g)
    PROVE  SubtreeOK'
<1>1. c \in Classes /\ SuperReady(t, c) /\ state[c] # "initialized"
      /\ \A u \in Threads : c \notin list[u]
  BY DEF Begins
<1>2. /\ \A u \in Threads \ {t} : list'[u] = list[u]
      /\ list'[t] = list[t] \cup {c}
      /\ \A d \in Classes \ {c} : state'[d] = state[d]
      /\ state'[c] = "initializing"
  BY BeginForward
<1> SUFFICES ASSUME NEW e \in Classes, Superclass[e] # NoClass, state'[e] # "no"
             PROVE  \/ state'[Superclass[e]] = "initialized"
                    \/ /\ state'[e] = "initializing"
                       /\ state'[Superclass[e]] = "initializing"
                       /\ \A u \in Threads : e \in list'[u] =>
                              Superclass[e] \in list'[u]
  BY DEF SubtreeOK
<1>3. PICK s \in Classes : s = Superclass[e] /\ s # e
  BY Hierarchy, LineFacts
<1>4. CASE e = c
  <2>1. state'[s] = state[s]
    BY <1>2, <1>3, <1>4
  <2>2. state[s] = "initialized" \/ s \in list[t]
    BY <1>1, <1>3, <1>4 DEF SuperReady, SuperIsInitialized
  <2>3. s \in list[t] => state[s] = "initializing" /\ s \in list'[t]
    BY <1>2 DEF ListOK
  <2> QED BY <1>1, <1>2, <1>3, <1>4, <2>1, <2>2, <2>3
<1>5. CASE e # c
  <2>1. state[e] # "no" /\ state'[e] = state[e]
    BY <1>2, <1>5
  <2>2. \/ state[s] = "initialized"
        \/ /\ state[e] = "initializing" /\ state[s] = "initializing"
           /\ \A u \in Threads : e \in list[u] => s \in list[u]
    BY <1>3, <2>1 DEF SubtreeOK
  <2>3. \A u \in Threads : e \in list'[u] => e \in list[u]
    BY <1>2, <1>5
  <2>4. \A u \in Threads : s \in list[u] => s \in list'[u]
    BY <1>2
  <2>5. s = c => state[s] # "initialized" /\ state'[s] = "initializing"
    BY <1>1, <1>2
  <2>6. s # c => state'[s] = state[s]
    BY <1>2
  <2> QED BY <1>3, <2>1, <2>2, <2>3, <2>4, <2>5, <2>6
<1> QED BY <1>4, <1>5

(* The whole invariant after that.                                         *)
LEMMA BeginStep ==
    ASSUME IndInv, NEW t \in live, NEW s \in Seq(Frames), NEW n \in Nat \ {0},
           NEW f \in Frames, TopIs(t, s, n, f),
           f.pc \in {"lock", "initializing"},
           NEW g \in Frames, NEW c, f.cls = c, Begins(t, c, g),
           stack' = [stack EXCEPT ![t] = [s EXCEPT ![n] = g]],
           halted' = "no"
    PROVE  IndInv'
<1>1. /\ TypeOK /\ ForkOK /\ ListOK /\ PendingOK /\ SubtreeOK
      /\ \A u \in live : ThreadOK(u)
  BY IndParts
<1>2. live \subseteq Threads /\ t \in Threads /\ ThreadOK(t)
  BY <1>1 DEF TypeOK
<1>3. /\ Forward /\ \A u \in Threads : list[u] \subseteq list'[u]
      /\ \A u \in Threads \ {t} : list'[u] = list[u]
      /\ list'[t] = list[t] \cup {c}
      /\ \A d \in Classes \ {c} : state'[d] = state[d]
      /\ state'[c] = "initializing"
      /\ list' \in [Threads -> SUBSET Classes]
      /\ state' \in [Classes -> {"no", "initializing", "initialized"}]
  BY <1>1, <1>2, BeginForward
<1>4. /\ g.cls = c /\ c \in Classes /\ c \notin pending /\ c # NoClass
      /\ g.pc = "body" \/ g.pc = "fork"
      /\ g.pc = "body" => g.todo \subseteq Body(c) /\ state[c] = "no"
      /\ g.pc = "fork" => MultithreadedForkChild
      /\ SuperReady(t, c) /\ state[c] # "initialized"
      /\ \A u \in Threads : c \notin list[u]
      /\ program' = program /\ pending' = pending /\ live' = live
  BY Hierarchy DEF Begins
<1>5. /\ ThreadOK(t)' /\ stack' \in [Threads -> Seq(Frames)]
      /\ \A u \in Threads \ {t} : stack'[u] = stack[u]
      /\ Len(stack'[t]) = n /\ stack'[t][n] = g /\ Last(stack[t])' = g
      /\ DOMAIN stack'[t] = 1..n
      /\ \A i \in 1..n : i # n => stack'[t][i] = stack[t][i]
  <2>1. LowerKept(t, n - 1)
    <3>1. 1..(n - 1) \subseteq DOMAIN stack[t]
      BY DEF TopIs
    <3>2. pending' \subseteq pending
      BY <1>4
    <3> QED BY <1>1, <1>2, <1>3, <3>1, <3>2, KeptFrames
  <2>2. FrameOK(t, g)'
    <3>1. SuperReady(t, c)'
      <4>1. Superclass[c] # NoClass => Superclass[c] \in Classes
        BY <1>4, Hierarchy
      <4> QED BY <1>3, <1>4, <4>1 DEF SuperReady, SuperIsInitialized, Forward
    <3>2. c \in list'[t]
      BY <1>3
    <3>3. g.pc = "body" => g.todo \subseteq Body(c)' /\ c \notin pending'
      BY <1>4 DEF Body
    <3>4. g.pc = "fork" => MultithreadedForkChild' /\ c \notin pending'
      BY <1>4 DEF MultithreadedForkChild
    <3> HIDE DEF SuperReady
    <3> QED BY <1>4, <3>1, <3>2, <3>3, <3>4 DEF FrameOK
  <2>3. MayBecome(t, f, g) /\ f.cls # NoClass
    BY <1>2, <1>4 DEF MayBecome
  <2> QED BY <1>1, <1>2, <1>3, <2>1, <2>2, <2>3, ReplaceStep, ZenonT(60)
<1>6. TypeOK'
  BY <1>1, <1>3, <1>4, <1>5 DEF TypeOK
<1>7. \A u \in live' : ThreadOK(u)'
  <2>1. ASSUME NEW u \in live, u # t
        PROVE  ThreadOK(u)'
    <3>1. /\ u \in Threads /\ ThreadOK(u) /\ stack'[u] = stack[u]
          /\ list[u] \subseteq list'[u] /\ pending' \subseteq pending
      BY <1>1, <1>2, <1>3, <1>4, <1>5, <2>1
    <3> QED BY <1>1, <1>3, <3>1, ThreadStays
  <2> QED BY <1>4, <1>5, <2>1
<1>8. ForkOK'
  BY <1>1, <1>3, <1>4, <1>5 DEF ForkOK, MultithreadedForkChild
<1>9. ListOK'
  <2>1. ASSUME NEW u \in Threads, NEW d \in list'[u]
        PROVE  state'[d] = "initializing" /\ (d \in pending \/ Runs(u, d)')
    <3>1. CASE d = c
      <4>1. u = t
        BY <1>3, <1>4, <2>1, <3>1
      <4>2. Initializes(stack'[t][n], c) /\ n \in DOMAIN stack'[t]
        BY <1>4, <1>5 DEF Initializes
      <4> QED BY <1>3, <3>1, <4>1, <4>2 DEF Runs
    <3>2. CASE d # c
      <4>1. d \in list[u] /\ d \in Classes
        BY <1>1, <1>2, <1>3, <2>1, <3>2 DEF TypeOK
      <4>2. state'[d] = "initializing"
        BY <1>1, <1>3, <3>2, <4>1 DEF ListOK
      <4>3. d \in pending \/ Runs(u, d)
        BY <1>1, <4>1 DEF ListOK, Runs
      <4>4. ASSUME Runs(u, d)
            PROVE  Runs(u, d)'
        <5>1. CASE u = t
          <6>1. PICK i \in 1..n : Initializes(stack[t][i], d)
            BY <4>4, <5>1 DEF Runs, TopIs
          <6>2. i # n
            BY <6>1 DEF TopIs, Initializes
          <6>3. Initializes(stack'[t][i], d)
            BY <1>5, <6>1, <6>2
          <6> QED BY <1>5, <5>1, <6>3 DEF Runs
        <5>2. CASE u # t
          <6>1. stack'[u] = stack[u]
            BY <1>5, <5>2
          <6> QED BY <4>4, <6>1 DEF Runs
        <5> QED BY <5>1, <5>2
      <4> QED BY <4>2, <4>3, <4>4
    <3> QED BY <3>1, <3>2
  <2>2. \A u, v \in Threads : u # v => list'[u] \cap list'[v] = {}
    BY <1>1, <1>2, <1>3, <1>4 DEF ListOK
  <2> QED BY <1>4, <2>1, <2>2 DEF ListOK, Runs
<1>10. PendingOK'
  <2> SUFFICES ASSUME NEW d \in pending
               PROVE  /\ state'[d] = "initializing"
                      /\ Superclass[d] # NoClass
                      /\ state'[Superclass[d]] = "initializing"
                      /\ Superclass[d] \notin pending => Body(Superclass[d])' # {}
                      /\ \A u \in live : Superclass[d] \in list'[u] =>
                            \/ d \in list'[u]
                            \/ /\ Last(stack[u])'.pc = "fork"
                               /\ Last(stack[u])'.cls = Superclass[d]
    BY <1>4 DEF PendingOK
  <2>1. d \in Classes /\ d # c
    BY <1>1, <1>4 DEF TypeOK
  <2>2. PICK e \in Classes :
            /\ e = Superclass[d] /\ e # NoClass
            /\ state[d] = "initializing" /\ state[e] = "initializing"
            /\ e \notin pending => Body(e) # {}
    BY <1>1, <2>1, Hierarchy DEF PendingOK
  <2>3. state'[d] = "initializing" /\ state'[e] = "initializing"
    BY <1>3, <2>1, <2>2
  <2>4. Body(e)' = Body(e)
    BY <1>4 DEF Body
  <2>5. ASSUME NEW u \in live, e \in list'[u], u # t
        PROVE  \/ d \in list'[u]
               \/ Last(stack[u])'.pc = "fork" /\ Last(stack[u])'.cls = e
    <3>1. Last(stack[u])' = Last(stack[u]) /\ list'[u] = list[u]
      BY <1>2, <1>3, <1>5, <2>5 DEF Last
    <3> QED BY <1>1, <2>2, <2>5, <3>1 DEF PendingOK
  <2>6. ASSUME e \in list'[t]
        PROVE  \/ d \in list'[t]
               \/ Last(stack[t])'.pc = "fork" /\ Last(stack[t])'.cls = e
    <3>1. CASE e = c
      <4>1. g.pc = "fork"
        BY <1>4, <2>2, <3>1
      <4> QED BY <1>4, <1>5, <3>1, <4>1
    <3>2. CASE e # c
      <4>1. e \in list[t] /\ Last(stack[t]).pc # "fork"
        BY <1>3, <2>6, <3>2 DEF TopIs
      <4>2. d \in list[t]
        BY <1>1, <2>2, <4>1 DEF PendingOK
      <4> QED BY <1>3, <4>2
    <3> QED BY <3>1, <3>2
  <2> QED BY <2>2, <2>3, <2>4, <2>5, <2>6
<1>11. SubtreeOK'
  BY <1>1, <1>2, BeginSubtree
<1> QED BY <1>6, <1>7, <1>8, <1>9, <1>10, <1>11 DEF IndInv

(* A class on a list is being initialized.                                 *)
LEMMA OnList ==
    ASSUME IndInv, NEW t \in Threads, NEW c \in list[t]
    PROVE  c \in Classes /\ state[c] = "initializing"
  BY IndParts DEF TypeOK, ListOK

(* RW_INITIALIZING is set: the class is on no list, since classes on lists *)
(* have it set.                                                            *)
LEMMA SetInitializingInd ==
    ASSUME IndInv, NEW t \in Threads, SetInitializing(t)
    PROVE  IndInv'
<1>1. At(t, "lock") /\ halted = "no" /\ t \in live /\ TypeOK
  BY IndParts DEF SetInitializing, At
<1>2. PICK s \in Seq(Frames), n \in Nat \ {0}, f \in Frames :
          TopIs(t, s, n, f) /\ f.pc = "lock" /\ f.cls = Cls(t) /\ f.cls \in Classes
  BY <1>1, AtFacts, ZenonT(60)
<1>3. PICK c \in Classes : c = Cls(t) /\ c = f.cls
  BY <1>2
<1>4. state[c] = "no"
  BY <1>3 DEF SetInitializing
<1>5. \A u \in Threads : c \notin list[u]
  BY <1>4, OnList
<1>6. /\ state' = [state EXCEPT ![c] = "initializing"]
      /\ list' = [list EXCEPT ![t] = @ \cup {c}]
      /\ IF MultithreadedForkChild THEN Goto(t, "fork")
         ELSE stack' = [stack EXCEPT ![t][Len(stack[t])] =
                                 Frame(c, "body", Body(c))]
      /\ UNCHANGED <<program, pending, live, halted>>
  BY <1>3, <1>5 DEF SetInitializing
<1>7. c \notin pending
  BY <1>4, IndParts DEF PendingOK
<1>8. SuperReady(t, c)
  <2>1. FrameOK(t, f)
    BY <1>2, TopOK
  <2> QED BY <2>1, <1>2, <1>3, Hierarchy DEF FrameOK
<1>9. s = stack[t] /\ n = Len(s) /\ f = s[n] /\ n \in DOMAIN s
      /\ stack \in [Threads -> Seq(Frames)]
  BY <1>1, <1>2 DEF TopIs, TypeOK
<1>10. PICK g \in Frames :
          /\ stack' = [stack EXCEPT ![t] = [s EXCEPT ![n] = g]]
          /\ g.cls = c
          /\ g.pc = "body" \/ g.pc = "fork"
          /\ g.pc = "body" => g.todo \subseteq Body(c)
          /\ g.pc = "fork" => MultithreadedForkChild
  <2>1. CASE MultithreadedForkChild
    <3>1. PICK g \in Frames : /\ g = [f EXCEPT !.pc = "fork"]
                              /\ g.pc = "fork" /\ g.cls = f.cls
      BY GotoFrame DEF Pcs
    <3>2. stack' = [stack EXCEPT ![t] = [s EXCEPT ![n] = g]]
      BY <1>6, <1>9, <2>1, <3>1 DEF Goto
    <3> QED BY <1>3, <2>1, <3>1, <3>2
  <2>2. CASE ~ MultithreadedForkChild
    <3>1. Body(c) \in SUBSET Classes
      BY <1>1, BodyType DEF TypeOK
    <3>2. PICK g \in Frames : /\ g = Frame(c, "body", Body(c))
                              /\ g.pc = "body" /\ g.cls = c /\ g.todo = Body(c)
      <4>1. PICK b \in SUBSET Classes : b = Body(c)
        BY <3>1
      <4>2. Frame(c, "body", b) \in Frames
        BY DEF Frame, Frames
      <4> QED BY <4>1, <4>2 DEF Frame
    <3>3. stack' = [stack EXCEPT ![t] = [s EXCEPT ![n] = g]]
      BY <1>6, <1>9, <2>2, <3>2
    <3> QED BY <3>2, <3>3
  <2> QED BY <2>1, <2>2
<1>11. Begins(t, c, g)
  BY <1>4, <1>5, <1>6, <1>7, <1>8, <1>10 DEF Begins
<1>12. halted' = "no" /\ f.pc \in {"lock", "initializing"}
  BY <1>1, <1>2, <1>6
<1> QED BY <1>1, <1>2, <1>3, <1>10, <1>11, <1>12, BeginStep, ZenonT(60)

(* The places after isInitializing().                                      *)
LEMMA QuietWait ==
    ASSUME IndInv, NEW t \in Threads, At(t, "initializing"),
           NEW pc \in {"initialized", "wait"}, Goto(t, pc),
           Quiet, halted' \in {"no", "forked"},
           pc = "initialized" => state[Cls(t)] = "initialized"
    PROVE  IndInv'
<1>1. PICK p : p = "initializing"
  OBVIOUS
<1>2. p # "fork" /\ p # "body" /\ p # "super" /\ pc # "initializing"
      /\ p \notin {"body", "fork", "finish", "throw"}
      /\ pc \notin {"finish", "throw"} /\ pc \notin {"body", "fork", "super"}
  BY <1>1
<1>3. pc \in Pcs
  BY DEF Pcs
<1>4. At(t, p) /\ ChildrenListed(t) /\ Cls(t) # NoClass
  BY <1>1, <1>2, Listed, CallClass
<1> HIDE <1>1
<1> QED BY <1>2, <1>3, <1>4, QuietGoto, ZenonT(60)

(* isInitializing(): in a child, t takes the class over, which nobody left *)
(* can be initializing.                                                    *)
LEMMA IsInitializingInd ==
    ASSUME IndInv, NEW t \in Threads, IsInitializing(t)
    PROVE  IndInv'
<1>1. At(t, "initializing") /\ halted = "no" /\ t \in live /\ TypeOK
  BY IndParts DEF IsInitializing, At
<1>2. PICK s \in Seq(Frames), n \in Nat \ {0}, f \in Frames :
          /\ TopIs(t, s, n, f)
          /\ f.pc = "initializing" /\ f.cls = Cls(t) /\ f.cls \in Classes
  BY <1>1, AtFacts, ZenonT(60)
<1>3. PICK c \in Classes : c = Cls(t) /\ c = f.cls /\ c # NoClass
  BY <1>2, Hierarchy
<1>4. SuperReady(t, c) /\ state[c] # "no"
  <2>1. FrameOK(t, f)
    BY <1>2, TopOK
  <2> QED BY <2>1, <1>2, <1>3 DEF FrameOK
<1>5. ChildrenListed(t)
  BY <1>1, Listed
<1>6. state[c] \in {"no", "initializing", "initialized"}
  BY <1>1 DEF TypeOK
<1>7. CASE state[c] # "initializing"
  <2>1. state[c] = "initialized"
    BY <1>4, <1>6, <1>7
  <2>2. Goto(t, "initialized") /\ Quiet /\ halted' \in {"no", "forked"}
    BY <1>1, <1>3, <1>7 DEF IsInitializing, Quiet
  <2>3. state[Cls(t)] = "initialized"
    BY <1>3, <2>1
  <2> QED BY <1>1, <2>2, <2>3, QuietWait
<1>8. CASE state[c] = "initializing" /\ c \in list[t]
  <2>1. Return(t) /\ Quiet /\ halted' = halted
    BY <1>3, <1>8 DEF IsInitializing, Quiet
  <2> QED BY <1>1, <1>3, <1>8, <2>1, QuietReturn
<1>9. CASE state[c] = "initializing" /\ c \notin list[t] /\ ~ MultithreadedForkChild
  <2>1. Goto(t, "wait") /\ Quiet /\ halted' \in {"no", "forked"}
    BY <1>1, <1>3, <1>9 DEF IsInitializing, Quiet
  <2> QED BY <1>1, <2>1, QuietWait
<1>10. CASE state[c] = "initializing" /\ c \notin list[t] /\ MultithreadedForkChild
  <2>1. /\ list' = [list EXCEPT ![t] = @ \cup {c}]
        /\ Goto(t, "fork") /\ halted' = "no"
        /\ UNCHANGED <<program, state, pending, live>>
    BY <1>1, <1>3, <1>10 DEF IsInitializing
  <2>2. state' = [state EXCEPT ![c] = "initializing"]
    BY <1>1, <1>10, <2>1 DEF TypeOK
  <2>3. \A u \in Threads : c \notin list[u]
    <3>1. PICK r \in Threads : live = {r}
      BY <1>1, <1>10, IndParts DEF ForkOK
    <3>2. \A u \in Threads \ live : list[u] = {}
      BY IndParts DEF ForkOK
    <3> QED BY <1>1, <1>10, <3>1, <3>2
  <2>4. c \notin pending
    <3> SUFFICES ASSUME c \in pending PROVE FALSE
      OBVIOUS
    <3>1. Superclass[c] # NoClass /\ state[Superclass[c]] = "initializing"
      BY IndParts DEF PendingOK
    <3>2. Superclass[c] \in list[t]
      BY <1>4, <3>1 DEF SuperReady, SuperIsInitialized
    <3> QED BY <1>5, <1>10, <3>2 DEF ChildrenListed
  <2>5. s = stack[t] /\ n = Len(s) /\ f = s[n] /\ n \in DOMAIN s
        /\ stack \in [Threads -> Seq(Frames)]
    BY <1>1, <1>2 DEF TopIs, TypeOK
  <2>6. PICK g \in Frames : /\ g = [f EXCEPT !.pc = "fork"]
                            /\ g.pc = "fork" /\ g.cls = f.cls
    BY GotoFrame DEF Pcs
  <2>7. stack' = [stack EXCEPT ![t] = [s EXCEPT ![n] = g]]
    BY <2>1, <2>5, <2>6 DEF Goto
  <2>8. Begins(t, c, g)
    BY <1>3, <1>4, <1>10, <2>1, <2>2, <2>3, <2>4, <2>6 DEF Begins
  <2>9. halted' = "no" /\ f.pc \in {"lock", "initializing"}
    BY <1>2, <2>1
  <2> QED BY <1>1, <1>2, <1>3, <2>6, <2>7, <2>8, <2>9, BeginStep, ZenonT(60)
<1> QED BY <1>7, <1>8, <1>9, <1>10

-----------------------------------------------------------------------------
(* The fork.                                                               *)

(* The child of a fork forgets the other threads, and so all their claims. *)
LEMMA ForkInd ==
    ASSUME IndInv, NEW t \in Threads, Fork(t)
    PROVE  IndInv'
<1>1. At(t, "body") /\ halted = "no" /\ t \in live /\ ThreadOK(t)
  BY IndParts DEF Fork, At
<1>2. TypeOK /\ ForkOK /\ ListOK /\ PendingOK /\ SubtreeOK
  BY IndParts
<1>3. /\ live' = {t} /\ live = Threads
      /\ \A u \in Threads \ {t} : list'[u] = {} /\ stack'[u] = <<>>
      /\ list'[t] = list[t] /\ stack'[t] = stack[t]
      /\ UNCHANGED <<program, state, pending, halted>>
  BY DEF Fork, MultithreadedForkChild
<1>4. TypeOK'
  <2>1. list' \in [Threads -> SUBSET Classes]
    BY <1>2 DEF Fork, TypeOK
  <2>2. stack' \in [Threads -> Seq(Frames)]
    BY <1>2 DEF Fork, TypeOK
  <2> QED BY <1>2, <1>3, <2>1, <2>2 DEF TypeOK
<1>5. Forward
  BY <1>3 DEF Forward, MultithreadedForkChild
<1>6. ThreadOK(t)'
  <2>1. list[t] \subseteq list'[t] /\ pending' \subseteq pending
    BY <1>3
  <2> QED BY <1>1, <1>2, <1>3, <1>5, <2>1, ThreadStays
<1>7. ForkOK'
  BY <1>3 DEF ForkOK, MultithreadedForkChild
<1>8. ListOK'
  <2>1. ASSUME NEW u \in Threads, NEW d \in list'[u]
        PROVE  state'[d] = "initializing" /\ (d \in pending' \/ Runs(u, d)')
    <3>1. u = t /\ d \in list[t]
      BY <1>3, <2>1
    <3>2. state[d] = "initializing" /\ (d \in pending \/ Runs(t, d))
      BY <1>2, <3>1 DEF ListOK, Runs
    <3>3. Runs(t, d) => Runs(t, d)'
      BY <1>3 DEF Runs
    <3> QED BY <1>3, <3>1, <3>2, <3>3
  <2>2. \A u, v \in Threads : u # v => list'[u] \cap list'[v] = {}
    BY <1>3
  <2> QED BY <2>1, <2>2 DEF ListOK, Runs
<1>9. PendingOK'
  <2>1. \A d \in Classes : Body(d)' = Body(d)
    BY <1>3 DEF Body
  <2>2. Last(stack[t])' = Last(stack[t])
    BY <1>3 DEF Last
  <2> SUFFICES ASSUME NEW d \in pending
               PROVE  /\ state'[d] = "initializing"
                      /\ Superclass[d] # NoClass
                      /\ state'[Superclass[d]] = "initializing"
                      /\ Superclass[d] \notin pending => Body(Superclass[d])' # {}
                      /\ Superclass[d] \in list'[t] =>
                            \/ d \in list'[t]
                            \/ /\ Last(stack[t])'.pc = "fork"
                               /\ Last(stack[t])'.cls = Superclass[d]
    BY <1>3 DEF PendingOK
  <2>3. PICK e \in Classes : e = Superclass[d] /\ e # NoClass
    BY <1>2, Hierarchy DEF PendingOK, TypeOK
  <2> QED BY <1>1, <1>2, <1>3, <2>1, <2>2, <2>3 DEF PendingOK
<1>10. SubtreeOK'
  <2>1. \A u \in Threads : \A c : c \in list'[u] => u = t /\ c \in list[u]
    BY <1>3
  <2> QED BY <1>2, <1>3, <2>1 DEF SubtreeOK
<1> QED BY <1>1, <1>3, <1>4, <1>6, <1>7, <1>8, <1>9, <1>10 DEF IndInv

-----------------------------------------------------------------------------
(* Finishing a class.                                                      *)

(* What is known where a class is finished: it is on the list of t.        *)
LEMMA FinishFacts ==
    ASSUME IndInv, NEW t \in Threads, Finishing(t)
    PROVE  \E s \in Seq(Frames), n \in Nat \ {0}, f \in Frames, c \in Classes :
               /\ TopIs(t, s, n, f) /\ n # 1
               /\ f.pc \in {"finish", "throw"} /\ f.cls = c /\ Cls(t) = c
               /\ c # NoClass /\ Initializes(f, c)
               /\ t \in live /\ halted = "no" /\ ThreadOK(t) /\ ChildrenListed(t)
               /\ c \in list[t] /\ state[c] = "initializing" /\ SuperReady(t, c)
<1>1. PICK p \in {"finish", "throw"} : At(t, p)
  BY DEF Finishing
<1>2. p # "body" /\ p # "fork" /\ p # "super"
  BY <1>1
<1>3. PICK s \in Seq(Frames), n \in Nat \ {0}, f \in Frames :
          TopIs(t, s, n, f) /\ f.pc = p /\ f.cls = Cls(t) /\ f.cls \in Classes
  BY <1>1, <1>2, AtFacts, ZenonT(60)
<1>4. PICK c \in Classes : c = f.cls /\ c = Cls(t) /\ c # NoClass
  BY <1>3, Hierarchy
<1>5. t \in live /\ halted = "no" /\ ThreadOK(t) /\ ChildrenListed(t)
  BY <1>1, <1>2, AtFacts, Listed
<1>6. n # 1
  BY <1>3, <1>4 DEF TopIs
<1>7. Initializes(f, c)
  BY <1>1, <1>3, <1>4 DEF Initializes
<1>8. c \in list[t] /\ SuperReady(t, c)
  <2>1. FrameOK(t, f)
    BY <1>3, TopOK
  <2> QED BY <2>1, <1>2, <1>3, <1>4, <1>7 DEF FrameOK
<1>9. state[c] = "initializing"
  BY <1>8, OnList
<1>10. f.pc \in {"finish", "throw"}
  BY <1>1, <1>3
<1> QED BY <1>3, <1>4, <1>5, <1>6, <1>7, <1>8, <1>9, <1>10

(* How the stack of t changes there.                                       *)
LEMMA AfterStep ==
    ASSUME TypeOK, NEW t \in Threads, ThreadOK(t), Forward,
           NEW s \in Seq(Frames), NEW n \in Nat \ {0}, NEW f \in Frames,
           TopIs(t, s, n, f), n # 1, f.pc \in {"finish", "throw"},
           NEW c \in Classes, f.cls = c, LowerKept(t, n - 1),
           state'[c] = "initialized" \/ c \in list'[t],
           stack'[t] = After(t, s)
    PROVE  /\ ThreadOK(t)' /\ stack'[t] \in Seq(Frames)
           /\ \A d \in Classes : d # c /\ Runs(t, d) => Runs(t, d)'
<1>1. s = stack[t] /\ n = Len(stack[t]) /\ f = Last(stack[t]) /\ f = s[n]
      /\ DOMAIN stack[t] = 1..n
  BY DEF TopIs
<1>2. CASE f.pc = "finish"
  <2>1. stack'[t] = Popped(stack[t])
    BY <1>1, <1>2 DEF After
  <2>2. /\ ThreadOK(t)' /\ stack'[t] \in Seq(Frames)
        /\ Len(stack'[t]) = n - 1
        /\ \A i \in 1..(n - 1) :
               \/ stack'[t][i] = stack[t][i]
               \/ stack[t][i].pc = "super" /\ stack'[t][i].pc = "lock"
    <3>1. c = Last(stack[t]).cls
      BY <1>1
    <3> QED BY <1>1, <2>1, <3>1, ReturnStep, ZenonT(60)
  <2>3. ASSUME NEW d \in Classes, d # c, Runs(t, d)
        PROVE  Runs(t, d)'
    <3>1. PICK i \in 1..n : Initializes(stack[t][i], d)
      BY <1>1, <2>3 DEF Runs
    <3>2. i # n /\ stack[t][i].pc # "super"
      BY <1>1, <2>3, <3>1 DEF Initializes
    <3>3. i \in 1..(n - 1) /\ i \in DOMAIN stack'[t]
      BY <2>2, <3>1, <3>2
    <3>4. stack'[t][i] = stack[t][i]
      BY <2>2, <3>2, <3>3
    <3> QED BY <3>1, <3>3, <3>4 DEF Runs
  <2> QED BY <2>2, <2>3
<1>3. CASE f.pc = "throw"
  <2>1. stack'[t] = Unwound(stack[t])
    BY <1>1, <1>3 DEF After
  <2>2. /\ ThreadOK(t)' /\ stack'[t] \in Seq(Frames)
        /\ \E k \in 1..(n - 1) :
              /\ Len(stack'[t]) = k
              /\ \A i \in 1..k : stack'[t][i] = stack[t][i]
              /\ \A i \in (k + 1)..(n - 1) : stack[t][i].pc = "super"
              /\ stack[t][k].pc = "body"
    BY <1>1, <2>1, UnwindStep, ZenonT(60)
  <2>3. PICK k \in 1..(n - 1) :
              /\ Len(stack'[t]) = k
              /\ \A i \in 1..k : stack'[t][i] = stack[t][i]
              /\ \A i \in (k + 1)..(n - 1) : stack[t][i].pc = "super"
    BY <2>2
  <2>4. ASSUME NEW d \in Classes, d # c, Runs(t, d)
        PROVE  Runs(t, d)'
    <3>1. PICK i \in 1..n : Initializes(stack[t][i], d)
      BY <1>1, <2>4 DEF Runs
    <3>2. i # n /\ stack[t][i].pc # "super"
      BY <1>1, <2>4, <3>1 DEF Initializes
    <3>3. i \notin (k + 1)..(n - 1)
      BY <2>3, <3>2
    <3>4. i \in 1..k /\ i \in DOMAIN stack'[t]
      BY <2>2, <2>3, <3>1, <3>2, <3>3
    <3>5. stack'[t][i] = stack[t][i]
      BY <2>3, <3>4
    <3> QED BY <3>1, <3>4, <3>5 DEF Runs
  <2> QED BY <2>2, <2>4
<1> QED BY <1>2, <1>3

(* Below the innermost frame, what t initializes is on its list, not       *)
(* pending, not the class of the innermost frame, and has sent a message.  *)
LEMMA LowerRuns ==
    ASSUME NEW t \in Threads, NEW s, NEW n \in Nat \ {0}, NEW f,
           TopIs(t, s, n, f), f.cls # NoClass, Initializes(f, f.cls),
           NEW i \in 1..(n - 1), NEW d \in Classes, d # NoClass,
           Initializes(s[i], d)
    PROVE  /\ d # f.cls /\ d \in list[t] /\ d \notin pending
           /\ s[i].pc = "body" /\ Body(d) # {}
<1>1. i \in 1..n /\ i # n /\ i \in DOMAIN s /\ i # Len(s)
  BY DEF TopIs
<1>2. ~ Initializes(s[i], f.cls)
  BY <1>1, OthersRunNot
<1>3. d # f.cls
  BY <1>2
<1>4. FrameOK(t, s[i]) /\ StackOK(s) /\ s[i].cls = d
  BY <1>1 DEF TopIs, Initializes
<1>5. s[i].pc = "body"
  BY <1>1, <1>4 DEF StackOK, Initializes
<1>6. Initializes(s[i], s[i].cls)
  BY <1>4
<1>7. d \in list[t] /\ d \notin pending
  BY <1>4, <1>5, <1>6 DEF FrameOK
<1>8. Body(d) # {}
  BY <1>1, <1>4, <1>5 DEF TopIs
<1> QED BY <1>3, <1>5, <1>7, <1>8

(* A frame below the innermost one.                                        *)
LEMMA LowerFrame ==
    ASSUME NEW t \in Threads, NEW s, NEW n \in Nat \ {0}, NEW f,
           TopIs(t, s, n, f), NEW i \in 1..(n - 1)
    PROVE  \E h \in Frames :
               /\ h = s[i] /\ h = stack[t][i] /\ FrameOK(t, h)
               /\ h.pc \in {"body", "super"}
<1>1. i \in 1..n /\ i # n /\ i \in DOMAIN s /\ i # Len(s)
  BY DEF TopIs
<1>2. FrameOK(t, s[i]) /\ StackOK(s) /\ s = stack[t] /\ s[i] \in Frames
  BY <1>1 DEF TopIs
<1>3. s[i].pc \in {"body", "super"}
  BY <1>1, <1>2 DEF StackOK
<1> QED BY <1>2, <1>3

(* FrameKept, from what it says of the class of the frame.                 *)
LEMMA Kept ==
    ASSUME NEW u, NEW h, NEW d, d = h.cls,
           h.pc # "super" => (SuperReady(u, d) => SuperReady(u, d)'),
           h.pc = "body" => d \notin pending',
           h.pc = "fork" => d \notin pending',
           Initializes(h, d) => d \in list'[u]
    PROVE  FrameKept(u, h)
<1> HIDE DEF SuperReady, Initializes
<1> QED BY DEF FrameKept

(* _finishInitializingAfter: the class becomes pending, under a superclass *)
(* on the same list. If that is not pending itself it runs below, and has  *)
(* sent the message that led here.                                         *)
LEMMA FinishAfterInd ==
    ASSUME IndInv, NEW t \in Threads, _finishInitializingAfter(t)
    PROVE  IndInv'
<1>1. Finishing(t) /\ TypeOK /\ ForkOK /\ ListOK /\ PendingOK /\ SubtreeOK
      /\ \A u \in live : ThreadOK(u)
  BY IndParts DEF _finishInitializingAfter
<1>2. PICK s \in Seq(Frames), n \in Nat \ {0}, f \in Frames, c \in Classes :
          /\ TopIs(t, s, n, f) /\ n # 1
          /\ f.pc \in {"finish", "throw"} /\ f.cls = c /\ Cls(t) = c
          /\ c # NoClass /\ Initializes(f, c)
          /\ t \in live /\ halted = "no" /\ ThreadOK(t) /\ ChildrenListed(t)
          /\ c \in list[t] /\ state[c] = "initializing" /\ SuperReady(t, c)
  BY <1>1, FinishFacts, ZenonT(60)
<1>3. PICK p \in Classes : p = Superclass[c] /\ p # NoClass /\ p # c
                           /\ p \in list[t]
  <2>1. ~ SuperIsInitialized(c)
    BY <1>2 DEF _finishInitializingAfter
  <2>2. Superclass[c] # NoClass /\ Superclass[c] \in list[t]
    BY <1>2, <2>1 DEF SuperReady, SuperIsInitialized
  <2> QED BY <2>2, Hierarchy, LineFacts
<1>4. state[p] = "initializing"
  BY <1>3, OnList
<1>5. /\ pending' = pending \cup {c}
      /\ UNCHANGED <<program, state, list, live, halted>>
  BY <1>2 DEF _finishInitializingAfter
<1>6. s = stack[t] /\ n = Len(s) /\ f = s[n] /\ f = Last(stack[t])
      /\ DOMAIN stack[t] = 1..n
  BY <1>2 DEF TopIs
<1>7. /\ stack'[t] = After(t, s)
      /\ \A u \in Threads \ {t} : stack'[u] = stack[u]
  BY <1>1, <1>6 DEF _finishInitializingAfter, TypeOK
<1>8. Forward
  BY <1>5 DEF Forward, MultithreadedForkChild
<1>9. LowerKept(t, n - 1)
  <2> SUFFICES ASSUME NEW i \in 1..(n - 1)
               PROVE  FrameKept(t, stack[t][i])
    BY DEF LowerKept
  <2>1. PICK h \in Frames : /\ h = s[i] /\ h = stack[t][i] /\ FrameOK(t, h)
                            /\ h.pc \in {"body", "super"}
    BY <1>2, LowerFrame
  <2>2. CASE h.cls = NoClass
    BY <2>1, <2>2 DEF FrameKept
  <2>3. CASE h.cls # NoClass
    <3>1. PICK d \in Classes : d = h.cls /\ d # NoClass
      BY <2>3 DEF Frames
    <3>2. Initializes(h, d) => d \in list'[t] /\ d \notin pending'
      <4> SUFFICES ASSUME Initializes(s[i], d)
                   PROVE  d \in list'[t] /\ d \notin pending'
        BY <2>1
      <4>1. d # c /\ d \in list[t] /\ d \notin pending
        <5>1. TopIs(t, s, n, f) /\ f.cls = c /\ c # NoClass /\ Initializes(f, c)
          BY <1>2
        <5>2. d # NoClass /\ d \in Classes
          BY <3>1
        <5>3. Initializes(s[i], d)
          OBVIOUS
        <5> QED BY <5>1, <5>2, <5>3, LowerRuns
      <4> QED BY <1>5, <4>1
    <3>3. SuperReady(t, d) => SuperReady(t, d)'
      BY <1>5 DEF SuperReady, SuperIsInitialized
    <3>4. h.pc = "body" => Initializes(h, d)
      BY <3>1 DEF Initializes
    <3>5. h.pc # "fork"
      BY <2>1
    <3>6. FrameKept(t, h)
      BY <3>1, <3>2, <3>3, <3>4, <3>5, Kept
    <3> QED BY <2>1, <3>6
  <2> QED BY <2>2, <2>3
<1>10. /\ ThreadOK(t)' /\ stack'[t] \in Seq(Frames)
       /\ \A d \in Classes : d # c /\ Runs(t, d) => Runs(t, d)'
  <2>1. c \in list'[t]
    BY <1>2, <1>5
  <2> QED BY <1>1, <1>2, <1>7, <1>8, <1>9, <2>1, AfterStep, ZenonT(60)
<1>11. \A u \in Threads : u # t => c \notin list[u]
  BY <1>1, <1>2 DEF ListOK
<1>12. TypeOK'
  <2>1. stack' \in [Threads -> Seq(Frames)]
    <3>1. \A u \in Threads : stack'[u] \in Seq(Frames)
      BY <1>1, <1>7, <1>10 DEF TypeOK
    <3>2. stack' = [u \in Threads |-> stack'[u]]
      BY <1>1 DEF TypeOK, _finishInitializingAfter
    <3> QED BY <3>1, <3>2
  <2> QED BY <1>1, <1>5, <2>1 DEF TypeOK
<1>13. \A u \in live' : ThreadOK(u)'
  <2>1. ASSUME NEW u \in live, u # t
        PROVE  ThreadOK(u)'
    <3>1. u \in Threads /\ ThreadOK(u) /\ stack'[u] = stack[u]
      BY <1>1, <1>7, <2>1 DEF TypeOK
    <3>2. PICK z \in Seq(Frames), m \in Nat \ {0}, g \in Frames :
              TopIs(u, z, m, g)
      BY <1>1, <3>1, ThreadFacts
    <3>3. LowerKept(u, Len(stack[u]))
      <4> SUFFICES ASSUME NEW i \in 1..Len(stack[u])
                   PROVE  FrameKept(u, stack[u][i])
        BY DEF LowerKept
      <4>1. PICK h \in Frames : h = stack[u][i] /\ FrameOK(u, h)
        BY <3>2 DEF TopIs
      <4>2. CASE h.cls = NoClass
        BY <4>1, <4>2 DEF FrameKept
      <4>3. CASE h.cls # NoClass
        <5>1. PICK d \in Classes : d = h.cls /\ d # NoClass
          BY <4>3 DEF Frames
        <5>2. Initializes(h, d) => d \in list[u] /\ d # c
          BY <1>11, <2>1, <3>1, <4>1, <5>1 DEF FrameOK
        <5>3. SuperReady(u, d) => SuperReady(u, d)'
          BY <1>5 DEF SuperReady, SuperIsInitialized
        <5>4. h.pc \in {"body", "fork"} => Initializes(h, d) /\ d \notin pending
          BY <4>1, <5>1 DEF Initializes, FrameOK
        <5>5. h.pc \in {"body", "fork"} => d \notin pending'
          BY <1>5, <5>2, <5>4
        <5>6. Initializes(h, d) => d \in list'[u]
          BY <1>5, <5>2
        <5>7. FrameKept(u, h)
          BY <5>1, <5>3, <5>5, <5>6, Kept
        <5> QED BY <4>1, <5>7
      <4> QED BY <4>2, <4>3
    <3> QED BY <1>1, <1>8, <3>1, <3>3, SameThread
  <2> QED BY <1>5, <1>10, <2>1
<1>14. ForkOK'
  BY <1>1, <1>2, <1>5, <1>7 DEF ForkOK, MultithreadedForkChild
<1>15. ListOK'
  <2>1. ASSUME NEW u \in Threads, NEW d \in list[u]
        PROVE  state[d] = "initializing" /\ (d \in pending' \/ Runs(u, d)')
    <3>1. state[d] = "initializing" /\ (d \in pending \/ Runs(u, d)) /\ d \in Classes
      BY <1>1, <2>1 DEF ListOK, Runs, TypeOK
    <3>2. u # t => (Runs(u, d) => Runs(u, d)')
      BY <1>7 DEF Runs
    <3> QED BY <1>5, <1>10, <3>1, <3>2
  <2>2. \A u, v \in Threads : u # v => list[u] \cap list[v] = {}
    BY <1>1 DEF ListOK
  <2> QED BY <1>5, <2>1, <2>2 DEF ListOK, Runs
<1>16. PendingOK'
  <2> SUFFICES ASSUME NEW d \in pending'
               PROVE  /\ state'[d] = "initializing"
                      /\ Superclass[d] # NoClass
                      /\ state'[Superclass[d]] = "initializing"
                      /\ Superclass[d] \notin pending' => Body(Superclass[d])' # {}
                      /\ \A u \in live' : Superclass[d] \in list'[u] =>
                            \/ d \in list'[u]
                            \/ /\ Last(stack[u])'.pc = "fork"
                               /\ Last(stack[u])'.cls = Superclass[d]
    BY DEF PendingOK
  <2>1. Body(Superclass[d])' = Body(Superclass[d])
    BY <1>5 DEF Body
  <2>2. CASE d = c
    <3>1. p \notin pending => Body(p) # {}
      <4> SUFFICES ASSUME p \notin pending PROVE Body(p) # {}
        OBVIOUS
      <4>1. Runs(t, p)
        BY <1>1, <1>3 DEF ListOK, Runs
      <4>2. PICK i \in 1..n : Initializes(s[i], p)
        BY <1>6, <4>1 DEF Runs
      <4>3. i # n
        BY <1>2, <1>3, <1>6, <4>2 DEF Initializes
      <4>4. i \in 1..(n - 1)
        BY <4>2, <4>3
      <4> QED BY <1>2, <1>3, <4>2, <4>4, LowerRuns
    <3>2. \A u \in live : p \in list[u] => c \in list[u]
      BY <1>1, <1>2, <1>3 DEF ListOK, TypeOK
    <3> QED BY <1>2, <1>3, <1>4, <1>5, <2>1, <2>2, <3>1, <3>2
  <2>3. CASE d # c
    <3>1. d \in pending
      BY <1>5, <2>3
    <3>2. PICK e \in Classes :
              /\ e = Superclass[d] /\ e # NoClass
              /\ state[d] = "initializing" /\ state[e] = "initializing"
              /\ e \notin pending => Body(e) # {}
      BY <1>1, <3>1, Hierarchy DEF PendingOK, TypeOK
    <3>3. ASSUME NEW u \in live, e \in list[u]
          PROVE  \/ d \in list[u]
                 \/ Last(stack[u])'.pc = "fork" /\ Last(stack[u])'.cls = e
      <4>1. CASE u = t
        BY <1>2, <3>1, <3>2, <3>3, <4>1 DEF ChildrenListed
      <4>2. CASE u # t
        <5>1. Last(stack[u])' = Last(stack[u])
          BY <1>1, <1>7, <4>2 DEF Last, TypeOK
        <5> QED BY <1>1, <3>1, <3>2, <3>3, <5>1 DEF PendingOK
      <4> QED BY <4>1, <4>2
    <3> QED BY <1>5, <2>1, <3>2, <3>3
  <2> QED BY <2>2, <2>3
<1>17. SubtreeOK'
  BY <1>1, <1>5 DEF SubtreeOK
<1>18. halted' # "fatal"
  BY <1>2, <1>5
<1> QED BY <1>12, <1>13, <1>14, <1>15, <1>16, <1>17, <1>18 DEF IndInv

(* All that is finished with c is on the list of t: otherwise a class      *)
(* missing there is pending under another that is missing, and so on for   *)
(* ever.                                                                   *)
LEMMA FinishedListed ==
    ASSUME NEW t \in Threads, NEW c \in Classes, c \in list[t], ChildrenListed(t)
    PROVE  Finished(c) \subseteq list[t]
<1>1. PICK S \in SUBSET Classes : S = Finished(c) \ list[t]
  BY FinishedSelf
<1>2. ASSUME NEW d \in Classes, d \in S
      PROVE  Superclass[d] \in Classes /\ Superclass[d] \in S
  <2>1. d \in Finished(c) /\ d # c
    BY <1>1, <1>2
  <2>2. /\ d \in pending /\ Superclass[d] \in Classes
        /\ Superclass[d] \in Finished(c)
    BY <2>1, FinishedDown
  <2>3. Superclass[d] \notin list[t]
    BY <1>1, <1>2, <2>2 DEF ChildrenListed
  <2> QED BY <1>1, <2>2, <2>3
<1>3. S = {}
  BY <1>2, NoCycle
<1> QED BY <1>1, <1>3

(* The sequence s with g in place n.                                       *)
Put(s, n, g) == [s EXCEPT ![n] = g]

(* The innermost frame of s no longer waits in z.                          *)
Woken(s, z) ==
    \E n \in Nat \ {0}, f \in Frames, g \in Frames :
        /\ n = Len(s) /\ f = s[n] /\ f = Last(s) /\ f.pc = "waiting"
        /\ g.cls = f.cls /\ g.pc = "wait" /\ g.todo = f.todo
        /\ z = Put(s, n, g)

(* notifyAll() wakes or leaves a thread.                                   *)
LEMMA NotifiedStack ==
    ASSUME NEW s \in Seq(Frames), NEW z, z = Notified(s)
    PROVE  /\ z \in Seq(Frames)
           /\ s = <<>> => z = <<>>
           /\ z = s \/ Woken(s, z)
<1>1. CASE s # <<>> /\ Last(s).pc = "waiting"
  <2>1. PICK n \in Nat \ {0} : n = Len(s) /\ n \in 1..Len(s) /\ DOMAIN s = 1..n
    BY <1>1
  <2>2. PICK f \in Frames : f = s[n] /\ f = Last(s)
    BY <2>1 DEF Last
  <2>3. PICK g \in Frames : /\ g = [f EXCEPT !.pc = "wait"]
                            /\ g.pc = "wait" /\ g.cls = f.cls /\ g.todo = f.todo
    BY GotoFrame DEF Pcs
  <2>4. z = [s EXCEPT ![n] = g]
    BY <1>1, <2>1, <2>2, <2>3 DEF Notified
  <2>5. z \in Seq(Frames)
    BY <2>1, <2>4, Replaced
  <2>6. f.pc = "waiting"
    BY <1>1, <2>2
  <2>7. Woken(s, z)
    <3>1. z = Put(s, n, g)
      BY <2>4 DEF Put
    <3> QED BY <2>1, <2>2, <2>3, <2>6, <3>1 DEF Woken
  <2> QED BY <1>1, <2>5, <2>7
<1>2. CASE ~ (s # <<>> /\ Last(s).pc = "waiting")
  BY <1>2 DEF Notified
<1> QED BY <1>1, <1>2

(* What notifyAll() leaves of another thread.                              *)
LEMMA NotifiedStep ==
    ASSUME TypeOK, NEW u \in live, ThreadOK(u), Forward,
           list'[u] = list[u], pending' \subseteq pending,
           stack'[u] = Notified(stack[u])
    PROVE  /\ ThreadOK(u)'
           /\ \A d : Runs(u, d) => Runs(u, d)'
           /\ Last(stack[u]).pc = "fork" => stack'[u] = stack[u]
<1>1. u \in Threads /\ stack[u] \in Seq(Frames) /\ list[u] \subseteq list'[u]
  BY DEF TypeOK
<1>2. CASE stack'[u] = stack[u]
  <2>1. ThreadOK(u)'
    BY <1>1, <1>2, ThreadStays
  <2> QED BY <1>2, <2>1 DEF Runs
<1>3. CASE stack'[u] # stack[u]
  <2>1. PICK n \in Nat \ {0}, f \in Frames, g \in Frames :
          /\ n = Len(stack[u]) /\ f = stack[u][n] /\ f = Last(stack[u])
          /\ f.pc = "waiting"
          /\ g.cls = f.cls /\ g.pc = "wait" /\ g.todo = f.todo
          /\ stack'[u] = [stack[u] EXCEPT ![n] = g]
    <3>1. Woken(stack[u], stack'[u])
      BY <1>1, <1>3, NotifiedStack
    <3> QED BY <3>1, ZenonT(60) DEF Woken, Put
  <2>2. n \in 1..n /\ DOMAIN stack[u] = 1..n
    BY <1>1, <2>1
  <2>3. FrameOK(u, f)
    BY <2>1, <2>2 DEF ThreadOK
  <2>4. FrameOK(u, g)'
    <3>1. CASE f.cls = NoClass
      BY <2>1, <3>1 DEF FrameOK
    <3>2. CASE f.cls # NoClass
      <4>1. SuperReady(u, f.cls)
        BY <2>1, <2>3, <3>2 DEF FrameOK
      <4>2. PICK d \in Classes : d = f.cls
        BY <3>2 DEF Frames
      <4>3. SuperReady(u, d)'
        <5>1. Superclass[d] # NoClass => Superclass[d] \in Classes
          BY Hierarchy
        <5> QED BY <4>1, <4>2, <5>1, <1>1
                DEF Forward, SuperReady, SuperIsInitialized
      <4> HIDE DEF SuperReady
      <4> QED BY <2>1, <4>2, <4>3 DEF FrameOK, Initializes
    <3> QED BY <3>1, <3>2
  <2>5. LowerKept(u, n - 1)
    <3>1. 1..(n - 1) \subseteq DOMAIN stack[u]
      BY <2>2
    <3> QED BY <1>1, <3>1, KeptFrames
  <2>6. Lone(stack[u], n, g)
    <3>1. n = 1 => FALSE
      BY <2>1, <2>2 DEF ThreadOK, StackOK
    <3> QED BY <2>1, <3>1 DEF Lone, Initializes
  <2>7. /\ ThreadOK(u)' /\ stack'[u] \in Seq(Frames) /\ Len(stack'[u]) = n
        /\ \A i \in 1..n : i # n => stack'[u][i] = stack[u][i]
    BY <1>1, <2>1, <2>4, <2>5, <2>6, TopStep, ZenonT(60)
  <2>8. ASSUME NEW d, Runs(u, d)
        PROVE  Runs(u, d)'
    <3>1. PICK i \in 1..n : Initializes(stack[u][i], d)
      BY <2>2, <2>8 DEF Runs
    <3>2. i # n
      BY <2>1, <3>1 DEF Initializes
    <3>3. i \in DOMAIN stack'[u] /\ stack'[u][i] = stack[u][i]
      BY <2>7, <3>1, <3>2
    <3> QED BY <3>1, <3>3 DEF Runs
  <2> QED BY <2>1, <2>7, <2>8
<1> QED BY <1>2, <1>3

(* t finishes the classes F: c and those pending under it.                 *)
Finishes(t, c, F) ==
    /\ F \in SUBSET Classes /\ F \subseteq list[t] /\ c \in F
    /\ \A d \in F : d # c =>
           d \in pending /\ Superclass[d] \in Classes /\ Superclass[d] \in F
    /\ \A d \in Classes : d \in pending /\ Superclass[d] \in F => d \in F
    /\ SuperIsInitialized(c)
    /\ state' = [d \in Classes |-> IF d \in F THEN "initialized" ELSE state[d]]
    /\ list' = [list EXCEPT ![t] = @ \ F]
    /\ pending' = pending \ F
    /\ UNCHANGED <<program, live, halted>>

(* _finishInitializing does that, and is never fatal.                      *)
LEMMA FinishingIs ==
    ASSUME IndInv, NEW t \in Threads, _finishInitializing(t)
    PROVE  /\ \E F \in SUBSET Classes : Finishes(t, Cls(t), F)
           /\ stack' = [u \in Threads |-> IF u = t THEN After(t, stack[t])
                                          ELSE Notified(stack[u])]
<1>1. PICK c \in Classes : c = Cls(t) /\ c \in list[t] /\ ChildrenListed(t)
  BY FinishFacts DEF _finishInitializing
<1>2. PICK F \in SUBSET Classes : F = Finished(c)
  BY FinishedSelf
<1>3. F \subseteq list[t] /\ c \in F
  BY <1>1, <1>2, FinishedListed, FinishedSelf
<1>4. \A d \in F : d # c =>
           d \in pending /\ Superclass[d] \in Classes /\ Superclass[d] \in F
  BY <1>2, FinishedDown
<1>5. \A d \in Classes : d \in pending /\ Superclass[d] \in F => d \in F
  BY <1>2, FinishedUp
<1>6. /\ SuperIsInitialized(c)
      /\ state' = [d \in Classes |-> IF d \in F THEN "initialized" ELSE state[d]]
      /\ list' = [list EXCEPT ![t] = @ \ F]
      /\ pending' = pending \ F
      /\ stack' = [u \in Threads |-> IF u = t THEN After(t, stack[t])
                                          ELSE Notified(stack[u])]
      /\ UNCHANGED <<program, live, halted>>
  BY <1>1, <1>2, <1>3 DEF _finishInitializing
<1>7. Finishes(t, c, F)
  BY <1>3, <1>4, <1>5, <1>6 DEF Finishes
<1> QED BY <1>1, <1>6, <1>7

(* What that changes.                                                      *)
LEMMA FinishForward ==
    ASSUME IndInv, NEW t \in Threads, NEW c \in Classes, NEW F \in SUBSET Classes,
           Finishes(t, c, F)
    PROVE  /\ Forward
           /\ \A d \in F : state[d] = "initializing" /\ state'[d] = "initialized"
           /\ \A d \in Classes \ F : state'[d] = state[d]
           /\ list'[t] = list[t] \ F
           /\ \A u \in Threads \ {t} : list'[u] = list[u] /\ list[u] \cap F = {}
           /\ list' \in [Threads -> SUBSET Classes]
           /\ state' \in [Classes -> {"no", "initializing", "initialized"}]
<1>1. TypeOK /\ ListOK
  BY IndParts
<1>2. \A d \in F : state[d] = "initializing"
  BY <1>1 DEF Finishes, ListOK
<1>3. \A u \in Threads \ {t} : list[u] \cap F = {}
  BY <1>1 DEF Finishes, ListOK
<1>4. /\ \A d \in F : state'[d] = "initialized"
      /\ \A d \in Classes \ F : state'[d] = state[d]
      /\ list'[t] = list[t] \ F
      /\ \A u \in Threads \ {t} : list'[u] = list[u]
      /\ list' \in [Threads -> SUBSET Classes]
      /\ state' \in [Classes -> {"no", "initializing", "initialized"}]
  BY <1>1 DEF Finishes, TypeOK
<1>5. Forward
  BY <1>4 DEF Finishes, Forward, MultithreadedForkChild
<1> QED BY <1>2, <1>3, <1>4, <1>5

(* SubtreeOK after that: F has, with a class under c, its superclass.      *)
LEMMA FinishSubtree ==
    ASSUME IndInv, NEW t \in Threads, NEW c \in Classes, NEW F \in SUBSET Classes,
           Finishes(t, c, F)
    PROVE  SubtreeOK'
<1>1. SubtreeOK /\ ListOK
  BY IndParts
<1>2. /\ \A d \in F : state[d] = "initializing" /\ state'[d] = "initialized"
      /\ \A d \in Classes \ F : state'[d] = state[d]
      /\ list'[t] = list[t] \ F
      /\ \A u \in Threads \ {t} : list'[u] = list[u] /\ list[u] \cap F = {}
  BY FinishForward
<1> SUFFICES ASSUME NEW e \in Classes, Superclass[e] # NoClass, state'[e] # "no"
             PROVE  \/ state'[Superclass[e]] = "initialized"
                    \/ /\ state'[e] = "initializing"
                       /\ state'[Superclass[e]] = "initializing"
                       /\ \A u \in Threads : e \in list'[u] =>
                              Superclass[e] \in list'[u]
  BY DEF SubtreeOK
<1>3. PICK s \in Classes : s = Superclass[e]
  BY Hierarchy
<1>4. s \in F \/ state[s] = "initialized" => state'[s] = "initialized"
  BY <1>2
<1>5. e \in F => s \in F \/ state[s] = "initialized"
  BY <1>3 DEF Finishes, SuperIsInitialized
<1>6. CASE e \notin F /\ s \notin F /\ state[s] # "initialized"
  <2>1. state'[e] = state[e] /\ state'[s] = state[s]
    BY <1>2, <1>6
  <2>2. /\ state[e] = "initializing" /\ state[s] = "initializing"
        /\ \A u \in Threads : e \in list[u] => s \in list[u]
    BY <1>1, <1>3, <1>6, <2>1 DEF SubtreeOK
  <2>3. \A u \in Threads : e \in list'[u] => s \in list'[u]
    BY <1>2, <1>6, <2>2
  <2> QED BY <1>3, <2>1, <2>2, <2>3
<1> QED BY <1>3, <1>4, <1>5, <1>6

(* It does not disturb the calls below.                                    *)
LEMMA FinishLower ==
    ASSUME IndInv, NEW t \in Threads, NEW c \in Classes, NEW F \in SUBSET Classes,
           Finishes(t, c, F),
           NEW s, NEW n \in Nat \ {0}, NEW f,
           TopIs(t, s, n, f), f.cls = c, Initializes(f, c)
    PROVE  LowerKept(t, n - 1)
<1>1. c # NoClass /\ f.cls # NoClass /\ Initializes(f, f.cls)
  BY Hierarchy
<1>2. /\ Forward
      /\ \A d \in F : state'[d] = "initialized"
      /\ list'[t] = list[t] \ F
  BY FinishForward
<1> SUFFICES ASSUME NEW i \in 1..(n - 1)
             PROVE  FrameKept(t, stack[t][i])
  BY DEF LowerKept
<1>3. PICK h \in Frames : /\ h = s[i] /\ h = stack[t][i] /\ FrameOK(t, h)
                          /\ h.pc \in {"body", "super"}
  BY LowerFrame
<1>4. CASE h.cls = NoClass
  BY <1>3, <1>4 DEF FrameKept
<1>5. CASE h.cls # NoClass
  <2>1. PICK d \in Classes : d = h.cls /\ d # NoClass
    BY <1>5 DEF Frames
  <2>2. ASSUME Initializes(h, d)
        PROVE  d \in list'[t] /\ d \notin pending'
    <3>1. Initializes(s[i], d)
      BY <1>3, <2>2
    <3>2. d # c /\ d \in list[t] /\ d \notin pending
      BY <1>1, <2>1, <3>1, LowerRuns
    <3>3. d \notin F
      BY <3>2 DEF Finishes
    <3> QED BY <1>2, <3>2, <3>3 DEF Finishes
  <2>3. SuperReady(t, d) => SuperReady(t, d)'
    <3>1. Superclass[d] # NoClass => Superclass[d] \in Classes
      BY Hierarchy
    <3> QED BY <1>2, <3>1 DEF Forward, SuperReady, SuperIsInitialized
  <2>4. h.pc = "body" => Initializes(h, d)
    BY <2>1 DEF Initializes
  <2>5. h.pc # "fork"
    BY <1>3
  <2>6. FrameKept(t, h)
    BY <2>1, <2>2, <2>3, <2>4, <2>5, Kept
  <2> QED BY <1>3, <2>6
<1> QED BY <1>4, <1>5

(* _finishInitializing keeps the invariant.                                *)
LEMMA FinishInd ==
    ASSUME IndInv, NEW t \in Threads, _finishInitializing(t)
    PROVE  IndInv'
<1>1. /\ TypeOK /\ ForkOK /\ ListOK /\ PendingOK /\ SubtreeOK
      /\ \A u \in live : ThreadOK(u)
  BY IndParts
<1>2. PICK s \in Seq(Frames), n \in Nat \ {0}, f \in Frames, c \in Classes :
          /\ TopIs(t, s, n, f) /\ n # 1
          /\ f.pc \in {"finish", "throw"} /\ f.cls = c /\ Cls(t) = c
          /\ c # NoClass /\ Initializes(f, c)
          /\ t \in live /\ halted = "no" /\ ThreadOK(t) /\ ChildrenListed(t)
          /\ c \in list[t] /\ state[c] = "initializing" /\ SuperReady(t, c)
  BY FinishFacts, ZenonT(60) DEF _finishInitializing
<1>3. PICK F \in SUBSET Classes : Finishes(t, c, F)
  BY <1>2, FinishingIs
<1>4. /\ Forward
      /\ \A d \in F : state[d] = "initializing" /\ state'[d] = "initialized"
      /\ \A d \in Classes \ F : state'[d] = state[d]
      /\ list'[t] = list[t] \ F
      /\ \A u \in Threads \ {t} : list'[u] = list[u] /\ list[u] \cap F = {}
      /\ list' \in [Threads -> SUBSET Classes]
      /\ state' \in [Classes -> {"no", "initializing", "initialized"}]
  BY <1>3, FinishForward
<1>5. /\ F \subseteq list[t] /\ c \in F
      /\ \A d \in Classes : d \in pending /\ Superclass[d] \in F => d \in F
      /\ pending' = pending \ F
      /\ UNCHANGED <<program, live, halted>>
  BY <1>3 DEF Finishes
<1>6. /\ stack'[t] = After(t, s)
      /\ \A u \in Threads \ {t} : stack'[u] = Notified(stack[u])
      /\ stack' = [u \in Threads |-> stack'[u]]
  <2>1. s = stack[t]
    BY <1>2 DEF TopIs
  <2> QED BY <2>1, FinishingIs
<1>7. /\ ThreadOK(t)' /\ stack'[t] \in Seq(Frames)
      /\ \A d \in Classes : d # c /\ Runs(t, d) => Runs(t, d)'
  <2>1. LowerKept(t, n - 1)
    BY <1>2, <1>3, FinishLower
  <2>2. state'[c] = "initialized"
    BY <1>4, <1>5
  <2>3. TypeOK /\ ThreadOK(t) /\ Forward /\ TopIs(t, s, n, f) /\ n # 1
        /\ f.pc \in {"finish", "throw"} /\ f.cls = c
        /\ stack'[t] = After(t, s)
    BY <1>1, <1>2, <1>4, <1>6
  <2> QED BY <2>1, <2>2, <2>3, AfterStep
<1>8. ASSUME NEW u \in live, u # t
      PROVE  /\ ThreadOK(u)'
             /\ \A d : Runs(u, d) => Runs(u, d)'
             /\ Last(stack[u]).pc = "fork" => stack'[u] = stack[u]
  <2>1. u \in Threads /\ ThreadOK(u)
    BY <1>1 DEF TypeOK
  <2>2. list'[u] = list[u] /\ pending' \subseteq pending
        /\ stack'[u] = Notified(stack[u])
    BY <1>4, <1>5, <1>6, <1>8, <2>1
  <2> QED BY <1>1, <1>4, <2>1, <2>2, NotifiedStep
<1>9. ASSUME NEW u \in Threads, u \notin live
      PROVE  stack'[u] = <<>> /\ list'[u] = {} /\ u # t
  <2>1. stack[u] = <<>> /\ list[u] = {} /\ u # t
    BY <1>1, <1>2, <1>9 DEF ForkOK
  <2>2. stack[u] \in Seq(Frames)
    BY <1>1 DEF TypeOK
  <2> QED BY <1>4, <1>6, <2>1, <2>2, NotifiedStack
<1>10. TypeOK'
  <2>1. ASSUME NEW u \in Threads
        PROVE  stack'[u] \in Seq(Frames)
    <3>1. stack[u] \in Seq(Frames)
      BY <1>1 DEF TypeOK
    <3> QED BY <1>6, <1>7, <3>1, NotifiedStack
  <2>2. stack' \in [Threads -> Seq(Frames)]
    BY <1>6, <2>1
  <2> QED BY <1>1, <1>4, <1>5, <2>2 DEF TypeOK
<1>11. \A u \in live' : ThreadOK(u)'
  BY <1>5, <1>7, <1>8
<1>12. ForkOK'
  BY <1>1, <1>5, <1>9 DEF ForkOK, MultithreadedForkChild
<1>13. ListOK'
  <2>1. ASSUME NEW u \in Threads, NEW d \in list'[u]
        PROVE  state'[d] = "initializing" /\ (d \in pending' \/ Runs(u, d)')
    <3>1. d \in list[u] /\ d \notin F /\ d \in Classes /\ d # c
      BY <1>4, <1>5, <2>1
    <3>2. state[d] = "initializing" /\ (d \in pending \/ Runs(u, d))
      BY <1>1, <3>1 DEF ListOK, Runs
    <3>3. u \in live
      BY <1>9, <2>1
    <3>4. Runs(u, d) => Runs(u, d)'
      BY <1>7, <1>8, <3>1, <3>3
    <3> QED BY <1>4, <1>5, <3>1, <3>2, <3>4
  <2>2. \A u, v \in Threads : u # v => list'[u] \cap list'[v] = {}
    BY <1>1, <1>4, <1>2 DEF ListOK
  <2> QED BY <2>1, <2>2 DEF ListOK, Runs
<1>14. PendingOK'
  <2> SUFFICES ASSUME NEW d \in pending'
               PROVE  /\ state'[d] = "initializing"
                      /\ Superclass[d] # NoClass
                      /\ state'[Superclass[d]] = "initializing"
                      /\ Superclass[d] \notin pending' => Body(Superclass[d])' # {}
                      /\ \A u \in live' : Superclass[d] \in list'[u] =>
                            \/ d \in list'[u]
                            \/ /\ Last(stack[u])'.pc = "fork"
                               /\ Last(stack[u])'.cls = Superclass[d]
    BY DEF PendingOK
  <2>1. d \in pending /\ d \notin F /\ d \in Classes
    BY <1>1, <1>5 DEF TypeOK
  <2>2. PICK e \in Classes :
              /\ e = Superclass[d] /\ e # NoClass
              /\ state[d] = "initializing" /\ state[e] = "initializing"
              /\ e \notin pending => Body(e) # {}
    BY <1>1, <2>1, Hierarchy DEF PendingOK
  <2>3. e \notin F
    BY <1>5, <2>1, <2>2
  <2>4. Body(e)' = Body(e)
    BY <1>5 DEF Body
  <2>5. ASSUME NEW u \in live, e \in list'[u]
        PROVE  \/ d \in list'[u]
               \/ Last(stack[u])'.pc = "fork" /\ Last(stack[u])'.cls = e
    <3>1. u \in Threads /\ e \in list[u]
      BY <1>1, <1>4, <2>5 DEF TypeOK
    <3>2. CASE d \in list[u]
      BY <1>4, <2>1, <3>1, <3>2
    <3>3. CASE d \notin list[u]
      <4>1. Last(stack[u]).pc = "fork" /\ Last(stack[u]).cls = e
        BY <1>1, <2>1, <2>2, <3>1, <3>3 DEF PendingOK
      <4>2. u # t
        BY <1>2, <2>1, <2>2, <3>1, <3>3 DEF ChildrenListed
      <4>3. stack'[u] = stack[u]
        BY <1>8, <4>1, <4>2
      <4>4. Last(stack[u])' = Last(stack[u])
        BY <4>3 DEF Last
      <4> QED BY <4>1, <4>4
    <3> QED BY <3>2, <3>3
  <2> QED BY <1>4, <1>5, <2>1, <2>2, <2>3, <2>4, <2>5
<1>15. SubtreeOK'
  BY <1>3, FinishSubtree
<1>16. halted' # "fatal"
  BY <1>2, <1>5
<1> QED BY <1>10, <1>11, <1>12, <1>13, <1>14, <1>15, <1>16 DEF IndInv

-----------------------------------------------------------------------------
(* The theorems.                                                           *)

(* The invariant holds at the start,                                       *)
LEMMA InitInd ==
    ASSUME Init
    PROVE  IndInv
<1>1. PICK p \in Programs : p = program
  BY DEF Init
<1>2. /\ state = [c \in Classes |-> "no"] /\ list = [t \in Threads |-> {}]
      /\ pending = {} /\ live = Threads /\ halted = "no"
      /\ stack = [t \in Threads |-> <<Frame(NoClass, "body", Sends[t])>>]
  BY DEF Init
<1>3. ASSUME NEW t \in Threads
      PROVE  \E f \in Frames : stack[t] = <<f>> /\ f.cls = NoClass /\ f.pc = "body"
  <2>1. PICK b \in SUBSET Classes : b = Sends[t]
    BY Hierarchy
  <2>2. Frame(NoClass, "body", b) \in Frames
    BY DEF Frame, Frames
  <2>3. stack[t] = <<Frame(NoClass, "body", b)>>
    BY <1>2, <2>1
  <2> QED BY <2>2, <2>3 DEF Frame
<1>4. TypeOK
  <2>1. ASSUME NEW t \in Threads
        PROVE  stack[t] \in Seq(Frames)
    <3>1. PICK f \in Frames : stack[t] = <<f>>
      BY <1>3
    <3>2. <<f>> \in Seq(Frames)
      BY DEF Frames
    <3> QED BY <3>1, <3>2
  <2>2. stack \in [Threads -> Seq(Frames)]
    BY <1>2, <2>1
  <2> QED BY <1>1, <1>2, <2>2 DEF TypeOK
<1>5. ASSUME NEW t \in Threads
      PROVE  ThreadOK(t)
  <2>1. PICK f \in Frames : stack[t] = <<f>> /\ f.cls = NoClass /\ f.pc = "body"
    BY <1>3
  <2>2. StackOK(<<f>>)
    BY <2>1 DEF StackOK
  <2>3. FrameOK(t, f)
    BY <2>1 DEF FrameOK
  <2> QED BY <2>1, <2>2, <2>3 DEF ThreadOK
<1>6. ForkOK
  BY <1>2 DEF ForkOK, MultithreadedForkChild
<1>7. ListOK /\ PendingOK /\ SubtreeOK
  BY <1>2 DEF ListOK, PendingOK, SubtreeOK
<1> QED BY <1>2, <1>4, <1>5, <1>6, <1>7 DEF IndInv

(* ... is kept where nothing happens,                                      *)
LEMMA StutterInd ==
    ASSUME IndInv, UNCHANGED vars
    PROVE  IndInv'
<1>1. /\ TypeOK /\ halted # "fatal" /\ ForkOK /\ ListOK /\ PendingOK
      /\ SubtreeOK /\ \A t \in live : ThreadOK(t)
  BY IndParts
<1>2. /\ UNCHANGED <<program, state, list, pending, stack, live, halted>>
      /\ Quiet
  BY DEF vars, Quiet
<1>3. TypeOK' /\ ForkOK' /\ ListOK' /\ SubtreeOK'
  BY <1>1, <1>2 DEF TypeOK, ForkOK, ListOK, SubtreeOK, MultithreadedForkChild,
                    Initializes
<1>4. PendingOK'
  BY <1>1, <1>2 DEF PendingOK, Last, Body, Implementers
<1>5. ASSUME NEW t \in live
      PROVE  ThreadOK(t)'
  <2>1. t \in Threads /\ ThreadOK(t) /\ stack'[t] = stack[t]
        /\ list[t] \subseteq list'[t] /\ pending' \subseteq pending
    BY <1>1, <1>2 DEF TypeOK
  <2> QED BY <1>1, <1>2, <2>1, QuietForward, ThreadStays
<1> QED BY <1>1, <1>2, <1>3, <1>4, <1>5 DEF IndInv

(* ... and by every step.                                                  *)
LEMMA IndStep ==
    ASSUME IndInv, [Next]_vars
    PROVE  IndInv'
<1>1. CASE UNCHANGED vars
  BY <1>1, StutterInd
<1>2. CASE Next
  <2>1. PICK t \in Threads : \/ RuntimeStep(t) \/ ProgramStep(t)
                             \/ InitializeThrows(t) \/ Fork(t)
    BY <1>2 DEF Next
  <2>2. CASE RuntimeStep(t)
    BY <2>2, InitializeSuperInd, SetInitializingInd, AlreadyInd,
       IsInitializingInd, IsInitializedInd, WaitInd, PerformForkInd,
       FinishInd, FinishAfterInd DEF RuntimeStep
  <2>3. CASE ProgramStep(t)
    BY <2>3, SendInd, ReturnsInd DEF ProgramStep
  <2>4. CASE InitializeThrows(t) \/ Fork(t)
    BY <2>4, ThrowsInd, ForkInd
  <2> QED BY <2>1, <2>2, <2>3, <2>4
<1> QED BY <1>1, <1>2

(* The inductive invariant of the +initialize protocol.                    *)
THEOREM Invariance == Spec => []IndInv
<1>1. Init => IndInv
  BY InitInd
<1>2. IndInv /\ [Next]_vars => IndInv'
  BY IndStep
<1> QED BY <1>1, <1>2, PTL DEF Spec

(* Type correctness of the model.                                          *)
THEOREM TypeCorrect == Spec => []TypeOK
<1>1. IndInv => TypeOK
  BY IndParts
<1> QED BY <1>1, Invariance, PTL

(* The initializing and initialized part of the hierarchy is a contiguous  *)
(* subtree that starts at the root, and a class under a superclass that is *)
(* still initializing belongs to the thread of that (objc-                 *)
(* initialize.mm:88): for any number of threads, any hierarchy and any     *)
(* +initialize methods.                                                    *)
THEOREM ContiguousSubtree == Spec => []Contiguous
<1>1. IndInv => Contiguous
  <2> SUFFICES ASSUME IndInv, NEW c \in Classes
               PROVE  /\ Cardinality(Initializers(c)) <= 1
                      /\ Superclass[c] # NoClass /\ state[c] # "no" =>
                             \/ state[Superclass[c]] = "initialized"
                             \/ /\ state[c] = "initializing"
                                /\ state[Superclass[c]] = "initializing"
                                /\ Initializers(c) \subseteq
                                       Initializers(Superclass[c])
    BY DEF Contiguous
  <2>1. TypeOK /\ ListOK /\ SubtreeOK
    BY IndParts
  <2>2. Initializers(c) = {} \/ \E t \in Threads : Initializers(c) = {t}
    BY <2>1 DEF Initializers, ListOK, TypeOK
  <2>3. Cardinality(Initializers(c)) <= 1
    BY <2>2, FS_EmptySet, FS_Singleton
  <2>4. \A d : d \in Classes /\ (\A t \in Threads : c \in list[t] => d \in list[t])
               => Initializers(c) \subseteq Initializers(d)
    BY <2>1 DEF Initializers, TypeOK
  <2>5. Superclass[c] # NoClass => Superclass[c] \in Classes
    BY Hierarchy
  <2> QED BY <2>1, <2>3, <2>4, <2>5 DEF SubtreeOK
<1> QED BY <1>1, Invariance, PTL

-----------------------------------------------------------------------------
(* Who waits.                                                              *)

(* A call of t returns.                                                    *)
Shorter(t) == Len(stack'[t]) < Len(stack[t])

(* t returns from a call for its class, which is initialized or its own.   *)
Answered(t) ==
    /\ Len(stack'[t]) = Len(stack[t]) - 1
    /\ \/ state'[stack[t][Len(stack[t])].cls] = "initialized"
       \/ stack[t][Len(stack[t])].cls \in list'[t]

(* What a step does for OthersWait.                                        *)
Waits(t) == Shorter(t) => Answered(t) \/ Last(stack[t]).pc = "throw"

(* A step that shortens no stack,                                          *)
LEMMA SameLength ==
    ASSUME IndInv, NEW t \in Threads, NEW p, At(t, p), NEW z \in Seq(Frames),
           Len(z) >= Len(stack[t]), stack' = [stack EXCEPT ![t] = z]
    PROVE  \A u \in Threads : Waits(u)
<1>1. stack \in [Threads -> Seq(Frames)]
  BY IndParts DEF TypeOK
<1>2. ASSUME NEW u \in Threads
      PROVE  ~ Shorter(u)
  <2>1. Len(stack[u]) \in Nat /\ Len(z) \in Nat /\ Len(stack[t]) \in Nat
    BY <1>1
  <2>2. CASE u = t
    BY <1>1, <2>1, <2>2 DEF Shorter
  <2>3. CASE u # t
    BY <1>1, <2>1, <2>3 DEF Shorter
  <2> QED BY <2>2, <2>3
<1> QED BY <1>2 DEF Waits

(* ... that changes none,                                                  *)
LEMMA SameStacks ==
    ASSUME IndInv, stack' = stack
    PROVE  \A u \in Threads : Waits(u)
<1>1. \A u \in Threads : Len(stack[u]) \in Nat
  BY IndParts DEF TypeOK
<1> QED BY <1>1 DEF Waits, Shorter

(* ... that goes on in a call,                                             *)
LEMMA GotoWaits ==
    ASSUME IndInv, NEW t \in Threads, NEW p, At(t, p), NEW pc \in Pcs,
           Goto(t, pc)
    PROVE  \A u \in Threads : Waits(u)
<1>1. PICK s \in Seq(Frames), n \in Nat \ {0}, f \in Frames : TopIs(t, s, n, f)
  BY AtFacts
<1>2. PICK g \in Frames : g = [f EXCEPT !.pc = pc]
  BY GotoFrame
<1>3. s = stack[t] /\ n = Len(s) /\ f = s[n] /\ n \in 1..Len(s) /\ DOMAIN s = 1..n
      /\ stack \in [Threads -> Seq(Frames)]
  BY <1>1, IndParts DEF TopIs, TypeOK
<1>4. PICK z \in Seq(Frames) : z = [s EXCEPT ![n] = g] /\ Len(z) = Len(s)
  <2>1. [s EXCEPT ![n] = g] \in Seq(Frames) /\ Len([s EXCEPT ![n] = g]) = Len(s)
    BY <1>3, Replaced
  <2> QED BY <2>1
<1>5. stack' = [stack EXCEPT ![t] = z]
  BY <1>2, <1>3, <1>4 DEF Goto
<1>6. Len(z) >= Len(stack[t])
  BY <1>3, <1>4
<1> QED BY <1>5, <1>6, SameLength

(* A return drops one frame.                                               *)
LEMMA PoppedLength ==
    ASSUME NEW s \in Seq(Frames), NEW n \in Nat \ {0}, n = Len(s), n # 1
    PROVE  Len(Popped(s)) = n - 1 /\ Popped(s) \in Seq(Frames)
<1>1. PICK m \in Nat \ {0} : m = n - 1 /\ m \in 1..Len(s)
  BY OneLess
<1>2. PICK z \in Seq(Frames) : z = SubSeq(s, 1, m) /\ Len(z) = m /\ z = Front(s)
  BY <1>1, Shortened DEF Front
<1>3. PICK f \in Frames : f = z[m] /\ f = Last(Front(s))
  BY <1>1, <1>2 DEF Last
<1>4. PICK g \in Frames : g = [f EXCEPT !.pc = "lock"]
  BY GotoFrame DEF Pcs
<1>5. PICK y \in Seq(Frames) : y = [z EXCEPT ![m] = g] /\ Len(y) = m
  <2>1. [z EXCEPT ![m] = g] \in Seq(Frames) /\ Len([z EXCEPT ![m] = g]) = Len(z)
    BY <1>1, <1>2, Replaced
  <2> QED BY <1>2, <2>1
<1>6. Popped(s) = y \/ Popped(s) = z
  BY <1>1, <1>2, <1>3, <1>4, <1>5 DEF Popped
<1> QED BY <1>1, <1>2, <1>5, <1>6

(* ... that returns with the class initialized or on the list,             *)
LEMMA ReturnWaits ==
    ASSUME IndInv, NEW t \in Threads, NEW p, At(t, p), p # "body",
           state[Cls(t)] = "initialized" \/ Cls(t) \in list[t],
           Return(t), UNCHANGED <<state, list>>
    PROVE  \A u \in Threads : Waits(u)
<1>1. PICK s \in Seq(Frames), n \in Nat \ {0}, f \in Frames :
          TopIs(t, s, n, f) /\ f.cls = Cls(t) /\ f.cls \in Classes
  BY AtFacts
<1>2. /\ s = stack[t] /\ n = Len(s) /\ f = s[n] /\ n # 1
      /\ stack \in [Threads -> Seq(Frames)]
  BY <1>1, Hierarchy, IndParts DEF TopIs, TypeOK
<1>3. stack'[t] = Popped(s) /\ \A u \in Threads \ {t} : stack'[u] = stack[u]
  BY <1>2 DEF Return
<1>4. Answered(t)
  BY <1>1, <1>2, <1>3, PoppedLength DEF Answered
<1>5. \A u \in Threads \ {t} : ~ Shorter(u)
  BY <1>2, <1>3 DEF Shorter
<1> QED BY <1>4, <1>5 DEF Waits

(* ... that finishes a class,                                              *)
LEMMA FinishWaits ==
    ASSUME IndInv, NEW t \in Threads, Finishing(t),
           stack'[t] = After(t, stack[t]),
           state'[Cls(t)] = "initialized" \/ Cls(t) \in list'[t],
           \A u \in Threads \ {t} : ~ Shorter(u)
    PROVE  \A u \in Threads : Waits(u)
<1>1. PICK s \in Seq(Frames), n \in Nat \ {0}, f \in Frames, c \in Classes :
               /\ TopIs(t, s, n, f) /\ n # 1
               /\ f.pc \in {"finish", "throw"} /\ f.cls = c /\ Cls(t) = c
  BY FinishFacts
<1>2. s = stack[t] /\ n = Len(s) /\ f = s[n] /\ f = Last(stack[t])
  BY <1>1 DEF TopIs
<1>3. CASE f.pc = "finish"
  <2>1. stack'[t] = Popped(s)
    BY <1>2, <1>3 DEF After
  <2>2. Answered(t)
    BY <1>1, <1>2, <2>1, PoppedLength DEF Answered
  <2> QED BY <2>2 DEF Waits
<1>4. CASE f.pc = "throw"
  BY <1>2, <1>4 DEF Waits
<1> QED BY <1>1, <1>3, <1>4 DEF Waits

(* notifyAll() shortens no stack.                                          *)
LEMMA NotShorter ==
    ASSUME NEW s \in Seq(Frames)
    PROVE  Len(Notified(s)) = Len(s)
<1>1. CASE Notified(s) = s
  BY <1>1
<1>2. CASE Woken(s, Notified(s))
  <2>1. PICK n \in Nat \ {0}, g \in Frames : n = Len(s) /\ Notified(s) = Put(s, n, g)
    BY <1>2 DEF Woken
  <2>2. n \in 1..Len(s)
    BY <2>1
  <2> QED BY <2>1, <2>2, Replaced DEF Put
<1> QED BY <1>1, <1>2, NotifiedStack
(* A step of the runtime answers only calls for classes that are           *)
(* initialized or the caller's own.                                        *)
LEMMA RuntimeWaits ==
    ASSUME IndInv, NEW t \in Threads, RuntimeStep(t)
    PROVE  \A u \in Threads : Waits(u)
<1>1. ASSUME NEW p, At(t, p), NEW pc \in Pcs, Goto(t, pc)
      PROVE  \A u \in Threads : Waits(u)
  BY <1>1, GotoWaits
<1>2. ASSUME NEW p, At(t, p), p # "body",
             state[Cls(t)] = "initialized" \/ Cls(t) \in list[t],
             Return(t), UNCHANGED <<state, list>>
      PROVE  \A u \in Threads : Waits(u)
  BY <1>2, ReturnWaits
<1>3. CASE InitializeSuper(t)
  <2>1. At(t, "super")
    BY <1>3 DEF InitializeSuper
  <2>2. CASE Goto(t, "lock")
    BY <2>1, <2>2, <1>1 DEF Pcs
  <2>3. CASE \E c \in Classes : Call(t, c)
    <3>1. PICK c \in Classes : Call(t, c)
      BY <2>3
    <3>2. PICK g \in Frames : g = Frame(c, "super", {})
      BY CallFrame
    <3>3. PICK s \in Seq(Frames) : s = stack[t]
      BY IndParts DEF TypeOK
    <3>4. PICK z \in Seq(Frames) : z = Append(s, g) /\ Len(z) = Len(s) + 1
      BY Appended
    <3>5. Len(s) \in Nat /\ Len(z) >= Len(s)
      BY <3>4
    <3>6. stack' = [stack EXCEPT ![t] = z]
      BY <3>1, <3>2, <3>3, <3>4, IndParts DEF Call, TypeOK
    <3> QED BY <2>1, <3>3, <3>5, <3>6, SameLength
  <2>4. Superclass[Cls(t)] # NoClass => Superclass[Cls(t)] \in Classes
    BY <2>1, CallClass, Hierarchy
  <2> QED BY <1>3, <2>2, <2>3, <2>4 DEF InitializeSuper
<1>4. CASE SetInitializing(t)
  <2>1. At(t, "lock") /\ t \in Threads
    BY <1>4 DEF SetInitializing
  <2>2. CASE Goto(t, "fork")
    BY <2>1, <2>2, <1>1 DEF Pcs
  <2>3. CASE stack' = stack
    BY <2>3, SameStacks
  <2>4. CASE stack' = [stack EXCEPT ![t][Len(stack[t])] =
                           Frame(Cls(t), "body", Body(Cls(t)))]
    <3>1. PICK s \in Seq(Frames), n \in Nat \ {0}, f \in Frames :
              TopIs(t, s, n, f)
      BY <2>1, AtFacts
    <3>2. s = stack[t] /\ n = Len(s) /\ n \in 1..Len(s)
          /\ stack \in [Threads -> Seq(Frames)]
      BY <3>1, IndParts DEF TopIs, TypeOK
    <3>3. PICK c \in Classes : c = Cls(t)
      BY <2>1, CallClass
    <3>4. PICK b \in SUBSET Classes : b = Body(c)
      BY BodyType, IndParts DEF TypeOK
    <3>5. PICK g \in Frames : g = Frame(c, "body", b)
      BY DEF Frame, Frames
    <3>6. [s EXCEPT ![n] = g] \in Seq(Frames) /\ Len([s EXCEPT ![n] = g]) = Len(s)
      BY <3>2, Replaced
    <3>7. PICK z \in Seq(Frames) : z = [s EXCEPT ![n] = g] /\ Len(z) = Len(s)
      BY <3>6
    <3>8. stack' = [stack EXCEPT ![t] = z]
      BY <2>4, <3>2, <3>3, <3>4, <3>5, <3>7
    <3>9. Len(z) >= Len(stack[t])
      BY <3>2, <3>7
    <3> QED BY <2>1, <3>8, <3>9, SameLength
  <2> QED BY <1>4, <2>2, <2>3, <2>4 DEF SetInitializing, Fatal
<1>5. CASE SetAlready(t)
  <2>1. At(t, "lock") /\ Goto(t, "initializing") /\ "initializing" \in Pcs
    BY <1>5 DEF SetAlready, Pcs
  <2> QED BY <2>1, <1>1
<1>6. CASE IsInitializing(t)
  <2>1. At(t, "initializing")
    BY <1>6 DEF IsInitializing
  <2>2. {"initialized", "wait", "fork"} \subseteq Pcs
    BY DEF Pcs
  <2>3. CASE Goto(t, "initialized") \/ Goto(t, "wait") \/ Goto(t, "fork")
    BY <1>1, <2>1, <2>2, <2>3
  <2>4. CASE Cls(t) \in list[t] /\ Return(t) /\ UNCHANGED <<state, list>>
    <3>1. PICK p : p = "initializing" /\ p # "body"
      OBVIOUS
    <3> QED BY <1>2, <2>1, <2>4, <3>1
  <2> QED BY <1>6, <2>3, <2>4 DEF IsInitializing
<1>7. CASE IsInitialized(t)
  <2>1. At(t, "initialized")
    BY <1>7 DEF IsInitialized
  <2>2. CASE state[Cls(t)] = "initialized" /\ Return(t) /\ UNCHANGED <<state, list>>
    <3>1. PICK p : p = "initialized" /\ p # "body"
      OBVIOUS
    <3> QED BY <1>2, <2>1, <2>2, <3>1
  <2>3. CASE stack' = stack
    BY <2>3, SameStacks
  <2> QED BY <1>7, <2>2, <2>3 DEF IsInitialized, Fatal
<1>8. CASE waitForInitializeToComplete(t)
  <2>1. At(t, "wait") /\ "waiting" \in Pcs
    BY <1>8 DEF waitForInitializeToComplete, Pcs
  <2>2. CASE state[Cls(t)] = "initialized" /\ Return(t) /\ UNCHANGED <<state, list>>
    <3>1. PICK p : p = "wait" /\ p # "body"
      OBVIOUS
    <3> QED BY <1>2, <2>1, <2>2, <3>1
  <2>3. CASE Goto(t, "waiting")
    BY <1>1, <2>1, <2>3
  <2> QED BY <1>8, <2>2, <2>3 DEF waitForInitializeToComplete
<1>9. CASE performForkChildInitialize(t)
  <2>1. At(t, "fork") /\ "finish" \in Pcs
    BY <1>9 DEF performForkChildInitialize, Pcs
  <2>2. CASE Goto(t, "finish")
    BY <1>1, <2>1, <2>2
  <2>3. CASE stack' = stack
    BY <2>3, SameStacks
  <2> QED BY <1>9, <2>2, <2>3 DEF performForkChildInitialize
<1>10. CASE _finishInitializing(t)
  <2>1. Finishing(t)
    BY <1>10 DEF _finishInitializing
  <2>2. PICK c \in Classes : c = Cls(t)
    BY <2>1, FinishFacts
  <2>3. PICK F \in SUBSET Classes : Finishes(t, c, F)
    BY <1>10, <2>2, FinishingIs
  <2>4. c \in F /\ state'[c] = "initialized"
    BY <2>3, FinishForward DEF Finishes
  <2>5. stack' = [u \in Threads |-> IF u = t THEN After(t, stack[t])
                                    ELSE Notified(stack[u])]
    BY <1>10, FinishingIs
  <2>6. ASSUME NEW u \in Threads \ {t}
        PROVE  ~ Shorter(u)
    <3>1. stack[u] \in Seq(Frames) /\ stack'[u] = Notified(stack[u])
      BY <2>5, IndParts DEF TypeOK
    <3>2. Len(stack'[u]) = Len(stack[u]) /\ Len(stack[u]) \in Nat
      BY <3>1, NotShorter
    <3> QED BY <3>2 DEF Shorter
  <2> QED BY <2>1, <2>2, <2>4, <2>5, <2>6, FinishWaits
<1>11. CASE _finishInitializingAfter(t)
  <2>1. Finishing(t)
    BY <1>11 DEF _finishInitializingAfter
  <2>2. Cls(t) \in list[t]
    BY <2>1, FinishFacts
  <2>3. stack' = [stack EXCEPT ![t] = After(t, @)] /\ list' = list
        /\ stack \in [Threads -> Seq(Frames)]
    BY <1>11, IndParts DEF _finishInitializingAfter, TypeOK
  <2>4. \A u \in Threads \ {t} : ~ Shorter(u)
    BY <2>3 DEF Shorter
  <2>5. stack'[t] = After(t, stack[t])
    BY <2>3
  <2> QED BY <2>1, <2>2, <2>3, <2>4, <2>5, FinishWaits
<1> QED BY <1>3, <1>4, <1>5, <1>6, <1>7, <1>8, <1>9, <1>10, <1>11 DEF RuntimeStep

(* A step of the program answers no call.                                  *)
LEMMA ProgramWaits ==
    ASSUME IndInv, NEW t \in Threads,
           ProgramStep(t) \/ InitializeThrows(t) \/ Fork(t)
    PROVE  \A u \in live' : Waits(u)
<1>1. live' \subseteq Threads
  BY IndParts DEF TypeOK, ProgramStep, Send, InitializeReturns, InitializeThrows,
                  Fork
<1>2. CASE Send(t)
  <2>1. At(t, "body")
    BY <1>2 DEF Send
  <2>2. PICK s \in Seq(Frames), n \in Nat \ {0}, f \in Frames : TopIs(t, s, n, f)
    BY <2>1, AtFacts
  <2>3. s = stack[t] /\ n = Len(s) /\ n \in 1..Len(s) /\ f = s[n]
        /\ f = Last(stack[t]) /\ stack \in [Threads -> Seq(Frames)]
    BY <2>2, IndParts DEF TopIs, TypeOK
  <2>4. PICK c \in f.todo :
           LET sent == [stack[t] EXCEPT ![Len(stack[t])].todo = @ \ {c}]
           IN  stack' = [stack EXCEPT
                   ![t] = IF state[c] = "initialized" THEN sent
                          ELSE Append(sent, Frame(c, "super", {}))]
    BY <1>2, <2>3 DEF Send
  <2>5. PICK g \in Frames : g = [f EXCEPT !.todo = @ \ {c}]
    <3>1. [f EXCEPT !.todo = @ \ {c}] \in Frames
      BY DEF Frames
    <3> QED BY <3>1
  <2>6. [s EXCEPT ![n] = g] \in Seq(Frames) /\ Len([s EXCEPT ![n] = g]) = Len(s)
    BY <2>3, Replaced
  <2>7. PICK z \in Seq(Frames) : z = [s EXCEPT ![n] = g] /\ Len(z) = Len(s)
    BY <2>6
  <2>8. c \in Classes
    BY DEF Frames
  <2>9. PICK h \in Frames : h = Frame(c, "super", {})
    BY <2>8, CallFrame
  <2>10. PICK y \in Seq(Frames) : y = Append(z, h) /\ Len(y) = Len(z) + 1
    BY Appended
  <2>11. z = [stack[t] EXCEPT ![Len(stack[t])].todo = @ \ {c}]
    BY <2>3, <2>5, <2>7
  <2>12. stack' = [stack EXCEPT ![t] = z] \/ stack' = [stack EXCEPT ![t] = y]
    BY <2>4, <2>9, <2>10, <2>11
  <2>13. Len(z) >= Len(stack[t]) /\ Len(y) >= Len(stack[t])
    BY <2>3, <2>7, <2>10
  <2>14. \A u \in Threads : Waits(u)
    BY <2>1, <2>12, <2>13, SameLength
  <2> QED BY <1>1, <2>14
<1>3. CASE InitializeReturns(t) \/ InitializeThrows(t)
  <2>1. At(t, "body") /\ (Goto(t, "finish") \/ Goto(t, "throw"))
    BY <1>3 DEF InitializeReturns, InitializeThrows
  <2>2. \A u \in Threads : Waits(u)
    BY <2>1, GotoWaits DEF Pcs
  <2> QED BY <1>1, <2>2
<1>4. CASE Fork(t)
  <2>1. live' = {t} /\ stack'[t] = stack[t] /\ Len(stack[t]) \in Nat
    BY <1>4, IndParts DEF Fork, TypeOK
  <2> QED BY <2>1 DEF Waits, Shorter
<1> QED BY <1>2, <1>3, <1>4 DEF ProgramStep

(* No message gets past _class_initialize to a class that another thread   *)
(* is initializing, and none of the fatal errors of objc-                  *)
(* initialize.mm:213, 258 and 595 is reached: for any number of threads,   *)
(* any hierarchy and any +initialize methods, with exceptions and in the   *)
(* child of a fork.                                                        *)
THEOREM OthersMustWait == Spec => OthersWait
<1>1. IndInv /\ IndInv' /\ [Next]_vars =>
          [/\ halted' # "fatal"
           /\ \A t \in live' :
                  Len(stack'[t]) < Len(stack[t]) /\ Last(stack'[t]).pc = "body"
                      /\ Last(stack[t]).pc # "throw" =>
                  LET c == stack[t][Len(stack'[t]) + 1].cls
                  IN  state'[c] = "initialized" \/ c \in list'[t]]_vars
  <2> SUFFICES ASSUME IndInv, IndInv', Next
               PROVE  /\ halted' # "fatal"
                      /\ \A t \in live' :
                             Len(stack'[t]) < Len(stack[t])
                                 /\ Last(stack'[t]).pc = "body"
                                 /\ Last(stack[t]).pc # "throw" =>
                             LET c == stack[t][Len(stack'[t]) + 1].cls
                             IN  state'[c] = "initialized" \/ c \in list'[t]
    OBVIOUS
  <2>1. halted' # "fatal"
    BY DEF IndInv
  <2>2. live' \subseteq Threads
    BY DEF IndInv, TypeOK
  <2>3. PICK t \in Threads : \/ RuntimeStep(t) \/ ProgramStep(t)
                             \/ InitializeThrows(t) \/ Fork(t)
    BY DEF Next
  <2>4. \A u \in live' : Waits(u)
    BY <2>2, <2>3, RuntimeWaits, ProgramWaits
  <2>5. ASSUME NEW u \in live', Shorter(u), Last(stack[u]).pc # "throw"
        PROVE  \/ state'[stack[u][Len(stack'[u]) + 1].cls] = "initialized"
               \/ stack[u][Len(stack'[u]) + 1].cls \in list'[u]
    <3>1. Answered(u)
      BY <2>4, <2>5 DEF Waits
    <3>2. u \in Threads /\ Len(stack[u]) \in Nat
      BY <2>2, IndParts DEF TypeOK
    <3>3. Len(stack'[u]) + 1 = Len(stack[u])
      BY <3>1, <3>2 DEF Answered
    <3> QED BY <3>1, <3>3 DEF Answered
  <2> QED BY <2>1, <2>5 DEF Shorter
<1> QED BY <1>1, Invariance, PTL DEF Spec, OthersWait
=============================================================================
