---- MODULE WeakReferences_proofs ----
(***************************************************************************)
(* Proofs about WeakReferences, for every finite set of threads, every set *)
(* of objects, variables and classes, every assignment of objects to side  *)
(* tables, and calls nested to any depth.                                  *)
(*                                                                         *)
(* The inductive invariant is IndInv of WeakReferences. Registered alone   *)
(* is not inductive: that the end of a store may take the variable out of  *)
(* the old entry and put it into the new one needs the variable to be in   *)
(* use (or, for an initialization, not yet), which FrameOK says of the     *)
(* call and Apart keeps true, since no other call has the variable to      *)
(* itself; that -dealloc may free an object after it cleared the entry     *)
(* needs the entry to stay empty, which is so since the object is          *)
(* deallocating and a store refuses it. HeldAreLive follows with the       *)
(* references that copies have in their frames.                            *)
(*                                                                         *)
(* The refinement maps a variable to what a load of it would yield         *)
(* (Yields) and the count of an object to its holders, so that the last    *)
(* release empties all variables in one step and the clearing of the entry *)
(* is no abstract step.                                                    *)
(***************************************************************************)
EXTENDS WeakReferences, FiniteSetTheorems, SequenceTheorems, TLAPS

(* A sequence without its last element.                                    *)
LEMMA Rests ==
    ASSUME NEW S, NEW s \in Seq(S), s # <<>>
    PROVE  /\ SubSeq(s, 1, Len(s) - 1) \in Seq(S)
           /\ Len(SubSeq(s, 1, Len(s) - 1)) = Len(s) - 1
           /\ \A i \in 1..(Len(s) - 1) : SubSeq(s, 1, Len(s) - 1)[i] = s[i]
           /\ Len(s) \in Nat \ {0}
           /\ s[Len(s)] \in S
<1>1. Len(s) \in Nat /\ Len(s) # 0 /\ \A i \in 1..Len(s) : s[i] \in S
  OBVIOUS
<1>2. \A i \in 1..(Len(s) - 1) : s[i] \in S
  BY <1>1
<1>3. PICK n \in Nat : n = Len(s) - 1
  BY <1>1
<1>4. \A i \in 1..n : s[i] \in S
  BY <1>2, <1>3
<1>5. /\ SubSeq(s, 1, n) \in Seq(S)
      /\ Len(SubSeq(s, 1, n)) = IF 1 <= n THEN n - 1 + 1 ELSE 0
      /\ \A i \in 1..(n - 1 + 1) : SubSeq(s, 1, n)[i] = s[1 + i - 1]
  BY <1>4, SubSeqProperties
<1>6. /\ Len(SubSeq(s, 1, n)) = n
      /\ \A i \in 1..n : SubSeq(s, 1, n)[i] = s[i]
  BY <1>5
<1> QED BY <1>1, <1>3, <1>5, <1>6

(* A sequence with one element more.                                       *)
LEMMA Appends ==
    ASSUME NEW S, NEW s \in Seq(S), NEW e \in S
    PROVE  /\ Append(s, e) \in Seq(S)
           /\ Len(Append(s, e)) = Len(s) + 1
           /\ \A i \in 1..Len(s) : Append(s, e)[i] = s[i]
           /\ Append(s, e)[Len(s) + 1] = e
           /\ Len(s) \in Nat
  OBVIOUS

-----------------------------------------------------------------------------
(* Frames: what a step must show so that all frames are right after it.    *)

(* Every thread has a stack of frames.                                     *)
Stacks == stack \in [Threads -> Seq(Frame)]

(* The step changes the stack of t only, and its k lowest frames stay.     *)
Kept(t, k) ==
    /\ Stacks'
    /\ \A u \in Threads \ {t} : stack'[u] = stack[u]
    /\ k \in Nat
    /\ k =< Len(stack[t]) /\ k =< Len(stack'[t])
    /\ \A i \in 1..k : stack'[t][i] = stack[t][i]

(* The frame i of u is one of those that stay.                             *)
Stays(t, k, u, i) == u # t \/ i =< k

(* What those frames say of the variables and objects is true still.       *)
Undisturbed(t, k) ==
    \A f \in Frame :
        (\E u \in Threads : \E i \in DOMAIN stack[u] :
             Stays(t, k, u, i) /\ stack[u][i] = f)
        => FrameOK(f)'

(* f uses no variable that one of them has to itself, has none to itself   *)
(* that one of them uses, and deallocates no object that one of them does. *)
Fresh(t, k, f) ==
    \A u \in Threads : \A j \in DOMAIN stack[u] :
        Stays(t, k, u, j) =>
            Apart(f, stack[u][j]) /\ Apart(stack[u][j], f)

(* The new frames of t are right, and apart from those that stay and from  *)
(* each other.                                                             *)
NewOK(t, k) ==
    \A i \in DOMAIN stack'[t] : i > k =>
        /\ FrameOK(stack[t][i])'
        /\ Fresh(t, k, stack'[t][i])
        /\ \A j \in DOMAIN stack'[t] : j > k /\ j # i =>
               Apart(stack'[t][i], stack'[t][j])

(* So all frames are right after the step.                                 *)
LEMMA FramesStep ==
    ASSUME NEW t \in Threads, NEW k, Stacks, FramesOK,
           Kept(t, k), Undisturbed(t, k), NewOK(t, k)
    PROVE  FramesOK'
<1>1. ASSUME NEW u \in Threads, NEW i \in DOMAIN stack'[u]
      PROVE  FrameOK(stack[u][i])'
  <2>1. CASE u = t /\ i > k
    BY <2>1, <1>1 DEF NewOK
  <2>2. CASE ~(u = t /\ i > k)
    <3>1. i \in DOMAIN stack[u] /\ stack'[u][i] = stack[u][i]
          /\ Stays(t, k, u, i) /\ stack[u][i] \in Frame
      BY <2>2, <1>1 DEF Kept, Stacks, Stays
    <3>2. PICK f \in Frame : f = stack[u][i]
      BY <3>1
    <3>3. FrameOK(f)'
      BY <3>1, <3>2 DEF Undisturbed
    <3>4. f = stack'[u][i]
      BY <3>1, <3>2
    <3> QED BY <3>3, <3>4 DEF FrameOK, Source
  <2> QED BY <2>1, <2>2
<1>2. ASSUME NEW u \in Threads, NEW i \in DOMAIN stack'[u],
             NEW v \in Threads, NEW j \in DOMAIN stack'[v],
             u # v \/ i # j
      PROVE  Apart(stack'[u][i], stack'[v][j])
  <2>1. /\ ~(u = t /\ i > k) =>
              /\ i \in DOMAIN stack[u] /\ stack'[u][i] = stack[u][i]
              /\ Stays(t, k, u, i)
        /\ ~(v = t /\ j > k) =>
              /\ j \in DOMAIN stack[v] /\ stack'[v][j] = stack[v][j]
              /\ Stays(t, k, v, j)
    BY <1>2 DEF Kept, Stacks, Stays
  <2>2. CASE (u = t /\ i > k) /\ (v = t /\ j > k)
    BY <2>2, <1>2 DEF NewOK
  <2>3. CASE (u = t /\ i > k) /\ ~(v = t /\ j > k)
    BY <2>1, <2>3, <1>2 DEF NewOK, Fresh
  <2>4. CASE ~(u = t /\ i > k) /\ (v = t /\ j > k)
    BY <2>1, <2>4, <1>2 DEF NewOK, Fresh
  <2>5. CASE ~(u = t /\ i > k) /\ ~(v = t /\ j > k)
    BY <2>1, <2>5, <1>2 DEF FramesOK
  <2> QED BY <2>2, <2>3, <2>4, <2>5
<1>3. ASSUME NEW u \in Threads, NEW i \in DOMAIN stack'[u],
             NEW v \in Threads, NEW j \in DOMAIN stack'[v],
             u # v \/ i # j
      PROVE  Apart(stack[u][i], stack[v][j])'
  BY <1>2, <1>3 DEF Apart, Mentioned, Excluded
<1> QED BY <1>1, <1>3 DEF FramesOK

(* A step that returns from the innermost call keeps the other frames,     *)
LEMMA PopKept ==
    ASSUME NEW t \in Threads, Stacks, stack[t] # <<>>,
           stack' = [stack EXCEPT ![t] = Rest(t)]
    PROVE  /\ Kept(t, Len(stack[t]) - 1)
           /\ Len(stack'[t]) = Len(stack[t]) - 1
           /\ DOMAIN stack'[t] = 1..(Len(stack[t]) - 1)
<1>1. stack[t] \in Seq(Frame) /\ stack'[t] = Rest(t)
      /\ \A u \in Threads \ {t} : stack'[u] = stack[u]
  BY DEF Stacks
<1>2. /\ Rest(t) \in Seq(Frame)
      /\ Len(Rest(t)) = Len(stack[t]) - 1
      /\ \A i \in 1..(Len(stack[t]) - 1) : Rest(t)[i] = stack[t][i]
      /\ Len(stack[t]) \in Nat \ {0}
  BY <1>1, Rests DEF Rest
<1>3. Kept(t, Len(stack[t]) - 1)
  BY <1>1, <1>2 DEF Kept, Stacks
<1> QED BY <1>1, <1>2, <1>3

(* ... and they are right after it if it does not disturb them.            *)
LEMMA PopFrames ==
    ASSUME NEW t \in Threads, Stacks, FramesOK, stack[t] # <<>>,
           stack' = [stack EXCEPT ![t] = Rest(t)],
           Undisturbed(t, Len(stack[t]) - 1)
    PROVE  /\ FramesOK'
           /\ Kept(t, Len(stack[t]) - 1)
           /\ Len(stack'[t]) = Len(stack[t]) - 1
<1>1. /\ Kept(t, Len(stack[t]) - 1)
      /\ Len(stack'[t]) = Len(stack[t]) - 1
      /\ DOMAIN stack'[t] = 1..(Len(stack[t]) - 1)
  BY PopKept
<1>2. NewOK(t, Len(stack[t]) - 1)
  BY <1>1 DEF NewOK, Kept
<1> QED BY <1>1, <1>2, FramesStep

(* A step that changes the innermost frame keeps the others.               *)
LEMMA SetFrames ==
    ASSUME NEW t \in Threads, NEW f \in Frame, Stacks, stack[t] # <<>>,
           stack' = [stack EXCEPT ![t] = Append(Rest(t), f)]
    PROVE  /\ Kept(t, Len(stack[t]) - 1)
           /\ Len(stack'[t]) = Len(stack[t]) 
           /\ stack'[t][Len(stack[t])] = f
           /\ Len(stack[t]) \in Nat \ {0}
<1>1. stack[t] \in Seq(Frame) /\ stack'[t] = Append(Rest(t), f)
      /\ \A u \in Threads \ {t} : stack'[u] = stack[u]
  BY DEF Stacks
<1>2. /\ Rest(t) \in Seq(Frame)
      /\ Len(Rest(t)) = Len(stack[t]) - 1
      /\ \A i \in 1..(Len(stack[t]) - 1) : Rest(t)[i] = stack[t][i]
      /\ Len(stack[t]) \in Nat \ {0}
  BY <1>1, Rests DEF Rest
<1>3. /\ stack'[t] \in Seq(Frame)
      /\ Len(stack'[t]) = Len(stack[t])
      /\ \A i \in 1..(Len(stack[t]) - 1) : stack'[t][i] = stack[t][i]
      /\ stack'[t][Len(stack[t])] = f
  <2>1. /\ Append(Rest(t), f) \in Seq(Frame)
        /\ Len(Append(Rest(t), f)) = Len(Rest(t)) + 1
        /\ \A i \in 1..Len(Rest(t)) : Append(Rest(t), f)[i] = Rest(t)[i]
        /\ Append(Rest(t), f)[Len(Rest(t)) + 1] = f
    BY <1>2, Appends
  <2> QED BY <1>1, <1>2, <2>1
<1>4. Stacks'
  BY <1>1, <1>3 DEF Stacks
<1>5. Kept(t, Len(stack[t]) - 1)
  BY <1>1, <1>2, <1>3, <1>4 DEF Kept
<1> QED BY <1>2, <1>3, <1>5

(* A step that begins a call keeps all frames.                             *)
LEMMA PushFrames ==
    ASSUME NEW t \in Threads, NEW f \in Frame, Stacks,
           stack' = [stack EXCEPT ![t] = Append(stack[t], f)]
    PROVE  /\ Kept(t, Len(stack[t]))
           /\ Len(stack'[t]) = Len(stack[t]) + 1
           /\ stack'[t][Len(stack[t]) + 1] = f
           /\ Len(stack[t]) \in Nat
<1>1. stack[t] \in Seq(Frame) /\ stack'[t] = Append(stack[t], f)
      /\ \A u \in Threads \ {t} : stack'[u] = stack[u]
  BY DEF Stacks
<1>2. /\ stack'[t] \in Seq(Frame)
      /\ Len(stack'[t]) = Len(stack[t]) + 1
      /\ \A i \in 1..Len(stack[t]) : stack'[t][i] = stack[t][i]
      /\ stack'[t][Len(stack[t]) + 1] = f
      /\ Len(stack[t]) \in Nat
  BY <1>1, Appends
<1>3. Stacks'
  BY <1>1, <1>2 DEF Stacks
<1> QED BY <1>1, <1>2, <1>3 DEF Kept

(* A step that does both keeps the others.                                 *)
LEMMA SetPushFrames ==
    ASSUME NEW t \in Threads, NEW f \in Frame, NEW g \in Frame, Stacks,
           stack[t] # <<>>,
           stack' = [stack EXCEPT ![t] = Append(Append(Rest(t), f), g)]
    PROVE  /\ Kept(t, Len(stack[t]) - 1)
           /\ Len(stack'[t]) = Len(stack[t]) + 1
           /\ stack'[t][Len(stack[t])] = f
           /\ stack'[t][Len(stack[t]) + 1] = g
           /\ Len(stack[t]) \in Nat \ {0}
<1>1. stack[t] \in Seq(Frame) /\ stack'[t] = Append(Append(Rest(t), f), g)
      /\ \A u \in Threads \ {t} : stack'[u] = stack[u]
  BY DEF Stacks
<1>2. /\ Rest(t) \in Seq(Frame)
      /\ Len(Rest(t)) = Len(stack[t]) - 1
      /\ \A i \in 1..(Len(stack[t]) - 1) : Rest(t)[i] = stack[t][i]
      /\ Len(stack[t]) \in Nat \ {0}
  BY <1>1, Rests DEF Rest
<1>3. PICK r \in Seq(Frame) : r = Append(Rest(t), f)
  BY <1>2, Appends
<1>4. /\ Len(r) = Len(stack[t])
      /\ \A i \in 1..(Len(stack[t]) - 1) : r[i] = stack[t][i]
      /\ r[Len(stack[t])] = f
  <2>1. /\ Append(Rest(t), f) \in Seq(Frame)
        /\ Len(Append(Rest(t), f)) = Len(Rest(t)) + 1
        /\ \A i \in 1..Len(Rest(t)) : Append(Rest(t), f)[i] = Rest(t)[i]
        /\ Append(Rest(t), f)[Len(Rest(t)) + 1] = f
    BY <1>2, Appends
  <2> QED BY <1>2, <1>3, <2>1
<1>5. stack'[t] = Append(r, g)
  BY <1>1, <1>3
<1>6. /\ stack'[t] \in Seq(Frame)
      /\ Len(stack'[t]) = Len(r) + 1
      /\ \A i \in 1..Len(r) : stack'[t][i] = r[i]
      /\ stack'[t][Len(r) + 1] = g
  <2>1. /\ Append(r, g) \in Seq(Frame)
        /\ Len(Append(r, g)) = Len(r) + 1
        /\ \A i \in 1..Len(r) : Append(r, g)[i] = r[i]
        /\ Append(r, g)[Len(r) + 1] = g
    BY Appends
  <2> QED BY <1>5, <2>1
<1>7. Stacks'
  BY <1>1, <1>6 DEF Stacks
<1>8. Kept(t, Len(stack[t]) - 1)
  BY <1>1, <1>2, <1>4, <1>6, <1>7 DEF Kept
<1> QED BY <1>2, <1>4, <1>6, <1>8

(* A step with one new frame keeps the frames right when the frame is      *)
(* right and fresh and no other is disturbed.                              *)
LEMMA OneStep ==
    ASSUME NEW t \in Threads, NEW k \in Nat, NEW f \in Frame,
           Stacks, FramesOK,
           Kept(t, k), Len(stack'[t]) = k + 1, stack'[t][k + 1] = f,
           Undisturbed(t, k), Fresh(t, k, f), FrameOK(f)'
    PROVE  FramesOK'
<1>1. stack'[t] \in Seq(Frame)
  BY DEF Kept, Stacks
<1>2. DOMAIN stack'[t] = 1..(k + 1)
  BY <1>1
<1>3. \A i \in DOMAIN stack'[t] : i > k => i = k + 1 /\ stack'[t][i] = f
  BY <1>2
<1>4. ASSUME NEW i \in DOMAIN stack'[t], i > k
      PROVE  FrameOK(stack[t][i])'
  BY <1>3, <1>4 DEF FrameOK, Source
<1>5. NewOK(t, k)
  BY <1>3, <1>4 DEF NewOK
<1> QED BY <1>5, FramesStep

(* The same with two new frames.                                           *)
LEMMA TwoSteps ==
    ASSUME NEW t \in Threads, NEW k \in Nat, NEW f \in Frame, NEW g \in Frame,
           Stacks, FramesOK,
           Kept(t, k), Len(stack'[t]) = k + 2,
           stack'[t][k + 1] = f, stack'[t][k + 2] = g,
           Undisturbed(t, k), Fresh(t, k, f), FrameOK(f)',
           Fresh(t, k, g), FrameOK(g)', Apart(f, g), Apart(g, f)
    PROVE  FramesOK'
<1>1. stack'[t] \in Seq(Frame)
  BY DEF Kept, Stacks
<1>2. DOMAIN stack'[t] = 1..(k + 2)
  BY <1>1
<1>3. \A i \in DOMAIN stack'[t] :
          i > k => \/ i = k + 1 /\ stack'[t][i] = f
                   \/ i = k + 2 /\ stack'[t][i] = g
  BY <1>2
<1>4. ASSUME NEW i \in DOMAIN stack'[t], i > k
      PROVE  FrameOK(stack[t][i])'
  BY <1>3, <1>4 DEF FrameOK, Source
<1>5. NewOK(t, k)
  BY <1>3, <1>4 DEF NewOK
<1> QED BY <1>5, FramesStep

(* f claims no more than g does.                                           *)
Narrower(f, g) ==
    /\ Mentioned(f) \subseteq Mentioned(g)
    /\ Excluded(f) \subseteq Excluded(g)
    /\ f.does = "dealloc" => g.does = "dealloc" /\ f.new = g.new

(* A frame that claims no more than the innermost one may replace it.      *)
LEMMA NarrowerIsFresh ==
    ASSUME NEW t \in Threads, NEW f \in Frame, Stacks, FramesOK,
           stack[t] # <<>>, Narrower(f, Top(t))
    PROVE  Fresh(t, Len(stack[t]) - 1, f)
<1>1. stack[t] \in Seq(Frame) /\ Len(stack[t]) \in Nat \ {0}
      /\ Len(stack[t]) \in DOMAIN stack[t]
  BY DEF Stacks
<1>2. ASSUME NEW u \in Threads, NEW j \in DOMAIN stack[u],
             Stays(t, Len(stack[t]) - 1, u, j)
      PROVE  /\ Apart(Top(t), stack[u][j])
             /\ Apart(stack[u][j], Top(t))
  <2>1. t # u \/ Len(stack[t]) # j
    BY <1>1, <1>2 DEF Stays
  <2> QED BY <1>1, <2>1 DEF FramesOK, Top
<1>3. ASSUME NEW g, Apart(Top(t), g), Apart(g, Top(t))
      PROVE  Apart(f, g) /\ Apart(g, f)
  BY <1>3 DEF Apart, Narrower
<1> QED BY <1>2, <1>3 DEF Fresh

(* None of the frames that stay deallocates o.                             *)
NoDealloc(t, k, o) ==
    \A u \in Threads : \A j \in DOMAIN stack[u] :
        Stays(t, k, u, j) => ~(stack[u][j].does = "dealloc" /\ stack[u][j].new = o)

(* f is about no variable.                                                 *)
Inert(f) == f.loc = NoLocation /\ f.src = NoLocation

(* A frame about no variable is fresh unless it deallocates what another   *)
(* does.                                                                   *)
LEMMA InertIsFresh ==
    ASSUME NEW t \in Threads, NEW k, NEW f, Inert(f),
           f.does = "dealloc" => NoDealloc(t, k, f.new)
    PROVE  Fresh(t, k, f)
<1>1. Mentioned(f) = {} /\ Excluded(f) = {}
  BY WeakAssumption DEF Inert, Mentioned, Excluded
<1> QED BY <1>1 DEF Fresh, Apart, NoDealloc

(* A frame of the program's call is fresh if the variables are not busy,   *)
(* which the program sees to.                                              *)
LEMMA FreeIsFresh ==
    ASSUME NEW t \in Threads, NEW f, Stacks,
           f.does # "dealloc",
           \A l \in Excluded(f) : ~Busy(l),
           \A l \in Mentioned(f) : ~Exclusive(l)
    PROVE  Fresh(t, Len(stack[t]), f)
<1>1. ASSUME NEW u \in Threads, NEW j \in DOMAIN stack[u]
      PROVE  stack[u][j] \in AllFrames
  BY DEF AllFrames, Frames
<1>2. ASSUME NEW g \in AllFrames
      PROVE  Apart(f, g) /\ Apart(g, f)
  BY <1>2 DEF Apart, Busy, Exclusive
<1> QED BY <1>1, <1>2 DEF Fresh

(* A step that leaves the entries, the uses and the lives alone disturbs   *)
(* no frame.                                                               *)
LEMMA SameUndisturbed ==
    ASSUME NEW t \in Threads, NEW k, FramesOK,
           UNCHANGED <<inUse, life, referrers>>
    PROVE  Undisturbed(t, k)
<1>1. ASSUME NEW f \in Frame, FrameOK(f)
      PROVE  FrameOK(f)'
  BY <1>1 DEF FrameOK, Source
<1>2. ASSUME NEW f \in Frame, NEW u \in Threads, NEW i \in DOMAIN stack[u],
             stack[u][i] = f
      PROVE  FrameOK(f)
  BY <1>2 DEF FramesOK
<1> QED BY <1>1, <1>2 DEF Undisturbed

(* A step that leaves the locks alone keeps the program out of them.       *)
LEMMA NoLockKept ==
    ASSUME NEW t \in Threads, TypeOK, NoLockInProgram,
           \A u \in Threads \ {t} : stack'[u] = stack[u],
           stack[t] # <<>> => Top(t).step # "lock2",
           UNCHANGED lock
    PROVE  NoLockInProgram'
<1>1. ASSUME NEW b \in Tables, lock'[b] # NoThread
      PROVE  /\ stack'[lock'[b]] # <<>>
             /\ stack'[lock'[b]][Len(stack'[lock'[b]])].step = "lock2"
  <2>1. PICK u \in Threads : u = lock[b]
    BY <1>1 DEF TypeOK
  <2>2. stack[u] # <<>> /\ Top(u).step = "lock2"
    BY <1>1, <2>1 DEF NoLockInProgram
  <2>3. u # t
    BY <2>2
  <2> QED BY <2>1, <2>2, <2>3 DEF Top
<1> QED BY <1>1 DEF NoLockInProgram, Top, Tables

(* So does a step that unlocks.                                            *)
LEMMA NoLockLeft ==
    ASSUME NEW t \in Threads, TypeOK, NoLockInProgram,
           \A u \in Threads \ {t} : stack'[u] = stack[u],
           Unlock(t)
    PROVE  NoLockInProgram'
<1>1. ASSUME NEW b \in Tables, lock'[b] # NoThread
      PROVE  /\ stack'[lock'[b]] # <<>>
             /\ stack'[lock'[b]][Len(stack'[lock'[b]])].step = "lock2"
  <2>1. lock'[b] = lock[b] /\ lock[b] # t
    BY <1>1 DEF Unlock
  <2>2. PICK u \in Threads : u = lock[b]
    BY <1>1, <2>1 DEF TypeOK
  <2>3. stack[u] # <<>> /\ Top(u).step = "lock2"
    BY <1>1, <2>1, <2>2 DEF NoLockInProgram
  <2> QED BY <2>1, <2>2, <2>3 DEF Top
<1> QED BY <1>1 DEF NoLockInProgram, Top, Tables

-----------------------------------------------------------------------------
(* Holders: which steps change the references to an object.                *)

(* The frame i of t has a reference to o.                                  *)
Carries(t, i, o) ==
    i \in DOMAIN stack[t] /\ stack[t][i].held /\ stack[t][i].new = o

(* The holders of o are the threads that hold it and the copies that do.   *)
HoldersAre ==
    \A o : \A h :
        h \in Holders(o) <=>
            \E u \in Threads :
                \/ h = <<u, 0>> /\ o \in holds[u]
                \/ \E i \in Nat \ {0} : h = <<u, i>> /\ Carries(u, i, o)

(* This is what Holders says ...                                           *)
LEMMA HoldersDef == Stacks => HoldersAre
<1> SUFFICES ASSUME Stacks, NEW o, NEW h
             PROVE  h \in Holders(o) <=>
            \E u \in Threads :
                \/ h = <<u, 0>> /\ o \in holds[u]
                \/ \E i \in Nat \ {0} : h = <<u, i>> /\ Carries(u, i, o)
  BY DEF HoldersAre
<1>1. \A u \in Threads : \A i \in DOMAIN stack[u] : i \in Nat \ {0}
  BY DEF Stacks
<1>2. ASSUME h \in Holders(o)
      PROVE \E u \in Threads :
                \/ h = <<u, 0>> /\ o \in holds[u]
                \/ \E i \in Nat \ {0} : h = <<u, i>> /\ Carries(u, i, o)
  <2>1. \/ \E u \in Threads : o \in holds[u] /\ h = <<u, 0>>
        \/ \E u \in Threads : \E i \in DOMAIN stack[u] :
               h = <<u, i>> /\ stack[u][i].held /\ stack[u][i].new = o
    BY <1>2 DEF Holders
  <2> QED BY <1>1, <2>1 DEF Carries
<1>3. ASSUME NEW u \in Threads, o \in holds[u]
      PROVE  <<u, 0>> \in Holders(o)
  BY <1>3 DEF Holders
<1>4. ASSUME NEW u \in Threads, NEW i \in Nat \ {0}, Carries(u, i, o)
      PROVE  <<u, i>> \in Holders(o)
  BY <1>4 DEF Holders, Carries
<1> QED BY <1>2, <1>3, <1>4

(* ... before and after a step.                                            *)
LEMMA HoldersNext == Stacks' => HoldersAre'
  BY HoldersDef, PTL

(* Which of them a thread or a frame is.                                   *)
LEMMA HolderFacts ==
    ASSUME NEW o, Stacks
    PROVE  /\ \A u \in Threads : o \in holds[u] <=> <<u, 0>> \in Holders(o)
           /\ \A u \in Threads : \A i \in DOMAIN stack[u] :
                stack[u][i].held /\ stack[u][i].new = o
                <=> <<u, i>> \in Holders(o)
<1>1. \A h :
        h \in Holders(o) <=>
            \E u \in Threads :
                \/ h = <<u, 0>> /\ o \in holds[u]
                \/ \E i \in Nat \ {0} : h = <<u, i>> /\ Carries(u, i, o)
  BY HoldersDef DEF HoldersAre
<1>2. \A u \in Threads : \A i \in DOMAIN stack[u] : i \in Nat \ {0}
  BY DEF Stacks
<1>3. ASSUME NEW u \in Threads
      PROVE  o \in holds[u] <=> <<u, 0>> \in Holders(o)
  BY <1>1
<1>4. ASSUME NEW u \in Threads, NEW i \in DOMAIN stack[u]
      PROVE  stack[u][i].held /\ stack[u][i].new = o
                <=> <<u, i>> \in Holders(o)
  BY <1>1, <1>2 DEF Carries
<1> QED BY <1>3, <1>4

(* No object gains or loses a holder.                                      *)
SameHolders == \A o \in Objects : Holders(o)' = Holders(o)

(* A frame that stays has the reference it had.                            *)
LEMMA CarriesKept ==
    ASSUME NEW t \in Threads, NEW k, Stacks, Kept(t, k),
           NEW u \in Threads, NEW i \in Nat, Stays(t, k, u, i), NEW o
    PROVE  Carries(u, i, o)' <=> Carries(u, i, o)
<1>1. Stacks'
  BY DEF Kept
<1>2. CASE u # t
  BY <1>2 DEF Carries, Kept
<1>3. CASE u = t /\ i = 0
  BY <1>1, <1>3 DEF Carries, Stacks
<1>4. CASE u = t /\ i # 0
  <2>1. i \in 1..k
    BY <1>4 DEF Stays, Kept
  <2>2. stack'[t][i] = stack[t][i] /\ i \in DOMAIN stack[t]
        /\ i \in DOMAIN stack'[t]
    BY <1>1, <2>1 DEF Kept, Stacks
  <2> QED BY <1>4, <2>2 DEF Carries
<1> QED BY <1>2, <1>3, <1>4

(* No frame gains or loses a reference.                                    *)
SameCarries ==
    \A o \in Objects : \A u \in Threads : \A i \in Nat :
        Carries(u, i, o)' <=> Carries(u, i, o)

(* This is so when none of the new frames does.                            *)
LEMMA CarriesSame ==
    ASSUME NEW t \in Threads, NEW k \in Nat, Stacks, Kept(t, k),
           \A i \in Nat : i > k =>
               \A o \in Objects : Carries(t, i, o)' <=> Carries(t, i, o)
    PROVE  SameCarries
<1>1. ASSUME NEW o \in Objects, NEW u \in Threads, NEW i \in Nat
      PROVE  Carries(u, i, o)' <=> Carries(u, i, o)
  <2>1. CASE Stays(t, k, u, i)
    BY <2>1, CarriesKept
  <2>2. CASE ~Stays(t, k, u, i)
    BY <2>2 DEF Stays
  <2> QED BY <2>1, <2>2
<1> QED BY <1>1 DEF SameCarries

(* HoldersAre for one object, before and after a step.                     *)
LEMMA HoldersFor ==
    ASSUME Stacks, Stacks', NEW o
    PROVE  /\ \A h : h \in Holders(o) <=>
              \E u \in Threads :
                \/ h = <<u, 0>> /\ o \in holds[u]
                \/ \E i \in Nat \ {0} : h = <<u, i>> /\ Carries(u, i, o)
           /\ \A h : h \in Holders(o)' <=>
              \E u \in Threads :
                \/ h = <<u, 0>> /\ o \in holds'[u]
                \/ \E i \in Nat \ {0} : h = <<u, i>> /\ Carries(u, i, o)'
<1>1. HoldersAre /\ HoldersAre'
  BY HoldersDef, HoldersNext
<1> QED BY <1>1 DEF HoldersAre

(* An object has the holders it had when no frame and no thread gains or   *)
(* loses it.                                                               *)
LEMMA CarriesHolders ==
    ASSUME Stacks, Stacks', NEW o \in Objects, SameCarries,
           \A u \in Threads : o \in holds'[u] <=> o \in holds[u]
    PROVE  Holders(o)' = Holders(o)
<1>1. ASSUME NEW h
      PROVE  h \in Holders(o)' <=> h \in Holders(o)
  <2>1. h \in Holders(o) <=>
            \E u \in Threads :
                \/ h = <<u, 0>> /\ o \in holds[u]
                \/ \E i \in Nat \ {0} : h = <<u, i>> /\ Carries(u, i, o)
    BY HoldersFor
  <2>2. h \in Holders(o)' <=>
            \E u \in Threads :
                \/ h = <<u, 0>> /\ o \in holds'[u]
                \/ \E i \in Nat \ {0} : h = <<u, i>> /\ Carries(u, i, o)'
    BY HoldersFor
  <2>3. \A u \in Threads : \A i \in Nat : Carries(u, i, o)' <=> Carries(u, i, o)
    BY DEF SameCarries
  <2> QED BY <2>1, <2>2, <2>3
<1> QED BY <1>1

(* A step whose new frames have the references of the old ones leaves the  *)
(* holders alone.                                                          *)
LEMMA HoldersKept ==
    ASSUME NEW t \in Threads, NEW k \in Nat, Stacks, Kept(t, k),
           UNCHANGED holds,
           \A i \in Nat : i > k =>
               \A o \in Objects : Carries(t, i, o)' <=> Carries(t, i, o)
    PROVE  SameHolders
<1>1. SameCarries /\ Stacks'
  BY CarriesSame DEF Kept
<1> QED BY <1>1, CarriesHolders DEF SameHolders

(* o gains the holder h, and nothing else changes.                         *)
Gains(o, h) ==
    /\ h \notin Holders(o) /\ Holders(o)' = Holders(o) \cup {h}
    /\ \A p \in Objects \ {o} : Holders(p)' = Holders(p)

(* o loses the holder h, and nothing else changes.                         *)
Loses(o, h) ==
    /\ h \in Holders(o) /\ Holders(o)' = Holders(o) \ {h}
    /\ \A p \in Objects \ {o} : Holders(p)' = Holders(p)

(* A thread that gets a reference it did not have is a new holder.         *)
LEMMA GainsHold ==
    ASSUME Stacks, Stacks', NEW t \in Threads, NEW o \in Objects,
           holds \in [Threads -> SUBSET Objects], SameCarries,
           o \notin holds[t], holds' = [holds EXCEPT ![t] = @ \cup {o}]
    PROVE  Gains(o, <<t, 0>>)
<1>1. ASSUME NEW h
      PROVE  /\ h \in Holders(o)' <=> h \in Holders(o) \/ h = <<t, 0>>
             /\ <<t, 0>> \notin Holders(o)
  <2>1. /\ \A g : g \in Holders(o) <=>
              \E u \in Threads :
                \/ g = <<u, 0>> /\ o \in holds[u]
                \/ \E i \in Nat \ {0} : g = <<u, i>> /\ Carries(u, i, o)
        /\ \A g : g \in Holders(o)' <=>
              \E u \in Threads :
                \/ g = <<u, 0>> /\ o \in holds'[u]
                \/ \E i \in Nat \ {0} : g = <<u, i>> /\ Carries(u, i, o)'
    BY HoldersFor
  <2>2. \A u \in Threads : \A i \in Nat : Carries(u, i, o)' <=> Carries(u, i, o)
    BY DEF SameCarries
  <2>3. \A u \in Threads : o \in holds'[u] <=> o \in holds[u] \/ u = t
    OBVIOUS
  <2>4. <<t, 0>> \notin Holders(o)
    BY <2>1
  <2>5. h \in Holders(o)' <=> h \in Holders(o) \/ h = <<t, 0>>
    BY <2>1, <2>2, <2>3
  <2> QED BY <2>4, <2>5
<1>2. ASSUME NEW p \in Objects \ {o}
      PROVE  Holders(p)' = Holders(p)
  BY CarriesHolders
<1> QED BY <1>1, <1>2 DEF Gains

(* A thread that gives one up is a holder no longer.                       *)
LEMMA LosesHold ==
    ASSUME Stacks, Stacks', NEW t \in Threads, NEW o \in Objects,
           holds \in [Threads -> SUBSET Objects], SameCarries,
           o \in holds[t], holds' = [holds EXCEPT ![t] = @ \ {o}]
    PROVE  Loses(o, <<t, 0>>)
<1>1. ASSUME NEW h
      PROVE  /\ h \in Holders(o)' <=> h \in Holders(o) /\ h # <<t, 0>>
             /\ <<t, 0>> \in Holders(o)
  <2>1. /\ \A g : g \in Holders(o) <=>
              \E u \in Threads :
                \/ g = <<u, 0>> /\ o \in holds[u]
                \/ \E i \in Nat \ {0} : g = <<u, i>> /\ Carries(u, i, o)
        /\ \A g : g \in Holders(o)' <=>
              \E u \in Threads :
                \/ g = <<u, 0>> /\ o \in holds'[u]
                \/ \E i \in Nat \ {0} : g = <<u, i>> /\ Carries(u, i, o)'
    BY HoldersFor
  <2>2. \A u \in Threads : \A i \in Nat : Carries(u, i, o)' <=> Carries(u, i, o)
    BY DEF SameCarries
  <2>3. \A u \in Threads : o \in holds'[u] <=> o \in holds[u] /\ u # t
    OBVIOUS
  <2>4. <<t, 0>> \in Holders(o)
    BY <2>1
  <2>5. h \in Holders(o)' <=> h \in Holders(o) /\ h # <<t, 0>>
    BY <2>1, <2>2, <2>3
  <2> QED BY <2>4, <2>5
<1>2. ASSUME NEW p \in Objects \ {o}
      PROVE  Holders(p)' = Holders(p)
  BY CarriesHolders
<1> QED BY <1>1, <1>2 DEF Loses

(* No frame but n of t gains or loses a reference, and it only to o.       *)
OthersCarry(t, n, o) ==
    \A p \in Objects : \A u \in Threads : \A i \in Nat :
        u # t \/ i # n \/ p # o => (Carries(u, i, p)' <=> Carries(u, i, p))

(* So the other objects have the holders they had.                         *)
LEMMA OthersCarried ==
    ASSUME Stacks, Stacks', NEW t \in Threads, NEW n \in Nat,
           NEW o \in Objects, NEW p \in Objects \ {o},
           OthersCarry(t, n, o), UNCHANGED holds
    PROVE  Holders(p)' = Holders(p)
<1>1. /\ \A g : g \in Holders(p) <=>
              \E u \in Threads :
                \/ g = <<u, 0>> /\ p \in holds[u]
                \/ \E i \in Nat \ {0} : g = <<u, i>> /\ Carries(u, i, p)
      /\ \A g : g \in Holders(p)' <=>
              \E u \in Threads :
                \/ g = <<u, 0>> /\ p \in holds'[u]
                \/ \E i \in Nat \ {0} : g = <<u, i>> /\ Carries(u, i, p)'
  BY HoldersFor
<1>2. \A u \in Threads : \A i \in Nat : Carries(u, i, p)' <=> Carries(u, i, p)
  BY DEF OthersCarry
<1>3. ASSUME NEW h
      PROVE  h \in Holders(p)' <=> h \in Holders(p)
  BY <1>1, <1>2
<1> QED BY <1>3

(* A frame that gets a reference is a new holder.                          *)
LEMMA GainsCarry ==
    ASSUME Stacks, Stacks', NEW t \in Threads, NEW n \in Nat \ {0},
           NEW o \in Objects, UNCHANGED holds, OthersCarry(t, n, o),
           ~Carries(t, n, o), Carries(t, n, o)'
    PROVE  Gains(o, <<t, n>>)
<1>1. ASSUME NEW h
      PROVE  /\ h \in Holders(o)' <=> h \in Holders(o) \/ h = <<t, n>>
             /\ <<t, n>> \notin Holders(o)
  <2>1. /\ \A g : g \in Holders(o) <=>
              \E u \in Threads :
                \/ g = <<u, 0>> /\ o \in holds[u]
                \/ \E i \in Nat \ {0} : g = <<u, i>> /\ Carries(u, i, o)
        /\ \A g : g \in Holders(o)' <=>
              \E u \in Threads :
                \/ g = <<u, 0>> /\ o \in holds'[u]
                \/ \E i \in Nat \ {0} : g = <<u, i>> /\ Carries(u, i, o)'
    BY HoldersFor
  <2>2. \A u \in Threads : \A i \in Nat :
            Carries(u, i, o)' <=> Carries(u, i, o) \/ (u = t /\ i = n)
    BY DEF OthersCarry
  <2>4. <<t, n>> \notin Holders(o)
    BY <2>1
  <2>5. h \in Holders(o)' <=> h \in Holders(o) \/ h = <<t, n>>
    BY <2>1, <2>2
  <2> QED BY <2>4, <2>5
<1>2. ASSUME NEW p \in Objects \ {o}
      PROVE  Holders(p)' = Holders(p)
  BY OthersCarried
<1> QED BY <1>1, <1>2 DEF Gains

(* A frame that gives one up is a holder no longer.                        *)
LEMMA LosesCarry ==
    ASSUME Stacks, Stacks', NEW t \in Threads, NEW n \in Nat \ {0},
           NEW o \in Objects, UNCHANGED holds, OthersCarry(t, n, o),
           Carries(t, n, o), ~Carries(t, n, o)'
    PROVE  Loses(o, <<t, n>>)
<1>1. ASSUME NEW h
      PROVE  /\ h \in Holders(o)' <=> h \in Holders(o) /\ h # <<t, n>>
             /\ <<t, n>> \in Holders(o)
  <2>1. /\ \A g : g \in Holders(o) <=>
              \E u \in Threads :
                \/ g = <<u, 0>> /\ o \in holds[u]
                \/ \E i \in Nat \ {0} : g = <<u, i>> /\ Carries(u, i, o)
        /\ \A g : g \in Holders(o)' <=>
              \E u \in Threads :
                \/ g = <<u, 0>> /\ o \in holds'[u]
                \/ \E i \in Nat \ {0} : g = <<u, i>> /\ Carries(u, i, o)'
    BY HoldersFor
  <2>2. \A u \in Threads : \A i \in Nat :
            Carries(u, i, o)' <=> Carries(u, i, o) /\ ~(u = t /\ i = n)
    BY DEF OthersCarry
  <2>4. <<t, n>> \in Holders(o)
    BY <2>1
  <2>5. h \in Holders(o)' <=> h \in Holders(o) /\ h # <<t, n>>
    BY <2>1, <2>2
  <2> QED BY <2>4, <2>5
<1>2. ASSUME NEW p \in Objects \ {o}
      PROVE  Holders(p)' = Holders(p)
  BY OthersCarried
<1> QED BY <1>1, <1>2 DEF Loses

(* An object has finitely many holders, since threads are finitely many    *)
(* and their stacks finite.                                                *)
LEMMA HoldersFinite ==
    ASSUME Stacks, NEW o
    PROVE  IsFiniteSet(Holders(o)) /\ Cardinality(Holders(o)) \in Nat
<1> DEFINE S == {0..Len(stack[t]) : t \in Threads}
           F == [t \in Threads |-> 0..Len(stack[t])]
<1>1. IsFiniteSet(S)
  <2>1. F \in Surjection(Threads, S)
    BY DEF Surjection
  <2> QED BY <2>1, WeakAssumption, FS_Surjection
<1>2. \A T \in S : IsFiniteSet(T)
  <2>1. ASSUME NEW t \in Threads
        PROVE  IsFiniteSet(0..Len(stack[t]))
    <3>1. PICK n \in Nat : n = Len(stack[t])
      BY DEF Stacks
    <3>2. IsFiniteSet(0..n)
      BY FS_Interval
    <3> QED BY <3>1, <3>2
  <2> QED BY <2>1
<1>3. IsFiniteSet(UNION S)
  BY <1>1, <1>2, FS_UNION
<1>4. IsFiniteSet(Threads \X UNION S)
  BY <1>3, WeakAssumption, FS_Product
<1>5. Holders(o) \subseteq Threads \X UNION S
  <2>1. ASSUME NEW h \in Holders(o)
        PROVE  h \in Threads \X UNION S
    <3>1. HoldersAre
      BY HoldersDef
    <3>2. PICK u \in Threads :
                \/ h = <<u, 0>> /\ o \in holds[u]
                \/ \E i \in Nat \ {0} : h = <<u, i>> /\ Carries(u, i, o)
      BY <2>1, <3>1 DEF HoldersAre
    <3>3. 0 \in 0..Len(stack[u]) /\ \A i \in DOMAIN stack[u] : i \in 0..Len(stack[u])
      BY DEF Stacks
    <3>4. PICK i : h = <<u, i>> /\ i \in 0..Len(stack[u])
      BY <3>2, <3>3 DEF Carries
    <3>5. i \in UNION S
      BY <3>4
    <3> QED BY <3>4, <3>5
  <2> QED BY <2>1
<1>6. IsFiniteSet(Holders(o))
  BY <1>4, <1>5, FS_Subset
<1> QED BY <1>6, FS_CardinalityType

(* Two frames with the same reference, or both without.                    *)
HeldAlike(f, g) == (f.held <=> g.held) /\ (f.held => f.new = g.new)

(* A call that returns without a reference takes none away ...             *)
LEMMA PopCarries ==
    ASSUME NEW t \in Threads, Stacks, stack[t] # <<>>, ~Top(t).held,
           Kept(t, Len(stack[t]) - 1), Len(stack'[t]) = Len(stack[t]) - 1
    PROVE  SameCarries
<1>1. PICK n \in Nat \ {0} : n = Len(stack[t])
  BY DEF Stacks
<1>2. PICK k \in Nat : n = k + 1
  BY <1>1
<1>3. Kept(t, k) /\ Len(stack'[t]) = k /\ Len(stack[t]) = k + 1
      /\ Top(t) = stack[t][k + 1]
  BY <1>1, <1>2 DEF Top
<1>4. DOMAIN stack[t] = 1..(k + 1) /\ DOMAIN stack'[t] = 1..k
  BY <1>3 DEF Kept, Stacks
<1>5. ASSUME NEW i \in Nat, i > k, NEW o \in Objects
      PROVE  Carries(t, i, o)' <=> Carries(t, i, o)
  BY <1>3, <1>4, <1>5 DEF Carries
<1> QED BY <1>3, <1>5, CarriesSame

(* ... so the holders stay.                                                *)
LEMMA PopHolders ==
    ASSUME NEW t \in Threads, Stacks, stack[t] # <<>>, ~Top(t).held,
           Kept(t, Len(stack[t]) - 1), Len(stack'[t]) = Len(stack[t]) - 1,
           UNCHANGED holds
    PROVE  SameHolders
<1>1. SameCarries
  BY PopCarries
<1>2. Stacks'
  BY DEF Kept
<1> QED BY <1>1, <1>2, CarriesHolders DEF SameHolders

(* They stay when the innermost frame keeps its reference,                 *)
LEMMA SetHolders ==
    ASSUME NEW t \in Threads, NEW f \in Frame, Stacks, stack[t] # <<>>,
           stack' = [stack EXCEPT ![t] = Append(Rest(t), f)],
           HeldAlike(f, Top(t)), UNCHANGED holds
    PROVE  SameHolders
<1>1. /\ Kept(t, Len(stack[t]) - 1)
      /\ Len(stack'[t]) = Len(stack[t])
      /\ stack'[t][Len(stack[t])] = f
      /\ Len(stack[t]) \in Nat \ {0}
  BY SetFrames
<1>2. PICK k \in Nat : Len(stack[t]) = k + 1 /\ k = Len(stack[t]) - 1
  BY <1>1
<1>3. Kept(t, k) /\ Len(stack'[t]) = k + 1 /\ Len(stack[t]) = k + 1
      /\ Top(t) = stack[t][k + 1] /\ stack'[t][k + 1] = f
  BY <1>1, <1>2 DEF Top
<1>4. DOMAIN stack[t] = 1..(k + 1) /\ DOMAIN stack'[t] = 1..(k + 1)
  BY <1>3 DEF Kept, Stacks
<1>5. ASSUME NEW i \in Nat, i > k, NEW o \in Objects
      PROVE  Carries(t, i, o)' <=> Carries(t, i, o)
  BY <1>3, <1>4, <1>5 DEF Carries, HeldAlike
<1> QED BY <1>3, <1>5, HoldersKept

(* ... when the new frame has none,                                        *)
LEMMA PushCarries ==
    ASSUME NEW t \in Threads, NEW f \in Frame, Stacks, ~f.held,
           stack' = [stack EXCEPT ![t] = Append(stack[t], f)]
    PROVE  SameCarries
<1>1. /\ Kept(t, Len(stack[t]))
      /\ Len(stack'[t]) = Len(stack[t]) + 1
      /\ stack'[t][Len(stack[t]) + 1] = f
      /\ Len(stack[t]) \in Nat
  BY PushFrames
<1>2. PICK k \in Nat : Len(stack[t]) = k
  BY <1>1
<1>3. Kept(t, k) /\ Len(stack'[t]) = k + 1 /\ stack'[t][k + 1] = f
  BY <1>1, <1>2
<1>4. DOMAIN stack[t] = 1..k /\ DOMAIN stack'[t] = 1..(k + 1)
  BY <1>2, <1>3 DEF Kept, Stacks
<1>5. ASSUME NEW i \in Nat, i > k, NEW o \in Objects
      PROVE  Carries(t, i, o)' <=> Carries(t, i, o)
  BY <1>3, <1>4, <1>5 DEF Carries
<1> QED BY <1>3, <1>5, CarriesSame

(* ... so that a call without a reference changes no holders,              *)
LEMMA PushHolders ==
    ASSUME NEW t \in Threads, NEW f \in Frame, Stacks, ~f.held,
           stack' = [stack EXCEPT ![t] = Append(stack[t], f)],
           UNCHANGED holds
    PROVE  SameHolders
<1>1. SameCarries
  BY PushCarries
<1>2. Stacks'
  BY PushFrames DEF Kept
<1> QED BY <1>1, <1>2, CarriesHolders DEF SameHolders

(* ... and when the innermost frame keeps its reference and the new one    *)
(* has none.                                                               *)
LEMMA SetPushHolders ==
    ASSUME NEW t \in Threads, NEW f \in Frame, NEW g \in Frame, Stacks,
           stack[t] # <<>>, HeldAlike(f, Top(t)), ~g.held,
           stack' = [stack EXCEPT ![t] = Append(Append(Rest(t), f), g)],
           UNCHANGED holds
    PROVE  SameHolders
<1>1. /\ Kept(t, Len(stack[t]) - 1)
      /\ Len(stack'[t]) = Len(stack[t]) + 1
      /\ stack'[t][Len(stack[t])] = f
      /\ stack'[t][Len(stack[t]) + 1] = g
      /\ Len(stack[t]) \in Nat \ {0}
  BY SetPushFrames
<1>2. PICK k \in Nat : Len(stack[t]) = k + 1 /\ k = Len(stack[t]) - 1
                        /\ Len(stack[t]) + 1 = k + 2
  <2>1. PICK n \in Nat \ {0} : n = Len(stack[t])
    BY <1>1
  <2>2. n - 1 \in Nat /\ n = (n - 1) + 1 /\ n + 1 = (n - 1) + 2
    OBVIOUS
  <2> QED BY <2>1, <2>2
<1>3. Kept(t, k) /\ Len(stack'[t]) = k + 2 /\ Len(stack[t]) = k + 1
      /\ Top(t) = stack[t][k + 1] /\ stack'[t][k + 1] = f
      /\ stack'[t][k + 2] = g
  BY <1>1, <1>2 DEF Top
<1>4. DOMAIN stack[t] = 1..(k + 1) /\ DOMAIN stack'[t] = 1..(k + 2)
  BY <1>3 DEF Kept, Stacks
<1>5. ASSUME NEW i \in Nat, i > k, NEW o \in Objects
      PROVE  Carries(t, i, o)' <=> Carries(t, i, o)
  <2>1. CASE i = k + 1
    BY <1>3, <1>4, <2>1 DEF Carries, HeldAlike
  <2>2. CASE i > k + 1
    <3>1. ~Carries(t, i, o)
      BY <1>4, <2>2 DEF Carries
    <3>2. i \in DOMAIN stack'[t] => stack'[t][i] = g
      BY <1>3, <1>4, <2>2
    <3> QED BY <3>1, <3>2 DEF Carries
  <2> QED BY <1>5, <2>1, <2>2
<1> QED BY <1>3, <1>5, HoldersKept

-----------------------------------------------------------------------------
(* The steps, in the order of the model: calls that only push a frame.     *)

(* The parts of the invariant.                                             *)
LEMMA IndParts ==
    ASSUME IndInv
    PROVE  TypeOK /\ Stacks /\ Registered /\ FramesOK /\ HoldsLive
           /\ NoLockInProgram
  BY DEF IndInv, TypeOK, Stacks

(* The innermost frame is a frame and is right.                            *)
LEMMA TopFacts ==
    ASSUME NEW t \in Threads, Stacks, FramesOK, stack[t] # <<>>
    PROVE  /\ Top(t) \in Frame /\ FrameOK(Top(t))
           /\ Len(stack[t]) \in DOMAIN stack[t]
           /\ Len(stack[t]) \in Nat \ {0}
<1>1. stack[t] \in Seq(Frame)
  BY DEF Stacks
<1>2. Len(stack[t]) \in DOMAIN stack[t] /\ Top(t) \in Frame
      /\ Len(stack[t]) \in Nat \ {0}
  BY <1>1 DEF Top
<1> QED BY <1>2 DEF FramesOK, Top

(* A step that changes only the stack of t keeps the invariant when the    *)
(* frames are right after it.                                              *)
LEMMA QuietStep ==
    ASSUME NEW t \in Threads, IndInv,
           UNCHANGED <<table, life, holds, lock, initializing>>,
           Stacks', \A u \in Threads \ {t} : stack'[u] = stack[u],
           stack[t] # <<>> => Top(t).step # "lock2",
           FramesOK'
    PROVE  IndInv'
<1>1. TypeOK /\ NoLockInProgram
  BY IndParts
<1>2. TypeOK'
  BY <1>1 DEF TypeOK, Stacks, table, Tables
<1>3. Registered' /\ HoldsLive'
  BY DEF IndInv, Registered, HoldsLive, table
<1>4. NoLockInProgram'
  <2>1. UNCHANGED lock
    OBVIOUS
  <2> QED BY <1>1, <2>1, NoLockKept
<1> QED BY <1>2, <1>3, <1>4 DEF IndInv

(* A call that begins with nothing but a new frame keeps the invariant,    *)
(* when the variables it is about are not busy.                            *)
LEMMA PushQuiet ==
    ASSUME NEW t \in Threads, NEW f \in Frame, IndInv, InProgram(t),
           UNCHANGED <<table, life, holds, lock, initializing>>,
           Push(t, f), FrameOK(f), f.does # "dealloc",
           ~f.held,
           \A l \in Excluded(f) : ~Busy(l),
           \A l \in Mentioned(f) : ~Exclusive(l)
    PROVE  IndInv' /\ SameHolders
<1>1. Stacks /\ FramesOK
  BY IndParts
<1>2. stack' = [stack EXCEPT ![t] = Append(stack[t], f)]
  BY DEF Push
<1>3. /\ Kept(t, Len(stack[t]))
      /\ Len(stack'[t]) = Len(stack[t]) + 1
      /\ stack'[t][Len(stack[t]) + 1] = f
      /\ Len(stack[t]) \in Nat
  BY <1>1, <1>2, PushFrames
<1>4. Fresh(t, Len(stack[t]), f)
  BY <1>1, FreeIsFresh
<1>5. Undisturbed(t, Len(stack[t]))
  <2>1. UNCHANGED <<inUse, life, referrers>>
    BY DEF table
  <2> QED BY <1>1, <2>1, SameUndisturbed
<1>6. FrameOK(f)'
  BY DEF FrameOK, Source, table
<1>7. FramesOK'
  BY <1>1, <1>3, <1>4, <1>5, <1>6, OneStep
<1>8. Stacks' /\ \A u \in Threads \ {t} : stack'[u] = stack[u]
  BY <1>3 DEF Kept
<1>9. stack[t] # <<>> => Top(t).step # "lock2"
  BY DEF InProgram
<1>10. SameHolders
  BY <1>1, <1>2, PushHolders
<1> QED BY <1>7, <1>8, <1>9, <1>10, QuietStep

(* Narrowing the innermost frame keeps the frames right.                   *)
LEMMA SetFramesOK ==
    ASSUME NEW t \in Threads, NEW f \in Frame, Stacks, FramesOK,
           stack[t] # <<>>,
           stack' = [stack EXCEPT ![t] = Append(Rest(t), f)],
           Undisturbed(t, Len(stack[t]) - 1),
           Narrower(f, Top(t)), FrameOK(f)'
    PROVE  FramesOK'
<1>1. /\ Kept(t, Len(stack[t]) - 1)
      /\ Len(stack'[t]) = Len(stack[t])
      /\ stack'[t][Len(stack[t])] = f
      /\ Len(stack[t]) \in Nat \ {0}
  BY SetFrames
<1>2. Fresh(t, Len(stack[t]) - 1, f)
  BY NarrowerIsFresh
<1>3. PICK k \in Nat : k = Len(stack[t]) - 1 /\ Len(stack[t]) = k + 1
  BY <1>1
<1>4. Kept(t, k) /\ Len(stack'[t]) = k + 1 /\ stack'[t][k + 1] = f
      /\ Fresh(t, k, f) /\ Undisturbed(t, k)
  BY <1>1, <1>2, <1>3
<1> QED BY <1>4, OneStep

(* A step that only narrows the innermost frame keeps the invariant.       *)
LEMMA SetQuiet ==
    ASSUME NEW t \in Threads, NEW f \in Frame, IndInv, stack[t] # <<>>,
           Top(t).step # "lock2",
           UNCHANGED <<table, life, holds, lock, initializing>>,
           SetTop(t, f), FrameOK(f), Narrower(f, Top(t))
    PROVE  IndInv' /\ (HeldAlike(f, Top(t)) => SameHolders)
<1>1. Stacks /\ FramesOK
  BY IndParts
<1>2. stack' = [stack EXCEPT ![t] = Append(Rest(t), f)]
  BY DEF SetTop
<1>3. Kept(t, Len(stack[t]) - 1)
  BY <1>1, <1>2, SetFrames
<1>5. Undisturbed(t, Len(stack[t]) - 1)
  <2>1. UNCHANGED <<inUse, life, referrers>>
    BY DEF table
  <2> QED BY <1>1, <2>1, SameUndisturbed
<1>6. FrameOK(f)'
  BY DEF FrameOK, Source, table
<1>7. FramesOK'
  BY <1>1, <1>2, <1>5, <1>6, SetFramesOK
<1>8. Stacks' /\ \A u \in Threads \ {t} : stack'[u] = stack[u]
  BY <1>3 DEF Kept
<1>9. HeldAlike(f, Top(t)) => SameHolders
  BY <1>1, <1>2, SetHolders
<1>10. IndInv'
  BY <1>7, <1>8, QuietStep
<1> QED BY <1>9, <1>10

(* What the program can reach are objects.                                 *)
LEMMA ReachableObjects ==
    ASSUME NEW t \in Threads, NEW o \in Reachable(t), IndInv
    PROVE  o \in Objects \cup {Nil}
<1>1. TypeOK /\ Stacks
  BY IndParts
<1>2. ASSUME NEW g \in Frames(t)
      PROVE  g \in Frame
  BY <1>1 DEF Frames, Stacks
<1>3. \A g \in Frames(t) : g.new \in Objects \cup {Nil}
  BY <1>2 DEF Frame
<1>4. holds[t] \subseteq Objects
  BY <1>1 DEF TypeOK
<1> QED BY <1>3, <1>4 DEF Reachable

(* A variable no call is about is not had by one call to itself.           *)
LEMMA IdleFrame ==
    ASSUME NEW l, ~Busy(l)
    PROVE  ~Exclusive(l)
  BY DEF Busy, Exclusive, Excluded, Mentioned

(* Beginning a store keeps the invariant;                                  *)
LEMMA StoreWeakStep ==
    ASSUME IndInv, NEW t \in Threads, StoreWeak(t)
    PROVE  IndInv' /\ SameHolders
<1>1. PICK l \in Locations : \E o \in Reachable(t) \cup {Nil} :
          /\ Usable(l)
          /\ Push(t, [Call("store", "read") EXCEPT !.loc = l, !.new = o])
  BY DEF StoreWeak
<1>2. PICK o \in Reachable(t) \cup {Nil} :
          /\ Usable(l)
          /\ Push(t, [Call("store", "read") EXCEPT !.loc = l, !.new = o])
  BY <1>1
<1>3. o \in Objects \cup {Nil}
  BY <1>2, ReachableObjects
<1>4. PICK f \in Frame :
          f = [Call("store", "read") EXCEPT !.loc = l, !.new = o]
  BY <1>3 DEF Call, Frame, Ops, Steps
<1>5. f.op = "store" /\ f.does = "store" /\ f.loc = l /\ f.src = NoLocation
      /\ ~f.held
  BY <1>4 DEF Call
<1>6. FrameOK(f)
  BY <1>5 DEF FrameOK
<1>7. Mentioned(f) = {l} /\ Excluded(f) = {}
  BY <1>5, WeakAssumption DEF Mentioned, Excluded
<1>8. ~Exclusive(l)
  BY <1>2 DEF Usable
<1>9. Push(t, f) /\ InProgram(t)
      /\ UNCHANGED <<table, life, holds, lock, initializing>>
  BY <1>2, <1>4 DEF StoreWeak
<1>10. /\ \A m \in Excluded(f) : ~Busy(m)
       /\ \A m \in Mentioned(f) : ~Exclusive(m)
       /\ f.does # "dealloc" /\ ~f.held
  BY <1>5, <1>7, <1>8
<1> QED BY <1>6, <1>9, <1>10, PushQuiet

(* ... so does beginning to destroy a variable,                            *)
LEMMA DestroyWeakStep ==
    ASSUME IndInv, NEW t \in Threads, DestroyWeak(t)
    PROVE  IndInv' /\ SameHolders
<1>1. PICK l \in Locations :
          /\ inUse[l] /\ ~Busy(l)
          /\ Push(t, [Call("destroy", "read") EXCEPT !.loc = l, !.src = l])
  BY DEF DestroyWeak
<1>4. PICK f \in Frame :
          f = [Call("destroy", "read") EXCEPT !.loc = l, !.src = l]
  BY DEF Call, Frame, Ops, Steps
<1>5. f.op = "destroy" /\ f.does = "destroy" /\ f.loc = l /\ f.src = l
      /\ ~f.held /\ f.step = "read"
  BY <1>4 DEF Call
<1>6. FrameOK(f)
  BY <1>5 DEF FrameOK
<1>7. Mentioned(f) = {l} /\ Excluded(f) = {l}
  BY <1>5, WeakAssumption DEF Mentioned, Excluded
<1>8. ~Exclusive(l)
  BY <1>1, IdleFrame
<1>9. Push(t, f) /\ InProgram(t)
      /\ UNCHANGED <<table, life, holds, lock, initializing>>
  BY <1>1, <1>4 DEF DestroyWeak
<1>10. /\ \A m \in Excluded(f) : ~Busy(m)
       /\ \A m \in Mentioned(f) : ~Exclusive(m)
       /\ f.does # "dealloc" /\ ~f.held
  BY <1>1, <1>5, <1>7, <1>8
<1> QED BY <1>6, <1>9, <1>10, PushQuiet

(* ... a load,                                                             *)
LEMMA LoadWeakStep ==
    ASSUME IndInv, NEW t \in Threads, LoadWeak(t)
    PROVE  IndInv' /\ SameHolders
<1>1. PICK l \in Locations :
          /\ Usable(l)
          /\ Push(t, [Call("load", "read") EXCEPT !.loc = l])
  BY DEF LoadWeak
<1>4. PICK f \in Frame : f = [Call("load", "read") EXCEPT !.loc = l]
  BY DEF Call, Frame, Ops, Steps
<1>5. f.op = "load" /\ f.does = "load" /\ f.loc = l /\ f.src = NoLocation
      /\ ~f.held /\ f.step = "read"
  BY <1>4 DEF Call
<1>6. FrameOK(f)
  BY <1>1, <1>5 DEF FrameOK, Source, Usable
<1>7. Mentioned(f) = {l} /\ Excluded(f) = {}
  BY <1>5, WeakAssumption DEF Mentioned, Excluded
<1>8. ~Exclusive(l)
  BY <1>1 DEF Usable
<1>9. Push(t, f) /\ InProgram(t)
      /\ UNCHANGED <<table, life, holds, lock, initializing>>
  BY <1>1, <1>4 DEF LoadWeak
<1>10. /\ \A m \in Excluded(f) : ~Busy(m)
       /\ \A m \in Mentioned(f) : ~Exclusive(m)
       /\ f.does # "dealloc" /\ ~f.held
  BY <1>5, <1>7, <1>8
<1> QED BY <1>6, <1>9, <1>10, PushQuiet

(* ... a copy or a move.                                                   *)
LEMMA CopyWeakStep ==
    ASSUME IndInv, NEW t \in Threads, CopyWeak(t)
    PROVE  IndInv' /\ SameHolders
<1>1. PICK dst \in Locations, src \in Locations, op \in {"copy", "move"} :
          /\ ~inUse[dst] /\ ~Busy(dst)
          /\ Usable(src) /\ (op = "move" => ~Busy(src))
          /\ Push(t, [Call(op, "read") EXCEPT !.does = "load",
                                             !.loc = dst, !.src = src])
  BY DEF CopyWeak
<1>4. PICK f \in Frame : f = [Call(op, "read") EXCEPT !.does = "load",
                                             !.loc = dst, !.src = src]
  BY DEF Call, Frame, Ops, Steps
<1>5. f.op = op /\ f.does = "load" /\ f.loc = dst /\ f.src = src
      /\ ~f.held /\ f.step = "read"
  BY <1>4 DEF Call
<1>6. FrameOK(f)
  BY <1>1, <1>5 DEF FrameOK, Source, Usable
<1>7. /\ Mentioned(f) = {dst, src}
      /\ Excluded(f) = IF op = "move" THEN {dst, src} ELSE {dst}
  BY <1>5, WeakAssumption DEF Mentioned, Excluded
<1>8. ~Exclusive(src) /\ ~Exclusive(dst)
  BY <1>1, IdleFrame DEF Usable
<1>9. Push(t, f) /\ InProgram(t)
      /\ UNCHANGED <<table, life, holds, lock, initializing>>
  BY <1>1, <1>4 DEF CopyWeak
<1>10. /\ \A m \in Excluded(f) : ~Busy(m)
       /\ \A m \in Mentioned(f) : ~Exclusive(m)
       /\ f.does # "dealloc" /\ ~f.held
  BY <1>1, <1>5, <1>7, <1>8
<1> QED BY <1>6, <1>9, <1>10, PushQuiet

(* Initializing a variable keeps it; nil needs no registration.            *)
LEMMA InitWeakStep ==
    ASSUME IndInv, NEW t \in Threads, InitWeak(t)
    PROVE  IndInv' /\ SameHolders
<1>1. PICK l \in Locations : \E o \in Reachable(t) \cup {Nil} :
           /\ ~inUse[l] /\ ~Busy(l)
           /\ IF o = Nil
              THEN /\ location' = [location EXCEPT ![l] = Nil]
                   /\ inUse' = [inUse EXCEPT ![l] = TRUE]
                   /\ UNCHANGED stack
              ELSE /\ Push(t, [Call("init", "lock") EXCEPT !.loc = l,
                                                           !.new = o])
                   /\ UNCHANGED <<location, inUse>>
  BY DEF InitWeak
<1>2. PICK o \in Reachable(t) \cup {Nil} :
           /\ ~inUse[l] /\ ~Busy(l)
           /\ IF o = Nil
              THEN /\ location' = [location EXCEPT ![l] = Nil]
                   /\ inUse' = [inUse EXCEPT ![l] = TRUE]
                   /\ UNCHANGED stack
              ELSE /\ Push(t, [Call("init", "lock") EXCEPT !.loc = l,
                                                           !.new = o])
                   /\ UNCHANGED <<location, inUse>>
  BY <1>1
<1>3. CASE o = Nil
  <2>1. UNCHANGED <<referrers, weakly_referenced, life, holds, lock,
                    initializing, stack>>
        /\ location' = [location EXCEPT ![l] = Nil]
        /\ inUse' = [inUse EXCEPT ![l] = TRUE]
    BY <1>2, <1>3 DEF InitWeak
  <2>2. TypeOK /\ Registered /\ FramesOK /\ HoldsLive /\ NoLockInProgram
        /\ Stacks
    BY IndParts
  <2>3. TypeOK'
    BY <2>1, <2>2 DEF TypeOK, Tables
  <2>4. Registered'
    BY <2>1, <2>2, <1>2 DEF TypeOK, Registered
  <2>5. HoldsLive' /\ NoLockInProgram'
    BY <2>1, <2>2 DEF HoldsLive, NoLockInProgram, Top, Tables
  <2>6. ASSUME NEW u \in Threads, NEW i \in DOMAIN stack[u]
        PROVE  FrameOK(stack[u][i])'
    <3>1. PICK g \in Frame : g = stack[u][i] /\ g = stack'[u][i]
      BY <2>1, <2>2 DEF Stacks
    <3>2. FrameOK(g)
      BY <3>1, <2>2 DEF FramesOK
    <3>3. l \notin Mentioned(g)
      <4>1. g \in AllFrames
        <5>1. g \in Frames(u)
          BY <3>1, <2>1 DEF Frames
        <5> QED BY <5>1 DEF AllFrames
      <4> QED BY <1>2, <4>1 DEF Busy
    <3>4. FrameOK(g)'
      BY <2>1, <2>2, <3>2, <3>3 DEF FrameOK, Source, Mentioned, TypeOK
    <3> QED BY <3>1, <3>4 DEF FrameOK, Source
  <2>7. FramesOK'
    BY <2>1, <2>2, <2>6 DEF FramesOK, Apart, Mentioned, Excluded
  <2>8. SameHolders
    BY <2>1 DEF SameHolders, Holders
  <2> QED BY <2>3, <2>4, <2>5, <2>7, <2>8 DEF IndInv
<1>4. CASE o # Nil
  <2>3. o \in Objects
    BY <1>2, <1>4, ReachableObjects
  <2>4. PICK f \in Frame :
            f = [Call("init", "lock") EXCEPT !.loc = l, !.new = o]
    BY <2>3 DEF Call, Frame, Ops, Steps
  <2>5. f.op = "init" /\ f.does = "init" /\ f.loc = l /\ f.src = NoLocation
        /\ ~f.held /\ f.new = o /\ f.step = "lock"
    BY <2>4 DEF Call
  <2>6. FrameOK(f)
    BY <1>2, <2>3, <2>5 DEF FrameOK
  <2>7. Mentioned(f) = {l} /\ Excluded(f) = {l}
    BY <2>5, WeakAssumption DEF Mentioned, Excluded
  <2>8. ~Exclusive(l)
    BY <1>2, IdleFrame
  <2>9. Push(t, f) /\ InProgram(t)
        /\ UNCHANGED <<table, life, holds, lock, initializing>>
    BY <1>2, <1>4, <2>4 DEF InitWeak, table
  <2>10. /\ \A m \in Excluded(f) : ~Busy(m)
         /\ \A m \in Mentioned(f) : ~Exclusive(m)
         /\ f.does # "dealloc" /\ ~f.held
    BY <1>2, <2>5, <2>7, <2>8
  <2> QED BY <2>6, <2>9, <2>10, PushQuiet
<1> QED BY <1>3, <1>4

(* Reading the variable out of the lock keeps the invariant: nothing       *)
(* relies on what was read.                                                *)
LEMMA ReadOldStep ==
    ASSUME IndInv, NEW t \in Threads, ReadOld(t)
    PROVE  IndInv' /\ SameHolders
<1>1. Stacks /\ FramesOK /\ TypeOK
  BY IndParts
<1>2. stack[t] # <<>> /\ Top(t).step = "read"
      /\ Top(t).does \in {"store", "destroy"}
  BY DEF ReadOld, At
<1>3. PICK g \in Frame : g = Top(t) /\ FrameOK(g)
  BY <1>1, <1>2, TopFacts
<1>4. location[g.loc] \in Objects \cup {Nil}
  BY <1>1, <1>2, <1>3 DEF FrameOK, TypeOK
<1>5. PICK f \in Frame : f = [g EXCEPT !.old = location[g.loc], !.step = "lock"]
  BY <1>4 DEF Frame, Steps
<1>6. f.op = g.op /\ f.does = g.does /\ f.step = "lock" /\ f.loc = g.loc
      /\ f.src = g.src /\ f.new = g.new /\ f.held = g.held
  BY <1>5 DEF Frame
<1>7. FrameOK(f)
  BY <1>2, <1>3, <1>6 DEF FrameOK, Source
<1>8. Narrower(f, Top(t))
  BY <1>3, <1>6 DEF Narrower, Mentioned, Excluded
<1>9. SetTop(t, f)
  BY <1>3, <1>5 DEF ReadOld
<1>10. UNCHANGED <<table, life, holds, lock, initializing>>
  BY DEF ReadOld
<1>11. HeldAlike(f, Top(t))
  BY <1>3, <1>6 DEF HeldAlike
<1> QED BY <1>2, <1>7, <1>8, <1>9, <1>10, <1>11, SetQuiet

(* Waiting for +initialize keeps it.                                       *)
LEMMA WaitStep ==
    ASSUME IndInv, NEW t \in Threads, WaitForInitialize(t)
    PROVE  IndInv' /\ SameHolders
<1>1. Stacks /\ FramesOK /\ TypeOK
  BY IndParts
<1>2. stack[t] # <<>> /\ Top(t).step = "wait"
  BY DEF WaitForInitialize
<1>3. PICK g \in Frame : g = Top(t) /\ FrameOK(g)
  BY <1>1, <1>2, TopFacts
<1>5. PICK f \in Frame : f = Restarted(g, g.seen)
  BY DEF Frame, Steps, Restarted
<1>6. f.op = g.op /\ f.does = g.does /\ f.loc = g.loc
      /\ f.src = g.src /\ f.new = g.new /\ f.held = g.held
      /\ f.step = IF g.does = "init" THEN "lock" ELSE "read"
  BY <1>5 DEF Frame, Restarted
<1>7. FrameOK(f)
  BY <1>2, <1>3, <1>6 DEF FrameOK, Source
<1>8. Narrower(f, Top(t))
  BY <1>3, <1>6 DEF Narrower, Mentioned, Excluded
<1>9. SetTop(t, f)
  BY <1>3, <1>5 DEF WaitForInitialize
<1>10. UNCHANGED <<table, life, holds, lock, initializing>>
  BY DEF WaitForInitialize
<1>11. HeldAlike(f, Top(t))
  BY <1>3, <1>6 DEF HeldAlike
<1> QED BY <1>2, <1>7, <1>8, <1>9, <1>10, <1>11, SetQuiet

(* Starting a load over keeps it.                                          *)
LEMMA LoadRetryStep ==
    ASSUME IndInv, NEW t \in Threads, LoadRetry(t)
    PROVE  IndInv' /\ SameHolders
<1>1. Stacks /\ FramesOK /\ TypeOK
  BY IndParts
<1>2. stack[t] # <<>> /\ Top(t).step = "lock" /\ Top(t).does = "load"
  BY DEF LoadRetry, LoadLocks, At
<1>3. PICK g \in Frame : g = Top(t) /\ FrameOK(g)
  BY <1>1, <1>2, TopFacts
<1>5. PICK f \in Frame : f = [g EXCEPT !.step = "read"]
  BY DEF Frame, Steps
<1>6. f.op = g.op /\ f.does = g.does /\ f.loc = g.loc
      /\ f.src = g.src /\ f.new = g.new /\ f.held = g.held
      /\ f.step = "read"
  BY <1>5 DEF Frame
<1>7. FrameOK(f)
  BY <1>2, <1>3, <1>6 DEF FrameOK, Source
<1>8. Narrower(f, Top(t))
  BY <1>3, <1>6 DEF Narrower, Mentioned, Excluded
<1>9. SetTop(t, f)
  BY <1>3, <1>5 DEF LoadRetry, Goto
<1>10. UNCHANGED <<table, life, holds, lock, initializing>>
  BY DEF LoadRetry
<1>11. HeldAlike(f, Top(t))
  BY <1>3, <1>6 DEF HeldAlike
<1> QED BY <1>2, <1>7, <1>8, <1>9, <1>10, <1>11, SetQuiet

(* Taking the first of two locks keeps it: the frame says so.              *)
LEMMA LockFirstStep ==
    ASSUME IndInv, NEW t \in Threads, LockFirst(t)
    PROVE  IndInv' /\ SameHolders
<1>1. Stacks /\ FramesOK /\ TypeOK /\ NoLockInProgram
  BY IndParts
<1>2. stack[t] # <<>> /\ Top(t).step = "lock"
      /\ Top(t).does \in {"store", "init", "destroy"}
  BY DEF LockFirst, InStore, At
<1>3. PICK g \in Frame : g = Top(t) /\ FrameOK(g)
  BY <1>1, <1>2, TopFacts
<1>5. PICK f \in Frame : f = [g EXCEPT !.step = "lock2"]
  BY DEF Frame, Steps
<1>6. f.op = g.op /\ f.does = g.does /\ f.loc = g.loc
      /\ f.src = g.src /\ f.new = g.new /\ f.held = g.held
      /\ f.step = "lock2"
  BY <1>5 DEF Frame
<1>7. FrameOK(f)
  BY <1>2, <1>3, <1>6 DEF FrameOK, Source
<1>8. Narrower(f, Top(t))
  BY <1>3, <1>6 DEF Narrower, Mentioned, Excluded
<1>9. stack' = [stack EXCEPT ![t] = Append(Rest(t), f)]
  BY <1>3, <1>5 DEF LockFirst, Goto, SetTop
<1>10. UNCHANGED <<table, life, holds, initializing>>
       /\ lock' = [lock EXCEPT ![FirstTable(Top(t))] = t]
  BY DEF LockFirst
<1>11. /\ Kept(t, Len(stack[t]) - 1)
       /\ Len(stack'[t]) = Len(stack[t])
       /\ stack'[t][Len(stack[t])] = f
       /\ Len(stack[t]) \in Nat \ {0}
  BY <1>1, <1>2, <1>9, SetFrames
<1>12. Undisturbed(t, Len(stack[t]) - 1)
  <2>1. UNCHANGED <<inUse, life, referrers>>
    BY <1>10 DEF table
  <2> QED BY <1>1, <2>1, SameUndisturbed
<1>13. FrameOK(f)'
  BY <1>7, <1>10 DEF FrameOK, Source, table
<1>14. FramesOK'
  BY <1>1, <1>2, <1>8, <1>9, <1>12, <1>13, SetFramesOK
<1>15. Stacks' /\ \A u \in Threads \ {t} : stack'[u] = stack[u]
  BY <1>11 DEF Kept
<1>16. TypeOK'
  BY <1>1, <1>10, <1>15 DEF TypeOK, Stacks, table, Tables
<1>17. Registered' /\ HoldsLive'
  BY <1>10 DEF IndInv, Registered, HoldsLive, table
<1>18. ASSUME NEW b \in Tables, lock'[b] # NoThread
       PROVE  /\ stack'[lock'[b]] # <<>>
              /\ stack'[lock'[b]][Len(stack'[lock'[b]])].step = "lock2"
  <2>1. CASE lock'[b] = t
    <3>1. stack'[t] # <<>> /\ stack'[t][Len(stack'[t])] = f
      BY <1>11
    <3> QED BY <2>1, <3>1, <1>6
  <2>2. CASE lock'[b] # t
    <3>1. PICK u \in Threads : u = lock[b] /\ u = lock'[b]
      BY <1>1, <1>10, <1>18, <2>2 DEF TypeOK
    <3>2. stack[u] # <<>> /\ Top(u).step = "lock2"
      BY <1>1, <1>18, <3>1 DEF NoLockInProgram
    <3>3. stack'[u] = stack[u]
      BY <1>15, <2>2, <3>1
    <3> QED BY <3>1, <3>2, <3>3 DEF Top
  <2> QED BY <2>1, <2>2
<1>19. NoLockInProgram'
  BY <1>18 DEF NoLockInProgram, Top, Tables
<1>20. SameHolders
  <2>1. HeldAlike(f, Top(t)) /\ UNCHANGED holds
    BY <1>3, <1>6, <1>10 DEF HeldAlike
  <2> QED BY <1>1, <1>2, <1>9, <2>1, SetHolders
<1> QED BY <1>14, <1>16, <1>17, <1>19, <1>20 DEF IndInv

-----------------------------------------------------------------------------
(* Steps that leave the variables and the lives alone.                     *)

(* The invariant after a step that leaves the table, the lives and the     *)
(* references of the threads alone.                                        *)
LEMMA QuietParts ==
    ASSUME IndInv, UNCHANGED <<table, life, holds>>,
           lock' \in [Tables -> Threads \cup {NoThread}],
           initializing' \in [Classes -> {"no", "done"} \cup Threads],
           Stacks', FramesOK', NoLockInProgram'
    PROVE  IndInv'
<1>1. TypeOK /\ Registered /\ HoldsLive
  BY IndParts
<1>2. TypeOK'
  BY <1>1 DEF TypeOK, Stacks, table, Tables
<1>3. Registered' /\ HoldsLive'
  BY <1>1 DEF Registered, HoldsLive, table
<1> QED BY <1>2, <1>3 DEF IndInv

(* A side table is locked by a thread or by none.                          *)
LEMMA UnlockType ==
    ASSUME NEW t \in Threads, TypeOK, Unlock(t)
    PROVE  lock' \in [Tables -> Threads \cup {NoThread}]
  BY DEF Unlock, TypeOK

(* Who locks a table is in the middle of a store.                          *)
LEMMA LocksTop ==
    ASSUME NEW t \in Threads, Locks(t)
    PROVE  /\ stack[t] # <<>>
           /\ Top(t).does \in {"store", "init", "destroy"}
           /\ Top(t).step \in {"lock", "lock2"}
  BY DEF Locks, InStore, At

(* _class_initialize keeps the frames right and gives up no reference: a   *)
(* frame of +initialize claims nothing.                                    *)
LEMMA ClassInitialize ==
    ASSUME NEW t \in Threads, NEW c \in Classes, IndInv, stack[t] # <<>>,
           Top(t).does \in {"store", "init", "load"},
           Top(t).step \in {"lock", "lock2"},
           class_initialize(t, c), UNCHANGED <<table, life, holds>>
    PROVE  /\ Stacks' /\ FramesOK'
           /\ \A u \in Threads \ {t} : stack'[u] = stack[u]
           /\ initializing' \in [Classes -> {"no", "done"} \cup Threads]
           /\ SameHolders
<1>1. Stacks /\ FramesOK /\ TypeOK
  BY IndParts
<1>2. PICK g \in Frame : g = Top(t) /\ FrameOK(g)
  BY <1>1, TopFacts
<1>3. Undisturbed(t, Len(stack[t]) - 1)
  <2>1. UNCHANGED <<inUse, life, referrers>>
    BY DEF table
  <2> QED BY <1>1, <2>1, SameUndisturbed
<1>4. ASSUME NEW f \in Frame,
             f.op = g.op, f.does = g.does, f.loc = g.loc,
             f.src = g.src, f.new = g.new, f.held = g.held,
             f.step \in {"lock", "read", "wait"},
             f.step = "lock" => g.does = "init"
      PROVE  FrameOK(f)' /\ Narrower(f, Top(t))
  <2>1. FrameOK(f)
    BY <1>2, <1>4 DEF FrameOK, Source
  <2>2. FrameOK(f)'
    BY <2>1 DEF FrameOK, Source, table
  <2>3. Narrower(f, Top(t))
    BY <1>2, <1>4 DEF Narrower, Mentioned, Excluded
  <2> QED BY <2>2, <2>3
<1>5. PICK f \in Frame : f = Restarted(g, c)
  BY DEF Frame, Steps, Restarted
<1>6. f.op = g.op /\ f.does = g.does /\ f.loc = g.loc
      /\ f.src = g.src /\ f.new = g.new /\ f.held = g.held
      /\ f.step = IF g.does = "init" THEN "lock" ELSE "read"
  BY <1>5 DEF Frame, Restarted
<1>7. FrameOK(f)' /\ Narrower(f, Top(t)) /\ HeldAlike(f, Top(t))
  BY <1>2, <1>4, <1>6 DEF HeldAlike
<1>8. CASE initializing[c] = "no"
           /\ initializing' = [initializing EXCEPT ![c] = t]
           /\ stack' = [stack EXCEPT ![t] =
              Append(Append(Rest(t), Restarted(Top(t), c)),
                     [Call("initialize", "run") EXCEPT !.seen = c])]
  <2>1. PICK h \in Frame : h = [Call("initialize", "run") EXCEPT !.seen = c]
    BY DEF Call, Frame, Ops, Steps
  <2>2. h.op = "initialize" /\ h.does = "initialize" /\ h.loc = NoLocation
        /\ h.src = NoLocation /\ ~h.held
    BY <2>1 DEF Call
  <2>3. stack' = [stack EXCEPT ![t] = Append(Append(Rest(t), f), h)]
    BY <1>2, <1>5, <1>8, <2>1
  <2>4. /\ Kept(t, Len(stack[t]) - 1)
        /\ Len(stack'[t]) = Len(stack[t]) + 1
        /\ stack'[t][Len(stack[t])] = f
        /\ stack'[t][Len(stack[t]) + 1] = h
        /\ Len(stack[t]) \in Nat \ {0}
    BY <1>1, <2>3, SetPushFrames
  <2>5. PICK k \in Nat : k = Len(stack[t]) - 1 /\ Len(stack[t]) = k + 1
                         /\ Len(stack[t]) + 1 = k + 2
    <3>1. PICK n \in Nat \ {0} : n = Len(stack[t])
      BY <2>4
    <3>2. n - 1 \in Nat /\ n = (n - 1) + 1 /\ n + 1 = (n - 1) + 2
      OBVIOUS
    <3> QED BY <3>1, <3>2
  <2>6. Kept(t, k) /\ Len(stack'[t]) = k + 2 /\ stack'[t][k + 1] = f
        /\ stack'[t][k + 2] = h /\ Undisturbed(t, k)
    BY <1>3, <2>4, <2>5
  <2>7. Fresh(t, k, f)
    BY <1>1, <1>7, <2>5, NarrowerIsFresh
  <2>8. Fresh(t, k, h)
    BY <2>2, InertIsFresh DEF Inert
  <2>9. FrameOK(h)'
    BY <2>2 DEF FrameOK
  <2>10. Apart(f, h) /\ Apart(h, f)
    BY <2>2, WeakAssumption DEF Apart, Mentioned, Excluded
  <2>11. FramesOK'
    BY <1>1, <1>7, <2>6, <2>7, <2>8, <2>9, <2>10, TwoSteps
  <2>12. initializing' \in [Classes -> {"no", "done"} \cup Threads]
    BY <1>1, <1>8 DEF TypeOK
  <2>13. SameHolders
    BY <1>1, <1>7, <2>2, <2>3, SetPushHolders
  <2> QED BY <2>4, <2>11, <2>12, <2>13 DEF Kept
<1>9. CASE SetTop(t, Restarted(Top(t), c)) /\ UNCHANGED initializing
  <2>1. stack' = [stack EXCEPT ![t] = Append(Rest(t), f)]
    BY <1>2, <1>5, <1>9 DEF SetTop
  <2>2. Kept(t, Len(stack[t]) - 1)
    BY <1>1, <2>1, SetFrames
  <2>3. FramesOK'
    BY <1>1, <1>3, <1>7, <2>1, SetFramesOK
  <2>4. SameHolders
    BY <1>1, <1>7, <2>1, SetHolders
  <2> QED BY <1>1, <1>9, <2>2, <2>3, <2>4 DEF Kept, TypeOK
<1>10. CASE SetTop(t, [Top(t) EXCEPT !.seen = c, !.step = "wait"])
            /\ UNCHANGED initializing
  <2>1. PICK h \in Frame : h = [g EXCEPT !.seen = c, !.step = "wait"]
    BY DEF Frame, Steps
  <2>2. h.op = g.op /\ h.does = g.does /\ h.loc = g.loc
        /\ h.src = g.src /\ h.new = g.new /\ h.held = g.held
        /\ h.step = "wait"
    BY <2>1 DEF Frame
  <2>3. FrameOK(h)' /\ Narrower(h, Top(t))
    BY <1>4, <2>2
  <2>4. stack' = [stack EXCEPT ![t] = Append(Rest(t), h)]
    BY <1>2, <1>10, <2>1 DEF SetTop
  <2>5. Kept(t, Len(stack[t]) - 1)
    BY <1>1, <2>4, SetFrames
  <2>6. FramesOK'
    BY <1>1, <1>3, <2>3, <2>4, SetFramesOK
  <2>7. SameHolders
    <3>1. HeldAlike(h, Top(t))
      BY <1>2, <2>2 DEF HeldAlike
    <3> QED BY <1>1, <2>4, <3>1, SetHolders
  <2> QED BY <1>1, <1>10, <2>5, <2>6, <2>7 DEF Kept, TypeOK
<1> QED BY <1>8, <1>9, <1>10 DEF class_initialize

(* Running or awaiting +initialize from a store keeps the invariant, since *)
(* the locks are released first.                                           *)
LEMMA StoreInitializeStep ==
    ASSUME IndInv, NEW t \in Threads, StoreInitialize(t)
    PROVE  IndInv' /\ SameHolders
<1>1. Stacks /\ FramesOK /\ TypeOK /\ NoLockInProgram
  BY IndParts
<1>2. /\ stack[t] # <<>>
      /\ Top(t).does \in {"store", "init", "destroy"}
      /\ Top(t).step \in {"lock", "lock2"}
  BY LocksTop DEF StoreInitialize
<1>3. Top(t).does \in {"store", "init", "load"}
      /\ Top(t).new # Nil
  BY <1>2 DEF StoreInitialize, Uninitialized, HaveNew
<1>4. PICK g \in Frame : g = Top(t)
  BY <1>1, <1>2, TopFacts
<1>5. PICK c \in Classes : c = ClassOf[Top(t).new]
  BY <1>3, <1>4, WeakAssumption DEF Frame
<1>6. class_initialize(t, c) /\ UNCHANGED <<table, life, holds>> /\ Unlock(t)
  BY <1>5 DEF StoreInitialize
<1>7. /\ Stacks' /\ FramesOK'
      /\ \A u \in Threads \ {t} : stack'[u] = stack[u]
      /\ initializing' \in [Classes -> {"no", "done"} \cup Threads]
      /\ SameHolders
  BY <1>2, <1>3, <1>6, ClassInitialize
<1>8. NoLockInProgram'
  BY <1>1, <1>6, <1>7, NoLockLeft
<1>9. lock' \in [Tables -> Threads \cup {NoThread}]
  BY <1>1, <1>6, UnlockType
<1> QED BY <1>6, <1>7, <1>8, <1>9, QuietParts

(* The same from a load.                                                   *)
LEMMA LoadInitializeStep ==
    ASSUME IndInv, NEW t \in Threads, LoadInitialize(t)
    PROVE  IndInv' /\ SameHolders
<1>1. Stacks /\ FramesOK /\ TypeOK /\ NoLockInProgram
  BY IndParts
<1>2. /\ stack[t] # <<>>
      /\ Top(t).does = "load"
      /\ Top(t).step = "lock"
  BY DEF LoadInitialize, LoadLocks, At
<1>3. Top(t).does \in {"store", "init", "load"}
      /\ Top(t).step \in {"lock", "lock2"}
  BY <1>2
<1>4. PICK g \in Frame : g = Top(t) /\ FrameOK(g)
  BY <1>1, <1>2, TopFacts
<1>5. PICK c \in Classes : c = ClassOf[Top(t).old]
  BY <1>2, <1>4, WeakAssumption DEF FrameOK
<1>6. class_initialize(t, c) /\ UNCHANGED <<table, life, holds>>
      /\ UNCHANGED lock
  BY <1>5 DEF LoadInitialize
<1>7. /\ Stacks' /\ FramesOK'
      /\ \A u \in Threads \ {t} : stack'[u] = stack[u]
      /\ initializing' \in [Classes -> {"no", "done"} \cup Threads]
      /\ SameHolders
  BY <1>2, <1>3, <1>6, ClassInitialize
<1>8. NoLockInProgram'
  BY <1>1, <1>2, <1>6, <1>7, NoLockKept
<1>9. lock' \in [Tables -> Threads \cup {NoThread}]
  BY <1>1, <1>6 DEF TypeOK
<1> QED BY <1>6, <1>7, <1>8, <1>9, QuietParts

(* Starting a store over releases the locks and keeps the invariant.       *)
LEMMA StoreRetryStep ==
    ASSUME IndInv, NEW t \in Threads, StoreRetry(t)
    PROVE  IndInv' /\ SameHolders
<1>1. Stacks /\ FramesOK /\ TypeOK /\ NoLockInProgram
  BY IndParts
<1>2. /\ stack[t] # <<>>
      /\ Top(t).does \in {"store", "init", "destroy"}
      /\ Top(t).step \in {"lock", "lock2"}
  BY LocksTop DEF StoreRetry
<1>3. PICK g \in Frame : g = Top(t) /\ FrameOK(g)
  BY <1>1, <1>2, TopFacts
<1>5. PICK f \in Frame : f = [g EXCEPT !.step = "read"]
  BY DEF Frame, Steps
<1>6. f.op = g.op /\ f.does = g.does /\ f.loc = g.loc
      /\ f.src = g.src /\ f.new = g.new /\ f.held = g.held
      /\ f.step = "read"
  BY <1>5 DEF Frame
<1>7. FrameOK(f)
  BY <1>2, <1>3, <1>6 DEF FrameOK, Source
<1>8. Narrower(f, Top(t))
  BY <1>3, <1>6 DEF Narrower, Mentioned, Excluded
<1>9. stack' = [stack EXCEPT ![t] = Append(Rest(t), f)]
  BY <1>3, <1>5 DEF StoreRetry, Goto, SetTop
<1>10. UNCHANGED <<table, life, holds, initializing>> /\ Unlock(t)
  BY DEF StoreRetry
<1>11. Stacks' /\ \A u \in Threads \ {t} : stack'[u] = stack[u]
  BY <1>1, <1>2, <1>9, SetFrames DEF Kept
<1>12. Undisturbed(t, Len(stack[t]) - 1)
  <2>1. UNCHANGED <<inUse, life, referrers>>
    BY <1>10 DEF table
  <2> QED BY <1>1, <2>1, SameUndisturbed
<1>13. FrameOK(f)'
  BY <1>7, <1>10 DEF FrameOK, Source, table
<1>14. FramesOK'
  BY <1>1, <1>2, <1>8, <1>9, <1>12, <1>13, SetFramesOK
<1>15. NoLockInProgram'
  BY <1>1, <1>10, <1>11, NoLockLeft
<1>16. lock' \in [Tables -> Threads \cup {NoThread}]
  BY <1>1, <1>10, UnlockType
<1>17. initializing' \in [Classes -> {"no", "done"} \cup Threads]
  BY <1>1, <1>10 DEF TypeOK
<1>18. SameHolders
  <2>1. HeldAlike(f, Top(t)) /\ UNCHANGED holds
    BY <1>3, <1>6, <1>10 DEF HeldAlike
  <2> QED BY <1>1, <1>2, <1>9, <2>1, SetHolders
<1> QED BY <1>10, <1>11, <1>14, <1>15, <1>16, <1>17, <1>18, QuietParts

(* The end of +initialize keeps it.                                        *)
LEMMA FinishInitializeStep ==
    ASSUME IndInv, NEW t \in Threads, FinishInitialize(t)
    PROVE  IndInv' /\ SameHolders
<1>1. Stacks /\ FramesOK /\ TypeOK /\ NoLockInProgram
  BY IndParts
<1>2. stack[t] # <<>> /\ Top(t).step = "run" /\ Top(t).does = "initialize"
  BY DEF FinishInitialize, At
<1>3. UNCHANGED <<table, life, holds>> /\ UNCHANGED lock
      /\ initializing' = [initializing EXCEPT ![Top(t).seen] = "done"]
      /\ stack' = [stack EXCEPT ![t] = Rest(t)]
  BY DEF FinishInitialize, Pop
<1>4. Undisturbed(t, Len(stack[t]) - 1)
  <2>1. UNCHANGED <<inUse, life, referrers>>
    BY <1>3 DEF table
  <2> QED BY <1>1, <2>1, SameUndisturbed
<1>5. FramesOK' /\ Stacks' /\ \A u \in Threads \ {t} : stack'[u] = stack[u]
  BY <1>1, <1>2, <1>3, <1>4, PopFrames DEF Kept
<1>9. SameHolders
  <2>1. ~Top(t).held
    BY <1>1, <1>2, TopFacts DEF FrameOK
  <2>2. /\ Kept(t, Len(stack[t]) - 1)
        /\ Len(stack'[t]) = Len(stack[t]) - 1
    BY <1>1, <1>2, <1>3, <1>4, PopFrames
  <2>3. UNCHANGED holds
    BY <1>3
  <2> QED BY <1>1, <1>2, <2>1, <2>2, <2>3, PopHolders
<1>6. NoLockInProgram'
  BY <1>1, <1>2, <1>3, <1>5, NoLockKept
<1>7. lock' \in [Tables -> Threads \cup {NoThread}]
  BY <1>1, <1>3 DEF TypeOK
<1>8. initializing' \in [Classes -> {"no", "done"} \cup Threads]
  BY <1>1, <1>3 DEF TypeOK
<1> QED BY <1>3, <1>5, <1>6, <1>7, <1>8, <1>9, QuietParts

(* Passing a reference keeps the invariant.                                *)
LEMMA GiveStep ==
    ASSUME IndInv, NEW t \in Threads, Give(t)
    PROVE  IndInv'
<1>1. Stacks /\ FramesOK /\ TypeOK /\ NoLockInProgram /\ Registered
      /\ HoldsLive
  BY IndParts
<1>2. PICK u \in Threads \ {t}, o \in holds[t] :
           holds' = [holds EXCEPT ![u] = @ \cup {o}]
  BY DEF Give
<1>3. UNCHANGED <<table, life, lock, initializing, stack>>
  BY DEF Give
<1>4. TypeOK'
  BY <1>1, <1>2, <1>3 DEF TypeOK, table, Tables
<1>5. Registered' /\ NoLockInProgram'
  BY <1>1, <1>3 DEF Registered, NoLockInProgram, Top, Tables, table
<1>6. HoldsLive'
  BY <1>1, <1>2, <1>3 DEF HoldsLive, TypeOK
<1>7. FramesOK'
  BY <1>1, <1>3 DEF FramesOK, FrameOK, Apart, Source, Mentioned, Excluded,
                    table
<1> QED BY <1>4, <1>5, <1>6, <1>7 DEF IndInv

-----------------------------------------------------------------------------
(* Loads, copies and moves.                                                *)

(* Beginning or ending the use of a variable disturbs no other frame: the  *)
(* call has the variable to itself, or is about it and leaves it in use.   *)
LEMMA InUseUndisturbed ==
    ASSUME NEW t \in Threads, NEW l \in Locations, NEW b \in BOOLEAN,
           stack[t] # <<>>, TypeOK, Stacks, FramesOK,
           inUse' = [inUse EXCEPT ![l] = b],
           l \in Excluded(Top(t)) \/ (b /\ l \in Mentioned(Top(t))),
           UNCHANGED life,
           \A o \in Objects :
               life[o] = "deallocating" => referrers'[o] \subseteq referrers[o]
    PROVE  Undisturbed(t, Len(stack[t]) - 1)
<1>1. ASSUME NEW f \in Frame, NEW u \in Threads, NEW i \in DOMAIN stack[u],
             Stays(t, Len(stack[t]) - 1, u, i), stack[u][i] = f
      PROVE  FrameOK(f)'
  <2>1. FrameOK(f)
    BY <1>1 DEF FramesOK
  <2>2. Apart(Top(t), f) /\ Apart(f, Top(t))
    <3>1. Len(stack[t]) \in DOMAIN stack[t] /\ Len(stack[t]) \in Nat \ {0}
      BY TopFacts
    <3>2. t # u \/ Len(stack[t]) # i
      BY <1>1, <3>1 DEF Stays
    <3> QED BY <1>1, <3>1, <3>2 DEF FramesOK, Top
  <2>3. l \notin Excluded(f) /\ (b \/ l \notin Mentioned(f))
    BY <2>2 DEF Apart, Excluded, Mentioned
  <2>4. \A m \in Locations : m # l => inUse'[m] = inUse[m]
    BY DEF TypeOK
  <2>5. inUse'[l] = b
    BY DEF TypeOK
  <2>6. f.does = "dealloc" /\ f.step = "free" => referrers'[f.new] = {}
    BY <2>1 DEF FrameOK
  <2>7. /\ f.does = "init" => (f.step # "release" => ~inUse'[f.loc])
    BY <2>1, <2>3, <2>4 DEF FrameOK, Excluded
  <2>8. f.does = "destroy" /\ f.step = "setNil" => ~inUse'[f.src]
    BY <2>1, <2>3, <2>4 DEF FrameOK, Excluded
  <2>9. f.does = "load" => inUse'[Source(f)]
    BY <2>1, <2>3, <2>4, <2>5 DEF FrameOK, Mentioned, Source
  <2>10. f.does = "load" => (f.op # "load" => ~inUse'[f.loc])
    BY <2>1, <2>3, <2>4 DEF FrameOK, Excluded
  <2> QED BY <2>1, <2>6, <2>7, <2>8, <2>9, <2>10 DEF FrameOK, Source
<1> QED BY <1>1 DEF Undisturbed

(* The end of a copy, or the part of a move that stores, keeps the frames  *)
(* right: the destruction of the source claims no more than the move.      *)
LEMMA AfterCopyFrames ==
    ASSUME NEW t \in Threads, Stacks, FramesOK, stack[t] # <<>>,
           Top(t).op \in {"copy", "move"}, Top(t).src \in Locations,
           stack' = [stack EXCEPT ![t] = AfterCopy(t, Top(t))],
           Undisturbed(t, Len(stack[t]) - 1)
    PROVE  /\ Stacks' /\ FramesOK'
           /\ \A u \in Threads \ {t} : stack'[u] = stack[u]
           /\ ~Top(t).held /\ UNCHANGED holds => SameHolders
<1>1. CASE Top(t).op = "copy"
  <2>1. stack' = [stack EXCEPT ![t] = Rest(t)]
    BY <1>1 DEF AfterCopy
  <2> QED BY <2>1, PopFrames, PopHolders DEF Kept
<1>2. CASE Top(t).op = "move"
  <2>1. PICK g \in Frame : g = Top(t)
    BY TopFacts
  <2>2. PICK f \in Frame :
            f = [g EXCEPT !.does = "destroy", !.step = "read",
                          !.loc = g.src, !.old = Nil, !.new = Nil,
                          !.held = FALSE]
    BY DEF Frame, Ops, Steps
  <2>3. f.op = g.op /\ f.does = "destroy" /\ f.step = "read"
        /\ f.loc = g.src /\ f.src = g.src /\ ~f.held
    BY <2>2 DEF Frame
  <2>4. stack' = [stack EXCEPT ![t] = Append(Rest(t), f)]
    BY <1>2, <2>1, <2>2 DEF AfterCopy
  <2>5. FrameOK(f)'
    BY <1>2, <2>1, <2>3 DEF FrameOK
  <2>6. Narrower(f, Top(t))
    BY <1>2, <2>1, <2>3 DEF Narrower, Mentioned, Excluded
  <2>7. FramesOK'
    BY <2>4, <2>5, <2>6, SetFramesOK
  <2>8. ~Top(t).held /\ UNCHANGED holds => SameHolders
    <3>1. ~Top(t).held => HeldAlike(f, Top(t))
      BY <2>3 DEF HeldAlike
    <3> QED BY <2>4, <3>1, SetHolders
  <2> QED BY <2>4, <2>7, <2>8, SetFrames DEF Kept
<1> QED BY <1>1, <1>2

(* A load that yields nil keeps the invariant.                             *)
LEMMA LoadNilStep ==
    ASSUME IndInv, NEW t \in Threads, stack[t] # <<>>,
           Top(t).does = "load", Top(t).step # "lock2", LoadNil(t, Top(t)),
           UNCHANGED <<referrers, weakly_referenced, life, holds, lock,
                       initializing>>
    PROVE  IndInv' /\ SameHolders
<1>1. Stacks /\ FramesOK /\ TypeOK /\ NoLockInProgram /\ Registered
      /\ HoldsLive
  BY IndParts
<1>2. PICK g \in Frame : g = Top(t) /\ FrameOK(g)
  BY <1>1, TopFacts
<1>5. ~Top(t).held /\ UNCHANGED holds
  BY <1>2 DEF FrameOK
<1>3. CASE g.op = "load"
  <2>1. stack' = [stack EXCEPT ![t] = Rest(t)] /\ UNCHANGED <<location, inUse>>
    BY <1>2, <1>3 DEF LoadNil, Pop
  <2>2. Undisturbed(t, Len(stack[t]) - 1)
    BY <1>1, <2>1, SameUndisturbed
  <2>3. /\ Stacks' /\ FramesOK' /\ SameHolders
        /\ \A u \in Threads \ {t} : stack'[u] = stack[u]
    BY <1>1, <1>5, <2>1, <2>2, PopFrames, PopHolders DEF Kept
  <2>4. UNCHANGED <<table, life, holds, lock, initializing>>
    BY <2>1 DEF table
  <2> QED BY <2>3, <2>4, QuietStep
<1>4. CASE g.op # "load"
  <2>1. /\ location' = [location EXCEPT ![g.loc] = Nil]
        /\ inUse' = [inUse EXCEPT ![g.loc] = TRUE]
        /\ stack' = [stack EXCEPT ![t] = AfterCopy(t, Top(t))]
    BY <1>2, <1>4 DEF LoadNil
  <2>2. g.op \in {"copy", "move"} /\ g.loc \in Locations /\ ~inUse[g.loc]
        /\ g.src \in Locations
    BY <1>2, <1>4 DEF FrameOK, Source
  <2>3. g.loc \in Excluded(Top(t))
    BY <1>2, <2>2 DEF Excluded
  <2>4. Undisturbed(t, Len(stack[t]) - 1)
    <3>1. \A o \in Objects :
               life[o] = "deallocating" => referrers'[o] \subseteq referrers[o]
      OBVIOUS
    <3>2. PICK l \in Locations : l = g.loc
      BY <2>2
    <3>3. inUse' = [inUse EXCEPT ![l] = TRUE] /\ l \in Excluded(Top(t))
      BY <2>1, <2>3, <3>2
    <3>4. UNCHANGED life
      OBVIOUS
    <3> QED BY <1>1, <3>1, <3>3, <3>4, InUseUndisturbed
  <2>5. /\ Stacks' /\ FramesOK' /\ SameHolders
        /\ \A u \in Threads \ {t} : stack'[u] = stack[u]
    BY <1>1, <1>2, <1>5, <2>1, <2>2, <2>4, AfterCopyFrames
  <2>6. TypeOK'
    BY <1>1, <2>1, <2>2, <2>5 DEF TypeOK, Stacks, Tables
  <2>7. Registered'
    BY <1>1, <2>1, <2>2 DEF TypeOK, Registered
  <2>8. HoldsLive'
    BY <1>1 DEF HoldsLive
  <2>9. NoLockInProgram'
    <3>1. UNCHANGED lock
      OBVIOUS
    <3> QED BY <1>1, <2>5, <3>1, NoLockKept
  <2> QED BY <2>5, <2>6, <2>7, <2>8, <2>9 DEF IndInv
<1> QED BY <1>3, <1>4

(* So does the first read of a load: what it reads is an object that no    *)
(* check has been made of.                                                 *)
LEMMA LoadReadStep ==
    ASSUME IndInv, NEW t \in Threads, LoadRead(t)
    PROVE  IndInv' /\ SameHolders
<1>1. Stacks /\ FramesOK /\ TypeOK
  BY IndParts
<1>2. stack[t] # <<>> /\ Top(t).does = "load" /\ Top(t).step = "read"
  BY DEF LoadRead, At
<1>3. UNCHANGED <<referrers, weakly_referenced, life, holds, lock,
                  initializing>>
  BY DEF LoadRead
<1>4. PICK g \in Frame : g = Top(t) /\ FrameOK(g)
  BY <1>1, <1>2, TopFacts
<1>5. CASE location[Source(g)] = Nil
  <2>1. LoadNil(t, Top(t)) /\ Top(t).step # "lock2"
    BY <1>2, <1>4, <1>5 DEF LoadRead
  <2> QED BY <1>2, <1>3, <2>1, LoadNilStep
<1>6. CASE location[Source(g)] # Nil
  <2>1. SetTop(t, [Top(t) EXCEPT !.old = location[Source(Top(t))],
                                 !.step = "lock"])
        /\ UNCHANGED <<location, inUse>>
    BY <1>4, <1>6 DEF LoadRead
  <2>2. location[Source(g)] \in Objects
    BY <1>1, <1>2, <1>4, <1>6 DEF TypeOK, FrameOK
  <2>3. PICK f \in Frame :
            f = [g EXCEPT !.old = location[Source(g)], !.step = "lock"]
    BY <2>2 DEF Frame, Steps
  <2>4. f.op = g.op /\ f.does = g.does /\ f.loc = g.loc
        /\ f.src = g.src /\ f.new = g.new /\ f.held = g.held
        /\ f.step = "lock" /\ f.old = location[Source(g)]
    BY <2>3 DEF Frame
  <2>5. FrameOK(f)
    BY <1>2, <1>4, <2>2, <2>4 DEF FrameOK, Source
  <2>6. Narrower(f, Top(t))
    BY <1>4, <2>4 DEF Narrower, Mentioned, Excluded
  <2>7. SetTop(t, f)
    BY <1>4, <2>1, <2>3
  <2>8. UNCHANGED <<table, life, holds, lock, initializing>>
    BY <1>3, <2>1 DEF table
  <2>9. Top(t).step # "lock2"
    BY <1>2
  <2>10. HeldAlike(f, Top(t))
    BY <1>4, <2>4 DEF HeldAlike
  <2> QED BY <1>2, <2>5, <2>6, <2>7, <2>8, <2>9, <2>10, SetQuiet
<1> QED BY <1>5, <1>6

(* A load that retains keeps the invariant: the object is live under the   *)
(* lock of its table, and stays so with the reference.                     *)
LEMMA LoadRetainStep ==
    ASSUME IndInv, NEW t \in Threads, LoadRetain(t)
    PROVE  IndInv'
<1>1. Stacks /\ FramesOK /\ TypeOK /\ NoLockInProgram /\ Registered
      /\ HoldsLive
  BY IndParts
<1>2. stack[t] # <<>> /\ Top(t).does = "load" /\ Top(t).step = "lock"
  BY DEF LoadRetain, LoadLocks, At
<1>3. UNCHANGED <<referrers, weakly_referenced, life, lock, initializing>>
  BY DEF LoadRetain
<1>4. PICK g \in Frame : g = Top(t) /\ FrameOK(g)
  BY <1>1, <1>2, TopFacts
<1>5. CASE ~rootTryRetain(g.old)
  <2>1. LoadNil(t, Top(t)) /\ Top(t).step # "lock2" /\ UNCHANGED holds
    BY <1>2, <1>4, <1>5 DEF LoadRetain
  <2>2. UNCHANGED <<referrers, weakly_referenced, life, holds, lock,
                    initializing>>
    BY <1>3, <2>1
  <2> QED BY <1>2, <2>1, <2>2, LoadNilStep
<1>6. CASE rootTryRetain(g.old) /\ g.op = "load"
  <2>1. /\ holds' = [holds EXCEPT ![t] = @ \cup {g.old}]
        /\ stack' = [stack EXCEPT ![t] = Rest(t)]
        /\ UNCHANGED <<location, inUse>>
    BY <1>4, <1>6 DEF LoadRetain, Pop
  <2>2. Undisturbed(t, Len(stack[t]) - 1)
    <3>1. UNCHANGED <<inUse, life, referrers>>
      BY <1>3, <2>1
    <3> QED BY <1>1, <3>1, SameUndisturbed
  <2>3. Stacks' /\ FramesOK' /\ \A u \in Threads \ {t} : stack'[u] = stack[u]
    BY <1>1, <1>2, <2>1, <2>2, PopFrames DEF Kept
  <2>4. g.old \in Objects /\ life[g.old] = "live"
    BY <1>2, <1>4, <1>6 DEF FrameOK, rootTryRetain
  <2>5. TypeOK'
    BY <1>1, <1>3, <2>1, <2>3, <2>4 DEF TypeOK, Stacks, Tables
  <2>6. HoldsLive'
    BY <1>1, <1>3, <2>1, <2>4 DEF HoldsLive, TypeOK
  <2>7. Registered'
    BY <1>1, <1>3, <2>1 DEF Registered
  <2>8. NoLockInProgram'
    <3>1. UNCHANGED lock /\ Top(t).step # "lock2"
      BY <1>2, <1>3
    <3> QED BY <1>1, <2>3, <3>1, NoLockKept
  <2> QED BY <2>3, <2>5, <2>6, <2>7, <2>8 DEF IndInv
<1>7. CASE rootTryRetain(g.old) /\ g.op # "load"
  <2>1. SetTop(t, [Top(t) EXCEPT !.does = "init", !.step = "lock",
                                 !.new = Top(t).old, !.held = TRUE,
                                 !.old = Nil, !.seen = NoClass])
        /\ UNCHANGED <<location, inUse>> /\ UNCHANGED holds
    BY <1>4, <1>7 DEF LoadRetain
  <2>2. g.old \in Objects /\ life[g.old] = "live"
    BY <1>2, <1>4, <1>7 DEF FrameOK, rootTryRetain
  <2>3. PICK f \in Frame :
            f = [g EXCEPT !.does = "init", !.step = "lock",
                          !.new = g.old, !.held = TRUE,
                          !.old = Nil, !.seen = NoClass]
    BY <2>2 DEF Frame, Steps, Ops
  <2>4. f.op = g.op /\ f.does = "init" /\ f.loc = g.loc
        /\ f.src = g.src /\ f.new = g.old /\ f.held
        /\ f.step = "lock"
    BY <2>3 DEF Frame
  <2>5. FrameOK(f)
    BY <1>2, <1>4, <1>7, <2>2, <2>4 DEF FrameOK, Source
  <2>6. Narrower(f, Top(t))
    BY <1>4, <2>4 DEF Narrower, Mentioned, Excluded
  <2>7. SetTop(t, f)
    BY <1>4, <2>1, <2>3
  <2>8. UNCHANGED <<table, life, holds, lock, initializing>>
    BY <1>3, <2>1 DEF table
  <2>9. Top(t).step # "lock2"
    BY <1>2
  <2> QED BY <1>2, <2>5, <2>6, <2>7, <2>8, <2>9, SetQuiet
<1> QED BY <1>5, <1>6, <1>7

(* Setting the source of a move to nil keeps the invariant: the variable   *)
(* has been unregistered.                                                  *)
LEMMA MoveSetNilStep ==
    ASSUME IndInv, NEW t \in Threads, MoveSetNil(t)
    PROVE  IndInv' /\ SameHolders
<1>1. Stacks /\ FramesOK /\ TypeOK /\ NoLockInProgram /\ Registered
      /\ HoldsLive
  BY IndParts
<1>2. stack[t] # <<>> /\ Top(t).does = "destroy" /\ Top(t).step = "setNil"
  BY DEF MoveSetNil, At
<1>3. UNCHANGED <<inUse, referrers, weakly_referenced, life, holds, lock,
                   initializing>>
      /\ location' = [location EXCEPT ![Top(t).src] = Nil]
      /\ stack' = [stack EXCEPT ![t] = Rest(t)]
  BY DEF MoveSetNil, Pop
<1>4. PICK g \in Frame : g = Top(t) /\ FrameOK(g)
  BY <1>1, <1>2, TopFacts
<1>5. g.src \in Locations /\ ~inUse[g.src]
  BY <1>2, <1>4 DEF FrameOK
<1>6. Undisturbed(t, Len(stack[t]) - 1)
  <2>1. UNCHANGED <<inUse, life, referrers>>
    BY <1>3
  <2> QED BY <1>1, <2>1, SameUndisturbed
<1>7. /\ Stacks' /\ FramesOK' /\ SameHolders
      /\ \A u \in Threads \ {t} : stack'[u] = stack[u]
  <2>1. ~Top(t).held /\ UNCHANGED holds
    BY <1>2, <1>3, <1>4 DEF FrameOK
  <2> QED BY <1>1, <1>2, <1>3, <1>6, <2>1, PopFrames, PopHolders DEF Kept
<1>8. TypeOK'
  BY <1>1, <1>3, <1>4, <1>5, <1>7 DEF TypeOK, Stacks, Tables
<1>9. Registered'
  BY <1>1, <1>3, <1>4, <1>5 DEF TypeOK, Registered
<1>10. HoldsLive'
  BY <1>1, <1>3 DEF HoldsLive
<1>11. NoLockInProgram'
  <2>1. UNCHANGED lock /\ Top(t).step # "lock2"
    BY <1>2, <1>3
  <2> QED BY <1>1, <1>7, <2>1, NoLockKept
<1> QED BY <1>7, <1>8, <1>9, <1>10, <1>11 DEF IndInv

-----------------------------------------------------------------------------
(* Allocation, release and -dealloc.                                       *)

(* An object at a freed address keeps it: nothing is registered for the    *)
(* address and no frame deallocates it.                                    *)
LEMMA AllocStep ==
    ASSUME IndInv, NEW t \in Threads, Alloc(t)
    PROVE  IndInv'
<1>1. Stacks /\ FramesOK /\ TypeOK /\ NoLockInProgram /\ Registered
      /\ HoldsLive
  BY IndParts
<1>2. PICK o \in Objects :
           /\ life[o] = "freed"
           /\ life' = [life EXCEPT ![o] = "live"]
           /\ holds' = [holds EXCEPT ![t] = @ \cup {o}]
           /\ weakly_referenced' = [weakly_referenced EXCEPT ![o] = FALSE]
  BY DEF Alloc
<1>3. UNCHANGED <<location, inUse, referrers, lock, initializing, stack>>
  BY DEF Alloc
<1>4. TypeOK'
  BY <1>1, <1>2, <1>3 DEF TypeOK, Tables
<1>5. Registered'
  BY <1>1, <1>2, <1>3 DEF TypeOK, Registered
<1>6. HoldsLive'
  BY <1>1, <1>2, <1>3 DEF TypeOK, HoldsLive
<1>7. NoLockInProgram'
  BY <1>1, <1>3 DEF NoLockInProgram, Top, Tables
<1>8. ASSUME NEW f \in Frame, FrameOK(f)
      PROVE  FrameOK(f)'
  <2>1. \A p \in Objects : p # o => life'[p] = life[p]
    BY <1>1, <1>2 DEF TypeOK
  <2>2. life'[o] = "live" /\ life[o] = "freed"
    BY <1>1, <1>2 DEF TypeOK
  <2>3. f.does = "dealloc" => life'[f.new] = "deallocating"
    BY <1>8, <2>1, <2>2 DEF FrameOK
  <2>4. f.held => life'[f.new] = "live"
    BY <1>8, <2>1, <2>2 DEF FrameOK
  <2> QED BY <1>3, <1>8, <2>3, <2>4 DEF FrameOK, Source
<1>9. ASSUME NEW u \in Threads, NEW i \in DOMAIN stack[u]
      PROVE  FrameOK(stack[u][i])'
  <2>1. PICK f \in Frame : f = stack[u][i] /\ f = stack'[u][i]
    BY <1>1, <1>3 DEF Stacks
  <2>2. FrameOK(f)'
    BY <1>1, <1>8, <2>1 DEF FramesOK
  <2> QED BY <2>1, <2>2 DEF FrameOK, Source
<1>10. FramesOK'
  BY <1>1, <1>3, <1>9 DEF FramesOK, Apart, Mentioned, Excluded
<1> QED BY <1>4, <1>5, <1>6, <1>7, <1>10 DEF IndInv

(* The last release disturbs no frame, since no copy has a reference to    *)
(* the object, and nobody deallocates it yet.                              *)
LEMMA LastUndisturbed ==
    ASSUME NEW t \in Threads, NEW k, NEW o \in Objects, NEW h, IndInv,
           Holders(o) = {h}, life[o] = "live",
           life' = [life EXCEPT ![o] = "deallocating"],
           UNCHANGED <<inUse, referrers>>,
           \A u \in Threads : \A i \in DOMAIN stack[u] :
               Stays(t, k, u, i) => <<u, i>> # h
    PROVE  Undisturbed(t, k) /\ NoDealloc(t, k, o)
<1>1. Stacks /\ FramesOK /\ TypeOK
  BY IndParts
<1>2. NoDealloc(t, k, o)
  BY <1>1 DEF NoDealloc, FramesOK, FrameOK
<1>3. ASSUME NEW f \in Frame, NEW u \in Threads, NEW i \in DOMAIN stack[u],
             Stays(t, k, u, i), stack[u][i] = f
      PROVE  FrameOK(f)'
  <2>1. FrameOK(f)
    BY <1>1, <1>3 DEF FramesOK
  <2>2. \A p \in Objects : p # o => life'[p] = life[p]
    BY <1>1 DEF TypeOK
  <2>3. f.does = "dealloc" => life'[f.new] = "deallocating"
    BY <2>1, <2>2 DEF FrameOK
  <2>4. f.held => f.new # o
    <3>1. f.held /\ f.new = o <=> <<u, i>> \in Holders(o)
      BY <1>1, <1>3, HolderFacts
    <3> QED BY <1>3, <3>1
  <2>5. f.held => life'[f.new] = "live"
    BY <2>1, <2>2, <2>4 DEF FrameOK
  <2> QED BY <2>1, <2>3, <2>5 DEF FrameOK, Source
<1> QED BY <1>2, <1>3 DEF Undisturbed

(* The frame of -dealloc.                                                  *)
LEMMA DeallocFrame ==
    ASSUME NEW o \in Objects
    PROVE  \E d \in Frame :
               /\ d = [Call("dealloc", "run") EXCEPT !.new = o]
               /\ d.does = "dealloc" /\ d.op = "dealloc" /\ d.step = "run"
               /\ d.new = o /\ Inert(d) /\ ~d.held
<1>1. PICK d \in Frame : d = [Call("dealloc", "run") EXCEPT !.new = o]
  BY DEF Call, Frame, Ops, Steps
<1> QED BY <1>1 DEF Call, Inert

(* A release keeps the invariant.                                          *)
LEMMA ReleaseStep ==
    ASSUME IndInv, NEW t \in Threads, Release(t)
    PROVE  IndInv'
<1>1. Stacks /\ FramesOK /\ TypeOK /\ NoLockInProgram /\ Registered
      /\ HoldsLive
  BY IndParts
<1>2. PICK o \in holds[t] :
           /\ holds' = [holds EXCEPT ![t] = @ \ {o}]
           /\ LetGo(t, o, <<t, 0>>, stack[t])
  BY DEF Release
<1>3. UNCHANGED <<table, lock, initializing>>
      /\ (stack[t] # <<>> => Top(t).step # "lock2")
  BY DEF Release, InProgram
<1>4. o \in Objects /\ life[o] = "live"
  BY <1>1 DEF TypeOK, HoldsLive
<1>5. CASE Holders(o) = {<<t, 0>>}
  <2>1. /\ life' = [life EXCEPT ![o] = "deallocating"]
        /\ stack' = [stack EXCEPT ![t] =
                Append(stack[t], [Call("dealloc", "run") EXCEPT !.new = o])]
    BY <1>2, <1>5 DEF LetGo
  <2>2. PICK d \in Frame :
               /\ d = [Call("dealloc", "run") EXCEPT !.new = o]
               /\ d.does = "dealloc" /\ d.op = "dealloc" /\ d.step = "run"
               /\ d.new = o /\ Inert(d) /\ ~d.held
    BY <1>4, DeallocFrame
  <2>3. stack' = [stack EXCEPT ![t] = Append(stack[t], d)]
    BY <2>1, <2>2
  <2>4. /\ Kept(t, Len(stack[t]))
        /\ Len(stack'[t]) = Len(stack[t]) + 1
        /\ stack'[t][Len(stack[t]) + 1] = d
        /\ Len(stack[t]) \in Nat
    BY <1>1, <2>3, PushFrames
  <2>5. Undisturbed(t, Len(stack[t])) /\ NoDealloc(t, Len(stack[t]), o)
    <3>1. UNCHANGED <<inUse, referrers>>
      BY <1>3 DEF table
    <3>2. \A u \in Threads : \A i \in DOMAIN stack[u] : <<u, i>> # <<t, 0>>
      BY <1>1 DEF Stacks
    <3> QED BY <1>4, <1>5, <2>1, <3>1, <3>2, LastUndisturbed
  <2>6. Fresh(t, Len(stack[t]), d)
    BY <2>2, <2>5, InertIsFresh
  <2>7. FrameOK(d)'
    <3>1. life'[o] = "deallocating"
      BY <1>1, <1>4, <2>1 DEF TypeOK
    <3> QED BY <1>4, <2>2, <3>1 DEF FrameOK
  <2>8. FramesOK'
    BY <1>1, <2>4, <2>5, <2>6, <2>7, OneStep
  <2>9. Stacks' /\ \A u \in Threads \ {t} : stack'[u] = stack[u]
    BY <2>4 DEF Kept
  <2>10. TypeOK'
    BY <1>1, <1>2, <1>3, <1>4, <2>1, <2>9 DEF TypeOK, Stacks, Tables, table
  <2>11. Registered'
    BY <1>1, <1>3, <1>4, <2>1 DEF TypeOK, Registered, table
  <2>12. HoldsLive'
    <3>1. ASSUME NEW u \in Threads, NEW p \in holds'[u]
          PROVE  life'[p] = "live"
      <4>1. p \in holds[u] /\ p \in Objects /\ (u = t => p # o)
        BY <1>1, <1>2 DEF TypeOK
      <4>2. p # o
        <5>1. \A v \in Threads : o \in holds[v] <=> <<v, 0>> \in Holders(o)
          BY <1>1, HolderFacts
        <5> QED BY <1>5, <4>1, <5>1
      <4> QED BY <1>1, <2>1, <4>1, <4>2 DEF HoldsLive, TypeOK
    <3> QED BY <3>1 DEF HoldsLive
  <2>13. NoLockInProgram'
    <3>1. UNCHANGED lock
      BY <1>3
    <3> QED BY <1>1, <1>3, <2>9, <3>1, NoLockKept
  <2> QED BY <2>8, <2>10, <2>11, <2>12, <2>13 DEF IndInv
<1>6. CASE Holders(o) # {<<t, 0>>}
  <2>1. UNCHANGED <<life, stack>>
    BY <1>1, <1>2, <1>6 DEF LetGo, Stacks
  <2>2. TypeOK'
    BY <1>1, <1>2, <1>3, <2>1 DEF TypeOK, Tables, table
  <2>3. Registered' /\ NoLockInProgram'
    BY <1>1, <1>3, <2>1 DEF Registered, NoLockInProgram, Top, Tables, table
  <2>4. HoldsLive'
    BY <1>1, <1>2, <2>1 DEF HoldsLive, TypeOK
  <2>5. FramesOK'
    BY <1>1, <1>3, <2>1 DEF FramesOK, FrameOK, Apart, Source, Mentioned,
                            Excluded, table
  <2> QED BY <2>2, <2>3, <2>4, <2>5 DEF IndInv
<1> QED BY <1>5, <1>6

(* So does the release at the end of a copy.                               *)
LEMMA CopyReleaseStep ==
    ASSUME IndInv, NEW t \in Threads, CopyRelease(t)
    PROVE  IndInv'
<1>1. Stacks /\ FramesOK /\ TypeOK /\ NoLockInProgram /\ Registered
      /\ HoldsLive
  BY IndParts
<1>2. /\ stack[t] # <<>> /\ Top(t).does = "init" /\ Top(t).step = "release"
      /\ LetGo(t, Top(t).new, <<t, Len(stack[t])>>, AfterCopy(t, Top(t)))
      /\ UNCHANGED <<table, holds, lock, initializing>>
  BY DEF CopyRelease, At
<1>3. Len(stack[t]) \in Nat \ {0} /\ Len(stack[t]) \in DOMAIN stack[t]
  BY <1>1, <1>2, TopFacts
<1>4. PICK g \in Frame : g = Top(t) /\ FrameOK(g)
  BY <1>1, <1>2, TopFacts
<1>5. PICK o \in Objects : o = g.new
  BY <1>2, <1>4 DEF FrameOK
<1>6. LetGo(t, o, <<t, Len(stack[t])>>, AfterCopy(t, g))
  BY <1>2, <1>4, <1>5
<1>7. g.op \in {"copy", "move"} /\ g.src \in Locations
  BY <1>2, <1>4 DEF FrameOK
<1>8. CASE Holders(o) # {<<t, Len(stack[t])>>}
  <2>1. stack' = [stack EXCEPT ![t] = AfterCopy(t, Top(t))] /\ UNCHANGED life
    BY <1>4, <1>6, <1>8 DEF LetGo
  <2>2. UNCHANGED <<table, life, holds, lock, initializing>>
    BY <1>2, <2>1
  <2>3. Undisturbed(t, Len(stack[t]) - 1)
    <3>1. UNCHANGED <<inUse, life, referrers>>
      BY <2>2 DEF table
    <3> QED BY <1>1, <3>1, SameUndisturbed
  <2>4. Stacks' /\ FramesOK' /\ \A u \in Threads \ {t} : stack'[u] = stack[u]
    BY <1>1, <1>2, <1>4, <1>7, <2>1, <2>3, AfterCopyFrames
  <2>5. stack[t] # <<>> => Top(t).step # "lock2"
    BY <1>2
  <2> QED BY <2>2, <2>4, <2>5, QuietStep
<1>9. CASE Holders(o) = {<<t, Len(stack[t])>>}
  <2>1. /\ life' = [life EXCEPT ![o] = "deallocating"]
        /\ stack' = [stack EXCEPT ![t] =
                Append(AfterCopy(t, g),
                       [Call("dealloc", "run") EXCEPT !.new = o])]
    BY <1>6, <1>9 DEF LetGo
  <2>2. PICK d \in Frame :
               /\ d = [Call("dealloc", "run") EXCEPT !.new = o]
               /\ d.does = "dealloc" /\ d.op = "dealloc" /\ d.step = "run"
               /\ d.new = o /\ Inert(d) /\ ~d.held
    BY DeallocFrame
  <2>3. PICK k \in Nat : k = Len(stack[t]) - 1 /\ Len(stack[t]) = k + 1
    <3>1. PICK n \in Nat \ {0} : n = Len(stack[t])
      BY <1>3
    <3> QED BY <3>1
  <2>4. \A u \in Threads : \A i \in DOMAIN stack[u] :
            Stays(t, k, u, i) => <<u, i>> # <<t, Len(stack[t])>>
    BY <2>3 DEF Stays
  <2>5. Undisturbed(t, k) /\ NoDealloc(t, k, o)
    <3>1. UNCHANGED <<inUse, referrers>>
      BY <1>2 DEF table
    <3>2. life[o] = "live"
      <4>1. <<t, Len(stack[t])>> \in Holders(o)
        BY <1>9
      <4>2. g.held
        BY <1>1, <1>3, <1>4, <4>1, HolderFacts DEF Top
      <4> QED BY <1>4, <1>5, <4>2 DEF FrameOK
    <3> QED BY <1>9, <2>1, <2>4, <3>1, <3>2, LastUndisturbed
  <2>6. Fresh(t, k, d)
    BY <2>2, <2>5, InertIsFresh
  <2>7. FrameOK(d)'
    <3>1. life'[o] = "deallocating"
      BY <1>1, <2>1 DEF TypeOK
    <3> QED BY <2>2, <3>1 DEF FrameOK
  <2>8. FramesOK' /\ Stacks' /\ \A u \in Threads \ {t} : stack'[u] = stack[u]
    <3>1. CASE g.op = "copy"
      <4>1. stack' = [stack EXCEPT ![t] = Append(Rest(t), d)]
        BY <2>1, <2>2, <3>1 DEF AfterCopy
      <4>2. /\ Kept(t, Len(stack[t]) - 1)
            /\ Len(stack'[t]) = Len(stack[t])
            /\ stack'[t][Len(stack[t])] = d
        BY <1>1, <1>2, <4>1, SetFrames
      <4>3. Kept(t, k) /\ Len(stack'[t]) = k + 1 /\ stack'[t][k + 1] = d
        BY <2>3, <4>2
      <4>4. FramesOK'
        BY <1>1, <2>5, <2>6, <2>7, <4>3, OneStep
      <4> QED BY <4>3, <4>4 DEF Kept
    <3>2. CASE g.op = "move"
      <4>1. PICK f \in Frame :
            f = [g EXCEPT !.does = "destroy", !.step = "read",
                          !.loc = g.src, !.old = Nil, !.new = Nil,
                          !.held = FALSE]
        BY DEF Frame, Ops, Steps
      <4>2. f.op = g.op /\ f.does = "destroy" /\ f.step = "read"
            /\ f.loc = g.src /\ f.src = g.src /\ ~f.held
        BY <4>1 DEF Frame
      <4>3. stack' = [stack EXCEPT ![t] = Append(Append(Rest(t), f), d)]
        BY <2>1, <2>2, <3>2, <4>1 DEF AfterCopy
      <4>4. FrameOK(f)'
        BY <1>7, <3>2, <4>2 DEF FrameOK
      <4>5. Narrower(f, Top(t))
        BY <1>4, <3>2, <4>2 DEF Narrower, Mentioned, Excluded
      <4>6. /\ Kept(t, Len(stack[t]) - 1)
            /\ Len(stack'[t]) = Len(stack[t]) + 1
            /\ stack'[t][Len(stack[t])] = f
            /\ stack'[t][Len(stack[t]) + 1] = d
        BY <1>1, <1>2, <4>3, SetPushFrames
      <4>7. Kept(t, k) /\ Len(stack'[t]) = k + 2 /\ stack'[t][k + 1] = f
            /\ stack'[t][k + 2] = d
        <5>1. Len(stack[t]) + 1 = k + 2
          BY <2>3
        <5> QED BY <2>3, <4>6, <5>1
      <4>8. Fresh(t, k, f)
        BY <1>1, <1>2, <2>3, <4>5, NarrowerIsFresh
      <4>9. Apart(f, d) /\ Apart(d, f)
        BY <2>2, <4>2, WeakAssumption DEF Apart, Mentioned, Excluded, Inert
      <4>10. FramesOK'
        BY <1>1, <2>5, <2>6, <2>7, <4>4, <4>7, <4>8, <4>9, TwoSteps
      <4> QED BY <4>7, <4>10 DEF Kept
    <3> QED BY <1>7, <3>1, <3>2
  <2>9. TypeOK'
    BY <1>1, <1>2, <2>1, <2>8 DEF TypeOK, Stacks, Tables, table
  <2>10. Registered'
    BY <1>1, <1>2, <2>1 DEF TypeOK, Registered, table
  <2>11. HoldsLive'
    <3>1. ASSUME NEW u \in Threads, NEW p \in holds[u]
          PROVE  life'[p] = "live"
      <4>1. p # o
        <5>1. \A v \in Threads : o \in holds[v] <=> <<v, 0>> \in Holders(o)
          BY <1>1, HolderFacts
        <5> QED BY <1>3, <1>9, <5>1
      <4> QED BY <1>1, <2>1, <4>1 DEF HoldsLive, TypeOK
    <3> QED BY <1>2, <3>1 DEF HoldsLive
  <2>12. NoLockInProgram'
    <3>1. UNCHANGED lock /\ Top(t).step # "lock2"
      BY <1>2
    <3> QED BY <1>1, <2>8, <3>1, NoLockKept
  <2> QED BY <2>8, <2>9, <2>10, <2>11, <2>12 DEF IndInv
<1> QED BY <1>8, <1>9

(* Freeing the object disturbs no frame but the one that deallocates it.   *)
LEMMA FreedUndisturbed ==
    ASSUME NEW t \in Threads, NEW o \in Objects, IndInv, stack[t] # <<>>,
           Top(t).does = "dealloc", Top(t).new = o,
           life' = [life EXCEPT ![o] = "freed"],
           UNCHANGED <<inUse, referrers>>
    PROVE  Undisturbed(t, Len(stack[t]) - 1)
<1>1. Stacks /\ FramesOK /\ TypeOK
  BY IndParts
<1>2. Len(stack[t]) \in DOMAIN stack[t] /\ Len(stack[t]) \in Nat \ {0}
      /\ FrameOK(Top(t))
  BY <1>1, TopFacts
<1>3. ASSUME NEW f \in Frame, NEW u \in Threads, NEW i \in DOMAIN stack[u],
             Stays(t, Len(stack[t]) - 1, u, i), stack[u][i] = f
      PROVE  FrameOK(f)'
  <2>1. FrameOK(f)
    BY <1>1, <1>3 DEF FramesOK
  <2>2. Apart(Top(t), f)
    <3>1. t # u \/ Len(stack[t]) # i
      BY <1>2, <1>3 DEF Stays
    <3> QED BY <1>1, <1>2, <1>3, <3>1 DEF FramesOK, Top
  <2>3. \A p \in Objects : p # o => life'[p] = life[p]
    BY <1>1 DEF TypeOK
  <2>4. f.does = "dealloc" => life'[f.new] = "deallocating"
    BY <2>1, <2>2, <2>3 DEF FrameOK, Apart
  <2>5. life[o] = "deallocating"
    BY <1>2 DEF FrameOK
  <2>6. f.held => life'[f.new] = "live"
    BY <2>1, <2>3, <2>5 DEF FrameOK
  <2> QED BY <2>1, <2>4, <2>6 DEF FrameOK, Source
<1> QED BY <1>3 DEF Undisturbed

(* Freeing an object that no variable holds keeps the invariant.           *)
LEMMA FreedStep ==
    ASSUME NEW t \in Threads, NEW o \in Objects, IndInv, stack[t] # <<>>,
           Top(t).does = "dealloc", Top(t).new = o, Top(t).step # "lock2",
           life' = [life EXCEPT ![o] = "freed"], Pop(t),
           UNCHANGED <<table, holds, lock, initializing>>,
           \A l \in Locations : inUse[l] => location[l] # o
    PROVE  IndInv' /\ SameHolders
<1>1. Stacks /\ FramesOK /\ TypeOK /\ NoLockInProgram /\ Registered
      /\ HoldsLive
  BY IndParts
<1>2. life[o] = "deallocating"
  BY <1>1, TopFacts DEF FrameOK
<1>3. stack' = [stack EXCEPT ![t] = Rest(t)]
  BY DEF Pop
<1>4. Undisturbed(t, Len(stack[t]) - 1)
  <2>1. UNCHANGED <<inUse, referrers>>
    BY DEF table
  <2> QED BY <2>1, FreedUndisturbed
<1>5. /\ Stacks' /\ FramesOK' /\ SameHolders
      /\ \A u \in Threads \ {t} : stack'[u] = stack[u]
  <2>1. ~Top(t).held /\ UNCHANGED holds
    BY <1>1, TopFacts DEF FrameOK
  <2> QED BY <1>1, <1>3, <1>4, <2>1, PopFrames, PopHolders DEF Kept
<1>6. TypeOK'
  BY <1>1, <1>5 DEF TypeOK, Stacks, Tables, table
<1>7. Registered'
  BY <1>1 DEF TypeOK, Registered, table
<1>8. HoldsLive'
  BY <1>1, <1>2 DEF TypeOK, HoldsLive
<1>9. NoLockInProgram'
  <2>1. UNCHANGED lock
    OBVIOUS
  <2> QED BY <1>1, <1>5, <2>1, NoLockKept
<1> QED BY <1>5, <1>6, <1>7, <1>8, <1>9 DEF IndInv

(* The fast way is safe: without the bit no variable is registered, so     *)
(* none holds the object.                                                  *)
LEMMA DisposeFastStep ==
    ASSUME IndInv, NEW t \in Threads, DisposeFast(t)
    PROVE  IndInv' /\ SameHolders
<1>1. Stacks /\ FramesOK /\ TypeOK /\ Registered
  BY IndParts
<1>2. /\ stack[t] # <<>> /\ Top(t).does = "dealloc" /\ Top(t).step = "run"
      /\ ~weakly_referenced[Top(t).new]
      /\ life' = [life EXCEPT ![Top(t).new] = "freed"]
      /\ Pop(t)
      /\ UNCHANGED <<table, holds, lock, initializing>>
  BY DEF DisposeFast, At
<1>3. PICK o \in Objects : o = Top(t).new
  BY <1>1, <1>2, TopFacts DEF FrameOK
<1>4. \A l \in Locations : inUse[l] => location[l] # o
  BY <1>1, <1>2, <1>3, WeakAssumption DEF Registered
<1>5. Top(t).step # "lock2"
  BY <1>2
<1>6. life' = [life EXCEPT ![o] = "freed"]
  BY <1>2, <1>3
<1> QED BY <1>2, <1>3, <1>4, <1>5, <1>6, FreedStep

(* So is the end of the slow way, after the entry was cleared.             *)
LEMMA FreeStep ==
    ASSUME IndInv, NEW t \in Threads, Free(t)
    PROVE  IndInv' /\ SameHolders
<1>1. Stacks /\ FramesOK /\ TypeOK /\ Registered
  BY IndParts
<1>2. /\ stack[t] # <<>> /\ Top(t).does = "dealloc" /\ Top(t).step = "free"
      /\ life' = [life EXCEPT ![Top(t).new] = "freed"]
      /\ Pop(t)
      /\ UNCHANGED <<table, holds, lock, initializing>>
  BY DEF Free, At
<1>3. FrameOK(Top(t))
  BY <1>1, <1>2, TopFacts
<1>4. PICK o \in Objects : o = Top(t).new /\ referrers[o] = {}
  BY <1>2, <1>3 DEF FrameOK
<1>5. \A l \in Locations : inUse[l] => location[l] # o
  BY <1>1, <1>4, WeakAssumption DEF Registered
<1>6. Top(t).step # "lock2"
  BY <1>2
<1>7. life' = [life EXCEPT ![o] = "freed"]
  BY <1>2, <1>4
<1> QED BY <1>2, <1>4, <1>5, <1>6, <1>7, FreedStep

(* Clearing the entry keeps the invariant: every registered variable holds *)
(* the object and becomes nil.                                             *)
LEMMA WeakClearStep ==
    ASSUME IndInv, NEW t \in Threads, WeakClear(t)
    PROVE  IndInv' /\ SameHolders
<1>1. Stacks /\ FramesOK /\ TypeOK /\ NoLockInProgram /\ Registered
      /\ HoldsLive
  BY IndParts
<1>2. /\ stack[t] # <<>> /\ Top(t).does = "dealloc" /\ Top(t).step = "run"
      /\ UNCHANGED <<inUse, weakly_referenced, life, holds, lock, initializing>>
  BY DEF WeakClear, At
<1>3. PICK g \in Frame : g = Top(t) /\ FrameOK(g)
  BY <1>1, <1>2, TopFacts
<1>4. PICK o \in Objects : o = g.new /\ life[o] = "deallocating"
  BY <1>2, <1>3 DEF FrameOK
<1>5. /\ location' = [l \in Locations |->
                         IF l \in referrers[o] /\ location[l] = o THEN Nil
                         ELSE location[l]]
      /\ referrers' = [referrers EXCEPT ![o] = {}]
  BY <1>3, <1>4 DEF WeakClear
<1>6. PICK f \in Frame : f = [g EXCEPT !.step = "free"]
  BY DEF Frame, Steps
<1>7. f.op = g.op /\ f.does = g.does /\ f.loc = g.loc
      /\ f.src = g.src /\ f.new = g.new /\ f.held = g.held
      /\ f.step = "free"
  BY <1>6 DEF Frame
<1>8. FrameOK(f)'
  <2>1. referrers'[o] = {}
    BY <1>1, <1>5 DEF TypeOK
  <2> QED BY <1>2, <1>3, <1>4, <1>7, <2>1 DEF FrameOK, Source
<1>9. Narrower(f, Top(t))
  BY <1>3, <1>7 DEF Narrower, Mentioned, Excluded
<1>10. stack' = [stack EXCEPT ![t] = Append(Rest(t), f)]
  BY <1>3, <1>6 DEF WeakClear, Goto, SetTop
<1>11. ASSUME NEW h \in Frame, FrameOK(h)
       PROVE  FrameOK(h)'
  <2>1. \A p \in Objects : referrers'[p] \subseteq referrers[p]
    BY <1>1, <1>5 DEF TypeOK
  <2> QED BY <1>2, <1>11, <2>1 DEF FrameOK, Source
<1>12. Undisturbed(t, Len(stack[t]) - 1)
  BY <1>1, <1>11 DEF Undisturbed, FramesOK
<1>13. FramesOK'
  BY <1>1, <1>2, <1>8, <1>9, <1>10, <1>12, SetFramesOK
<1>14. Stacks' /\ \A u \in Threads \ {t} : stack'[u] = stack[u]
  BY <1>1, <1>2, <1>10, SetFrames DEF Kept
<1>15. TypeOK'
  BY <1>1, <1>2, <1>5, <1>14 DEF TypeOK, Stacks, Tables
<1>16. Registered'
  BY <1>1, <1>2, <1>5 DEF TypeOK, Registered
<1>17. HoldsLive'
  BY <1>1, <1>2 DEF HoldsLive
<1>18. NoLockInProgram'
  <2>1. UNCHANGED lock /\ Top(t).step # "lock2"
    BY <1>2
  <2> QED BY <1>1, <1>14, <2>1, NoLockKept
<1>19. SameHolders
  <2>1. HeldAlike(f, Top(t)) /\ UNCHANGED holds
    BY <1>2, <1>3, <1>7 DEF HeldAlike
  <2> QED BY <1>1, <1>2, <1>10, <2>1, SetHolders
<1> QED BY <1>13, <1>15, <1>16, <1>17, <1>18, <1>19 DEF IndInv

-----------------------------------------------------------------------------
(* The end of a store.                                                     *)

(* The end of a store keeps the invariant: under both locks the variable   *)
(* moves from one entry to the other, unless the new object is in its      *)
(* -dealloc.                                                               *)
LEMMA StoreCommitStep ==
    ASSUME IndInv, NEW t \in Threads, StoreCommit(t)
    PROVE  IndInv' /\ SameHolders
<1>1. Stacks /\ FramesOK /\ TypeOK /\ NoLockInProgram /\ Registered
      /\ HoldsLive
  BY IndParts
<1>2. /\ stack[t] # <<>>
      /\ Top(t).does \in {"store", "init", "destroy"}
      /\ Top(t).step \in {"lock", "lock2"}
  BY LocksTop DEF StoreCommit
<1>3. PICK g \in Frame : g = Top(t) /\ FrameOK(g)
  BY <1>1, <1>2, TopFacts
<1>4. PICK l \in Locations : l = g.loc
  BY <1>2, <1>3 DEF FrameOK
<1>5. /\ referrers' =
           IF Accepts(g)
           THEN [Unregistered(g) EXCEPT ![g.new] = @ \cup {l}]
           ELSE Unregistered(g)
      /\ weakly_referenced' =
           IF Accepts(g) THEN [weakly_referenced EXCEPT ![g.new] = TRUE]
           ELSE weakly_referenced
      /\ location' =
           IF HaveNew(g)
           THEN [location EXCEPT ![l] = IF Accepts(g) THEN g.new ELSE Nil]
           ELSE location
      /\ inUse' = [inUse EXCEPT ![l] = HaveNew(g)]
      /\ Stored(t, g) /\ Unlock(t)
      /\ UNCHANGED <<life, holds, initializing>>
      /\ ~Changed(g)
  BY <1>3, <1>4 DEF StoreCommit
<1>6. g.old \in Objects \cup {Nil} /\ g.new \in Objects \cup {Nil}
      /\ Nil \notin Objects
  BY WeakAssumption DEF Frame
<1>7. Unregistered(g) \in [Objects -> SUBSET Locations]
      /\ \A o \in Objects : Unregistered(g)[o] =
            IF HaveOld(g) /\ g.old = o THEN referrers[o] \ {l}
            ELSE referrers[o]
  BY <1>1, <1>4, <1>6 DEF Unregistered, TypeOK
<1>8. Accepts(g) => g.new \in Objects /\ life[g.new] = "live" /\ HaveNew(g)
  BY <1>6 DEF Accepts
<1>9. referrers' \in [Objects -> SUBSET Locations]
      /\ \A o \in Objects : referrers'[o] =
            IF Accepts(g) /\ o = g.new THEN Unregistered(g)[o] \cup {l}
            ELSE Unregistered(g)[o]
  BY <1>5, <1>7, <1>8
<1>10. \A o \in Objects :
           life[o] = "deallocating" => referrers'[o] \subseteq referrers[o]
  BY <1>7, <1>8, <1>9
<1>11. (\E o \in Objects : l \in referrers[o])
           => HaveOld(g) /\ \A o \in Objects : l \in referrers[o] => g.old = o
  <2>1. ASSUME NEW o \in Objects, l \in referrers[o]
        PROVE  HaveOld(g) /\ g.old = o
    <3>1. inUse[l] /\ location[l] = o
      BY <1>1, <2>1 DEF Registered
    <3>2. HaveOld(g)
      BY <1>2, <1>3, <1>4, <3>1 DEF FrameOK, HaveOld
    <3> QED BY <1>4, <1>5, <3>1, <3>2 DEF Changed
  <2> QED BY <2>1
<1>12. \A o \in Objects : l \notin Unregistered(g)[o]
  BY <1>7, <1>11
<1>13. HaveNew(g) \in BOOLEAN
  BY DEF HaveNew
<1>14. PICK b \in BOOLEAN : b = HaveNew(g)
  BY <1>13
<1>15. Undisturbed(t, Len(stack[t]) - 1)
  <2>1. inUse' = [inUse EXCEPT ![l] = b]
    BY <1>5, <1>14
  <2>2. l \in Excluded(Top(t)) \/ (b /\ l \in Mentioned(Top(t)))
    <3>1. CASE g.does = "destroy"
      BY <1>3, <1>4, <3>1 DEF FrameOK, Excluded
    <3>2. CASE g.does # "destroy"
      BY <1>2, <1>3, <1>4, <1>14, <3>2 DEF HaveNew, Mentioned
    <3> QED BY <3>1, <3>2
  <2>3. UNCHANGED life
    BY <1>5
  <2> QED BY <1>1, <1>2, <1>10, <2>1, <2>2, <2>3, InUseUndisturbed
<1>16. /\ FramesOK' /\ Stacks' /\ SameHolders
       /\ \A u \in Threads \ {t} : stack'[u] = stack[u]
  <2>1. CASE g.op \notin {"copy", "move"}
    <3>1. stack' = [stack EXCEPT ![t] = Rest(t)]
      BY <1>5, <2>1 DEF Stored, Pop
    <3>2. ~Top(t).held /\ UNCHANGED holds
      BY <1>3, <1>5, <2>1 DEF FrameOK
    <3> QED BY <1>1, <1>2, <1>15, <3>1, <3>2, PopFrames, PopHolders DEF Kept
  <2>2. CASE g.op \in {"copy", "move"}
    <3>1. Goto(t, IF g.does = "init" THEN "release" ELSE "setNil")
      BY <1>5, <2>2 DEF Stored
    <3>2. PICK f \in Frame :
              f = [g EXCEPT !.step = IF g.does = "init" THEN "release"
                                     ELSE "setNil"]
      BY DEF Frame, Steps
    <3>3. f.op = g.op /\ f.does = g.does /\ f.loc = g.loc
          /\ f.src = g.src /\ f.new = g.new /\ f.held = g.held
          /\ f.step = IF g.does = "init" THEN "release" ELSE "setNil"
      BY <3>2 DEF Frame
    <3>4. g.does \in {"init", "destroy"}
      BY <1>2, <1>3, <2>2 DEF FrameOK
    <3>5. FrameOK(f)'
      <4>1. g.does = "destroy" => ~inUse'[g.src]
        BY <1>1, <1>3, <1>4, <1>5 DEF FrameOK, HaveNew, TypeOK
      <4> QED BY <1>3, <1>5, <2>2, <3>3, <3>4, <4>1 DEF FrameOK, Source
    <3>6. Narrower(f, Top(t))
      BY <1>3, <3>3 DEF Narrower, Mentioned, Excluded
    <3>7. stack' = [stack EXCEPT ![t] = Append(Rest(t), f)]
      BY <1>3, <3>1, <3>2 DEF Goto, SetTop
    <3>8. FramesOK'
      BY <1>1, <1>2, <1>15, <3>5, <3>6, <3>7, SetFramesOK
    <3>9. SameHolders
      <4>1. HeldAlike(f, Top(t)) /\ UNCHANGED holds
        BY <1>3, <1>5, <3>3 DEF HeldAlike
      <4> QED BY <1>1, <1>2, <3>7, <4>1, SetHolders
    <3> QED BY <1>1, <1>2, <3>7, <3>8, <3>9, SetFrames DEF Kept
  <2> QED BY <2>1, <2>2
<1>17. location' \in [Locations -> Objects \cup {Nil}]
       /\ inUse' \in [Locations -> BOOLEAN]
       /\ weakly_referenced' \in [Objects -> BOOLEAN]
  BY <1>1, <1>5, <1>8, <1>13 DEF TypeOK
<1>18. lock' \in [Tables -> Threads \cup {NoThread}]
  BY <1>1, <1>5, UnlockType
<1>19. TypeOK'
  BY <1>1, <1>5, <1>9, <1>16, <1>17, <1>18 DEF TypeOK, Stacks, Tables
<1>20. \A m \in Locations : m # l =>
           inUse'[m] = inUse[m] /\ location'[m] = location[m]
  BY <1>1, <1>5 DEF TypeOK
<1>21. /\ inUse'[l] = HaveNew(g)
       /\ HaveNew(g) => location'[l] = IF Accepts(g) THEN g.new ELSE Nil
  BY <1>1, <1>5 DEF TypeOK
<1>22. ASSUME NEW m \in Locations, inUse'[m], location'[m] # Nil
       PROVE  /\ life'[location'[m]] # "freed"
              /\ m \in referrers'[location'[m]]
              /\ weakly_referenced'[location'[m]]
  <2>1. CASE m = l
    <3>1. Accepts(g) /\ location'[m] = g.new
      BY <1>21, <1>22, <2>1
    <3> QED BY <1>1, <1>5, <1>8, <1>9, <2>1, <3>1 DEF TypeOK
  <2>2. CASE m # l
    <3>1. PICK o \in Objects : o = location[m]
      BY <1>1, <1>20, <1>22, <2>2 DEF TypeOK
    <3>2. location'[m] = o /\ life[o] # "freed" /\ m \in referrers[o]
          /\ weakly_referenced[o]
      BY <1>1, <1>20, <1>22, <2>2, <3>1 DEF Registered
    <3>3. m \in referrers'[o]
      BY <1>7, <1>9, <2>2, <3>2
    <3>4. weakly_referenced'[o]
      BY <1>1, <1>5, <1>8, <3>2 DEF TypeOK
    <3> QED BY <1>5, <3>2, <3>3, <3>4
  <2> QED BY <2>1, <2>2
<1>23. ASSUME NEW o \in Objects, NEW m \in referrers'[o]
       PROVE  inUse'[m] /\ location'[m] = o
  <2>1. CASE m = l
    <3>1. Accepts(g) /\ o = g.new
      BY <1>9, <1>12, <1>23, <2>1
    <3> QED BY <1>8, <1>21, <2>1, <3>1
  <2>2. CASE m # l
    <3>1. m \in referrers[o]
      BY <1>7, <1>9, <1>23, <2>2
    <3> QED BY <1>1, <1>20, <2>2, <3>1 DEF Registered, TypeOK
  <2> QED BY <2>1, <2>2
<1>24. Registered'
  BY <1>22, <1>23 DEF Registered
<1>25. HoldsLive'
  BY <1>1, <1>5 DEF HoldsLive
<1>26. NoLockInProgram'
  BY <1>1, <1>5, <1>16, NoLockLeft
<1> QED BY <1>16, <1>19, <1>24, <1>25, <1>26 DEF IndInv

-----------------------------------------------------------------------------
(* How the steps change the holders.                                       *)

(* Passing a reference is one holder more of an object that has one.       *)
LEMMA GiveHolders ==
    ASSUME IndInv, NEW t \in Threads, Give(t)
    PROVE  \E o \in Objects : Holders(o) # {} /\ \E h : Gains(o, h)
<1>1. Stacks /\ TypeOK
  BY IndParts
<1>2. PICK u \in Threads, o \in Objects :
           /\ o \in holds[t] /\ o \notin holds[u]
           /\ holds' = [holds EXCEPT ![u] = @ \cup {o}]
  BY <1>1 DEF Give, TypeOK
<1>3. UNCHANGED stack
  BY DEF Give
<1>4. Stacks' /\ SameCarries
  BY <1>1, <1>3 DEF Stacks, SameCarries, Carries
<1>5. Gains(o, <<u, 0>>)
  BY <1>1, <1>2, <1>4, GainsHold DEF TypeOK
<1>6. <<t, 0>> \in Holders(o)
  BY <1>1, <1>2, HolderFacts
<1> QED BY <1>5, <1>6

(* A new object gets its first holder.                                     *)
LEMMA AllocHolders ==
    ASSUME IndInv, NEW t \in Threads, Alloc(t)
    PROVE  \E o \in Objects :
               /\ life[o] = "freed" /\ Holders(o) = {}
               /\ life' = [life EXCEPT ![o] = "live"]
               /\ \E h : Gains(o, h)
<1>1. Stacks /\ TypeOK /\ HoldsLive /\ FramesOK
  BY IndParts
<1>2. PICK o \in Objects :
           /\ life[o] = "freed"
           /\ life' = [life EXCEPT ![o] = "live"]
           /\ holds' = [holds EXCEPT ![t] = @ \cup {o}]
  BY DEF Alloc
<1>3. UNCHANGED stack
  BY DEF Alloc
<1>4. Stacks' /\ SameCarries
  BY <1>1, <1>3 DEF Stacks, SameCarries, Carries
<1>5. o \notin holds[t]
  BY <1>1, <1>2 DEF HoldsLive
<1>6. Gains(o, <<t, 0>>)
  BY <1>1, <1>2, <1>4, <1>5, GainsHold DEF TypeOK
<1>7. Holders(o) = {}
  <2>1. ASSUME NEW h \in Holders(o)
        PROVE  FALSE
    <3>1. HoldersAre
      BY <1>1, HoldersDef
    <3>2. PICK u \in Threads :
                \/ h = <<u, 0>> /\ o \in holds[u]
                \/ \E i \in Nat \ {0} : h = <<u, i>> /\ Carries(u, i, o)
      BY <2>1, <3>1 DEF HoldersAre
    <3>3. o \notin holds[u]
      BY <1>1, <1>2 DEF HoldsLive
    <3>4. PICK i \in DOMAIN stack[u] : stack[u][i].held /\ stack[u][i].new = o
      BY <3>2, <3>3 DEF Carries
    <3> QED BY <1>1, <1>2, <3>4 DEF FramesOK, FrameOK
  <2> QED BY <2>1
<1> QED BY <1>2, <1>6, <1>7

(* The object's -dealloc begins if h is the last holder, and not           *)
(* otherwise.                                                              *)
Ends(o, h) ==
    IF Holders(o) = {h} THEN life' = [life EXCEPT ![o] = "deallocating"]
    ELSE UNCHANGED life

(* A release takes a holder away, and begins -dealloc with the last.       *)
LEMMA ReleaseHolders ==
    ASSUME IndInv, NEW t \in Threads, Release(t)
    PROVE  \E o \in Objects : \E h : Loses(o, h) /\ Ends(o, h)
<1>1. Stacks /\ TypeOK
  BY IndParts
<1>2. PICK o \in Objects :
           /\ o \in holds[t]
           /\ holds' = [holds EXCEPT ![t] = @ \ {o}]
           /\ LetGo(t, o, <<t, 0>>, stack[t])
  BY <1>1 DEF Release, TypeOK
<1>3. Ends(o, <<t, 0>>)
  BY <1>2 DEF LetGo, Ends
<1>4. SameCarries /\ Stacks'
  <2>1. CASE Holders(o) = {<<t, 0>>}
    <3>1. PICK d \in Frame :
               /\ d = [Call("dealloc", "run") EXCEPT !.new = o]
               /\ d.does = "dealloc" /\ d.op = "dealloc" /\ d.step = "run"
               /\ d.new = o /\ Inert(d) /\ ~d.held
      BY DeallocFrame
    <3>2. stack' = [stack EXCEPT ![t] = Append(stack[t], d)]
      BY <1>2, <2>1, <3>1 DEF LetGo
    <3> QED BY <1>1, <3>1, <3>2, PushCarries, PushFrames DEF Kept
  <2>2. CASE Holders(o) # {<<t, 0>>}
    <3>1. UNCHANGED stack
      BY <1>1, <1>2, <2>2 DEF LetGo, Stacks
    <3> QED BY <1>1, <3>1 DEF Stacks, SameCarries, Carries
  <2> QED BY <2>1, <2>2
<1>5. Loses(o, <<t, 0>>)
  BY <1>1, <1>2, <1>4, LosesHold DEF TypeOK
<1> QED BY <1>3, <1>5

(* A step whose new frames have references to o only, and only the first   *)
(* of them, changes the holders of no other object.                        *)
LEMMA OnlyCarry ==
    ASSUME NEW t \in Threads, NEW k \in Nat, NEW o \in Objects,
           Stacks, Kept(t, k),
           \A i \in DOMAIN stack[t] : i > k =>
               (i = k + 1 /\ stack[t][i].new = o) \/ ~stack[t][i].held,
           \A i \in DOMAIN stack'[t] : i > k =>
               (i = k + 1 /\ stack'[t][i].new = o) \/ ~stack'[t][i].held
    PROVE  OthersCarry(t, k + 1, o)
<1>1. ASSUME NEW p \in Objects, NEW u \in Threads, NEW i \in Nat,
             u # t \/ i # k + 1 \/ p # o
      PROVE  Carries(u, i, p)' <=> Carries(u, i, p)
  <2>1. CASE Stays(t, k, u, i)
    BY <2>1, CarriesKept
  <2>2. CASE ~Stays(t, k, u, i)
    <3>1. u = t /\ i > k
      BY <2>2 DEF Stays
    <3> QED BY <1>1, <3>1 DEF Carries
  <2> QED BY <2>1, <2>2
<1> QED BY <1>1 DEF OthersCarry

(* The end of a copy takes its holder away, and begins -dealloc with the   *)
(* last.                                                                   *)
LEMMA CopyReleaseHolders ==
    ASSUME IndInv, NEW t \in Threads, CopyRelease(t)
    PROVE  \E o \in Objects : \E h : Loses(o, h) /\ Ends(o, h)
<1>1. Stacks /\ FramesOK /\ TypeOK
  BY IndParts
<1>2. /\ stack[t] # <<>> /\ Top(t).does = "init" /\ Top(t).step = "release"
      /\ LetGo(t, Top(t).new, <<t, Len(stack[t])>>, AfterCopy(t, Top(t)))
      /\ UNCHANGED holds
  BY DEF CopyRelease, At
<1>3. PICK n \in Nat \ {0} : n = Len(stack[t]) /\ n \in DOMAIN stack[t]
                             /\ DOMAIN stack[t] = 1..n
  BY <1>1, <1>2, TopFacts DEF Stacks
<1>4. PICK k \in Nat : n = k + 1 /\ k = n - 1
  BY <1>3
<1>5. PICK g \in Frame : g = Top(t) /\ FrameOK(g)
  BY <1>1, <1>2, TopFacts
<1>6. PICK o \in Objects : o = g.new
  BY <1>2, <1>5 DEF FrameOK
<1>7. LetGo(t, o, <<t, n>>, AfterCopy(t, g))
  BY <1>2, <1>3, <1>5, <1>6
<1>8. g.op \in {"copy", "move"} /\ g.held
  BY <1>2, <1>5 DEF FrameOK
<1>9. Ends(o, <<t, n>>)
  BY <1>7 DEF LetGo, Ends
<1>10. stack[t][n] = g /\ Carries(t, n, o)
  BY <1>3, <1>5, <1>6, <1>8 DEF Top, Carries
<1>11. PICK d \in Frame :
               /\ d = [Call("dealloc", "run") EXCEPT !.new = o]
               /\ d.does = "dealloc" /\ d.op = "dealloc" /\ d.step = "run"
               /\ d.new = o /\ Inert(d) /\ ~d.held
  BY DeallocFrame
<1>12. PICK f \in Frame :
            /\ f = [g EXCEPT !.does = "destroy", !.step = "read",
                             !.loc = g.src, !.old = Nil, !.new = Nil,
                             !.held = FALSE]
            /\ ~f.held
  <2>1. PICK f \in Frame :
            f = [g EXCEPT !.does = "destroy", !.step = "read",
                             !.loc = g.src, !.old = Nil, !.new = Nil,
                             !.held = FALSE]
    BY DEF Frame, Ops, Steps
  <2>2. ~f.held
    BY <2>1 DEF Frame
  <2> QED BY <2>1, <2>2
<1>13. \/ stack' = [stack EXCEPT ![t] = Rest(t)]
       \/ stack' = [stack EXCEPT ![t] = Append(Rest(t), d)]
       \/ stack' = [stack EXCEPT ![t] = Append(Rest(t), f)]
       \/ stack' = [stack EXCEPT ![t] = Append(Append(Rest(t), f), d)]
  <2>1. \/ stack' = [stack EXCEPT ![t] = AfterCopy(t, g)]
        \/ stack' = [stack EXCEPT ![t] = Append(AfterCopy(t, g), d)]
    BY <1>7, <1>11 DEF LetGo
  <2>2. AfterCopy(t, g) = IF g.op = "copy" THEN Rest(t) ELSE Append(Rest(t), f)
    BY <1>12 DEF AfterCopy
  <2> QED BY <2>1, <2>2
<1>14. /\ Kept(t, k)
       /\ \A i \in DOMAIN stack'[t] : i > k => ~stack'[t][i].held
  <2>1. CASE stack' = [stack EXCEPT ![t] = Rest(t)]
    <3>1. Kept(t, k) /\ DOMAIN stack'[t] = 1..k
      BY <1>1, <1>2, <1>3, <1>4, <2>1, PopKept
    <3> QED BY <3>1
  <2>2. CASE stack' = [stack EXCEPT ![t] = Append(Rest(t), d)]
    <3>1. Kept(t, k) /\ Len(stack'[t]) = k + 1 /\ stack'[t][k + 1] = d
      BY <1>1, <1>2, <1>3, <1>4, <2>2, SetFrames
    <3>2. DOMAIN stack'[t] = 1..(k + 1)
      BY <3>1 DEF Kept, Stacks
    <3>3. \A i \in DOMAIN stack'[t] : i > k => stack'[t][i] = d
      BY <3>1, <3>2
    <3> QED BY <1>11, <3>1, <3>3
  <2>3. CASE stack' = [stack EXCEPT ![t] = Append(Rest(t), f)]
    <3>1. Kept(t, k) /\ Len(stack'[t]) = k + 1 /\ stack'[t][k + 1] = f
      BY <1>1, <1>2, <1>3, <1>4, <2>3, SetFrames
    <3>2. DOMAIN stack'[t] = 1..(k + 1)
      BY <3>1 DEF Kept, Stacks
    <3>3. \A i \in DOMAIN stack'[t] : i > k => stack'[t][i] = f
      BY <3>1, <3>2
    <3> QED BY <1>12, <3>1, <3>3
  <2>4. CASE stack' = [stack EXCEPT ![t] = Append(Append(Rest(t), f), d)]
    <3>1. /\ Kept(t, n - 1) /\ Len(stack'[t]) = n + 1
          /\ stack'[t][n] = f /\ stack'[t][n + 1] = d
      BY <1>1, <1>2, <1>3, <2>4, SetPushFrames
    <3>2. stack'[t] \in Seq(Frame)
      BY <3>1 DEF Kept, Stacks
    <3>3. \A i \in DOMAIN stack'[t] : i > k => i = n \/ i = n + 1
      BY <1>4, <3>1, <3>2
    <3> QED BY <1>4, <1>11, <1>12, <3>1, <3>3
  <2> QED BY <1>13, <2>1, <2>2, <2>3, <2>4
<1>15. OthersCarry(t, n, o)
  <2>1. \A i \in DOMAIN stack[t] : i > k =>
               (i = k + 1 /\ stack[t][i].new = o) \/ ~stack[t][i].held
    BY <1>3, <1>4, <1>6, <1>10
  <2> QED BY <1>1, <1>4, <1>14, <2>1, OnlyCarry
<1>16. ~Carries(t, n, o)' /\ Stacks'
  BY <1>4, <1>14 DEF Carries, Kept
<1>17. Loses(o, <<t, n>>)
  BY <1>1, <1>2, <1>10, <1>15, <1>16, LosesCarry
<1> QED BY <1>9, <1>17

(* A load either yields nil and changes no holders, or is one holder more  *)
(* of what the variable yields.                                            *)
LEMMA LoadRetainHolders ==
    ASSUME IndInv, NEW t \in Threads, LoadRetain(t)
    PROVE  \/ SameHolders
           \/ /\ UNCHANGED <<location, inUse>>
              /\ \E l \in Locations : Yields(l) \in Objects
                                      /\ \E h : Gains(Yields(l), h)
<1>1. Stacks /\ FramesOK /\ TypeOK
  BY IndParts
<1>2. stack[t] # <<>> /\ Top(t).does = "load" /\ Top(t).step = "lock"
      /\ location[Source(Top(t))] = Top(t).old
  BY DEF LoadRetain, LoadLocks, At
<1>3. UNCHANGED <<referrers, weakly_referenced, life, lock, initializing>>
  BY DEF LoadRetain
<1>4. PICK g \in Frame : g = Top(t) /\ FrameOK(g)
  BY <1>1, <1>2, TopFacts
<1>5. CASE ~rootTryRetain(g.old)
  <2>1. LoadNil(t, Top(t)) /\ Top(t).step # "lock2" /\ UNCHANGED holds
    BY <1>2, <1>4, <1>5 DEF LoadRetain
  <2>2. UNCHANGED <<referrers, weakly_referenced, life, holds, lock,
                    initializing>>
    BY <1>3, <2>1
  <2> QED BY <1>2, <2>1, <2>2, LoadNilStep
<1>6. ASSUME rootTryRetain(g.old), NEW h, Gains(g.old, h)
      PROVE  \E l \in Locations : Yields(l) \in Objects
                                  /\ \E e : Gains(Yields(l), e)
  <2>1. PICK l \in Locations : l = Source(g) /\ inUse[l] /\ g.old \in Objects
    BY <1>2, <1>4 DEF FrameOK
  <2>2. Yields(l) = g.old
    BY <1>2, <1>4, <1>6, <2>1, WeakAssumption DEF Yields, rootTryRetain
  <2> QED BY <1>6, <2>1, <2>2
<1>7. CASE rootTryRetain(g.old) /\ g.op = "load"
  <2>1. /\ holds' = [holds EXCEPT ![t] = @ \cup {g.old}]
        /\ stack' = [stack EXCEPT ![t] = Rest(t)]
        /\ UNCHANGED <<location, inUse>>
    BY <1>4, <1>7 DEF LoadRetain, Pop
  <2>2. Undisturbed(t, Len(stack[t]) - 1)
    <3>1. UNCHANGED <<inUse, life, referrers>>
      BY <1>3, <2>1
    <3> QED BY <1>1, <3>1, SameUndisturbed
  <2>3. Stacks' /\ SameCarries
    <3>1. ~Top(t).held
      BY <1>2, <1>4 DEF FrameOK
    <3> QED BY <1>1, <1>2, <2>1, <2>2, <3>1, PopFrames, PopCarries DEF Kept
  <2>4. PICK o \in Objects : o = g.old
    BY <1>2, <1>4 DEF FrameOK
  <2>5. CASE o \in holds[t]
    <3>1. UNCHANGED holds
      BY <1>1, <2>1, <2>4, <2>5 DEF TypeOK
    <3> QED BY <1>1, <2>3, <3>1, CarriesHolders DEF SameHolders
  <2>6. CASE o \notin holds[t]
    <3>1. Gains(o, <<t, 0>>)
      BY <1>1, <2>1, <2>3, <2>4, <2>6, GainsHold DEF TypeOK
    <3> QED BY <1>6, <1>7, <2>1, <2>4, <3>1
  <2> QED BY <2>5, <2>6
<1>8. CASE rootTryRetain(g.old) /\ g.op # "load"
  <2>1. SetTop(t, [Top(t) EXCEPT !.does = "init", !.step = "lock",
                                 !.new = Top(t).old, !.held = TRUE,
                                 !.old = Nil, !.seen = NoClass])
        /\ UNCHANGED <<location, inUse>> /\ UNCHANGED holds
    BY <1>4, <1>8 DEF LoadRetain
  <2>2. PICK o \in Objects : o = g.old
    BY <1>2, <1>4 DEF FrameOK
  <2>3. PICK f \in Frame :
            f = [g EXCEPT !.does = "init", !.step = "lock",
                          !.new = g.old, !.held = TRUE,
                          !.old = Nil, !.seen = NoClass]
    BY <2>2 DEF Frame, Steps, Ops
  <2>4. f.new = o /\ f.held /\ ~g.held
    BY <1>2, <1>4, <2>2, <2>3 DEF Frame, FrameOK
  <2>5. stack' = [stack EXCEPT ![t] = Append(Rest(t), f)]
    BY <1>4, <2>1, <2>3 DEF SetTop
  <2>6. /\ Kept(t, Len(stack[t]) - 1)
        /\ Len(stack'[t]) = Len(stack[t])
        /\ stack'[t][Len(stack[t])] = f
        /\ Len(stack[t]) \in Nat \ {0}
    BY <1>1, <1>2, <2>5, SetFrames
  <2>7. PICK k \in Nat : k = Len(stack[t]) - 1 /\ Len(stack[t]) = k + 1
    <3>1. PICK n \in Nat \ {0} : n = Len(stack[t])
      BY <2>6
    <3> QED BY <3>1
  <2>8. Kept(t, k) /\ Len(stack'[t]) = k + 1 /\ stack'[t][k + 1] = f
        /\ Len(stack[t]) = k + 1 /\ stack[t][k + 1] = g
    BY <1>4, <2>6, <2>7 DEF Top
  <2>9. DOMAIN stack[t] = 1..(k + 1) /\ DOMAIN stack'[t] = 1..(k + 1)
    BY <1>1, <2>8 DEF Kept, Stacks
  <2>10. OthersCarry(t, k + 1, o)
    <3>1. \A i \in DOMAIN stack[t] : i > k =>
               (i = k + 1 /\ stack[t][i].new = o) \/ ~stack[t][i].held
      BY <2>4, <2>8, <2>9
    <3>2. \A i \in DOMAIN stack'[t] : i > k =>
               (i = k + 1 /\ stack'[t][i].new = o) \/ ~stack'[t][i].held
      BY <2>4, <2>8, <2>9
    <3> QED BY <1>1, <2>8, <3>1, <3>2, OnlyCarry
  <2>11. ~Carries(t, k + 1, o) /\ Carries(t, k + 1, o)' /\ Stacks'
    BY <2>4, <2>8, <2>9 DEF Carries, Kept
  <2>12. k + 1 \in Nat \ {0}
    BY <2>7
  <2>13. Gains(o, <<t, k + 1>>)
    BY <1>1, <2>1, <2>10, <2>11, <2>12, GainsCarry
  <2> QED BY <1>6, <1>8, <2>1, <2>2, <2>13
<1> QED BY <1>5, <1>7, <1>8

-----------------------------------------------------------------------------
(* The theorems.                                                           *)

(* The invariant holds before the first call.                              *)
LEMMA InitInd == Init => IndInv
<1> SUFFICES ASSUME Init
             PROVE  IndInv
  OBVIOUS
<1>1. TypeOK
  BY WeakAssumption DEF Init, TypeOK, Tables
<1>2. Registered
  BY DEF Init, Registered
<1>3. FramesOK
  BY DEF Init, FramesOK
<1>4. HoldsLive
  <2>1. PICK t \in Threads :
            holds = [u \in Threads |-> IF u = t THEN Objects ELSE {}]
    BY DEF Init
  <2> QED BY <2>1 DEF Init, HoldsLive
<1>5. NoLockInProgram
  BY DEF Init, NoLockInProgram
<1> QED BY <1>1, <1>2, <1>3, <1>4, <1>5 DEF IndInv

(* Every step keeps it.                                                    *)
LEMMA IndStep ==
    ASSUME IndInv, [Next]_vars
    PROVE  IndInv'
<1>1. CASE UNCHANGED vars
  <2>1. TypeOK' /\ Registered' /\ HoldsLive'
    BY <1>1 DEF IndInv, TypeOK, Registered, HoldsLive, vars, Tables
  <2>2. NoLockInProgram'
    BY <1>1 DEF IndInv, NoLockInProgram, Top, vars, Tables
  <2>3. FramesOK'
    BY <1>1 DEF IndInv, FramesOK, FrameOK, Apart, Mentioned, Excluded, Source,
                vars
  <2> QED BY <2>1, <2>2, <2>3 DEF IndInv
<1>2. ASSUME NEW t \in Threads, Calls(t)
      PROVE  IndInv'
  <2>1. CASE StoreWeak(t)
    BY <2>1, StoreWeakStep
  <2>2. CASE InitWeak(t)
    BY <2>2, InitWeakStep
  <2>3. CASE DestroyWeak(t)
    BY <2>3, DestroyWeakStep
  <2>4. CASE LoadWeak(t)
    BY <2>4, LoadWeakStep
  <2>5. CASE CopyWeak(t)
    BY <2>5, CopyWeakStep
  <2>6. CASE Give(t)
    BY <2>6, GiveStep
  <2>7. CASE Release(t)
    BY <2>7, ReleaseStep
  <2>8. CASE Alloc(t)
    BY <2>8, AllocStep
  <2> QED BY <1>2, <2>1, <2>2, <2>3, <2>4, <2>5, <2>6, <2>7, <2>8 DEF Calls
<1>3. ASSUME NEW t \in Threads, Step(t)
      PROVE  IndInv'
  <2>1. CASE ReadOld(t)
    BY <2>1, ReadOldStep
  <2>2. CASE LockFirst(t)
    BY <2>2, LockFirstStep
  <2>3. CASE StoreRetry(t)
    BY <2>3, StoreRetryStep
  <2>4. CASE StoreInitialize(t)
    BY <2>4, StoreInitializeStep
  <2>5. CASE StoreCommit(t)
    BY <2>5, StoreCommitStep
  <2>6. CASE WaitForInitialize(t)
    BY <2>6, WaitStep
  <2>7. CASE FinishInitialize(t)
    BY <2>7, FinishInitializeStep
  <2>8. CASE LoadRead(t)
    BY <2>8, LoadReadStep
  <2>9. CASE LoadRetry(t)
    BY <2>9, LoadRetryStep
  <2>10. CASE LoadInitialize(t)
    BY <2>10, LoadInitializeStep
  <2>11. CASE LoadRetain(t)
    BY <2>11, LoadRetainStep
  <2>12. CASE CopyRelease(t)
    BY <2>12, CopyReleaseStep
  <2>13. CASE MoveSetNil(t)
    BY <2>13, MoveSetNilStep
  <2>14. CASE DisposeFast(t)
    BY <2>14, DisposeFastStep
  <2>15. CASE WeakClear(t)
    BY <2>15, WeakClearStep
  <2>16. CASE Free(t)
    BY <2>16, FreeStep
  <2> QED BY <1>3, <2>1, <2>2, <2>3, <2>4, <2>5, <2>6, <2>7, <2>8, <2>9,
             <2>10, <2>11, <2>12, <2>13, <2>14, <2>15, <2>16 DEF Step
<1> QED BY <1>1, <1>2, <1>3 DEF Next

(* The invariant holds in every reachable state (NSObject.mm:260-573).     *)
THEOREM Invariance == Spec => []IndInv
<1>1. Init => IndInv
  BY InitInd
<1>2. IndInv /\ [Next]_vars => IndInv'
  BY IndStep
<1> QED BY <1>1, <1>2, PTL DEF Spec

(* Type correctness of the model, for any threads, objects, variables,     *)
(* classes and side tables.                                                *)
THEOREM TypeCorrect == Spec => []TypeOK
<1>1. IndInv => TypeOK
  BY DEF IndInv
<1> QED BY <1>1, Invariance, PTL

(* A weak variable never holds a freed object and is always in the entry   *)
(* of the object it holds; the entry has no other variable                 *)
(* (NSObject.mm:325-352, objc-weak.mm:461-504): so -dealloc clears every   *)
(* variable and writes to no storage that the program has taken back.      *)
THEOREM VariablesRegistered == Spec => []Registered
<1>1. IndInv => Registered
  BY DEF IndInv
<1> QED BY <1>1, Invariance, PTL

(* No side table is locked while the program's code runs or a thread waits *)
(* for +initialize (NSObject.mm:305-322, 494-511).                         *)
THEOREM NoLocksInProgram == Spec => []NoLockInProgram
<1>1. IndInv => NoLockInProgram
  BY DEF IndInv
<1> QED BY <1>1, Invariance, PTL

(* A holder is of a live object: a thread's by HoldsLive, a copy's by      *)
(* FrameOK.                                                                *)
LEMMA HeldLive == IndInv => HeldAreLive
<1> SUFFICES ASSUME IndInv, NEW o \in Objects, NEW h \in Holders(o)
             PROVE  life[o] = "live"
  BY DEF HeldAreLive
<1>1. Stacks /\ HoldsLive /\ FramesOK
  BY IndParts
<1>2. HoldersAre
  BY <1>1, HoldersDef
<1>3. PICK u \in Threads :
                \/ h = <<u, 0>> /\ o \in holds[u]
                \/ \E i \in Nat \ {0} : h = <<u, i>> /\ Carries(u, i, o)
  BY <1>2 DEF HoldersAre
<1>4. CASE o \in holds[u]
  BY <1>1, <1>4 DEF HoldsLive
<1>5. CASE \E i \in Nat \ {0} : h = <<u, i>> /\ Carries(u, i, o)
  BY <1>1, <1>5 DEF Carries, FramesOK, FrameOK
<1> QED BY <1>3, <1>4, <1>5

(* Whatever is held is live: no load revives an object whose -dealloc has  *)
(* begun (NSObject.mm:483-516).                                            *)
THEOREM ReferencesAreLive == Spec => []HeldAreLive
  BY HeldLive, Invariance, PTL

-----------------------------------------------------------------------------
(* The refinement: what an abstract step needs.                            *)

(* A step that leaves the holders, the lives and what the variables yield  *)
(* alone is no abstract step.                                              *)
LEMMA MapStutter ==
    ASSUME SameHolders, UNCHANGED life,
           \A l \in Locations : Yields(l)' = Yields(l)
    PROVE  UNCHANGED Abstract!vars
<1>1. [l \in Locations |-> Yields(l)]' = [l \in Locations |-> Yields(l)]
  OBVIOUS
<1>2. [o \in Objects |-> Cardinality(Holders(o))]'
        = [o \in Objects |-> Cardinality(Holders(o))]
  BY DEF SameHolders
<1> QED BY <1>1, <1>2 DEF Abstract!vars

(* A step after which one variable yields a live object or nil is an       *)
(* abstract store.                                                         *)
LEMMA MapStore ==
    ASSUME SameHolders, UNCHANGED life,
           NEW l \in Locations, NEW v \in Objects \cup {Nil},
           v # Nil => life[v] = "live", Yields(l)' = v,
           \A m \in Locations \ {l} : Yields(m)' = Yields(m)
    PROVE  Abstract!Store(l, v)
<1>1. [m \in Locations |-> Yields(m)]'
         = [[m \in Locations |-> Yields(m)] EXCEPT ![l] = v]
  OBVIOUS
<1>2. [o \in Objects |-> Cardinality(Holders(o))]'
        = [o \in Objects |-> Cardinality(Holders(o))]
  BY DEF SameHolders
<1> QED BY <1>1, <1>2 DEF Abstract!Store

(* The abstract count of an object that gains a holder.                    *)
LEMMA MoreHolders ==
    ASSUME Stacks, NEW o \in Objects, NEW h, Gains(o, h)
    PROVE  [p \in Objects |-> Cardinality(Holders(p))]'
             = [[p \in Objects |-> Cardinality(Holders(p))] EXCEPT ![o] = @ + 1]
<1>1. Cardinality(Holders(o))' = Cardinality(Holders(o)) + 1
  <2>1. IsFiniteSet(Holders(o))
    BY HoldersFinite
  <2>2. Cardinality(Holders(o) \cup {h}) = Cardinality(Holders(o)) + 1
    BY <2>1, FS_AddElement DEF Gains
  <2> QED BY <2>2 DEF Gains
<1>2. \A p \in Objects \ {o} : Cardinality(Holders(p))' = Cardinality(Holders(p))
  BY DEF Gains
<1> QED BY <1>1, <1>2

(* The abstract count of an object that loses one.                         *)
LEMMA FewerHolders ==
    ASSUME Stacks, NEW o \in Objects, NEW h, Loses(o, h)
    PROVE  [p \in Objects |-> Cardinality(Holders(p))]'
             = [[p \in Objects |-> Cardinality(Holders(p))] EXCEPT ![o] = @ - 1]
<1>1. Cardinality(Holders(o))' = Cardinality(Holders(o)) - 1
  <2>1. IsFiniteSet(Holders(o))
    BY HoldersFinite
  <2>2. Cardinality(Holders(o) \ {h}) = Cardinality(Holders(o)) - 1
    BY <2>1, FS_RemoveElement DEF Loses
  <2> QED BY <2>2 DEF Loses
<1>2. \A p \in Objects \ {o} : Cardinality(Holders(p))' = Cardinality(Holders(p))
  BY DEF Loses
<1> QED BY <1>1, <1>2

(* The count is zero without holders, and one with a last one.             *)
LEMMA Counted ==
    ASSUME Stacks, NEW o
    PROVE  /\ Cardinality(Holders(o)) \in Nat
           /\ Holders(o) = {} <=> Cardinality(Holders(o)) = 0
           /\ \A h \in Holders(o) :
                  Holders(o) = {h} <=> Cardinality(Holders(o)) = 1
<1>1. IsFiniteSet(Holders(o)) /\ Cardinality(Holders(o)) \in Nat
  BY HoldersFinite
<1>2. Holders(o) = {} <=> Cardinality(Holders(o)) = 0
  BY <1>1, FS_EmptySet
<1>3. Cardinality(Holders(o)) = 1 <=> \E x : Holders(o) = {x}
  BY <1>1, FS_Singleton
<1> QED BY <1>1, <1>2, <1>3

(* One more holder of an object that has one is an abstract retain.        *)
LEMMA MapRetain ==
    ASSUME Stacks, NEW o \in Objects, NEW h, Gains(o, h), Holders(o) # {},
           UNCHANGED life, \A l \in Locations : Yields(l)' = Yields(l)
    PROVE  Abstract!Retain(o)
<1>1. [l \in Locations |-> Yields(l)]' = [l \in Locations |-> Yields(l)]
  OBVIOUS
<1>2. [p \in Objects |-> Cardinality(Holders(p))]'
         = [[p \in Objects |-> Cardinality(Holders(p))] EXCEPT ![o] = @ + 1]
  BY MoreHolders
<1>3. [p \in Objects |-> Cardinality(Holders(p))][o] > 0
  BY Counted
<1> QED BY <1>1, <1>2, <1>3 DEF Abstract!Retain

(* One more holder of what a variable yields is an abstract load.          *)
LEMMA MapLoad ==
    ASSUME Stacks, NEW l \in Locations, NEW o \in Objects, Yields(l) = o,
           NEW h, Gains(o, h),
           UNCHANGED life, \A m \in Locations : Yields(m)' = Yields(m)
    PROVE  Abstract!Load(l)
<1>1. [m \in Locations |-> Yields(m)]' = [m \in Locations |-> Yields(m)]
  OBVIOUS
<1>2. [p \in Objects |-> Cardinality(Holders(p))]'
         = [[p \in Objects |-> Cardinality(Holders(p))] EXCEPT ![o] = @ + 1]
  BY MoreHolders
<1>3. [m \in Locations |-> Yields(m)][l] = o /\ o # Nil
  BY WeakAssumption
<1> QED BY <1>1, <1>2, <1>3 DEF Abstract!Load

(* One holder less is an abstract release; with the last one the variables *)
(* that hold the object yield nil at once.                                 *)
LEMMA MapRelease ==
    ASSUME IndInv, NEW o \in Objects, NEW h, Loses(o, h), Ends(o, h),
           UNCHANGED <<location, inUse>>
    PROVE  Abstract!Release(o)
<1>0. Stacks /\ TypeOK
  BY IndParts
<1>1. [p \in Objects |-> Cardinality(Holders(p))]'
         = [[p \in Objects |-> Cardinality(Holders(p))] EXCEPT ![o] = @ - 1]
  BY <1>0, FewerHolders
<1>2. /\ [p \in Objects |-> Cardinality(Holders(p))][o] = Cardinality(Holders(o))
      /\ Cardinality(Holders(o)) > 0
      /\ Holders(o) = {h} <=> Cardinality(Holders(o)) = 1
  BY <1>0, Counted DEF Loses
<1>3. CASE Holders(o) = {h}
  <2>1. life' = [life EXCEPT ![o] = "deallocating"]
    BY <1>3 DEF Ends
  <2>2. life[o] = "live"
    BY <1>3, HeldLive DEF HeldAreLive
  <2>3. ASSUME NEW l \in Locations
        PROVE  Yields(l)' = IF Yields(l) = o THEN Nil ELSE Yields(l)
    BY <1>0, <2>1, <2>2, WeakAssumption DEF Yields, TypeOK
  <2>4. [l \in Locations |-> Yields(l)]'
           = [l \in Locations |-> IF [m \in Locations |-> Yields(m)][l] = o
                                  THEN Nil
                                  ELSE [m \in Locations |-> Yields(m)][l]]
    BY <2>3
  <2> QED BY <1>1, <1>2, <1>3, <2>1, <2>4 DEF Abstract!Release
<1>4. CASE Holders(o) # {h}
  <2>1. UNCHANGED life
    BY <1>4 DEF Ends
  <2>2. [l \in Locations |-> Yields(l)]' = [l \in Locations |-> Yields(l)]
    BY <2>1 DEF Yields
  <2> QED BY <1>1, <1>2, <1>4, <2>1, <2>2 DEF Abstract!Release
<1> QED BY <1>3, <1>4

(* Freeing an object in its -dealloc is the abstract free.                 *)
LEMMA MapFree ==
    ASSUME SameHolders, NEW o \in Objects, TypeOK, life[o] = "deallocating",
           life' = [life EXCEPT ![o] = "freed"],
           UNCHANGED <<location, inUse>>
    PROVE  Abstract!Free(o)
<1>1. [l \in Locations |-> Yields(l)]' = [l \in Locations |-> Yields(l)]
  BY DEF Yields, TypeOK
<1>2. [p \in Objects |-> Cardinality(Holders(p))]'
        = [p \in Objects |-> Cardinality(Holders(p))]
  BY DEF SameHolders
<1> QED BY <1>1, <1>2 DEF Abstract!Free

(* The first holder of an object at a freed address is an abstract         *)
(* allocation.                                                             *)
LEMMA MapAlloc ==
    ASSUME NEW o \in Objects, NEW h, Gains(o, h), Holders(o) = {},
           IndInv, life[o] = "freed", life' = [life EXCEPT ![o] = "live"],
           UNCHANGED <<location, inUse>>
    PROVE  Abstract!Alloc(o)
<1>0. Stacks /\ TypeOK /\ Registered
  BY IndParts
<1>1. [l \in Locations |-> Yields(l)]' = [l \in Locations |-> Yields(l)]
  BY <1>0 DEF Yields, TypeOK, Registered
<1>2. [p \in Objects |-> Cardinality(Holders(p))]'
         = [[p \in Objects |-> Cardinality(Holders(p))] EXCEPT ![o] = @ + 1]
  BY <1>0, MoreHolders
<1>3. [p \in Objects |-> Cardinality(Holders(p))][o] = 0
  BY <1>0, Counted
<1> QED BY <1>1, <1>2, <1>3 DEF Abstract!Alloc

-----------------------------------------------------------------------------
(* The steps of the model.                                                 *)

(* The initial states are abstract ones.                                   *)
LEMMA RefineInit ==
    ASSUME Init
    PROVE  Abstract!Init
<1>1. Stacks
  BY InitInd, IndParts
<1>2. [l \in Locations |-> Yields(l)] = [l \in Locations |-> Nil]
  BY DEF Init, Yields
<1>3. ASSUME NEW o \in Objects
      PROVE  Cardinality(Holders(o)) \in Nat \ {0}
  <2>1. PICK t \in Threads :
            holds = [u \in Threads |-> IF u = t THEN Objects ELSE {}]
    BY DEF Init
  <2>2. <<t, 0>> \in Holders(o)
    BY <1>1, <2>1, HolderFacts
  <2> QED BY <1>1, <2>2, Counted
<1>4. [o \in Objects |-> Cardinality(Holders(o))] \in [Objects -> Nat \ {0}]
  BY <1>3
<1> QED BY <1>2, <1>4 DEF Abstract!Init, Init

(* What a variable yields depends on its use, its contents and their life. *)
LEMMA SameYields ==
    ASSUME UNCHANGED <<location, inUse, life>>
    PROVE  \A l \in Locations : Yields(l)' = Yields(l)
  BY DEF Yields

(* A variable that is not in use yields nil before and after it becomes    *)
(* nil.                                                                    *)
LEMMA NilYields ==
    ASSUME TypeOK, NEW l \in Locations, ~inUse[l],
           UNCHANGED life, location' = [location EXCEPT ![l] = Nil],
           inUse' = [inUse EXCEPT ![l] = TRUE] \/ UNCHANGED inUse
    PROVE  \A m \in Locations : Yields(m)' = Yields(m)
<1>1. \A m \in Locations \ {l} : inUse'[m] = inUse[m] /\ location'[m] = location[m]
  BY DEF TypeOK
<1>2. Yields(l) = Nil /\ Yields(l)' = Nil
  BY DEF TypeOK, Yields
<1> QED BY <1>1, <1>2 DEF Yields

(* So a copy of nil changes nothing of what the variables yield.           *)
LEMMA LoadNilYields ==
    ASSUME IndInv, NEW t \in Threads, stack[t] # <<>>,
           Top(t).does = "load", LoadNil(t, Top(t)), UNCHANGED life
    PROVE  \A l \in Locations : Yields(l)' = Yields(l)
<1>1. Stacks /\ FramesOK /\ TypeOK
  BY IndParts
<1>2. PICK g \in Frame : g = Top(t) /\ FrameOK(g)
  BY <1>1, TopFacts
<1>3. CASE g.op = "load"
  BY <1>2, <1>3, SameYields DEF LoadNil
<1>4. CASE g.op # "load"
  <2>1. PICK l \in Locations : l = g.loc /\ ~inUse[l]
    BY <1>2, <1>4 DEF FrameOK
  <2>2. location' = [location EXCEPT ![l] = Nil]
        /\ inUse' = [inUse EXCEPT ![l] = TRUE]
    BY <1>2, <1>4, <2>1 DEF LoadNil
  <2> QED BY <1>1, <2>1, <2>2, NilYields
<1> QED BY <1>3, <1>4

(* A step that leaves the holders, the table and the lives alone is no     *)
(* abstract step.                                                          *)
LEMMA RefineQuiet ==
    ASSUME SameHolders, UNCHANGED <<table, life>>
    PROVE  UNCHANGED Abstract!vars
<1>1. UNCHANGED <<location, inUse, life>>
  BY DEF table
<1> QED BY <1>1, SameYields, MapStutter

(* Nor is initializing a variable with nil,                                *)
LEMMA RefineInitWeak ==
    ASSUME IndInv, NEW t \in Threads, InitWeak(t)
    PROVE  UNCHANGED Abstract!vars
<1>1. SameHolders /\ UNCHANGED life /\ TypeOK
  BY InitWeakStep, IndParts DEF InitWeak
<1>2. PICK l \in Locations : \E o \in Reachable(t) \cup {Nil} :
           /\ ~inUse[l]
           /\ IF o = Nil
              THEN /\ location' = [location EXCEPT ![l] = Nil]
                   /\ inUse' = [inUse EXCEPT ![l] = TRUE]
              ELSE UNCHANGED <<location, inUse>>
  BY DEF InitWeak
<1>3. \/ /\ location' = [location EXCEPT ![l] = Nil]
         /\ inUse' = [inUse EXCEPT ![l] = TRUE]
      \/ UNCHANGED <<location, inUse>>
  BY <1>2
<1>4. \A m \in Locations : Yields(m)' = Yields(m)
  BY <1>1, <1>2, <1>3, NilYields, SameYields
<1> QED BY <1>1, <1>4, MapStutter

(* ... a load that finds nil,                                              *)
LEMMA RefineLoadRead ==
    ASSUME IndInv, NEW t \in Threads, LoadRead(t)
    PROVE  UNCHANGED Abstract!vars
<1>1. SameHolders /\ UNCHANGED life
  BY LoadReadStep DEF LoadRead
<1>2. stack[t] # <<>> /\ Top(t).does = "load"
  BY DEF LoadRead, At
<1>3. LoadNil(t, Top(t)) \/ UNCHANGED <<location, inUse>>
  BY DEF LoadRead
<1>4. \A m \in Locations : Yields(m)' = Yields(m)
  BY <1>1, <1>2, <1>3, LoadNilYields, SameYields
<1> QED BY <1>1, <1>4, MapStutter

(* ... or one that finds an object in its -dealloc; any other is an        *)
(* abstract load.                                                          *)
LEMMA RefineLoadRetain ==
    ASSUME IndInv, NEW t \in Threads, LoadRetain(t)
    PROVE  UNCHANGED Abstract!vars \/ \E l \in Locations : Abstract!Load(l)
<1>1. UNCHANGED life /\ stack[t] # <<>> /\ Top(t).does = "load"
  BY DEF LoadRetain, LoadLocks, At
<1>2. LoadNil(t, Top(t)) \/ UNCHANGED <<location, inUse>>
  BY DEF LoadRetain
<1>3. \A m \in Locations : Yields(m)' = Yields(m)
  BY <1>1, <1>2, LoadNilYields, SameYields
<1>4. CASE SameHolders
  BY <1>1, <1>3, <1>4, MapStutter
<1>5. CASE \E l \in Locations : Yields(l) \in Objects
                                /\ \E h : Gains(Yields(l), h)
  <2>1. PICK l \in Locations, o \in Objects :
            o = Yields(l) /\ \E h : Gains(o, h)
    BY <1>5
  <2>2. PICK h : Gains(o, h)
    BY <2>1
  <2>3. Stacks
    BY IndParts
  <2>4. Abstract!Load(l)
    BY <1>1, <1>3, <2>1, <2>2, <2>3, MapLoad
  <2> QED BY <2>4
<1> QED BY <1>4, <1>5, LoadRetainHolders

(* Nor is setting the source of a move to nil, since it is not in use,     *)
LEMMA RefineMoveSetNil ==
    ASSUME IndInv, NEW t \in Threads, MoveSetNil(t)
    PROVE  UNCHANGED Abstract!vars
<1>1. SameHolders /\ UNCHANGED <<life, inUse>> /\ TypeOK /\ Stacks /\ FramesOK
  BY MoveSetNilStep, IndParts DEF MoveSetNil
<1>2. stack[t] # <<>> /\ Top(t).does = "destroy" /\ Top(t).step = "setNil"
  BY DEF MoveSetNil, At
<1>3. PICK l \in Locations : l = Top(t).src /\ ~inUse[l]
  BY <1>1, <1>2, TopFacts DEF FrameOK
<1>4. location' = [location EXCEPT ![l] = Nil]
  BY <1>3 DEF MoveSetNil
<1>5. \A m \in Locations : Yields(m)' = Yields(m)
  BY <1>1, <1>3, <1>4, NilYields
<1> QED BY <1>1, <1>5, MapStutter

(* ... or clearing an entry: its variables yield nil since the last        *)
(* release.                                                                *)
LEMMA RefineWeakClear ==
    ASSUME IndInv, NEW t \in Threads, WeakClear(t)
    PROVE  UNCHANGED Abstract!vars
<1>1. SameHolders /\ UNCHANGED <<life, inUse>> /\ TypeOK /\ Stacks /\ FramesOK
  BY WeakClearStep, IndParts DEF WeakClear
<1>2. stack[t] # <<>> /\ Top(t).does = "dealloc"
  BY DEF WeakClear, At
<1>3. PICK o \in Objects : o = Top(t).new /\ life[o] = "deallocating"
  BY <1>1, <1>2, TopFacts DEF FrameOK
<1>4. location' = [l \in Locations |->
                      IF l \in referrers[o] /\ location[l] = o THEN Nil
                      ELSE location[l]]
  BY <1>3 DEF WeakClear
<1>5. \A m \in Locations : Yields(m)' = Yields(m)
  BY <1>1, <1>3, <1>4 DEF Yields
<1> QED BY <1>1, <1>5, MapStutter

(* The end of a store is an abstract store.                                *)
LEMMA RefineStoreCommit ==
    ASSUME IndInv, NEW t \in Threads, StoreCommit(t)
    PROVE  \E l \in Locations, v \in Objects \cup {Nil} : Abstract!Store(l, v)
<1>1. SameHolders /\ TypeOK /\ Stacks /\ FramesOK
  BY StoreCommitStep, IndParts
<1>2. /\ stack[t] # <<>>
      /\ Top(t).does \in {"store", "init", "destroy"}
  BY LocksTop DEF StoreCommit
<1>3. PICK g \in Frame : g = Top(t) /\ FrameOK(g)
  BY <1>1, <1>2, TopFacts
<1>4. PICK l \in Locations : l = g.loc
  BY <1>2, <1>3 DEF FrameOK
<1>5. /\ location' =
           IF HaveNew(g)
           THEN [location EXCEPT ![l] = IF Accepts(g) THEN g.new ELSE Nil]
           ELSE location
      /\ inUse' = [inUse EXCEPT ![l] = HaveNew(g)]
      /\ UNCHANGED life
  BY <1>3, <1>4 DEF StoreCommit
<1>6. HaveNew(g) \in BOOLEAN
  BY DEF HaveNew
<1>7. \A m \in Locations \ {l} : Yields(m)' = Yields(m)
  BY <1>1, <1>5 DEF Yields, TypeOK
<1>8. PICK v \in Objects \cup {Nil} : v = IF Accepts(g) THEN g.new ELSE Nil
  BY DEF Frame
<1>9. v # Nil => life[v] = "live" /\ HaveNew(g)
  BY <1>8 DEF Accepts
<1>10. inUse'[l] = HaveNew(g) /\ (HaveNew(g) => location'[l] = v)
  BY <1>1, <1>5, <1>6, <1>8 DEF TypeOK
<1>11. Yields(l)' = v
  BY <1>5, <1>9, <1>10 DEF Yields
<1>12. Abstract!Store(l, v)
  BY <1>1, <1>5, <1>7, <1>9, <1>11, MapStore
<1> QED BY <1>12

(* Freeing an object is an abstract free.                                  *)
LEMMA RefineFreed ==
    ASSUME IndInv, NEW t \in Threads, DisposeFast(t) \/ Free(t)
    PROVE  \E o \in Objects : Abstract!Free(o)
<1>1. SameHolders /\ TypeOK /\ Stacks /\ FramesOK
  BY DisposeFastStep, FreeStep, IndParts
<1>2. stack[t] # <<>> /\ Top(t).does = "dealloc"
  BY DEF DisposeFast, Free, At
<1>3. PICK o \in Objects : o = Top(t).new /\ life[o] = "deallocating"
  BY <1>1, <1>2, TopFacts DEF FrameOK
<1>4. life' = [life EXCEPT ![o] = "freed"] /\ UNCHANGED <<location, inUse>>
  BY <1>3 DEF DisposeFast, Free, table
<1> QED BY <1>1, <1>3, <1>4, MapFree

(* The two releases are abstract ones.                                     *)
LEMMA RefineReleases ==
    ASSUME IndInv, NEW t \in Threads, Release(t) \/ CopyRelease(t)
    PROVE  \E o \in Objects : Abstract!Release(o)
<1>1. PICK o \in Objects : \E h : Loses(o, h) /\ Ends(o, h)
  BY ReleaseHolders, CopyReleaseHolders
<1>2. PICK h : Loses(o, h) /\ Ends(o, h)
  BY <1>1
<1>3. UNCHANGED <<location, inUse>>
  BY DEF Release, CopyRelease, table
<1> QED BY <1>2, <1>3, MapRelease

(* Passing a reference is an abstract retain.                              *)
LEMMA RefineGive ==
    ASSUME IndInv, NEW t \in Threads, Give(t)
    PROVE  \E o \in Objects : Abstract!Retain(o)
<1>1. PICK o \in Objects : Holders(o) # {} /\ \E h : Gains(o, h)
  BY GiveHolders
<1>2. PICK h : Gains(o, h)
  BY <1>1
<1>3. UNCHANGED <<location, inUse, life>> /\ Stacks
  BY IndParts DEF Give, table
<1>4. \A l \in Locations : Yields(l)' = Yields(l)
  BY <1>3, SameYields
<1> QED BY <1>1, <1>2, <1>3, <1>4, MapRetain

(* Allocation is abstract allocation.                                      *)
LEMMA RefineAlloc ==
    ASSUME IndInv, NEW t \in Threads, Alloc(t)
    PROVE  \E o \in Objects : Abstract!Alloc(o)
<1>1. PICK o \in Objects :
               /\ life[o] = "freed" /\ Holders(o) = {}
               /\ life' = [life EXCEPT ![o] = "live"]
               /\ \E h : Gains(o, h)
  BY AllocHolders
<1>2. PICK h : Gains(o, h)
  BY <1>1
<1>3. UNCHANGED <<location, inUse>>
  BY DEF Alloc
<1> QED BY <1>1, <1>2, <1>3, MapAlloc

(* Every step is an abstract step or none.                                 *)
LEMMA RefineNext ==
    ASSUME IndInv, [Next]_vars
    PROVE  Abstract!Next \/ UNCHANGED Abstract!vars
<1>1. CASE UNCHANGED vars
  <2>1. SameHolders /\ UNCHANGED <<table, life>>
    BY <1>1 DEF SameHolders, Holders, vars, table
  <2> QED BY <2>1, RefineQuiet
<1>2. ASSUME NEW t \in Threads, Calls(t)
      PROVE  Abstract!Next \/ UNCHANGED Abstract!vars
  <2>1. CASE StoreWeak(t) \/ DestroyWeak(t) \/ LoadWeak(t) \/ CopyWeak(t)
    <3>1. SameHolders
      BY <2>1, StoreWeakStep, DestroyWeakStep, LoadWeakStep, CopyWeakStep
    <3>2. UNCHANGED <<table, life>>
      BY <2>1 DEF StoreWeak, DestroyWeak, LoadWeak, CopyWeak
    <3> QED BY <3>1, <3>2, RefineQuiet
  <2>2. CASE InitWeak(t)
    BY <2>2, RefineInitWeak
  <2>3. CASE Give(t)
    BY <2>3, RefineGive DEF Abstract!Next
  <2>4. CASE Release(t)
    BY <2>4, RefineReleases DEF Abstract!Next
  <2>5. CASE Alloc(t)
    BY <2>5, RefineAlloc DEF Abstract!Next
  <2> QED BY <1>2, <2>1, <2>2, <2>3, <2>4, <2>5 DEF Calls
<1>3. ASSUME NEW t \in Threads, Step(t)
      PROVE  Abstract!Next \/ UNCHANGED Abstract!vars
  <2>1. CASE ReadOld(t) \/ LockFirst(t) \/ StoreRetry(t) \/ WaitForInitialize(t)
             \/ LoadRetry(t)
    <3>1. SameHolders
      BY <2>1, ReadOldStep, LockFirstStep, StoreRetryStep, WaitStep,
         LoadRetryStep
    <3>2. UNCHANGED <<table, life>>
      BY <2>1 DEF ReadOld, LockFirst, StoreRetry, WaitForInitialize, LoadRetry
    <3> QED BY <3>1, <3>2, RefineQuiet
  <2>2. CASE StoreInitialize(t) \/ LoadInitialize(t) \/ FinishInitialize(t)
    <3>1. SameHolders
      BY <2>2, StoreInitializeStep, LoadInitializeStep, FinishInitializeStep
    <3>2. UNCHANGED <<table, life>>
      BY <2>2 DEF StoreInitialize, LoadInitialize, FinishInitialize
    <3> QED BY <3>1, <3>2, RefineQuiet
  <2>3. CASE StoreCommit(t)
    BY <2>3, RefineStoreCommit DEF Abstract!Next
  <2>4. CASE LoadRead(t)
    BY <2>4, RefineLoadRead
  <2>5. CASE LoadRetain(t)
    BY <2>5, RefineLoadRetain DEF Abstract!Next
  <2>6. CASE CopyRelease(t)
    BY <2>6, RefineReleases DEF Abstract!Next
  <2>7. CASE MoveSetNil(t)
    BY <2>7, RefineMoveSetNil
  <2>8. CASE DisposeFast(t) \/ Free(t)
    BY <2>8, RefineFreed DEF Abstract!Next
  <2>9. CASE WeakClear(t)
    BY <2>9, RefineWeakClear
  <2> QED BY <1>3, <2>1, <2>2, <2>3, <2>4, <2>5, <2>6, <2>7, <2>8, <2>9 DEF Step
<1> QED BY <1>1, <1>2, <1>3 DEF Next

(* Side tables, locks and entries implement zeroing weak variables: a load *)
(* yields the object or nil, and nil in all variables from the last        *)
(* release on, at one instant (NSObject.mm:260-573, objc-weak.mm:461-504). *)
THEOREM Refinement == Spec => ImplementsAbstractWeak
<1>1. Init => Abstract!Init
  BY RefineInit
<1>2. IndInv /\ [Next]_vars => [Abstract!Next]_(Abstract!vars)
  BY RefineNext
<1> QED BY <1>1, <1>2, Invariance, PTL
        DEF Spec, ImplementsAbstractWeak, Abstract!Spec
====
