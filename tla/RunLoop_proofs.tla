---- MODULE RunLoop_proofs ----
(***************************************************************************)
(* Proofs about RunLoop, for any sources, observers, modes, threads and    *)
(* nesting of runs: IndInv of that module is inductive, and so the loop    *)
(* does not sleep over work whose thread has woken it up (NoWakeupLost),   *)
(* and blocks stay in the order they were posted (BlocksStayInOrder).      *)
(*                                                                         *)
(* The core of the argument is Noticed. Wake-ups are ignored from one      *)
(* sleep to the next iteration, and one message serves for many; so each   *)
(* stage of an iteration is given what it has looked for already           *)
(* (PastStops, PastBlocks, PastSources, PastPoll), and what came after it  *)
(* looked (Unseen) must have a wake-up on its way or delivered (Notice),   *)
(* unless the activation will not sleep in this iteration (Excused).       *)
(* Looking for something makes it seen; whoever adds something to a stage  *)
(* that looked is not ignored there, and wakes up. An activation with      *)
(* another nested in it must be excused, for the inner one may take the    *)
(* message: this is what programs that nest runs in other callouts would   *)
(* break.                                                                  *)
(*                                                                         *)
(* The order of the blocks needs that numbers are given out in order       *)
(* (IdsOK), and that an inner activation takes its blocks from the list    *)
(* while the outer ones hold older ones.                                   *)
(*                                                                         *)
(* No observer and not the main queue is called out to from inside its own *)
(* callout (NeverReentered): the invariant for this, CalloutsOK, comes on  *)
(* top of the first.                                                       *)
(***************************************************************************)
EXTENDS RunLoop, SequenceTheorems, WellFoundedInduction, TLAPS

(* A sequence with one element replaced,                                   *)
LEMMA Replaced ==
    ASSUME NEW S, NEW s \in Seq(S), NEW n \in 1..Len(s), NEW e \in S
    PROVE  /\ [s EXCEPT ![n] = e] \in Seq(S)
           /\ Len([s EXCEPT ![n] = e]) = Len(s)
           /\ [s EXCEPT ![n] = e][n] = e
           /\ \A i \in 1..Len(s) : i # n => [s EXCEPT ![n] = e][i] = s[i]
  BY ExceptSeq

(* ... with one more,                                                      *)
LEMMA Appended ==
    ASSUME NEW S, NEW s \in Seq(S), NEW e \in S
    PROVE  /\ Append(s, e) \in Seq(S)
           /\ Len(Append(s, e)) = Len(s) + 1
           /\ Append(s, e)[Len(s) + 1] = e
           /\ \A i \in 1..Len(s) : Append(s, e)[i] = s[i]
  OBVIOUS

(* ... and without the last one.                                           *)
LEMMA Rests ==
    ASSUME NEW S, NEW s \in Seq(S), s # <<>>
    PROVE  /\ SubSeq(s, 1, Len(s) - 1) \in Seq(S)
           /\ Len(SubSeq(s, 1, Len(s) - 1)) = Len(s) - 1
           /\ \A i \in 1..(Len(s) - 1) : SubSeq(s, 1, Len(s) - 1)[i] = s[i]
           /\ Len(s) \in Nat \ {0}
           /\ s[Len(s)] \in S
<1>1. Len(s) \in Nat /\ Len(s) # 0 /\ \A i \in 1..Len(s) : s[i] \in S
  OBVIOUS
<1>2. \A i \in 1..(Len(s) - 1) : s[i] \in S
  BY <1>1
<1>3. PICK n \in Nat : n = Len(s) - 1
  BY <1>1
<1>4. \A i \in 1..n : s[i] \in S
  BY <1>2, <1>3
<1>5. /\ SubSeq(s, 1, n) \in Seq(S)
      /\ Len(SubSeq(s, 1, n)) = IF 1 <= n THEN n - 1 + 1 ELSE 0
      /\ \A i \in 1..(n - 1 + 1) : SubSeq(s, 1, n)[i] = s[1 + i - 1]
  BY <1>4, SubSeqProperties
<1>6. /\ Len(SubSeq(s, 1, n)) = n
      /\ \A i \in 1..n : SubSeq(s, 1, n)[i] = s[i]
  BY <1>5
<1> QED BY <1>1, <1>3, <1>5, <1>6

-----------------------------------------------------------------------------
(* The order of the sources, and the stages.                               *)

(* A set of numbers that is not empty has a least one,                     *)
LEMMA LeastNat ==
    ASSUME NEW T \in SUBSET Nat, T # {}
    PROVE  \E x \in T : \A y \in T : x <= y
<1>1. PICK R : R = OpToRel(<, Nat)
  OBVIOUS
<1>2. IsWellFoundedOn(R, Nat)
  BY <1>1, NatLessThanWellFounded
<1>3. PICK x \in T : \A y \in T : ~ (<<y, x>> \in R)
  BY <1>2, WFMin
<1>4. \A y \in Nat, z \in Nat : <<y, z>> \in R <=> y < z
  BY <1>1 DEF OpToRel
<1>5. \A y \in T : ~ (y < x)
  BY <1>3, <1>4
<1> QED BY <1>5

(* ... and so the first source or observer of a set is in the set.         *)
LEMMA FirstIn ==
    ASSUME NEW S \in SUBSET (Sources \cup Observers), S # {}
    PROVE  First(S) \in S
<1>1. \A x \in S : Order[x] \in Nat
  BY RunLoopAssumption
<1>2. PICK R \in SUBSET Nat : R = {Order[x] : x \in S}
  BY <1>1
<1>3. R # {}
  BY <1>2
<1>4. PICK k \in R : \A y \in R : k <= y
  BY <1>2, <1>3, LeastNat
<1>5. \E x \in S : \A y \in S : Order[x] <= Order[y]
  BY <1>2, <1>4
<1> QED BY <1>5 DEF First

(* The stages that call out to observers are skipped where nobody observes *)
(* them: Stage satisfies its recursive equation, for ObserverStages leads  *)
(* on,                                                                     *)
LEMMA StageDef ==
    ASSUME NEW pc \in Stages
    PROVE  Stage[pc] = IF pc \in DOMAIN ObserverStages \ Observed
                       THEN Stage[ObserverStages[pc]] ELSE pc
<1> DEFINE D == DOMAIN ObserverStages \ Observed
           Next1(x) == IF x \in D THEN ObserverStages[x] ELSE x
           F == [x \in Stages |-> Next1(Next1(x))]
           G(H) == [x \in Stages |-> IF x \in D THEN H[ObserverStages[x]] ELSE x]
<1>1. F = G(F)
  <2> SUFFICES ASSUME NEW x \in Stages
               PROVE  Next1(Next1(x)) = IF x \in D THEN F[ObserverStages[x]] ELSE x
    OBVIOUS
  <2>1. CASE x \in D
    <3>1. x \in {"entry", "beforeTimers", "beforeSources", "beforeWaiting",
                 "afterWaiting", "exit"}
      BY <2>1 DEF ObserverStages
    <3>2. ObserverStages[x] \in {"prologue", "beforeSources", "blocks", "sleep", "handle", "return"}
      BY <3>1 DEF ObserverStages
    <3>3. ObserverStages[x] \in Stages
      BY <3>2 DEF Stages, Unlocked, ObserverStages, BlockStages
    <3>4. F[ObserverStages[x]] = Next1(Next1(ObserverStages[x]))
      BY <3>3
    <3>5. Next1(ObserverStages[x]) \in {"prologue", "blocks", "sleep", "handle", "return", "beforeSources"}
      BY <3>2 DEF ObserverStages
    <3>6. ObserverStages[x] = "beforeSources" => Next1(Next1(ObserverStages[x])) = Next1(ObserverStages[x])
      BY DEF ObserverStages
    <3>7. ObserverStages[x] # "beforeSources" => Next1(Next1(ObserverStages[x])) = Next1(ObserverStages[x])
      BY <3>2 DEF ObserverStages
    <3> QED BY <2>1, <3>4, <3>6, <3>7
  <2>2. CASE x \notin D
    BY <2>2
  <2> QED BY <2>1, <2>2
<1> HIDE DEF F, G
<1>2. Stage = CHOOSE H : H = G(H)
  BY DEF Stage, G
<1>3. Stage = G(Stage)
  BY <1>1, <1>2
<1>4. G(Stage)[pc] = IF pc \in D THEN Stage[ObserverStages[pc]] ELSE pc
  BY DEF G
<1> QED BY <1>3, <1>4

(* ... and this is where each goes on.                                     *)
LEMMA StageFacts ==
    /\ \A x \in Unlocked \cup {"blocks", "prologue", "sleep", "handle", "return"} : Stage[x] = x
    /\ Stage["entry"] \in {"entry", "prologue"}
    /\ Stage["beforeTimers"] \in {"beforeTimers", "beforeSources", "blocks"}
    /\ Stage["beforeSources"] \in {"beforeSources", "blocks"}
    /\ Stage["beforeWaiting"] \in {"beforeWaiting", "sleep"}
    /\ Stage["afterWaiting"] \in {"afterWaiting", "handle"}
    /\ Stage["exit"] \in {"exit", "return"}
<1>1. \A x \in Unlocked \cup {"blocks", "prologue", "sleep", "handle", "return"} : Stage[x] = x
  <2> SUFFICES ASSUME NEW x \in Unlocked \cup {"blocks", "prologue", "sleep", "handle", "return"}
               PROVE Stage[x] = x
    OBVIOUS
  <2>1. x \in Stages /\ x \notin DOMAIN ObserverStages
    BY DEF Stages, Unlocked, ObserverStages, BlockStages
  <2> QED BY <2>1, StageDef
<1>2. ASSUME NEW x \in {"entry", "beforeTimers", "beforeSources", "beforeWaiting",
                 "afterWaiting", "exit"}
      PROVE Stage[x] = x \/ Stage[x] = Stage[ObserverStages[x]]
  <2>1. x \in Stages
    BY DEF Stages, ObserverStages
  <2> QED BY <2>1, StageDef
<1>3. /\ ObserverStages["entry"] = "prologue" /\ ObserverStages["beforeTimers"] = "beforeSources"
      /\ ObserverStages["beforeSources"] = "blocks" /\ ObserverStages["beforeWaiting"] = "sleep"
      /\ ObserverStages["afterWaiting"] = "handle" /\ ObserverStages["exit"] = "return"
  BY DEF ObserverStages
<1> QED BY <1>1, <1>2, <1>3

-----------------------------------------------------------------------------
(* The stack.                                                              *)

(* The innermost activation,                                               *)
LEMMA StackTop ==
    ASSUME TypeOK, Running
    PROVE  \E n \in Nat \ {0} : n = Len(stack) /\ Top = stack[n] /\ Top \in Activations
  BY DEF TypeOK, Running, Top

(* ... and the stack with another one in its place.                        *)
LEMMA StackWith ==
    ASSUME TypeOK, Running, NEW a \in Activations, stack' = With(a)
    PROVE  /\ stack' \in Seq(Activations) /\ stack' # <<>>
           /\ Len(stack') = Len(stack) /\ Len(stack) \in Nat \ {0}
           /\ stack'[Len(stack)] = a
           /\ \A i \in 1..Len(stack) : i # Len(stack) => stack'[i] = stack[i]
<1>1. stack \in Seq(Activations) /\ stack # <<>>
  BY DEF TypeOK, Running
<1>2. PICK n \in Nat \ {0} : n = Len(stack)
  BY StackTop
<1>3. stack' = [stack EXCEPT ![n] = a] /\ n \in 1..Len(stack)
  BY <1>2 DEF With
<1>4. stack' \in Seq(Activations) /\ Len(stack') = n /\ stack'[n] = a
  BY <1>1, <1>2, <1>3, Replaced
<1>5. \A i \in 1..n : i # n => stack'[i] = stack[i]
  BY <1>1, <1>2, <1>3, Replaced
<1> QED BY <1>2, <1>4, <1>5

-----------------------------------------------------------------------------
(* Lists of blocks.                                                        *)

(* The numbers of the blocks of a list.                                    *)
LEMMA IdsNat ==
    ASSUME NEW q \in Seq(Blocks)
    PROVE  /\ Ids(q) \subseteq Nat
           /\ \A x \in Ids(q) : \E k \in 1..Len(q) : x = q[k].id
           /\ \A k \in 1..Len(q) : q[k].id \in Ids(q)
           /\ DOMAIN q = 1..Len(q)
           /\ \A k \in 1..Len(q) : q[k] \in Blocks
<1>1. DOMAIN q = 1..Len(q) /\ \A k \in 1..Len(q) : q[k] \in Blocks
  OBVIOUS
<1>2. \A k \in 1..Len(q) : q[k].id \in Nat
  BY <1>1 DEF Blocks
<1> QED BY <1>1, <1>2 DEF Ids

(* No block is in order,                                                   *)
LEMMA IdsEmpty == Ids(<<>>) = {} /\ Rising(<<>>)
  BY DEF Ids, Rising

(* ... nor does a younger one at the end disturb the order,                *)
LEMMA IdsAppend ==
    ASSUME NEW q \in Seq(Blocks), NEW b \in Blocks
    PROVE  /\ Append(q, b) \in Seq(Blocks)
           /\ Ids(Append(q, b)) = Ids(q) \cup {b.id}
           /\ Rising(q) /\ Older(Ids(q), {b.id}) => Rising(Append(q, b))
<1> DEFINE r == Append(q, b)
<1>1. /\ r \in Seq(Blocks) /\ Len(r) = Len(q) + 1 /\ Len(q) \in Nat /\ r[Len(q) + 1] = b
      /\ \A k \in 1..Len(q) : r[k] = q[k]
  OBVIOUS
<1> HIDE DEF r
<1>2. DOMAIN r = 1..(Len(q) + 1) /\ DOMAIN q = 1..Len(q)
  BY <1>1
<1>3. \A k \in DOMAIN r : k = Len(q) + 1 \/ k \in DOMAIN q
  BY <1>1, <1>2
<1>4. Ids(r) \subseteq Ids(q) \cup {b.id}
  BY <1>1, <1>2, <1>3 DEF Ids
<1>5. Ids(q) \subseteq Ids(r) /\ b.id \in Ids(r)
  <2>1. Len(q) + 1 \in DOMAIN r /\ \A k \in DOMAIN q : k \in DOMAIN r /\ r[k] = q[k]
    BY <1>1, <1>2
  <2> QED BY <1>1, <2>1 DEF Ids
<1>6. ASSUME Rising(q), Older(Ids(q), {b.id})
      PROVE  Rising(r)
  <2> SUFFICES ASSUME NEW k \in DOMAIN r, NEW l \in DOMAIN r, k < l
               PROVE  r[k].id < r[l].id
    BY DEF Rising
  <2>1. k \in DOMAIN q /\ r[k] = q[k] /\ q[k].id \in Ids(q)
    BY <1>1, <1>2 DEF Ids
  <2>2. CASE l = Len(q) + 1
    BY <1>1, <1>6, <2>1, <2>2 DEF Older
  <2>3. CASE l \in DOMAIN q
    BY <1>1, <1>2, <1>6, <2>1, <2>3 DEF Rising
  <2> QED BY <1>3, <2>2, <2>3
<1> QED BY <1>1, <1>4, <1>5, <1>6 DEF r

(* ... nor one less at the front,                                          *)
LEMMA IdsTail ==
    ASSUME NEW q \in Seq(Blocks), q # <<>>
    PROVE  /\ Tail(q) \in Seq(Blocks) /\ Head(q) \in Blocks
           /\ Ids(Tail(q)) \subseteq Ids(q) /\ Head(q).id \in Ids(q)
           /\ Rising(q) => Rising(Tail(q)) /\ Older({Head(q).id}, Ids(Tail(q)))
<1> DEFINE r == Tail(q)
<1>1. /\ r \in Seq(Blocks) /\ Len(r) = Len(q) - 1 /\ Len(q) \in Nat \ {0}
      /\ \A k \in 1..(Len(q) - 1) : r[k] = q[k + 1]
      /\ Head(q) = q[1] /\ q[1] \in Blocks
  OBVIOUS
<1> HIDE DEF r
<1>2. DOMAIN r = 1..(Len(q) - 1) /\ DOMAIN q = 1..Len(q)
  BY <1>1
<1>3. \A k \in DOMAIN r : k + 1 \in DOMAIN q /\ r[k] = q[k + 1] /\ 1 < k + 1
  BY <1>1, <1>2
<1>4. Ids(r) \subseteq Ids(q)
  BY <1>3 DEF Ids
<1>5. 1 \in DOMAIN q /\ Head(q).id \in Ids(q)
  BY <1>1, <1>2 DEF Ids
<1>6. ASSUME Rising(q) PROVE Rising(r)
  <2> SUFFICES ASSUME NEW k \in DOMAIN r, NEW l \in DOMAIN r, k < l
               PROVE  r[k].id < r[l].id
    BY DEF Rising
  <2>1. k + 1 < l + 1
    BY <1>2
  <2> QED BY <1>3, <1>6, <2>1 DEF Rising
<1>7. ASSUME Rising(q) PROVE Older({Head(q).id}, Ids(r))
  <2> SUFFICES ASSUME NEW k \in DOMAIN r
               PROVE  Head(q).id < r[k].id
    BY DEF Older, Ids
  <2> QED BY <1>1, <1>3, <1>5, <1>7 DEF Rising
<1> QED BY <1>1, <1>4, <1>5, <1>6, <1>7 DEF r

(* ... nor putting younger blocks behind older ones.                       *)
LEMMA IdsConcat ==
    ASSUME NEW p \in Seq(Blocks), NEW q \in Seq(Blocks)
    PROVE  /\ p \o q \in Seq(Blocks)
           /\ Ids(p \o q) = Ids(p) \cup Ids(q)
           /\ Rising(p) /\ Rising(q) /\ Older(Ids(p), Ids(q)) => Rising(p \o q)
           /\ \A k \in DOMAIN (p \o q) :
                 \/ \E l \in DOMAIN p : (p \o q)[k] = p[l]
                 \/ \E l \in DOMAIN q : (p \o q)[k] = q[l]
<1> DEFINE r == p \o q
<1>1. /\ r \in Seq(Blocks) /\ Len(r) = Len(p) + Len(q) /\ Len(p) \in Nat /\ Len(q) \in Nat
      /\ \A k \in 1..(Len(p) + Len(q)) : r[k] = IF k <= Len(p) THEN p[k] ELSE q[k - Len(p)]
  OBVIOUS
<1> HIDE DEF r
<1>2. DOMAIN r = 1..(Len(p) + Len(q)) /\ DOMAIN q = 1..Len(q) /\ DOMAIN p = 1..Len(p)
  BY <1>1
<1>3. \A k \in DOMAIN r : k <= Len(p) => k \in DOMAIN p /\ r[k] = p[k]
  BY <1>1, <1>2
<1>4. \A k \in DOMAIN r : ~ (k <= Len(p)) => k - Len(p) \in DOMAIN q /\ r[k] = q[k - Len(p)]
  BY <1>1, <1>2
<1>5. \A k \in DOMAIN p : k \in DOMAIN r /\ r[k] = p[k]
  BY <1>1, <1>2
<1>6. \A k \in DOMAIN q : k + Len(p) \in DOMAIN r /\ r[k + Len(p)] = q[k]
  <2> SUFFICES ASSUME NEW k \in DOMAIN q
               PROVE  k + Len(p) \in DOMAIN r /\ r[k + Len(p)] = q[k]
    OBVIOUS
  <2>1. k \in 1..Len(q) /\ k + Len(p) \in 1..(Len(p) + Len(q)) /\ ~ (k + Len(p) <= Len(p))
        /\ (k + Len(p)) - Len(p) = k
    BY <1>1, <1>2
  <2> QED BY <1>1, <1>2, <2>1
<1>7. Ids(r) \subseteq Ids(p) \cup Ids(q)
  BY <1>3, <1>4 DEF Ids
<1>8. Ids(p) \cup Ids(q) \subseteq Ids(r)
  BY <1>5, <1>6 DEF Ids
<1>9. ASSUME Rising(p), Rising(q), Older(Ids(p), Ids(q))
      PROVE  Rising(r)
  <2> SUFFICES ASSUME NEW k \in DOMAIN r, NEW l \in DOMAIN r, k < l
               PROVE  r[k].id < r[l].id
    BY DEF Rising
  <2>1. CASE l <= Len(p)
    <3>1. k <= Len(p) /\ k \in DOMAIN p /\ l \in DOMAIN p /\ r[k] = p[k] /\ r[l] = p[l]
      BY <1>1, <1>2, <1>3, <2>1
    <3> QED BY <1>9, <3>1 DEF Rising
  <2>2. CASE ~ (l <= Len(p)) /\ k <= Len(p)
    <3>1. k \in DOMAIN p /\ r[k] = p[k] /\ l - Len(p) \in DOMAIN q /\ r[l] = q[l - Len(p)]
      BY <1>3, <1>4, <2>2
    <3>2. r[k].id \in Ids(p) /\ r[l].id \in Ids(q)
      BY <3>1 DEF Ids
    <3> QED BY <1>9, <3>2 DEF Older
  <2>3. CASE ~ (k <= Len(p))
    <3>1. ~ (l <= Len(p)) /\ k - Len(p) < l - Len(p)
      BY <1>1, <1>2, <2>3
    <3>2. k - Len(p) \in DOMAIN q /\ r[k] = q[k - Len(p)] /\ l - Len(p) \in DOMAIN q /\ r[l] = q[l - Len(p)]
      BY <1>4, <2>3, <3>1
    <3> QED BY <1>9, <3>1, <3>2 DEF Rising
  <2> QED BY <2>1, <2>2, <2>3
<1> QED BY <1>1, <1>3, <1>4, <1>7, <1>8, <1>9 DEF r

-----------------------------------------------------------------------------
(* Steps of the innermost activation.                                      *)

(* A step of the innermost activation that stays right,                    *)
LEMMA WithOK ==
    ASSUME TypeOK, ActivationsOK, Running, NEW a \in Activations, stack' = With(a),
           ActivationOK(a)
    PROVE  ActivationsOK'
<1>1. PICK n \in Nat \ {0} : n = Len(stack)
  BY StackTop
<1>2. Len(stack') = n /\ stack'[n] = a /\ \A i \in 1..n : i # n => stack'[i] = stack[i]
  BY <1>1, StackWith
<1>3. \A i \in 1..n : ActivationOK(stack[i]) /\ (i # n => stack[i].pc = "callout")
  BY <1>1 DEF ActivationsOK
<1>4. \A i \in 1..n : ActivationOK(stack'[i]) /\ (i # n => stack'[i].pc = "callout")
  BY <1>2, <1>3
<1> QED BY <1>2, <1>4 DEF ActivationsOK

(* ... that does not mix up the blocks: it holds what it held and what it  *)
(* takes off the list, and puts back what it held,                         *)
LEMMA WithOrder ==
    ASSUME TypeOK, IdsOK, BlocksInOrder, Running, NEW a \in Activations, stack' = With(a),
           posted' = posted,
           Held(a) \subseteq Held(Top) \cup Ids(blocks),
           Ids(blocks') \subseteq Held(Top) \cup Ids(blocks),
           Older(Held(a), Ids(blocks')), Rising(blocks'),
           Rising(a.keep), Rising(a.run), Older(Ids(a.keep), Ids(a.run))
    PROVE  IdsOK' /\ BlocksInOrder'
<1>1. PICK n \in Nat \ {0} : n = Len(stack) /\ Top = stack[n]
  BY StackTop
<1>2. Len(stack') = n /\ stack'[n] = a /\ \A i \in 1..n : i # n => stack'[i] = stack[i]
  BY <1>1, StackWith
<1>3. \A i \in 1..n :
          /\ Rising(stack[i].keep) /\ Rising(stack[i].run)
          /\ Older(Ids(stack[i].keep), Ids(stack[i].run))
          /\ Older(Held(stack[i]), Ids(blocks))
          /\ \A j \in (i + 1)..n : Older(Held(stack[i]), Held(stack[j]))
  BY <1>1 DEF BlocksInOrder
<1>4. (\A x \in Ids(blocks) : x < posted) /\ \A i \in 1..n : \A x \in Held(stack[i]) : x < posted
  BY <1>1 DEF IdsOK
<1>5. IdsOK'
  <2>1. \A x \in Held(a) \cup Ids(blocks') : x < posted
    BY <1>1, <1>4
  <2>2. \A i \in 1..n : \A x \in Held(stack'[i]) : x < posted
    BY <1>2, <1>4, <2>1
  <2> QED BY <1>2, <2>1, <2>2 DEF IdsOK
<1>6. ASSUME NEW i \in 1..n
      PROVE  /\ Rising(stack'[i].keep) /\ Rising(stack'[i].run)
             /\ Older(Ids(stack'[i].keep), Ids(stack'[i].run))
             /\ Older(Held(stack'[i]), Ids(blocks'))
             /\ \A j \in (i + 1)..n : Older(Held(stack'[i]), Held(stack'[j]))
  <2>1. CASE i = n
    <3>1. (i + 1)..n = {}
      BY <1>1, <2>1
    <3> QED BY <1>2, <2>1, <3>1
  <2>2. CASE i # n
    <3>1. n \in (i + 1)..n
      BY <1>1, <2>2
    <3>2. Older(Held(stack[i]), Held(Top) \cup Ids(blocks))
      BY <1>1, <1>3, <3>1 DEF Older
    <3>3. Older(Held(stack[i]), Held(a)) /\ Older(Held(stack[i]), Ids(blocks'))
      BY <3>2 DEF Older
    <3>4. \A j \in (i + 1)..n : j \in 1..n /\ (j = n \/ stack'[j] = stack[j])
      BY <1>1, <1>2
    <3>5. stack'[i] = stack[i]
      BY <1>2, <2>2
    <3> QED BY <1>2, <1>3, <3>3, <3>4, <3>5
  <2> QED BY <2>1, <2>2
<1>7. BlocksInOrder'
  BY <1>2, <1>6 DEF BlocksInOrder
<1> QED BY <1>5, <1>7

(* ... what is known of its lists,                                         *)
LEMMA TopLists ==
    ASSUME TypeOK, BlocksInOrder, Running
    PROVE  /\ Rising(Top.keep) /\ Rising(Top.run)
           /\ Older(Ids(Top.keep), Ids(Top.run))
           /\ Older(Held(Top), Ids(blocks)) /\ Rising(blocks)
<1>1. PICK n \in Nat \ {0} : n = Len(stack) /\ Top = stack[n] /\ n \in 1..n
  BY StackTop
<1> QED BY <1>1 DEF BlocksInOrder

(* ... where it leaves them alone,                                         *)
LEMMA WithLists ==
    ASSUME TypeOK, IdsOK, BlocksInOrder, Running, NEW a \in Activations, stack' = With(a),
           UNCHANGED <<posted, blocks>>, a.keep = Top.keep, a.run = Top.run
    PROVE  IdsOK' /\ BlocksInOrder'
<1>1. Held(a) = Held(Top) /\ Ids(blocks') = Ids(blocks) /\ posted' = posted
  BY DEF Held
<1>2. Older(Held(a), Ids(blocks')) /\ Rising(blocks')
      /\ Rising(a.keep) /\ Rising(a.run) /\ Older(Ids(a.keep), Ids(a.run))
  BY <1>1, TopLists
<1> QED BY <1>1, <1>2, WithOrder

(* ... and that has not overlooked anything.                               *)
LEMMA WithNoticed ==
    ASSUME TypeOK, Noticed, Running, NEW a \in Activations, stack' = With(a),
           Excused(a) \/ Notice' \/ ~Unseen(a)'
    PROVE  Noticed'
<1>1. PICK n \in Nat \ {0} : n = Len(stack)
  BY StackTop
<1>2. Len(stack') = n /\ stack'[n] = a /\ \A i \in 1..n : i # n => stack'[i] = stack[i]
  BY <1>1, StackWith
<1>3. Top' = a
  BY <1>2 DEF Top
<1>4. \A i \in 1..(n - 1) : i \in 1..n /\ i # n
  OBVIOUS
<1>5. \A i \in 1..(n - 1) : Excused(stack'[i])
  BY <1>1, <1>2, <1>4 DEF Noticed
<1>6. Excused(Top') \/ Notice' \/ ~Unseen(Top)'
  BY <1>3
<1> QED BY <1>2, <1>5, <1>6 DEF Noticed

(* So a step that leaves the blocks alone keeps the invariant,             *)
LEMMA TopStep ==
    ASSUME IndInv, Running, NEW a \in Activations, stack' = With(a), ActivationOK(a),
           TypeOK', program' = program, UNCHANGED <<posted, blocks>>,
           a.keep = Top.keep, a.run = Top.run,
           program.nests \subseteq IgnoredNests => Excused(a) \/ Notice' \/ ~Unseen(a)'
    PROVE  IndInv'
<1>1. TypeOK /\ ActivationsOK /\ IdsOK /\ BlocksInOrder
      /\ (program.nests \subseteq IgnoredNests => Noticed)
  BY DEF IndInv
<1>2. ActivationsOK' /\ IdsOK' /\ BlocksInOrder'
  BY <1>1, WithOK, WithLists
<1>3. program'.nests \subseteq IgnoredNests => Noticed'
  BY <1>1, WithNoticed
<1> QED BY <1>2, <1>3 DEF IndInv

(* ... with the stack it makes,                                            *)
LEMMA TypeStack ==
    ASSUME TypeOK, Running, NEW a \in Activations, stack' = With(a)
    PROVE  stack' \in Seq(Activations)
  BY StackWith

(* ... if it takes no message and only forgets sources and stops,          *)
LEMMA SmallStep ==
    ASSUME IndInv, Running, NEW a \in Activations, stack' = With(a), ActivationOK(a),
           UNCHANGED <<program, ports, signaled, member, blocks, posted, post, alarm>>,
           valid' \subseteq valid, firing' \subseteq Observers,
           modeStopped' \subseteq modeStopped,
           a.keep = Top.keep, a.run = Top.run,
           program.nests \subseteq IgnoredNests => Excused(a) \/ Notice \/ ~Unseen(a)
    PROVE  IndInv'
<1>1. TypeOK
  BY DEF IndInv
<1>2. TypeOK'
  BY <1>1, TypeStack DEF TypeOK
<1>3. Notice' = Notice /\ (Unseen(a)' => Unseen(a))
  BY DEF Notice, Unseen, Ready
<1> QED BY <1>2, <1>3, TopStep

(* ... or changes nothing but the activation.                              *)
LEMMA PlainStep ==
    ASSUME IndInv, Running, NEW a \in Activations, stack' = With(a), ActivationOK(a),
           UNCHANGED <<program, ports, signaled, valid, member, firing, blocks, posted,
                       modeStopped, post, alarm>>,
           a.keep = Top.keep, a.run = Top.run,
           program.nests \subseteq IgnoredNests => Excused(a) \/ Notice \/ ~Unseen(a)
    PROVE  IndInv'
<1>1. firing' \subseteq Observers
  BY DEF IndInv, TypeOK
<1> QED BY <1>1, SmallStep

(* What the invariant says of the innermost activation.                    *)
Inner(b) ==
    /\ b = Top /\ ActivationOK(b)
    /\ program.nests \subseteq IgnoredNests => Excused(b) \/ Notice \/ ~Unseen(b)

(* There is one when the loop runs.                                        *)
LEMMA TopInv ==
    ASSUME IndInv, Running
    PROVE  \E b \in Activations : Inner(b)
<1>1. TypeOK /\ ActivationsOK /\ (program.nests \subseteq IgnoredNests => Noticed)
  BY DEF IndInv
<1>2. PICK n \in Nat \ {0} : n = Len(stack) /\ Top = stack[n] /\ Top \in Activations /\ n \in 1..n
  BY <1>1, StackTop
<1>3. ActivationOK(Top)
  BY <1>1, <1>2 DEF ActivationsOK
<1>4. program.nests \subseteq IgnoredNests => Excused(Top) \/ Notice \/ ~Unseen(Top)
  BY <1>1 DEF Noticed
<1> QED BY <1>2, <1>3, <1>4 DEF Inner

(* The lists are empty while the activation is not in them.                *)
LEMMA NotInLists ==
    ASSUME NEW b \in Activations, ActivationOK(b), b.pc # "runBlocks", b.pc # "callout"
    PROVE  b.run = <<>> /\ b.keep = <<>>
  BY DEF ActivationOK

(* Where a stage that calls out to observers goes on.                      *)
LEMMA StageNext ==
    ASSUME NEW x \in DOMAIN ObserverStages
    PROVE  /\ Stage[ObserverStages[x]] \in
                 {"prologue", "beforeSources", "blocks", "sleep", "handle", "return"}
           /\ Stage[ObserverStages[x]] \in Stages
  BY StageFacts DEF ObserverStages, BlockStages, Stages, Unlocked

(* An activation that stays where it was and sees no less is as good as it *)
(* was.                                                                    *)
LEMMA Carries ==
    ASSUME NEW a \in Activations, NEW b \in Activations, Inner(b),
           Place(a) = Place(b), a.mode = b.mode, a.stopped = b.stopped, a.timed = b.timed,
           b.handled => a.handled, a.poll = b.poll,
           Place(a) = "perform" /\ ~a.handled => Ready(b) \cap b.todo \subseteq a.todo
    PROVE  program.nests \subseteq IgnoredNests => Excused(a) \/ Notice \/ ~Unseen(a)
  BY DEF Inner, Excused, Unseen, Ready

-----------------------------------------------------------------------------
(* The thread of the loop.                                                 *)

(* The observers of a stage are collected and told, and their callouts and *)
(* all the others return.                                                  *)
LEMMA DoObserversInd ==
    ASSUME IndInv, DoObservers
    PROVE  IndInv'
<1>1. Running
  BY DEF DoObservers
<1>2. PICK b \in Activations :
          b = Top /\ ActivationOK(b) /\ Inner(b)
  BY <1>1, TopInv DEF Inner
<1>3. /\ b.pc \in {"entry", "beforeTimers", "beforeSources", "beforeWaiting",
                   "afterWaiting", "exit"}
      /\ b.pc \in DOMAIN ObserverStages
  BY <1>2, RunLoopAssumption DEF DoObservers, Observed, ObserverStages
<1>4. PICK todo \in SUBSET Observers, next \in Stages, a \in Activations :
          /\ next = Stage[ObserverStages[b.pc]]
          /\ \A o \in todo : b.pc \in Activities[o]
          /\ a = [b EXCEPT !.todo = todo, !.then = next,
                           !.pc = IF todo = {} THEN next ELSE "notify"]
          /\ stack' = With(a)
  <2> DEFINE t == {o \in (Observers \cap valid) \ firing : b.pc \in Activities[o]}
             x == Stage[ObserverStages[b.pc]]
  <2>1. t \in SUBSET Observers /\ \A o \in t : b.pc \in Activities[o]
    OBVIOUS
  <2>2. x \in Stages
    BY <1>3, StageFacts DEF ObserverStages, BlockStages, Stages, Unlocked
  <2>3. stack' = With([b EXCEPT !.todo = t, !.then = x,
                           !.pc = IF t = {} THEN x ELSE "notify"])
    BY <1>2 DEF DoObservers
  <2> HIDE DEF t, x
  <2>4. [b EXCEPT !.todo = t, !.then = x, !.pc = IF t = {} THEN x ELSE "notify"] \in Activations
    <3>1. PICK p \in Stages : p = IF t = {} THEN x ELSE "notify"
      BY <2>2 DEF Stages, Unlocked
    <3>2. t \in SUBSET (Sources \cup Observers)
      BY <2>1
    <3>3. [b EXCEPT !.todo = t, !.then = x, !.pc = p] \in Activations
      BY <2>2, <3>2 DEF Activations
    <3> QED BY <3>1, <3>3
  <2> QED BY <2>1, <2>2, <2>3, <2>4 DEF x
<1>5. /\ a.then = next /\ a.todo = todo /\ a.keep = b.keep /\ a.run = b.run
      /\ a.pc = (IF todo = {} THEN next ELSE "notify") /\ a.ignoring = b.ignoring
      /\ a.handled = b.handled /\ a.poll = b.poll /\ a.stopped = b.stopped
      /\ a.mode = b.mode /\ a.timed = b.timed /\ a.callout = b.callout
  BY <1>4 DEF Activations
<1>6. b.run = <<>> /\ b.keep = <<>>
  BY <1>2, <1>3, NotInLists
<1>7. Place(b) = b.pc /\ Place(a) = next
  BY <1>3, <1>5, StageFacts, <1>4 DEF Place, ObserverStages, Unlocked
<1>8. <<b.pc, next>> \in
         {<<"entry", "prologue">>, <<"beforeTimers", "beforeSources">>,
          <<"beforeTimers", "blocks">>, <<"beforeSources", "blocks">>,
          <<"beforeWaiting", "sleep">>, <<"afterWaiting", "handle">>,
          <<"exit", "return">>}
  BY <1>3, <1>4, StageFacts DEF ObserverStages
<1>9. ActivationOK(a)
  BY <1>2, <1>3, <1>4, <1>5, <1>6, <1>7, <1>8
     DEF ActivationOK, PastStops, PastBlocks, PastSources, PastPoll
<1>10. Excused(b) => Excused(a)
  BY <1>5, <1>7, <1>8 DEF Excused, PastStops, PastBlocks, PastSources, PastPoll
<1>11. Unseen(a) => Unseen(b) \/ Excused(a)
  BY <1>5, <1>7, <1>8 DEF Unseen, Ready, Excused, PastStops, PastBlocks, PastSources, PastPoll
<1>12. UNCHANGED <<program, ports, signaled, valid, member, firing, blocks, posted,
                   modeStopped, post, alarm>>
  BY DEF DoObservers
<1>13. program.nests \subseteq IgnoredNests => Excused(a) \/ Notice \/ ~Unseen(a)
  BY <1>2, <1>10, <1>11 DEF Inner
<1> QED BY <1>1, <1>2, <1>4, <1>5, <1>9, <1>12, <1>13, PlainStep

(* A step to the next observer: its callout, or on to the next stage.      *)
LEMMA NotifyInd ==
    ASSUME IndInv, Notify
    PROVE  IndInv'
<1>1. Running
  BY DEF Notify, At
<1>2. PICK b \in Activations :
          b = Top /\ ActivationOK(b) /\ Inner(b)
  BY <1>1, TopInv DEF Inner
<1>3. b.pc = "notify"
  BY <1>2 DEF Notify, At
<1>4. PICK x \in DOMAIN ObserverStages :
          /\ b.then = Stage[ObserverStages[x]]
          /\ \A o \in b.todo : o \in Observers /\ x \in Activities[o]
  BY <1>2, <1>3 DEF ActivationOK
<1>5. /\ b.then \in {"prologue", "beforeSources", "blocks", "sleep", "handle", "return"}
      /\ b.then \in Stages
  BY <1>4, StageNext
<1>6. b.run = <<>> /\ b.keep = <<>>
  BY <1>2, <1>3, NotInLists
<1>7. Place(b) = b.then
  BY <1>3 DEF Place
<1>8. /\ b.todo \in SUBSET (Sources \cup Observers)
      /\ b.then \in PastStops => ~b.ignoring
      /\ b.then \in PastPoll /\ b.handled => b.poll
  BY <1>2, <1>7 DEF Activations, ActivationOK
<1>9. CASE b.todo = {}
  <2>1. PICK a \in Activations : a = [b EXCEPT !.pc = b.then]
    BY <1>5 DEF Activations
  <2>2. stack' = With(a)
    BY <1>2, <1>9, <2>1 DEF Notify, Goto
  <2>3. /\ a.pc = b.then /\ a.keep = b.keep /\ a.run = b.run /\ a.mode = b.mode
        /\ a.ignoring = b.ignoring /\ a.handled = b.handled /\ a.poll = b.poll
        /\ a.stopped = b.stopped /\ a.timed = b.timed /\ a.todo = b.todo
    BY <2>1 DEF Activations
  <2>4. Place(a) = b.then
    BY <1>5, <2>3 DEF Place
  <2>5. ActivationOK(a)
    BY <1>5, <1>6, <1>8, <2>3, <2>4 DEF ActivationOK
  <2>6. UNCHANGED <<program, ports, signaled, valid, member, firing, blocks, posted,
                    modeStopped, post, alarm>>
    BY <1>9, <1>2 DEF Notify
  <2>7. program.nests \subseteq IgnoredNests => Excused(a) \/ Notice \/ ~Unseen(a)
    BY <1>2, <1>7, <2>3, <2>4, Carries
  <2> QED BY <1>1, <1>2, <2>2, <2>3, <2>5, <2>6, <2>7, PlainStep
<1>10. CASE b.todo # {}
  <2>1. PICK o \in b.todo : o = First(b.todo)
    BY <1>8, <1>10, FirstIn
  <2>2. o \in Observers /\ x \in Activities[o] /\ o \notin Sources /\ o # "block"
    BY <1>4, RunLoopAssumption
  <2>3. CASE o \in valid
    <3>1. PICK a \in Activations :
              a = [b EXCEPT !.todo = b.todo \ {o}, !.pc = "callout", !.callout = o]
      BY <1>8, <2>2 DEF Activations, Stages, Unlocked
    <3>2. stack' = With(a)
      <4>1. a = [[b EXCEPT !.todo = @ \ {o}] EXCEPT !.pc = "callout", !.callout = o]
        BY <3>1 DEF Activations
      <4> QED BY <1>2, <1>10, <2>1, <2>3, <4>1 DEF Notify
    <3>3. /\ a.pc = "callout" /\ a.keep = b.keep /\ a.run = b.run /\ a.mode = b.mode
          /\ a.ignoring = b.ignoring /\ a.handled = b.handled /\ a.poll = b.poll
          /\ a.stopped = b.stopped /\ a.timed = b.timed /\ a.todo = b.todo \ {o}
          /\ a.then = b.then /\ a.callout = o
      BY <3>1 DEF Activations
    <3>4. Place(a) = b.then
      BY <3>3 DEF Place
    <3>5. ActivationOK(a)
      BY <1>4, <1>5, <1>6, <1>8, <2>2, <3>3, <3>4 DEF ActivationOK
    <3>6. UNCHANGED <<program, ports, signaled, valid, member, blocks, posted,
                      modeStopped, post, alarm>>
      BY DEF Notify
    <3>7. firing' \subseteq Observers
      <4>1. firing' = firing \cup {o} /\ firing \subseteq Observers
        BY <1>2, <1>10, <2>1, <2>3 DEF Notify, IndInv, TypeOK
      <4> QED BY <2>2, <4>1
    <3>8. program.nests \subseteq IgnoredNests => Excused(a) \/ Notice \/ ~Unseen(a)
      BY <1>2, <1>5, <1>7, <3>3, <3>4, Carries
    <3> QED BY <1>1, <1>2, <3>2, <3>3, <3>5, <3>6, <3>7, <3>8, SmallStep
  <2>4. CASE o \notin valid
    <3>1. PICK a \in Activations : a = [b EXCEPT !.todo = b.todo \ {o}]
      BY <1>8 DEF Activations
    <3>2. stack' = With(a)
      BY <1>2, <1>10, <2>1, <2>4, <3>1 DEF Notify
    <3>3. /\ a.pc = "notify" /\ a.keep = b.keep /\ a.run = b.run /\ a.mode = b.mode
          /\ a.ignoring = b.ignoring /\ a.handled = b.handled /\ a.poll = b.poll
          /\ a.stopped = b.stopped /\ a.timed = b.timed /\ a.todo = b.todo \ {o}
          /\ a.then = b.then
      BY <1>3, <3>1 DEF Activations
    <3>4. Place(a) = b.then
      BY <3>3 DEF Place
    <3>5. ActivationOK(a)
      BY <1>4, <1>5, <1>6, <1>8, <3>3, <3>4 DEF ActivationOK
    <3>6. UNCHANGED <<program, ports, signaled, valid, member, firing, blocks, posted,
                      modeStopped, post, alarm>>
      BY <1>2, <1>10, <2>1, <2>4 DEF Notify
    <3>8. program.nests \subseteq IgnoredNests => Excused(a) \/ Notice \/ ~Unseen(a)
      BY <1>2, <1>5, <1>7, <3>3, <3>4, Carries
    <3> QED BY <1>1, <1>2, <3>2, <3>3, <3>5, <3>6, <3>8, PlainStep
  <2> QED BY <2>3, <2>4
<1> QED BY <1>9, <1>10

(* A callout goes on where the stage was, with what it held.               *)
LEMMA ReturnInd ==
    ASSUME IndInv, Return
    PROVE  IndInv'
<1>1. Running
  BY DEF Return, At
<1>2. PICK b \in Activations :
          b = Top /\ ActivationOK(b) /\ Inner(b)
  BY <1>1, TopInv DEF Inner
<1>3. b.pc = "callout" /\ Place(b) = b.then
  BY <1>2 DEF Return, At, Place
<1>4. /\ b.then \in PastStops => ~b.ignoring
      /\ b.then \in PastPoll /\ b.handled => b.poll
      /\ b.then = "blocksAgain" => b.handled
      /\ b.then \in Stages
      /\ \A k \in DOMAIN b.keep : b.keep[k].mode # b.mode
  BY <1>2, <1>3 DEF Activations, ActivationOK
<1>5. CASE b.callout \in Observers
  <2>1. PICK a \in Activations : a = [b EXCEPT !.callout = None, !.pc = "notify"]
    BY DEF Activations, Stages, Unlocked
  <2>2. stack' = With(a)
    BY <1>2, <1>5, <2>1 DEF Return
  <2>3. /\ a.pc = "notify" /\ a.keep = b.keep /\ a.run = b.run /\ a.mode = b.mode
        /\ a.ignoring = b.ignoring /\ a.handled = b.handled /\ a.poll = b.poll
        /\ a.stopped = b.stopped /\ a.timed = b.timed /\ a.todo = b.todo
        /\ a.then = b.then
    BY <2>1 DEF Activations
  <2>4. Place(a) = b.then
    BY <2>3 DEF Place
  <2>5. b.callout # "block"
    BY <1>5, RunLoopAssumption
  <2>6. ActivationOK(a)
    BY <1>2, <1>3, <1>4, <1>5, <2>3, <2>4, <2>5 DEF ActivationOK
  <2>7. UNCHANGED <<program, ports, signaled, member, blocks, posted,
                    modeStopped, post, alarm>>
    BY DEF Return
  <2>8. valid' \subseteq valid /\ firing' \subseteq Observers
    BY <1>2, <1>5 DEF Return, IndInv, TypeOK
  <2>9. program.nests \subseteq IgnoredNests => Excused(a) \/ Notice \/ ~Unseen(a)
    BY <1>2, <1>3, <2>3, <2>4, Carries
  <2> QED BY <1>1, <1>2, <2>2, <2>3, <2>6, <2>7, <2>8, <2>9, SmallStep
<1>6. CASE b.callout \notin Observers
  <2>1. PICK p \in Stages : p = IF b.callout = "block" THEN "runBlocks" ELSE b.then
    BY <1>4 DEF Stages, Unlocked
  <2>2. PICK a \in Activations : a = [b EXCEPT !.callout = None, !.pc = p]
    BY DEF Activations
  <2>3. stack' = With(a)
    BY <1>2, <1>6, <2>1, <2>2 DEF Return
  <2>4. /\ a.pc = p /\ a.keep = b.keep /\ a.run = b.run /\ a.mode = b.mode
        /\ a.ignoring = b.ignoring /\ a.handled = b.handled /\ a.poll = b.poll
        /\ a.stopped = b.stopped /\ a.timed = b.timed /\ a.todo = b.todo
        /\ a.then = b.then
    BY <2>2 DEF Activations
  <2>5. \/ b.callout = "block" /\ b.then \in {"sources", "poll", "end"}
        \/ b.callout # "block" /\ b.then \in {"perform", "blocksLast"}
    BY <1>2, <1>3, <1>6, RunLoopAssumption DEF ActivationOK, Sources
  <2>6. Place(a) = b.then /\ (p = "runBlocks" \/ p \in {"perform", "blocksLast"})
    BY <2>1, <2>4, <2>5 DEF Place
  <2>7. b.callout # "block" => b.run = <<>> /\ b.keep = <<>>
    BY <1>2, <1>3 DEF ActivationOK
  <2>8. ActivationOK(a)
    BY <1>4, <2>1, <2>4, <2>5, <2>6, <2>7 DEF ActivationOK
  <2>9. UNCHANGED <<program, ports, signaled, valid, member, firing, blocks, posted,
                    modeStopped, post, alarm>>
    BY <1>2, <1>6 DEF Return
  <2>10. program.nests \subseteq IgnoredNests => Excused(a) \/ Notice \/ ~Unseen(a)
    BY <1>2, <1>3, <2>4, <2>6, Carries
  <2> QED BY <1>1, <1>2, <2>3, <2>4, <2>8, <2>9, <2>10, PlainStep
<1> QED BY <1>5, <1>6

(* A step with the list of blocks.                                         *)
LEMMA ListStep ==
    ASSUME IndInv, Running, NEW a \in Activations, stack' = With(a), ActivationOK(a),
           UNCHANGED <<program, ports, signaled, valid, member, firing, posted,
                       modeStopped, post, alarm>>,
           blocks' \in Seq(Blocks), IdsOK', BlocksInOrder',
           program.nests \subseteq IgnoredNests => Excused(a) \/ Notice \/ ~Unseen(a)'
    PROVE  IndInv'
<1>1. TypeOK /\ ActivationsOK /\ (program.nests \subseteq IgnoredNests => Noticed)
  BY DEF IndInv
<1>2. TypeOK'
  BY <1>1, TypeStack DEF TypeOK
<1>3. ActivationsOK'
  BY <1>1, WithOK
<1>4. Notice' = Notice
  BY DEF Notice
<1>5. program'.nests \subseteq IgnoredNests => Noticed'
  BY <1>1, <1>4, WithNoticed
<1> QED BY <1>2, <1>3, <1>5 DEF IndInv

(* A step to the exit, where nothing needs to be noticed any more.         *)
LEMMA ExitStep ==
    ASSUME IndInv, Running, NEW b \in Activations, b = Top, Place(b) = b.pc,
           b.run = <<>>, b.keep = <<>>,
           NEW s \in BOOLEAN, NEW q \in BOOLEAN,
           stack' = With([b EXCEPT !.stopped = s, !.queue = q, !.pc = Stage["exit"]]),
           UNCHANGED <<program, ports, signaled, valid, member, firing, blocks, posted,
                       post, alarm>>,
           modeStopped' \subseteq modeStopped
    PROVE  IndInv'
<1>1. PICK p \in Stages : p = Stage["exit"] /\ p \in {"exit", "return"}
  BY StageFacts DEF Stages, ObserverStages
<1>2. PICK a \in Activations : a = [b EXCEPT !.stopped = s, !.queue = q, !.pc = p]
  BY DEF Activations
<1>3. a.pc = p /\ a.run = <<>> /\ a.keep = <<>> /\ Place(a) = p
  BY <1>1, <1>2 DEF Activations, Place
<1>4. ActivationOK(a)
  BY <1>1, <1>3 DEF ActivationOK, PastStops, PastBlocks, PastSources, PastPoll
<1>5. Excused(a)
  BY <1>1, <1>3 DEF Excused, PastStops, PastBlocks, PastSources
<1>6. firing' \subseteq Observers
  BY DEF IndInv, TypeOK
<1> QED BY <1>1, <1>2, <1>3, <1>4, <1>5, <1>6, SmallStep

(* The activation of a new iteration.                                      *)
LEMMA FreshType ==
    ASSUME NEW b \in Activations, NEW f \in BOOLEAN, NEW q \in BOOLEAN, NEW p \in Stages
    PROVE  [b EXCEPT !.stopped = f, !.queue = q, !.ignoring = f,
                     !.handled = f, !.poll = f, !.pc = p] \in Activations
<1>1. PICK c \in Activations : c = [b EXCEPT !.stopped = f, !.queue = q]
  BY DEF Activations
<1>2. PICK d \in Activations : d = [c EXCEPT !.ignoring = f, !.handled = f]
  BY DEF Activations
<1>3. [d EXCEPT !.poll = f, !.pc = p] \in Activations
  BY DEF Activations
<1>4. [d EXCEPT !.poll = f, !.pc = p]
         = [b EXCEPT !.stopped = f, !.queue = q, !.ignoring = f,
                     !.handled = f, !.poll = f, !.pc = p]
  BY <1>1, <1>2 DEF Activations
<1> QED BY <1>3, <1>4

(* A step to the next iteration: no stage has looked for anything but a    *)
(* stop.                                                                   *)
LEMMA IterationStep ==
    ASSUME IndInv, Running, NEW b \in Activations, b = Top, Place(b) = b.pc,
           b.run = <<>>, b.keep = <<>>, b.mode \notin modeStopped, NEW q \in BOOLEAN,
           stack' = With(Iteration([b EXCEPT !.stopped = FALSE, !.queue = q])),
           UNCHANGED <<program, ports, signaled, valid, member, firing, blocks, posted,
                       post, alarm>>,
           modeStopped' \subseteq modeStopped
    PROVE  IndInv'
<1>1. PICK p \in Stages : /\ p = Stage["beforeTimers"]
                          /\ p \in {"beforeTimers", "beforeSources", "blocks"}
  BY StageFacts DEF Stages, ObserverStages, BlockStages
<1>2. PICK a \in Activations :
          a = [b EXCEPT !.stopped = FALSE, !.queue = q, !.ignoring = FALSE,
                        !.handled = FALSE, !.poll = FALSE, !.pc = p]
  <2>1. PICK f \in BOOLEAN : f = FALSE
    OBVIOUS
  <2>2. [b EXCEPT !.stopped = f, !.queue = q, !.ignoring = f,
                  !.handled = f, !.poll = f, !.pc = p] \in Activations
    BY FreshType
  <2> QED BY <2>1, <2>2
<1>3. stack' = With(a)
  BY <1>1, <1>2 DEF Iteration, Activations
<1>4. /\ a.pc = p /\ a.run = <<>> /\ a.keep = <<>> /\ Place(a) = p /\ ~a.ignoring
      /\ ~a.stopped /\ a.mode = b.mode
  BY <1>1, <1>2 DEF Activations, Place
<1>5. ActivationOK(a)
  BY <1>1, <1>4 DEF ActivationOK, PastStops, PastBlocks, PastSources, PastPoll
<1>6. ~Unseen(a)
  BY <1>1, <1>4 DEF Unseen, PastBlocks, PastSources, PastPoll
<1>7. firing' \subseteq Observers
  BY DEF IndInv, TypeOK
<1> QED BY <1>2, <1>3, <1>4, <1>5, <1>6, <1>7, SmallStep

(* The beginning of a run, and the end of an iteration.                    *)
LEMMA PrologueInd ==
    ASSUME IndInv, Prologue
    PROVE  IndInv'
<1>1. Running
  BY DEF Prologue, At
<1>2. PICK b \in Activations :
          b = Top /\ ActivationOK(b) /\ Inner(b)
  BY <1>1, TopInv DEF Inner
<1>3. b.pc = "prologue" /\ Place(b) = b.pc
  BY <1>2 DEF Prologue, At, Place
<1>4. b.run = <<>> /\ b.keep = <<>>
  BY <1>2, <1>3, NotInLists
<1>5. PICK q \in BOOLEAN : q = MainSafe(b.mode)
  BY DEF MainSafe
<1>6. /\ UNCHANGED <<program, ports, signaled, valid, member, firing, blocks, posted,
                     post, alarm>>
      /\ modeStopped' \subseteq modeStopped
  BY DEF Prologue
<1>7. CASE b.stopped \/ b.mode \in modeStopped
  <2>1. stack' = With([b EXCEPT !.stopped = FALSE, !.queue = q, !.pc = Stage["exit"]])
    BY <1>2, <1>5, <1>7 DEF Prologue
  <2> QED BY <1>1, <1>2, <1>3, <1>4, <1>6, <2>1, ExitStep
<1>8. CASE ~(b.stopped \/ b.mode \in modeStopped)
  <2>1. stack' = With(Iteration([b EXCEPT !.stopped = FALSE, !.queue = q]))
    BY <1>2, <1>5, <1>8 DEF Prologue
  <2> QED BY <1>1, <1>2, <1>3, <1>4, <1>6, <1>8, <2>1, IterationStep
<1> QED BY <1>7, <1>8

(* The end of an iteration looks for stops.                                *)
LEMMA EndOfIterationInd ==
    ASSUME IndInv, EndOfIteration
    PROVE  IndInv'
<1>1. Running
  BY DEF EndOfIteration, At
<1>2. PICK b \in Activations :
          b = Top /\ ActivationOK(b) /\ Inner(b)
  BY <1>1, TopInv DEF Inner
<1>3. b.pc = "end" /\ Place(b) = b.pc
  BY <1>2 DEF EndOfIteration, At, Place
<1>4. b.run = <<>> /\ b.keep = <<>>
  BY <1>2, <1>3, NotInLists
<1> DEFINE done == b.handled /\ b.after
           stop == ~done /\ ~b.late /\ b.stopped
           modeStop == ~done /\ ~b.late /\ ~b.stopped /\ b.mode \in modeStopped
           returns == done \/ b.late \/ stop \/ modeStop \/ ModeIsEmpty(b.mode)
<1>5. /\ stack' = With(IF returns
                       THEN [[b EXCEPT !.stopped = @ /\ ~stop] EXCEPT !.pc = Stage["exit"]]
                       ELSE Iteration([b EXCEPT !.stopped = @ /\ ~stop]))
      /\ modeStopped' = IF modeStop THEN modeStopped \ {b.mode} ELSE modeStopped
  BY <1>2 DEF EndOfIteration
<1>6. /\ UNCHANGED <<program, ports, signaled, valid, member, firing, blocks, posted,
                     post, alarm>>
      /\ modeStopped' \subseteq modeStopped
  BY <1>5 DEF EndOfIteration
<1>7. PICK s \in BOOLEAN : s = (b.stopped /\ ~stop)
  OBVIOUS
<1>8. CASE returns
  <2>1. stack' = With([b EXCEPT !.stopped = s, !.queue = b.queue, !.pc = Stage["exit"]])
    <3>1. [[b EXCEPT !.stopped = @ /\ ~stop] EXCEPT !.pc = Stage["exit"]]
             = [b EXCEPT !.stopped = s, !.queue = b.queue, !.pc = Stage["exit"]]
      <4> HIDE DEF stop
      <4> QED BY <1>7 DEF Activations
    <3> QED BY <1>5, <1>8, <3>1
  <2>2. b.queue \in BOOLEAN
    BY DEF Activations
  <2> QED BY <1>1, <1>2, <1>3, <1>4, <1>6, <2>1, <2>2, ExitStep
<1>9. CASE ~returns
  <2>1. ~b.stopped /\ b.mode \notin modeStopped
    BY <1>9
  <2>2. [b EXCEPT !.stopped = @ /\ ~stop] = [b EXCEPT !.stopped = FALSE, !.queue = b.queue]
    <3> HIDE DEF stop
    <3> QED BY <2>1 DEF Activations
  <2>3. stack' = With(Iteration([b EXCEPT !.stopped = FALSE, !.queue = b.queue]))
    BY <1>5, <1>9, <2>2
  <2>4. b.queue \in BOOLEAN
    BY DEF Activations
  <2> QED BY <1>1, <1>2, <1>3, <1>4, <1>6, <2>1, <2>3, <2>4, IterationStep
<1> QED BY <1>8, <1>9

(* The list of blocks is taken as a whole, so nothing on it is unseen,     *)
LEMMA TakeBlocksInd ==
    ASSUME IndInv, TakeBlocks
    PROVE  IndInv'
<1>1. Running
  BY DEF TakeBlocks
<1>2. PICK b \in Activations :
          b = Top /\ ActivationOK(b) /\ Inner(b)
  BY <1>1, TopInv DEF Inner
<1>3. b.pc \in {"blocks", "blocksAgain", "blocksLast"} /\ Place(b) = b.pc
  BY <1>2 DEF TakeBlocks, BlockStages, Place
<1>4. b.run = <<>> /\ b.keep = <<>>
  BY <1>2, <1>3, NotInLists
<1>5. PICK next \in Stages :
          /\ next = BlockStages[b.pc]
          /\ <<b.pc, next>> \in {<<"blocks", "sources">>, <<"blocksAgain", "poll">>,
                                 <<"blocksLast", "end">>}
  BY <1>3 DEF BlockStages, Stages
<1>6. blocks \in Seq(Blocks) /\ TypeOK /\ IdsOK /\ BlocksInOrder
  BY DEF IndInv, TypeOK
<1>7. PICK p \in Stages : p = IF blocks = <<>> THEN next ELSE "runBlocks"
  BY DEF Stages, Unlocked
<1>8. PICK q \in Seq(Blocks) : q = blocks
  BY <1>6
<1>9. PICK a \in Activations : a = [b EXCEPT !.then = next, !.run = q, !.pc = p]
  BY DEF Activations
<1>10. stack' = With(a)
  BY <1>2, <1>5, <1>7, <1>8, <1>9 DEF TakeBlocks
<1>11. /\ a.pc = p /\ a.then = next /\ a.run = q /\ a.keep = b.keep /\ a.mode = b.mode
       /\ a.ignoring = b.ignoring /\ a.handled = b.handled /\ a.poll = b.poll
       /\ a.stopped = b.stopped /\ a.timed = b.timed /\ a.todo = b.todo
  BY <1>9 DEF Activations
<1>12. Place(a) = next
  BY <1>5, <1>7, <1>11 DEF Place
<1>13. ActivationOK(a)
  <2>1. a.pc = "runBlocks" \/ (a.run = <<>> /\ a.pc \in {"sources", "poll", "end"})
    BY <1>5, <1>7, <1>8, <1>11
  <2>2. \A k \in DOMAIN a.keep : FALSE
    BY <1>4, <1>11
  <2>3. /\ b.pc \in PastStops => ~b.ignoring
        /\ b.pc = "blocksAgain" => b.handled
    BY <1>2, <1>3 DEF ActivationOK
  <2>4. a.then \in {"sources", "poll", "end"}
    BY <1>5, <1>11
  <2>5. Place(a) \in PastStops => ~a.ignoring
    BY <1>5, <1>11, <1>12, <2>3 DEF PastStops, PastBlocks, PastSources
  <2>6. Place(a) \notin PastPoll /\ Place(a) # "blocksAgain"
    BY <1>5, <1>12 DEF PastPoll, PastSources
  <2> QED BY <1>4, <1>11, <2>1, <2>2, <2>4, <2>5, <2>6 DEF ActivationOK
<1>14. blocks' = <<>> /\ blocks' \in Seq(Blocks)
  BY DEF TakeBlocks
<1>15. /\ UNCHANGED <<program, ports, signaled, valid, member, firing, posted,
                      modeStopped, post, alarm>>
  BY DEF TakeBlocks
<1>16. IdsOK' /\ BlocksInOrder'
  <2>1. Held(a) = Ids(blocks) /\ Ids(blocks') = {} /\ Rising(blocks')
    BY <1>4, <1>8, <1>11, <1>14, IdsEmpty DEF Held
  <2>2. Rising(a.keep) /\ Ids(a.keep) = {}
    BY <1>4, <1>11, IdsEmpty
  <2>3. Rising(a.run)
    BY <1>6, <1>8, <1>11 DEF BlocksInOrder
  <2>4. Older(Held(a), Ids(blocks')) /\ Older(Ids(a.keep), Ids(a.run))
    BY <2>1, <2>2 DEF Older
  <2> QED BY <1>1, <1>6, <1>10, <1>15, <2>1, <2>2, <2>3, <2>4, WithOrder
<1>17. program.nests \subseteq IgnoredNests => Excused(a) \/ Notice \/ ~Unseen(a)'
  <2>1. Excused(b) => Excused(a)
    BY <1>3, <1>5, <1>11, <1>12 DEF Excused, PastStops, PastBlocks, PastSources, PastPoll
  <2>2. Place(b) = "blocksAgain" => b.handled
    BY <1>2 DEF ActivationOK
  <2>3. \A k \in DOMAIN blocks' : FALSE
    BY <1>14
  <2>4. Unseen(a)' => Unseen(b) \/ Excused(a)
    BY <1>3, <1>5, <1>11, <1>12, <1>15, <2>2, <2>3
       DEF Unseen, Excused, PastStops, PastBlocks, PastSources, PastPoll
  <2> QED BY <1>2, <2>1, <2>4 DEF Inner
<1> QED BY <1>1, <1>10, <1>13, <1>14, <1>15, <1>16, <1>17, ListStep

(* ... a block of it is run or kept,                                       *)
LEMMA RunBlockInd ==
    ASSUME IndInv, RunBlock
    PROVE  IndInv'
<1>1. Running
  BY DEF RunBlock, At
<1>2. PICK b \in Activations :
          b = Top /\ ActivationOK(b) /\ Inner(b)
  BY <1>1, TopInv DEF Inner
<1>3. b.pc = "runBlocks" /\ Place(b) = b.then /\ b.run # <<>>
  BY <1>2 DEF RunBlock, At, Place
<1>4. TypeOK /\ IdsOK /\ BlocksInOrder /\ blocks \in Seq(Blocks)
  BY DEF IndInv, TypeOK
<1>5. b.run \in Seq(Blocks) /\ b.keep \in Seq(Blocks) /\ b.then \in Stages
  BY DEF Activations
<1>6. /\ b.then \in {"sources", "poll", "end"}
      /\ b.then \in PastStops => ~b.ignoring
      /\ \A k \in DOMAIN b.keep : b.keep[k].mode # b.mode
      /\ b.then \in PastPoll /\ b.handled => b.poll
  BY <1>2, <1>3 DEF ActivationOK
<1>7. PICK h \in Blocks, r \in Seq(Blocks) :
          /\ h = Head(b.run) /\ r = Tail(b.run)
          /\ Ids(r) \subseteq Ids(b.run) /\ h.id \in Ids(b.run)
          /\ Rising(b.run) => Rising(r) /\ Older({h.id}, Ids(r))
  BY <1>3, <1>5, IdsTail
<1>8. /\ Rising(b.keep) /\ Rising(b.run) /\ Older(Ids(b.keep), Ids(b.run))
      /\ Older(Held(b), Ids(blocks)) /\ Rising(blocks)
  BY <1>1, <1>2, <1>4, TopLists
<1>9. /\ UNCHANGED <<program, ports, signaled, valid, member, firing, posted, blocks,
                      modeStopped, post, alarm>>
  BY DEF RunBlock
<1>10. CASE h.mode = b.mode
  <2>1. PICK a \in Activations :
            a = [b EXCEPT !.run = r, !.pc = "callout", !.callout = "block"]
    BY DEF Activations, Stages, Unlocked
  <2>2. stack' = With(a)
    <3>1. a = [[b EXCEPT !.run = Tail(@)] EXCEPT !.pc = "callout", !.callout = "block"]
      BY <1>7, <2>1 DEF Activations
    <3> QED BY <1>2, <1>7, <1>10, <3>1 DEF RunBlock
  <2>3. /\ a.pc = "callout" /\ a.then = b.then /\ a.run = r /\ a.keep = b.keep
        /\ a.mode = b.mode /\ a.callout = "block"
        /\ a.ignoring = b.ignoring /\ a.handled = b.handled /\ a.poll = b.poll
        /\ a.stopped = b.stopped /\ a.timed = b.timed /\ a.todo = b.todo
    BY <2>1 DEF Activations
  <2>4. Place(a) = b.then
    BY <2>3 DEF Place
  <2>5. a.callout \notin Observers
    BY <2>3, RunLoopAssumption
  <2>6. ActivationOK(a)
    BY <1>6, <2>3, <2>4, <2>5 DEF ActivationOK
  <2>7. Held(a) \subseteq Held(b) /\ Older(Held(a), Ids(blocks)) /\ Rising(a.run)
        /\ Older(Ids(a.keep), Ids(a.run))
    <3>1. Held(a) \subseteq Held(b)
      BY <1>7, <2>3 DEF Held
    <3> QED BY <1>7, <1>8, <2>3, <3>1 DEF Older
  <2>8. Rising(a.keep) /\ blocks' = blocks
    BY <1>8, <1>9, <2>3
  <2>9. Held(a) \subseteq Held(Top) \cup Ids(blocks)
        /\ Ids(blocks') \subseteq Held(Top) \cup Ids(blocks)
    BY <1>2, <2>7, <2>8
  <2>10. IdsOK' /\ BlocksInOrder'
    BY <1>1, <1>4, <1>8, <1>9, <2>2, <2>7, <2>8, <2>9, WithOrder
  <2>11. program.nests \subseteq IgnoredNests => Excused(a) \/ Notice \/ ~Unseen(a)
    BY <1>2, <1>3, <1>6, <2>3, <2>4, Carries
  <2>12. Unseen(a)' = Unseen(a)
    BY <1>9 DEF Unseen, Ready
  <2> QED BY <1>1, <1>4, <1>9, <2>2, <2>6, <2>8, <2>10, <2>11, <2>12, ListStep
<1>11. CASE h.mode # b.mode
  <2>1. PICK k \in Seq(Blocks) :
            /\ k = Append(b.keep, h) /\ Ids(k) = Ids(b.keep) \cup {h.id}
            /\ Rising(b.keep) /\ Older(Ids(b.keep), {h.id}) => Rising(k)
    BY <1>5, IdsAppend
  <2>2. PICK a \in Activations : a = [b EXCEPT !.run = r, !.keep = k]
    BY DEF Activations
  <2>3. stack' = With(a)
    <3>1. a = [[b EXCEPT !.run = Tail(@)] EXCEPT !.keep = Append(@, h)]
      BY <1>7, <2>1, <2>2 DEF Activations
    <3> QED BY <1>2, <1>7, <1>11, <3>1 DEF RunBlock
  <2>4. /\ a.pc = "runBlocks" /\ a.then = b.then /\ a.run = r /\ a.keep = k
        /\ a.mode = b.mode
        /\ a.ignoring = b.ignoring /\ a.handled = b.handled /\ a.poll = b.poll
        /\ a.stopped = b.stopped /\ a.timed = b.timed /\ a.todo = b.todo
    BY <1>3, <2>2 DEF Activations
  <2>5. Place(a) = b.then
    BY <2>4 DEF Place
  <2>6. \A i \in DOMAIN a.keep : a.keep[i].mode # a.mode
    <3>1. \A i \in DOMAIN k : (i \in DOMAIN b.keep /\ k[i] = b.keep[i]) \/ k[i] = h
      BY <1>5, <2>1
    <3> QED BY <1>6, <1>11, <2>4, <3>1
  <2>7. ActivationOK(a)
    BY <1>6, <2>4, <2>5, <2>6 DEF ActivationOK
  <2>8. Held(a) \subseteq Held(b) /\ Older(Held(a), Ids(blocks)) /\ Rising(a.run)
    <3>1. Held(a) \subseteq Held(b)
      BY <1>7, <2>1, <2>4 DEF Held
    <3> QED BY <1>7, <1>8, <2>4, <3>1 DEF Older
  <2>9. Rising(a.keep) /\ Older(Ids(a.keep), Ids(a.run)) /\ blocks' = blocks
    <3>1. Older(Ids(b.keep), {h.id}) /\ Older(Ids(b.keep), Ids(r))
      BY <1>7, <1>8 DEF Older
    <3>2. Older(Ids(k), Ids(r))
      BY <1>7, <1>8, <2>1, <3>1 DEF Older
    <3> QED BY <1>8, <1>9, <2>1, <2>4, <3>1, <3>2
  <2>10. Held(a) \subseteq Held(Top) \cup Ids(blocks)
        /\ Ids(blocks') \subseteq Held(Top) \cup Ids(blocks)
    BY <1>2, <2>8, <2>9
  <2>11. IdsOK' /\ BlocksInOrder'
    BY <1>1, <1>4, <1>8, <1>9, <2>3, <2>8, <2>9, <2>10, WithOrder
  <2>12. program.nests \subseteq IgnoredNests => Excused(a) \/ Notice \/ ~Unseen(a)
    BY <1>2, <1>3, <1>6, <2>4, <2>5, Carries
  <2>13. Unseen(a)' = Unseen(a)
    BY <1>9 DEF Unseen, Ready
  <2> QED BY <1>1, <1>4, <1>9, <2>3, <2>7, <2>9, <2>11, <2>12, <2>13, ListStep
<1> QED BY <1>10, <1>11

(* ... and the blocks of other modes go back before those that came        *)
(* meanwhile.                                                              *)
LEMMA PutBlocksBackInd ==
    ASSUME IndInv, PutBlocksBack
    PROVE  IndInv'
<1>1. Running
  BY DEF PutBlocksBack, At
<1>2. PICK b \in Activations :
          b = Top /\ ActivationOK(b) /\ Inner(b)
  BY <1>1, TopInv DEF Inner
<1>3. b.pc = "runBlocks" /\ Place(b) = b.then /\ b.run = <<>>
  BY <1>2 DEF PutBlocksBack, At, Place
<1>4. TypeOK /\ IdsOK /\ BlocksInOrder /\ blocks \in Seq(Blocks)
  BY DEF IndInv, TypeOK
<1>5. b.keep \in Seq(Blocks) /\ b.then \in Stages
  BY DEF Activations
<1>6. /\ b.then \in {"sources", "poll", "end"}
      /\ b.then \in PastStops => ~b.ignoring
      /\ \A k \in DOMAIN b.keep : b.keep[k].mode # b.mode
      /\ b.then \in PastPoll /\ b.handled => b.poll
  BY <1>2, <1>3 DEF ActivationOK
<1>7. /\ Rising(b.keep) /\ Older(Held(b), Ids(blocks)) /\ Rising(blocks)
  BY <1>1, <1>2, <1>4, TopLists
<1>8. PICK a \in Activations : a = [b EXCEPT !.keep = <<>>, !.pc = b.then]
  <2>1. PICK e \in Seq(Blocks) : e = <<>>
    BY <1>3 DEF Activations
  <2>2. [b EXCEPT !.keep = e, !.pc = b.then] \in Activations
    BY <1>5 DEF Activations
  <2> QED BY <2>1, <2>2
<1>9. stack' = With(a)
  BY <1>2, <1>8 DEF PutBlocksBack
<1>10. /\ a.pc = b.then /\ a.run = <<>> /\ a.keep = <<>>
       /\ a.mode = b.mode
       /\ a.ignoring = b.ignoring /\ a.handled = b.handled /\ a.poll = b.poll
       /\ a.stopped = b.stopped /\ a.timed = b.timed /\ a.todo = b.todo
  BY <1>3, <1>8 DEF Activations
<1>11. Place(a) = b.then
  BY <1>6, <1>10 DEF Place
<1>12. ActivationOK(a)
  BY <1>6, <1>10, <1>11 DEF ActivationOK
<1>13. /\ UNCHANGED <<program, ports, signaled, valid, member, firing, posted,
                      modeStopped, post, alarm>>
       /\ blocks' = b.keep \o blocks
  BY <1>2 DEF PutBlocksBack
<1>14. Older(Ids(b.keep), Ids(blocks))
  BY <1>7 DEF Older, Held
<1>15. /\ blocks' \in Seq(Blocks) /\ Ids(blocks') = Ids(b.keep) \cup Ids(blocks)
       /\ Rising(blocks')
       /\ \A k \in DOMAIN blocks' : \/ \E l \in DOMAIN b.keep : blocks'[k] = b.keep[l]
                                    \/ \E l \in DOMAIN blocks : blocks'[k] = blocks[l]
  BY <1>4, <1>5, <1>7, <1>13, <1>14, IdsConcat
<1>16. IdsOK' /\ BlocksInOrder'
  <2>1. Held(a) = {} /\ Ids(b.keep) \subseteq Held(b)
    BY <1>10, IdsEmpty DEF Held
  <2>2. Ids(blocks') \subseteq Held(Top) \cup Ids(blocks)
    BY <1>2, <1>15, <2>1
  <2>3. /\ Older(Held(a), Ids(blocks')) /\ Rising(a.keep) /\ Rising(a.run)
        /\ Older(Ids(a.keep), Ids(a.run))
    BY <1>10, <2>1, IdsEmpty DEF Older
  <2> QED BY <1>1, <1>4, <1>9, <1>13, <1>15, <2>1, <2>2, <2>3, WithOrder
<1>17. program.nests \subseteq IgnoredNests => Excused(a) \/ Notice \/ ~Unseen(a)'
  <2>1. Excused(b) => Excused(a)
    BY <1>3, <1>10, <1>11 DEF Excused
  <2>2. (\E k \in DOMAIN blocks' : blocks'[k].mode = b.mode) =>
            \E k \in DOMAIN blocks : blocks[k].mode = b.mode
    BY <1>6, <1>15
  <2>3. Unseen(a)' => Unseen(b)
    BY <1>3, <1>10, <1>11, <1>13, <2>2 DEF Unseen, Ready
  <2> QED BY <1>2, <2>1, <2>3 DEF Inner
<1> QED BY <1>1, <1>9, <1>12, <1>13, <1>15, <1>16, <1>17, ListStep

(* The signalled sources are collected, so that none is unseen,            *)
LEMMA CollectSources0Ind ==
    ASSUME IndInv, CollectSources0
    PROVE  IndInv'
<1>1. Running
  BY DEF CollectSources0, At
<1>2. PICK b \in Activations :
          b = Top /\ ActivationOK(b) /\ Inner(b)
  BY <1>1, TopInv DEF Inner
<1>3. b.pc = "sources" /\ Place(b) = b.pc
  BY <1>2 DEF CollectSources0, At, Place
<1>4. b.run = <<>> /\ b.keep = <<>>
  BY <1>2, <1>3, NotInLists
<1>5. ~b.ignoring
  BY <1>2, <1>3 DEF ActivationOK, PastStops, PastBlocks
<1>6. PICK todo \in SUBSET Sources0 : todo = Ready(b)
  BY DEF Ready
<1>7. PICK p \in Stages : p = IF todo = {} THEN "poll" ELSE "perform"
  BY DEF Stages, Unlocked
<1>8. PICK a \in Activations : a = [b EXCEPT !.todo = todo, !.pc = p]
  <2>1. todo \in SUBSET (Sources \cup Observers)
    BY DEF Sources
  <2>2. [b EXCEPT !.todo = todo, !.pc = p] \in Activations
    BY <2>1 DEF Activations
  <2> QED BY <2>2
<1>9. stack' = With(a)
  BY <1>2, <1>6, <1>7, <1>8 DEF CollectSources0, Ready
<1>10. /\ a.pc = p /\ a.run = <<>> /\ a.keep = <<>> /\ a.mode = b.mode
       /\ a.ignoring = b.ignoring /\ a.handled = b.handled /\ a.poll = b.poll
       /\ a.stopped = b.stopped /\ a.timed = b.timed /\ a.todo = todo
  BY <1>4, <1>8 DEF Activations
<1>11. Place(a) = p
  BY <1>7, <1>10 DEF Place
<1>12. ActivationOK(a)
  BY <1>5, <1>7, <1>10, <1>11 DEF ActivationOK, PastPoll, PastSources
<1>13. UNCHANGED <<program, ports, signaled, valid, member, firing, blocks, posted,
                   modeStopped, post, alarm>>
  BY DEF CollectSources0
<1>14. program.nests \subseteq IgnoredNests => Excused(a) \/ Notice \/ ~Unseen(a)
  <2>1. Excused(b) => Excused(a)
    BY <1>3, <1>10 DEF Excused, PastStops, PastBlocks, PastPoll, PastSources
  <2>2. Ready(a) = todo
    BY <1>6, <1>10 DEF Ready
  <2>3. Unseen(a) => Unseen(b)
    BY <1>3, <1>7, <1>10, <1>11, <2>2 DEF Unseen, PastBlocks, PastPoll, PastSources
  <2> QED BY <1>2, <2>1, <2>3 DEF Inner
<1> QED BY <1>1, <1>2, <1>4, <1>9, <1>10, <1>12, <1>13, <1>14, PlainStep

(* ... and performed, in their order, if they are still signalled and      *)
(* valid.                                                                  *)
LEMMA PerformSource0Ind ==
    ASSUME IndInv, PerformSource0
    PROVE  IndInv'
<1>1. Running
  BY DEF PerformSource0, At
<1>2. PICK b \in Activations :
          b = Top /\ ActivationOK(b) /\ Inner(b)
  BY <1>1, TopInv DEF Inner
<1>3. b.pc = "perform" /\ Place(b) = b.pc
  BY <1>2 DEF PerformSource0, At, Place
<1>4. b.run = <<>> /\ b.keep = <<>>
  BY <1>2, <1>3, NotInLists
<1>5. ~b.ignoring
  BY <1>2, <1>3 DEF ActivationOK, PastStops, PastBlocks
<1>6. UNCHANGED <<program, ports, valid, member, firing, blocks, posted,
                  modeStopped, post, alarm>>
  BY DEF PerformSource0
<1>7. b.todo \in SUBSET (Sources \cup Observers) /\ b.handled \in BOOLEAN
  BY DEF Activations
<1>8. Notice' = Notice
  BY <1>6 DEF Notice
<1>9. CASE b.todo = {} \/ (b.after /\ b.handled)
  <2>1. PICK p \in Stages : p = IF b.handled THEN "blocksAgain" ELSE "poll"
    BY DEF Stages, BlockStages
  <2>2. PICK a \in Activations : a = [b EXCEPT !.todo = {}, !.pc = p]
    BY DEF Activations
  <2>3. stack' = With(a) /\ signaled' = signaled
    BY <1>2, <1>9, <2>1, <2>2 DEF PerformSource0
  <2>4. /\ a.pc = p /\ a.run = <<>> /\ a.keep = <<>> /\ a.mode = b.mode
        /\ a.ignoring = b.ignoring /\ a.handled = b.handled /\ a.poll = b.poll
        /\ a.stopped = b.stopped /\ a.timed = b.timed /\ a.todo = {}
    BY <1>4, <2>2 DEF Activations
  <2>5. Place(a) = p
    BY <2>1, <2>4 DEF Place
  <2>6. ActivationOK(a)
    BY <1>5, <2>1, <2>4, <2>5 DEF ActivationOK, PastPoll, PastSources
  <2>7. program.nests \subseteq IgnoredNests => Excused(a) \/ Notice \/ ~Unseen(a)
    <3>1. b.handled => Excused(a)
      BY <2>4 DEF Excused
    <3>2. Excused(b) => b.handled
      BY <1>3 DEF Excused, PastStops, PastBlocks, PastPoll, PastSources
    <3>3. ~b.handled /\ ~Unseen(b) => ~Unseen(a)
      BY <1>3, <1>9, <2>1, <2>4, <2>5 DEF Unseen, Ready, PastBlocks, PastPoll
    <3> QED BY <1>2, <3>1, <3>2, <3>3 DEF Inner
  <2> QED BY <1>1, <1>2, <1>4, <1>6, <2>3, <2>4, <2>6, <2>7, PlainStep
<1>10. CASE ~(b.todo = {} \/ (b.after /\ b.handled))
  <2>1. PICK s \in b.todo : s = First(b.todo)
    BY <1>7, <1>10, FirstIn
  <2>2. signaled' = signaled \ {s} /\ signaled \subseteq Sources0 /\ signaled' \subseteq Sources0
    BY <1>2, <1>10, <2>1 DEF PerformSource0, IndInv, TypeOK
  <2>3. CASE s \in signaled \cap valid
    <3>1. s \in Sources0 /\ s \in Sources /\ s \notin Observers /\ s # "block"
      BY <2>2, <2>3, RunLoopAssumption DEF Sources
    <3>2. PICK h \in BOOLEAN : h = TRUE
      OBVIOUS
    <3>3. PICK a \in Activations :
              a = [b EXCEPT !.todo = b.todo \ {s}, !.handled = h, !.pc = "callout",
                            !.callout = s, !.then = "perform"]
      <4>1. PICK t \in SUBSET (Sources \cup Observers) : t = b.todo \ {s}
        BY <1>7
      <4>2. PICK p \in Stages, q \in Stages : p = "callout" /\ q = "perform"
        BY DEF Stages, Unlocked
      <4>3. [b EXCEPT !.todo = t, !.handled = h, !.pc = p, !.callout = s, !.then = q]
               \in Activations
        BY <3>1 DEF Activations
      <4> QED BY <4>1, <4>2, <4>3
    <3>4. stack' = With(a)
      <4>1. a = [[[b EXCEPT !.todo = @ \ {s}] EXCEPT !.handled = TRUE]
                    EXCEPT !.pc = "callout", !.callout = s, !.then = "perform"]
        BY <3>2, <3>3 DEF Activations
      <4> QED BY <1>2, <1>10, <2>1, <2>3, <4>1 DEF PerformSource0, CallOut
    <3>5. /\ a.pc = "callout" /\ a.then = "perform" /\ a.callout = s /\ a.handled
          /\ a.run = <<>> /\ a.keep = <<>> /\ a.ignoring = b.ignoring
      BY <1>4, <3>2, <3>3 DEF Activations
    <3>6. Place(a) = "perform"
      BY <3>5 DEF Place
    <3>7. ActivationOK(a)
      BY <1>5, <3>1, <3>5, <3>6 DEF ActivationOK, PastPoll, PastSources
    <3>8. Excused(a)
      BY <3>5 DEF Excused
    <3>9. TypeOK'
      <4>1. TypeOK
        BY DEF IndInv
      <4>2. stack' \in Seq(Activations)
        BY <1>1, <3>4, <4>1, TypeStack
      <4> QED BY <1>6, <2>2, <4>1, <4>2 DEF TypeOK
    <3> QED BY <1>1, <1>2, <1>4, <1>6, <3>4, <3>5, <3>7, <3>8, <3>9, TopStep
  <2>4. CASE s \notin signaled \cap valid
    <3>1. PICK a \in Activations : a = [b EXCEPT !.todo = b.todo \ {s}]
      BY <1>7 DEF Activations
    <3>2. stack' = With(a)
      BY <1>2, <1>10, <2>1, <2>4, <3>1 DEF PerformSource0
    <3>3. /\ a.pc = "perform" /\ a.run = <<>> /\ a.keep = <<>> /\ a.mode = b.mode
          /\ a.ignoring = b.ignoring /\ a.handled = b.handled /\ a.poll = b.poll
          /\ a.stopped = b.stopped /\ a.timed = b.timed /\ a.todo = b.todo \ {s}
      BY <1>3, <1>4, <3>1 DEF Activations
    <3>4. Place(a) = "perform"
      BY <3>3 DEF Place
    <3>5. ActivationOK(a)
      BY <1>5, <3>3, <3>4 DEF ActivationOK, PastPoll, PastSources
    <3>6. program.nests \subseteq IgnoredNests => Excused(a) \/ Notice' \/ ~Unseen(a)'
      <4>1. Excused(b) => Excused(a)
        BY <1>3, <3>3, <3>4 DEF Excused
      <4>2. Ready(a)' \subseteq Ready(b) \ {s}
        BY <1>6, <2>2, <3>3 DEF Ready
      <4>3. Unseen(a)' => Unseen(b)
        BY <1>3, <1>6, <3>3, <3>4, <4>2 DEF Unseen, PastPoll, PastSources
      <4> QED BY <1>2, <1>8, <4>1, <4>3 DEF Inner
    <3>7. TypeOK'
      <4>1. TypeOK
        BY DEF IndInv
      <4>2. stack' \in Seq(Activations)
        BY <1>1, <3>2, <4>1, TypeStack
      <4> QED BY <1>6, <2>2, <4>1, <4>2 DEF TypeOK
    <3> QED BY <1>1, <1>2, <1>4, <1>6, <3>2, <3>3, <3>5, <3>6, <3>7, TopStep
  <2> QED BY <2>3, <2>4
<1> QED BY <1>9, <1>10

(* The message of the main queue keeps the loop from sleeping,             *)
LEMMA ServeMainInd ==
    ASSUME IndInv, ServeMain
    PROVE  IndInv'
<1>1. Running
  BY DEF ServeMain, At
<1>2. PICK b \in Activations :
          b = Top /\ ActivationOK(b) /\ Inner(b)
  BY <1>1, TopInv DEF Inner
<1>3. b.pc = "poll" /\ Place(b) = b.pc
  BY <1>2 DEF ServeMain, At, Place
<1>4. b.run = <<>> /\ b.keep = <<>>
  BY <1>2, <1>3, NotInLists
<1>5. ~b.ignoring
  BY <1>2, <1>3 DEF ActivationOK, PastStops, PastBlocks, PastSources
<1>6. UNCHANGED <<program, signaled, valid, member, firing, blocks, posted,
                  modeStopped, post, alarm>>
  BY DEF ServeMain
<1>7. PICK poll \in BOOLEAN : poll = (b.handled \/ b.timed = "now")
  OBVIOUS
<1>8. TypeOK
  BY DEF IndInv
<1>9. CASE b.queue /\ ~b.didMain /\ Main \in ports
  <2>1. PICK a \in Activations :
            a = [b EXCEPT !.poll = poll, !.live = Main, !.pc = "handle"]
    <3>1. PICK m \in {None, Wake, Main} \cup Sources1, p \in Stages :
              m = Main /\ p = "handle"
      BY DEF Stages
    <3>2. [b EXCEPT !.poll = poll, !.live = m, !.pc = p] \in Activations
      BY DEF Activations
    <3> QED BY <3>1, <3>2
  <2>2. stack' = With(a) /\ ports' = ports \ {Main}
    <3>1. a = [[b EXCEPT !.poll = poll] EXCEPT !.live = Main, !.pc = "handle"]
      BY <2>1 DEF Activations
    <3> QED BY <1>2, <1>7, <1>9, <3>1 DEF ServeMain
  <2>3. a.pc = "handle" /\ a.run = <<>> /\ a.keep = <<>> /\ Place(a) = a.pc
    BY <1>4, <2>1 DEF Activations, Place
  <2>4. ActivationOK(a)
    BY <2>3 DEF ActivationOK, PastStops, PastBlocks, PastSources, PastPoll
  <2>5. Excused(a)
    BY <2>3 DEF Excused, PastStops, PastBlocks, PastSources
  <2>6. TypeOK'
    <3>1. stack' \in Seq(Activations)
      BY <1>1, <1>8, <2>2, TypeStack
    <3> QED BY <1>6, <1>8, <2>2, <3>1 DEF TypeOK
  <2> QED BY <1>1, <1>2, <1>4, <1>6, <2>2, <2>3, <2>4, <2>5, <2>6, TopStep
<1>10. CASE ~(b.queue /\ ~b.didMain /\ Main \in ports)
  <2>1. PICK p \in Stages : /\ p = Stage[IF poll THEN "sleep" ELSE "beforeWaiting"]
                            /\ p \in {"sleep", "beforeWaiting"}
    BY StageFacts DEF Stages, ObserverStages
  <2>2. PICK a \in Activations :
            a = [b EXCEPT !.poll = poll, !.didMain = FALSE, !.pc = p]
    <3>1. PICK f \in BOOLEAN : f = FALSE
      OBVIOUS
    <3>2. [b EXCEPT !.poll = poll, !.didMain = f, !.pc = p] \in Activations
      BY DEF Activations
    <3> QED BY <3>1, <3>2
  <2>3. stack' = With(a) /\ ports' = ports
    <3>1. a = [[b EXCEPT !.poll = poll] EXCEPT !.didMain = FALSE, !.pc = p]
      BY <2>2 DEF Activations
    <3> QED BY <1>2, <1>7, <1>10, <2>1, <3>1 DEF ServeMain
  <2>4. /\ a.pc = p /\ a.run = <<>> /\ a.keep = <<>> /\ a.mode = b.mode
        /\ a.ignoring = b.ignoring /\ a.handled = b.handled /\ a.poll = poll
        /\ a.stopped = b.stopped /\ a.timed = b.timed
    BY <1>4, <2>2 DEF Activations
  <2>5. Place(a) = p /\ p \in PastPoll
    BY <2>1, <2>4 DEF Place, PastPoll, PastSources
  <2>6. ActivationOK(a)
    <3>1. a.handled => a.poll
      BY <1>7, <2>4
    <3> QED BY <1>5, <2>1, <2>4, <2>5, <3>1 DEF ActivationOK
  <2>7. program.nests \subseteq IgnoredNests => Excused(a) \/ Notice \/ ~Unseen(a)
    <3>1. poll => Excused(a)
      BY <2>4, <2>5 DEF Excused
    <3>2. Excused(b) => poll
      <4>1. Place(b) \in PastStops /\ Place(b) \notin PastPoll
        BY <1>3 DEF PastStops, PastBlocks, PastPoll, PastSources
      <4>2. b.handled => poll
        BY <1>7
      <4> QED BY <4>1, <4>2 DEF Excused
    <3>3. ~poll /\ ~Unseen(b) => ~Unseen(a)
      BY <1>3, <1>7, <2>1, <2>4, <2>5 DEF Unseen, Ready, PastBlocks, PastSources
    <3> QED BY <1>2, <3>1, <3>2, <3>3 DEF Inner
  <2> QED BY <1>1, <1>2, <1>4, <1>6, <2>3, <2>4, <2>6, <2>7, PlainStep
<1> QED BY <1>9, <1>10

(* ... and so does having handled a source: from here on wake-ups are no   *)
(* longer ignored.                                                         *)
LEMMA SleepInd ==
    ASSUME IndInv, Sleep
    PROVE  IndInv'
<1>1. Running
  BY DEF Sleep, At
<1>2. PICK b \in Activations :
          b = Top /\ ActivationOK(b) /\ Inner(b)
  BY <1>1, TopInv DEF Inner
<1>3. b.pc = "sleep" /\ Place(b) = b.pc
  BY <1>2 DEF Sleep, At, Place
<1>4. b.run = <<>> /\ b.keep = <<>>
  BY <1>2, <1>3, NotInLists
<1>5. ~b.ignoring /\ (b.handled => b.poll)
  BY <1>2, <1>3 DEF ActivationOK, PastStops, PastBlocks, PastSources, PastPoll
<1>6. UNCHANGED <<program, ports, signaled, valid, member, firing, blocks, posted,
                  modeStopped, post, alarm>>
  BY DEF Sleep
<1>7. PICK a \in Activations : a = [b EXCEPT !.pc = "waiting"]
  BY DEF Activations, Stages, Unlocked
<1>8. stack' = With(a)
  BY <1>2, <1>7 DEF Sleep, Goto
<1>9. /\ a.pc = "waiting" /\ a.run = <<>> /\ a.keep = <<>> /\ a.mode = b.mode
      /\ a.ignoring = b.ignoring /\ a.handled = b.handled /\ a.poll = b.poll
      /\ a.stopped = b.stopped /\ a.timed = b.timed /\ Place(a) = a.pc
  BY <1>4, <1>7 DEF Activations, Place
<1>10. ActivationOK(a)
  BY <1>5, <1>9 DEF ActivationOK
<1>11. Excused(b) => Excused(a)
  BY <1>3, <1>9 DEF Excused, PastStops, PastBlocks, PastSources, PastPoll
<1>12. Unseen(a) => Unseen(b)
  BY <1>3, <1>9 DEF Unseen, Ready, PastBlocks, PastSources, PastPoll
<1>13. program.nests \subseteq IgnoredNests => Excused(a) \/ Notice \/ ~Unseen(a)
  BY <1>2, <1>11, <1>12 DEF Inner
<1> QED BY <1>1, <1>2, <1>4, <1>6, <1>8, <1>9, <1>10, <1>13, PlainStep

(* A step to a stage that has looked for nothing may take the wake-up      *)
(* message.                                                                *)
LEMMA AwayStep ==
    ASSUME IndInv, Running, NEW a \in Activations, stack' = With(a), ActivationOK(a),
           UNCHANGED <<program, signaled, valid, member, firing, blocks, posted,
                       modeStopped, post, alarm>>,
           ports' \subseteq ports,
           a.keep = Top.keep, a.run = Top.run, Place(a) \notin PastStops
    PROVE  IndInv'
<1>1. TypeOK
  BY DEF IndInv
<1>2. TypeOK'
  <2>1. stack' \in Seq(Activations)
    BY <1>1, TypeStack
  <2> QED BY <1>1, <2>1 DEF TypeOK
<1>3. Excused(a)
  BY DEF Excused
<1> QED BY <1>2, <1>3, TopStep

(* The loop takes a message, and is done with the sleep,                   *)
LEMMA ReceiveInd ==
    ASSUME IndInv, Receive
    PROVE  IndInv'
<1>1. Running
  BY DEF Receive, At
<1>2. PICK b \in Activations :
          b = Top /\ ActivationOK(b) /\ Inner(b)
  BY <1>1, TopInv DEF Inner
<1>3. b.pc = "waiting"
  BY <1>2 DEF Receive, At
<1>4. b.run = <<>> /\ b.keep = <<>>
  BY <1>2, <1>3, NotInLists
<1>5. UNCHANGED <<program, signaled, valid, member, firing, blocks, posted,
                  modeStopped, post, alarm>>
  BY DEF Receive
<1>6. b.live \in {None, Wake, Main} \cup Sources1 /\ ports \subseteq {Wake, Main} \cup Sources1
  BY DEF Activations, IndInv, TypeOK
<1>7. PICK l \in {None, Wake, Main} \cup Sources1 :
          stack' = With([b EXCEPT !.live = l, !.pc = "woken"]) /\ ports' \subseteq ports
  <2>1. CASE \E p \in ports \cap WaitSet :
                /\ ports' = ports \ {p}
                /\ stack' = With([Top EXCEPT !.live = p, !.pc = "woken"])
    BY <1>2, <1>6, <2>1
  <2>2. CASE ports' = ports /\ Goto("woken")
    <3>1. [b EXCEPT !.pc = "woken"] = [b EXCEPT !.live = b.live, !.pc = "woken"]
      BY DEF Activations
    <3> QED BY <1>2, <1>6, <2>2, <3>1 DEF Goto
  <2> QED BY <2>1, <2>2 DEF Receive
<1>8. PICK a \in Activations : a = [b EXCEPT !.live = l, !.pc = "woken"]
  <2>1. PICK p \in Stages : p = "woken"
    BY DEF Stages
  <2>2. [b EXCEPT !.live = l, !.pc = p] \in Activations
    BY DEF Activations
  <2> QED BY <2>1, <2>2
<1>9. a.pc = "woken" /\ a.run = <<>> /\ a.keep = <<>> /\ Place(a) = a.pc
  BY <1>4, <1>8 DEF Activations, Place
<1>10. ActivationOK(a)
  BY <1>9 DEF ActivationOK, PastStops, PastBlocks, PastSources, PastPoll
<1>11. Place(a) \notin PastStops
  BY <1>9 DEF PastStops, PastBlocks, PastSources
<1> QED BY <1>1, <1>2, <1>4, <1>5, <1>7, <1>8, <1>9, <1>10, <1>11, AwayStep

(* ... ignores wake-ups from now on,                                       *)
LEMMA WokenInd ==
    ASSUME IndInv, Woken
    PROVE  IndInv'
<1>1. Running
  BY DEF Woken, At
<1>2. PICK b \in Activations :
          b = Top /\ ActivationOK(b) /\ Inner(b)
  BY <1>1, TopInv DEF Inner
<1>3. b.pc = "woken"
  BY <1>2 DEF Woken, At
<1>4. b.run = <<>> /\ b.keep = <<>>
  BY <1>2, <1>3, NotInLists
<1>5. UNCHANGED <<program, ports, signaled, valid, member, firing, blocks, posted,
                  modeStopped, post, alarm>>
  BY DEF Woken
<1>6. PICK p \in Stages : /\ p = Stage[IF b.poll THEN "handle" ELSE "afterWaiting"]
                          /\ p \in {"handle", "afterWaiting"}
  BY StageFacts DEF Stages, ObserverStages
<1>7. PICK a \in Activations : a = [b EXCEPT !.ignoring = TRUE, !.pc = p]
  <2>1. PICK f \in BOOLEAN : f = TRUE
    OBVIOUS
  <2>2. [b EXCEPT !.ignoring = f, !.pc = p] \in Activations
    BY DEF Activations
  <2> QED BY <2>1, <2>2
<1>8. stack' = With(a)
  BY <1>2, <1>6, <1>7 DEF Woken
<1>9. a.pc = p /\ a.run = <<>> /\ a.keep = <<>> /\ Place(a) = a.pc
  BY <1>4, <1>6, <1>7 DEF Activations, Place
<1>10. ActivationOK(a)
  BY <1>6, <1>9 DEF ActivationOK, PastStops, PastBlocks, PastSources, PastPoll
<1>11. Place(a) \notin PastStops /\ ports' \subseteq ports
  BY <1>5, <1>6, <1>9 DEF PastStops, PastBlocks, PastSources
<1> QED BY <1>1, <1>2, <1>4, <1>5, <1>8, <1>9, <1>10, <1>11, AwayStep

(* ... and does what the message was for.                                  *)
LEMMA HandleInd ==
    ASSUME IndInv, Handle
    PROVE  IndInv'
<1>1. Running
  BY DEF Handle, At
<1>2. PICK b \in Activations :
          b = Top /\ ActivationOK(b) /\ Inner(b)
  BY <1>1, TopInv DEF Inner
<1>3. b.pc = "handle"
  BY <1>2 DEF Handle, At
<1>4. b.run = <<>> /\ b.keep = <<>>
  BY <1>2, <1>3, NotInLists
<1>5. UNCHANGED <<program, ports, signaled, valid, member, firing, blocks, posted,
                  modeStopped, post, alarm>>
  BY DEF Handle
<1>6. b.live \in {None, Wake, Main} \cup Sources1
  BY DEF Activations
<1>7. PICK c \in Activations : c = [b EXCEPT !.ignoring = TRUE, !.live = None]
  <2>1. PICK f \in BOOLEAN, l \in {None, Wake, Main} \cup Sources1 : f = TRUE /\ l = None
    OBVIOUS
  <2>2. [b EXCEPT !.ignoring = f, !.live = l] \in Activations
    BY DEF Activations
  <2> QED BY <2>1, <2>2
<1>8. c.run = <<>> /\ c.keep = <<>> /\ c.mode = b.mode
  BY <1>4, <1>7 DEF Activations
<1>9. \/ stack' = With([c EXCEPT !.pc = "blocksLast"])
      \/ stack' = With([c EXCEPT !.handled = TRUE, !.didMain = TRUE, !.pc = "callout",
                                 !.callout = "main", !.then = "blocksLast"])
      \/ /\ b.live \in Sources1
         /\ stack' = With([c EXCEPT !.handled = TRUE, !.pc = "callout",
                                    !.callout = b.live, !.then = "blocksLast"])
  <2>1. [[c EXCEPT !.handled = TRUE, !.didMain = TRUE]
            EXCEPT !.pc = "callout", !.callout = "main", !.then = "blocksLast"]
          = [c EXCEPT !.handled = TRUE, !.didMain = TRUE, !.pc = "callout",
                                 !.callout = "main", !.then = "blocksLast"]
    BY DEF Activations
  <2>2. [[c EXCEPT !.handled = TRUE]
            EXCEPT !.pc = "callout", !.callout = b.live, !.then = "blocksLast"]
          = [c EXCEPT !.handled = TRUE, !.pc = "callout",
                                    !.callout = b.live, !.then = "blocksLast"]
    BY DEF Activations
  <2>3. CASE b.live \in {None, Wake}
    <3>1. b.live # Main
      BY <2>3 DEF Main, None, Wake
    <3>2. stack' = With([c EXCEPT !.pc = "blocksLast"])
      BY <1>2, <1>7, <2>3, <3>1 DEF Handle
    <3> QED BY <3>2
  <2>4. CASE b.live = Main
    <3>1. b.live \notin {None, Wake}
      BY <2>4 DEF Main, None, Wake
    <3>2. stack' = With([[c EXCEPT !.handled = TRUE, !.didMain = TRUE]
            EXCEPT !.pc = "callout", !.callout = "main", !.then = "blocksLast"])
      BY <1>2, <1>7, <2>4, <3>1 DEF Handle, CallOut
    <3> QED BY <2>1, <3>2
  <2>5. CASE b.live \notin {None, Wake, Main}
    <3>1. b.live \in Sources1
      BY <1>6, <2>5
    <3>2. \/ stack' = With([c EXCEPT !.pc = "blocksLast"])
          \/ stack' = With([[c EXCEPT !.handled = TRUE]
               EXCEPT !.pc = "callout", !.callout = b.live, !.then = "blocksLast"])
      BY <1>2, <1>7, <2>5 DEF Handle, CallOut
    <3> QED BY <2>2, <3>1, <3>2
  <2> QED BY <2>3, <2>4, <2>5
<1>10. ASSUME NEW a \in Activations, stack' = With(a), a.run = <<>>, a.keep = <<>>,
              Place(a) = "blocksLast",
              \/ a.pc = "blocksLast"
              \/ a.pc = "callout" /\ a.callout \in Sources1 \cup {"main"} /\ a.then = "blocksLast"
       PROVE  IndInv'
  <2>1. a.pc = "callout" => a.callout \notin Observers
    BY <1>10, RunLoopAssumption DEF Sources, Main
  <2>2. ActivationOK(a)
    BY <1>10, <2>1 DEF ActivationOK, PastStops, PastBlocks, PastSources, PastPoll
  <2>3. Place(a) \notin PastStops /\ ports' \subseteq ports
    BY <1>5, <1>10 DEF PastStops, PastBlocks, PastSources
  <2> QED BY <1>1, <1>2, <1>4, <1>5, <1>10, <2>2, <2>3, AwayStep
<1>11. PICK p \in Stages, q \in Stages, f \in BOOLEAN :
           p = "callout" /\ q = "blocksLast" /\ f = TRUE
  BY DEF Stages, Unlocked, BlockStages
<1>12. CASE stack' = With([c EXCEPT !.pc = "blocksLast"])
  <2>1. PICK a \in Activations : a = [c EXCEPT !.pc = "blocksLast"]
    <3>1. [c EXCEPT !.pc = q] \in Activations
      BY DEF Activations
    <3> QED BY <1>11, <3>1
  <2>2. a.pc = "blocksLast" /\ a.run = <<>> /\ a.keep = <<>> /\ Place(a) = "blocksLast"
    BY <1>8, <2>1 DEF Activations, Place
  <2> QED BY <1>10, <1>12, <2>1, <2>2
<1>13. CASE stack' = With([c EXCEPT !.handled = TRUE, !.didMain = TRUE, !.pc = "callout",
                                 !.callout = "main", !.then = "blocksLast"])
  <2>1. PICK a \in Activations :
            a = [c EXCEPT !.handled = TRUE, !.didMain = TRUE, !.pc = "callout",
                          !.callout = "main", !.then = "blocksLast"]
    <3>1. PICK m \in {None, "main", "block"} \cup Sources \cup Observers : m = "main"
      OBVIOUS
    <3>2. PICK d \in Activations : d = [c EXCEPT !.handled = f, !.didMain = f]
      BY DEF Activations
    <3>3. [d EXCEPT !.pc = p, !.callout = m, !.then = q] \in Activations
      BY DEF Activations
    <3>4. [d EXCEPT !.pc = p, !.callout = m, !.then = q]
            = [c EXCEPT !.handled = f, !.didMain = f, !.pc = p, !.callout = m, !.then = q]
      BY <3>2 DEF Activations
    <3> QED BY <1>11, <3>1, <3>3, <3>4
  <2>2. /\ a.pc = "callout" /\ a.run = <<>> /\ a.keep = <<>> /\ Place(a) = "blocksLast"
        /\ a.callout = "main" /\ a.then = "blocksLast"
    BY <1>8, <2>1 DEF Activations, Place
  <2> QED BY <1>10, <1>13, <2>1, <2>2
<1>14. CASE /\ b.live \in Sources1
            /\ stack' = With([c EXCEPT !.handled = TRUE, !.pc = "callout",
                                    !.callout = b.live, !.then = "blocksLast"])
  <2>1. PICK a \in Activations :
            a = [c EXCEPT !.handled = TRUE, !.pc = "callout",
                          !.callout = b.live, !.then = "blocksLast"]
    <3>1. PICK m \in {None, "main", "block"} \cup Sources \cup Observers : m = b.live
      BY <1>14 DEF Sources
    <3>2. [c EXCEPT !.handled = f, !.pc = p, !.callout = m, !.then = q] \in Activations
      BY DEF Activations
    <3> QED BY <1>11, <3>1, <3>2
  <2>2. /\ a.pc = "callout" /\ a.run = <<>> /\ a.keep = <<>> /\ Place(a) = "blocksLast"
        /\ a.callout \in Sources1 /\ a.then = "blocksLast"
    BY <1>8, <1>14, <2>1 DEF Activations, Place
  <2> QED BY <1>10, <1>14, <2>1, <2>2
<1> QED BY <1>9, <1>12, <1>13, <1>14

(* A run returns into the callout it was made from.                        *)
LEMMA RunReturnsInd ==
    ASSUME IndInv, RunReturns
    PROVE  IndInv'
<1>1. TypeOK /\ ActivationsOK /\ IdsOK /\ BlocksInOrder
      /\ (program.nests \subseteq IgnoredNests => Noticed)
  BY DEF IndInv
<1>2. stack \in Seq(Activations) /\ stack # <<>>
  BY DEF IndInv, TypeOK, RunReturns, At, Running
<1>3. PICK n \in Nat \ {0} : n = Len(stack)
  BY <1>2, Rests
<1>4. /\ stack' \in Seq(Activations) /\ Len(stack') = n - 1
      /\ \A i \in 1..(n - 1) : stack'[i] = stack[i]
  <2>1. stack' = SubSeq(stack, 1, Len(stack) - 1)
    BY DEF RunReturns
  <2> QED BY <1>2, <1>3, <2>1, Rests
<1>5. UNCHANGED <<program, ports, signaled, valid, member, firing, blocks, posted,
                  modeStopped, post, alarm>>
  BY DEF RunReturns
<1>6. TypeOK'
  BY <1>1, <1>4, <1>5 DEF TypeOK
<1>7. \A i \in 1..(n - 1) : i \in 1..n /\ i # n
  OBVIOUS
<1>8. \A i \in 1..(n - 1) : ActivationOK(stack[i]) /\ stack[i].pc = "callout"
  BY <1>1, <1>3, <1>7 DEF ActivationsOK
<1>9. ActivationsOK'
  BY <1>4, <1>8 DEF ActivationsOK
<1>10. IdsOK'
  <2>1. \A i \in 1..(n - 1) : \A x \in Held(stack[i]) : x < posted
    BY <1>1, <1>3, <1>7 DEF IdsOK
  <2>2. \A i \in 1..(n - 1) : \A x \in Held(stack'[i]) : x < posted
    BY <1>4, <2>1
  <2> QED BY <1>1, <1>4, <1>5, <2>2 DEF IdsOK
<1>11. BlocksInOrder'
  <2>1. \A i \in 1..(n - 1) :
          /\ Rising(stack[i].keep) /\ Rising(stack[i].run)
          /\ Older(Ids(stack[i].keep), Ids(stack[i].run))
          /\ Older(Held(stack[i]), Ids(blocks))
    BY <1>1, <1>3, <1>7 DEF BlocksInOrder
  <2>2. \A i \in 1..(n - 1) : \A j \in (i + 1)..(n - 1) :
            j \in (i + 1)..n /\ j \in 1..(n - 1)
    OBVIOUS
  <2>3. \A i \in 1..(n - 1) : \A j \in (i + 1)..(n - 1) :
            Older(Held(stack[i]), Held(stack[j]))
    BY <1>1, <1>3, <1>7, <2>2 DEF BlocksInOrder
  <2>4. ASSUME NEW i \in 1..(n - 1)
        PROVE  /\ Rising(stack'[i].keep) /\ Rising(stack'[i].run)
               /\ Older(Ids(stack'[i].keep), Ids(stack'[i].run))
               /\ Older(Held(stack'[i]), Ids(blocks'))
               /\ \A j \in (i + 1)..(n - 1) : Older(Held(stack'[i]), Held(stack'[j]))
    BY <1>4, <1>5, <2>1, <2>2, <2>3
  <2>5. Rising(blocks')
    BY <1>1, <1>5 DEF BlocksInOrder
  <2> QED BY <1>4, <2>4, <2>5 DEF BlocksInOrder
<1>12. program.nests \subseteq IgnoredNests => Noticed'
  <2> SUFFICES ASSUME program.nests \subseteq IgnoredNests
               PROVE  Noticed'
    OBVIOUS
  <2>1. \A i \in 1..(n - 1) : Excused(stack[i])
    BY <1>1, <1>3 DEF Noticed
  <2>2. \A i \in 1..(n - 1) : Excused(stack'[i])
    BY <1>4, <2>1
  <2>3. ASSUME stack' # <<>> PROVE Excused(stack'[n - 1])
    <3>1. n - 1 \in 1..(n - 1)
      BY <1>4, <2>3
    <3> QED BY <2>2, <3>1
  <2>4. \A i \in 1..(n - 1 - 1) : i \in 1..(n - 1)
    OBVIOUS
  <2>5. Running' => Excused(Top')
    BY <1>4, <2>3 DEF Running, Top
  <2>6. \A i \in 1..(Len(stack') - 1) : Excused(stack'[i])
    BY <1>4, <2>2, <2>4
  <2> QED BY <2>5, <2>6 DEF Noticed
<1> QED BY <1>5, <1>6, <1>9, <1>10, <1>11, <1>12 DEF IndInv

(* Where the program may nest runs, the activation does not sleep before   *)
(* the next iteration.                                                     *)
LEMMA NestedExcused ==
    ASSUME NEW b \in Activations, ActivationOK(b), b.pc = "callout",
           b.callout \in IgnoredNests
    PROVE  Excused(b)
<1>1. Place(b) = b.then
  BY DEF Place
<1>2. CASE b.callout \in Observers
  <2>1. Activities[b.callout] = {"afterWaiting"}
    BY <1>2, RunLoopAssumption DEF IgnoredNests, Main
  <2>2. PICK x \in DOMAIN ObserverStages :
            b.then = Stage[ObserverStages[x]] /\ x \in Activities[b.callout]
    BY <1>2 DEF ActivationOK
  <2>3. b.then = Stage["handle"]
    BY <2>1, <2>2 DEF ObserverStages
  <2>4. b.then = "handle"
    BY <2>3, StageFacts
  <2> QED BY <1>1, <2>4 DEF Excused, PastStops, PastBlocks, PastSources
<1>3. CASE b.callout \notin Observers
  <2>1. b.callout # "block"
    BY RunLoopAssumption DEF IgnoredNests
  <2>2. (b.then = "perform" /\ b.handled) \/ b.then = "blocksLast"
    BY <1>3, <2>1 DEF ActivationOK
  <2> QED BY <1>1, <2>2 DEF Excused, PastStops, PastBlocks, PastSources
<1> QED BY <1>2, <1>3

(* A run is nested in a callout, or is the first one.                      *)
LEMMA RunInd ==
    ASSUME IndInv, NEW r \in program.runs, Run(r)
    PROVE  IndInv'
<1>1. TypeOK /\ ActivationsOK /\ IdsOK /\ BlocksInOrder
      /\ (program.nests \subseteq IgnoredNests => Noticed)
  BY DEF IndInv
<1>2. stack \in Seq(Activations) /\ blocks \in Seq(Blocks) /\ program \in Programs
  BY <1>1 DEF TypeOK
<1>3. r.mode \in Modes /\ r.after \in BOOLEAN /\ r.timed \in {"never", "later", "now"}
  BY <1>2, RunLoopAssumption
<1>4. PICK p \in Stages, q \in Stages :
          p = Stage["entry"] /\ q = "entry" /\ p \in {"entry", "prologue"}
  BY StageFacts DEF Stages, ObserverStages
<1>5. PICK f \in BOOLEAN, g \in BOOLEAN, l \in BOOLEAN :
          f = FALSE /\ g = TRUE /\ l = (r.timed = "now")
  OBVIOUS
<1>6. PICK e \in Seq(Blocks) : e = <<>>
  BY EmptySeq
<1>7. PICK o \in {None, Wake, Main} \cup Sources1,
           c \in {None, "main", "block"} \cup Sources \cup Observers,
           t \in SUBSET (Sources \cup Observers) : o = None /\ c = None /\ t = {}
  OBVIOUS
<1>8. PICK a :
          a = [mode |-> r.mode, after |-> r.after, timed |-> r.timed, late |-> l,
               stopped |-> f, ignoring |-> f, queue |-> f,
               didMain |-> g, handled |-> f, poll |-> f,
               live |-> o, pc |-> p, then |-> q,
               callout |-> c, todo |-> t, run |-> e, keep |-> e]
  OBVIOUS
<1> a \in Activations
  <2>1. PICK m \in Modes, x \in BOOLEAN, y \in {"never", "later", "now"} :
            m = r.mode /\ x = r.after /\ y = r.timed
    BY <1>3
  <2>2. a = [mode |-> m, after |-> x, timed |-> y, late |-> l,
               stopped |-> f, ignoring |-> f, queue |-> f,
               didMain |-> g, handled |-> f, poll |-> f,
               live |-> o, pc |-> p, then |-> q,
               callout |-> c, todo |-> t, run |-> e, keep |-> e]
    BY <1>8, <2>1
  <2> QED BY <2>2 DEF Activations
<1>9. stack' = Append(stack, a)
  BY <1>4, <1>5, <1>6, <1>7, <1>8 DEF Run
<1>10. a.pc = p /\ a.run = <<>> /\ a.keep = <<>> /\ Place(a) = p
  BY <1>4, <1>6, <1>8 DEF Place
<1>11. ActivationOK(a)
  BY <1>4, <1>10 DEF ActivationOK, PastStops, PastBlocks, PastSources, PastPoll
<1>12. Excused(a)
  BY <1>4, <1>10 DEF Excused, PastStops, PastBlocks, PastSources
<1>13. UNCHANGED <<program, ports, signaled, valid, member, firing, blocks, posted,
                   modeStopped, post, alarm>>
  BY DEF Run
<1>14. PICK n \in Nat : n = Len(stack)
  BY <1>2
<1>15. /\ stack' \in Seq(Activations) /\ Len(stack') = n + 1 /\ stack'[n + 1] = a
       /\ \A i \in 1..n : stack'[i] = stack[i]
  BY <1>2, <1>9, <1>14, Appended
<1>16. TypeOK'
  BY <1>1, <1>13, <1>15 DEF TypeOK
<1>17. \A i \in 1..(n + 1) : i = n + 1 \/ i \in 1..n
  BY <1>14
<1>18. \A i \in 1..n : ActivationOK(stack[i]) /\ stack[i].pc = "callout"
  <2>1. \A i \in 1..n : ActivationOK(stack[i]) /\ (i # n => stack[i].pc = "callout")
    BY <1>1, <1>14 DEF ActivationsOK
  <2>2. n # 0 => stack[n].pc = "callout"
    BY <1>2, <1>14 DEF Run, MayRun, Running, At, Top
  <2> QED BY <2>1, <2>2
<1>19. ActivationsOK'
  BY <1>11, <1>15, <1>17, <1>18 DEF ActivationsOK
<1>20. Held(a) = {}
  BY <1>10, IdsEmpty DEF Held
<1>21. IdsOK'
  <2>1. \A i \in 1..n : \A x \in Held(stack[i]) : x < posted
    BY <1>1, <1>14 DEF IdsOK
  <2>2. \A i \in 1..(n + 1) : \A x \in Held(stack'[i]) : x < posted
    BY <1>15, <1>17, <1>20, <2>1
  <2> QED BY <1>1, <1>13, <1>15, <2>2 DEF IdsOK
<1>22. BlocksInOrder'
  <2>1. \A i \in 1..n :
          /\ Rising(stack[i].keep) /\ Rising(stack[i].run)
          /\ Older(Ids(stack[i].keep), Ids(stack[i].run))
          /\ Older(Held(stack[i]), Ids(blocks))
          /\ \A j \in (i + 1)..n : Older(Held(stack[i]), Held(stack[j]))
    BY <1>1, <1>14 DEF BlocksInOrder
  <2>2. ASSUME NEW i \in 1..(n + 1)
        PROVE  /\ Rising(stack'[i].keep) /\ Rising(stack'[i].run)
               /\ Older(Ids(stack'[i].keep), Ids(stack'[i].run))
               /\ Older(Held(stack'[i]), Ids(blocks'))
               /\ \A j \in (i + 1)..(n + 1) : Older(Held(stack'[i]), Held(stack'[j]))
    <3>1. CASE i = n + 1
      <4>1. (i + 1)..(n + 1) = {}
        BY <1>14, <3>1
      <4>2. Rising(a.keep) /\ Rising(a.run) /\ Older(Ids(a.keep), Ids(a.run))
            /\ Older(Held(a), Ids(blocks'))
        BY <1>10, <1>20, IdsEmpty DEF Older
      <4> QED BY <1>15, <3>1, <4>1, <4>2
    <3>2. CASE i \in 1..n
      <4>1. \A j \in (i + 1)..(n + 1) : j = n + 1 \/ (j \in (i + 1)..n /\ j \in 1..n)
        BY <1>14, <3>2
      <4>2. Older(Held(stack[i]), Held(a))
        BY <1>20 DEF Older
      <4>3. \A j \in (i + 1)..(n + 1) : Older(Held(stack'[i]), Held(stack'[j]))
        BY <1>15, <2>1, <3>2, <4>1, <4>2
      <4> QED BY <1>13, <1>15, <2>1, <3>2, <4>3
    <3> QED BY <1>17, <3>1, <3>2
  <2>3. Rising(blocks')
    BY <1>1, <1>13 DEF BlocksInOrder
  <2> QED BY <1>15, <2>2, <2>3 DEF BlocksInOrder
<1>23. program.nests \subseteq IgnoredNests => Noticed'
  <2> SUFFICES ASSUME program.nests \subseteq IgnoredNests
               PROVE  Noticed'
    OBVIOUS
  <2>1. \A i \in 1..(n - 1) : Excused(stack[i])
    BY <1>1, <1>14 DEF Noticed
  <2>2. n # 0 => Excused(stack[n])
    <3> SUFFICES ASSUME n # 0 PROVE Excused(stack[n])
      OBVIOUS
    <3>1. PICK b \in Activations : b = stack[n] /\ ActivationOK(b) /\ b.pc = "callout"
      BY <1>2, <1>14, <1>18
    <3>2. b.callout \in program.nests
      BY <1>2, <1>14, <3>1 DEF Run, MayRun, Running, At, Top
    <3> QED BY <3>1, <3>2, NestedExcused
  <2>3. \A i \in 1..n : i = n \/ i \in 1..(n - 1)
    BY <1>14
  <2>4. \A i \in 1..n : Excused(stack'[i])
    BY <1>15, <2>1, <2>2, <2>3
  <2>5. Top' = a
    BY <1>15 DEF Top
  <2>6. \A i \in 1..(Len(stack') - 1) : i \in 1..n
    BY <1>15, <1>14
  <2> QED BY <1>12, <2>4, <2>5, <2>6 DEF Noticed
<1> QED BY <1>13, <1>16, <1>19, <1>21, <1>22, <1>23 DEF IndInv

-----------------------------------------------------------------------------
(* The other threads.                                                      *)

(* Steps of other threads. One that leaves the stack alone keeps the       *)
(* invariant if it withdraws no wake-up and notices what it adds.          *)
LEMMA SameStack ==
    ASSUME IndInv, TypeOK', UNCHANGED <<program, stack, posted, blocks>>,
           Running /\ ~Top.ignoring /\ ~Notice' => ~Notice,
           \A b \in Activations : Unseen(b)' => Unseen(b) \/ Notice'
    PROVE  IndInv'
<1>1. TypeOK /\ ActivationsOK /\ IdsOK /\ BlocksInOrder
      /\ (program.nests \subseteq IgnoredNests => Noticed)
  BY DEF IndInv
<1>2. ActivationsOK' /\ IdsOK' /\ BlocksInOrder'
  BY <1>1 DEF ActivationsOK, IdsOK, BlocksInOrder
<1>3. ASSUME Noticed PROVE Noticed'
  <2>1. ASSUME Running
        PROVE  Excused(Top') \/ Notice' \/ ~Unseen(Top)'
    <3>1. PICK b \in Activations : b = Top /\ ActivationOK(b)
      BY <2>1, TopInv DEF Inner
    <3>2. b = Top'
      BY <3>1 DEF Top
    <3>3. b.ignoring => Excused(b)
      BY <3>1 DEF ActivationOK, Excused
    <3>4. Excused(b) \/ Notice \/ ~Unseen(b)
      BY <1>3, <2>1, <3>1 DEF Noticed
    <3>5. Excused(b) \/ Notice' \/ ~Unseen(b)'
      BY <2>1, <3>1, <3>3, <3>4
    <3> QED BY <3>2, <3>5
  <2>2. Running' = Running /\ Len(stack') = Len(stack)
    BY DEF Running
  <2>3. \A i \in 1..(Len(stack') - 1) : Excused(stack'[i])
    BY <1>3 DEF Noticed
  <2> QED BY <2>1, <2>2, <2>3 DEF Noticed
<1> QED BY <1>1, <1>2, <1>3 DEF IndInv

(* What a thread has to do next,                                           *)
LEMMA PostType ==
    ASSUME TypeOK, NEW w \in Wakers, NEW x \in {"idle", "wake"} \cup Sources, Then(w, x)
    PROVE  /\ post' \in [Wakers -> {"idle", "wake"} \cup Sources]
           /\ post'[w] = x
           /\ \A u \in Wakers : u # w => post'[u] = post[u]
  BY DEF TypeOK, Then

(* ... where that is to wake the loop up, it is noticed,                   *)
LEMMA PostWake ==
    ASSUME TypeOK, NEW w \in Wakers, Then(w, "wake")
    PROVE  Notice' /\ post' \in [Wakers -> {"idle", "wake"} \cup Sources]
<1>1. PICK x \in {"idle", "wake"} \cup Sources : x = "wake"
  OBVIOUS
<1>2. post' \in [Wakers -> {"idle", "wake"} \cup Sources] /\ post'[w] = "wake"
  BY <1>1, PostType
<1> QED BY <1>2 DEF Notice

(* ... and where it was not, nothing noticed is lost.                      *)
LEMMA NoticeStays ==
    ASSUME TypeOK, NEW w \in Wakers, NEW x \in {"idle", "wake"} \cup Sources, Then(w, x),
           post[w] # "wake", UNCHANGED <<ports, alarm>>
    PROVE  Notice => Notice'
<1>1. \A u \in Wakers : u # w => post'[u] = post[u]
  BY PostType
<1> QED BY <1>1 DEF Notice

(* A source is signalled, and its thread will wake the loop up;            *)
LEMMA SignalInd ==
    ASSUME IndInv, NEW w \in Wakers, NEW s \in Sources0, Signal(w, s)
    PROVE  IndInv'
<1>1. TypeOK
  BY DEF IndInv
<1>2. Notice' /\ post' \in [Wakers -> {"idle", "wake"} \cup Sources]
  BY <1>1, PostWake DEF Signal
<1>3. TypeOK'
  BY <1>1, <1>2 DEF Signal, TypeOK
<1>4. UNCHANGED <<program, stack, posted, blocks>>
  BY DEF Signal
<1> QED BY <1>2, <1>3, <1>4, SameStack

(* ... a mode is stopped;                                                  *)
LEMMA StopModeInd ==
    ASSUME IndInv, NEW w \in Wakers, NEW m \in program.stops, StopMode(w, m)
    PROVE  IndInv'
<1>1. TypeOK /\ m \in Modes
  BY RunLoopAssumption DEF IndInv, TypeOK
<1>2. Notice' /\ post' \in [Wakers -> {"idle", "wake"} \cup Sources]
  BY <1>1, PostWake DEF StopMode
<1>3. TypeOK'
  BY <1>1, <1>2 DEF StopMode, TypeOK
<1>4. UNCHANGED <<program, stack, posted, blocks>>
  BY DEF StopMode
<1> QED BY <1>2, <1>3, <1>4, SameStack

(* ... a source is invalidated,                                            *)
LEMMA InvalidateInd ==
    ASSUME IndInv, NEW w \in Wakers, NEW s \in program.removes, Invalidate(w, s)
    PROVE  IndInv'
<1>1. TypeOK /\ s \in Sources
  BY RunLoopAssumption DEF IndInv, TypeOK
<1>2. PICK x \in {"idle", "wake"} \cup Sources : x = s
  BY <1>1
<1>3. Then(w, x) /\ post[w] # "wake"
  BY <1>2 DEF Invalidate, MayPost
<1>4. UNCHANGED <<program, stack, ports, member, firing, blocks, posted, modeStopped, alarm>>
  BY DEF Invalidate
<1>5. valid' \subseteq valid /\ signaled' \subseteq signaled
  BY DEF Invalidate
<1>6. post' \in [Wakers -> {"idle", "wake"} \cup Sources] /\ (Notice => Notice')
  BY <1>1, <1>3, <1>4, PostType, NoticeStays
<1>7. TypeOK'
  BY <1>1, <1>4, <1>5, <1>6 DEF TypeOK
<1>8. \A b \in Activations : Unseen(b)' => Unseen(b)
  BY <1>4, <1>5 DEF Unseen, Ready
<1> QED BY <1>4, <1>6, <1>7, <1>8, SameStack

(* ... and then removed from the modes.                                    *)
LEMMA RemoveInvalidInd ==
    ASSUME IndInv, NEW w \in Wakers, RemoveInvalid(w)
    PROVE  IndInv'
<1>1. TypeOK
  BY DEF IndInv
<1>2. PICK x \in {"idle", "wake"} \cup Sources : x = "idle"
  OBVIOUS
<1>3. Then(w, x) /\ post[w] # "wake"
  BY <1>2, RunLoopAssumption DEF RemoveInvalid, Wake
<1>4. UNCHANGED <<program, stack, ports, signaled, valid, firing, blocks, posted,
                  modeStopped, alarm>>
  BY DEF RemoveInvalid
<1>5. member' \in [Modes -> SUBSET Sources] /\ \A m \in Modes : member'[m] \subseteq member[m]
  BY <1>1 DEF TypeOK, RemoveInvalid
<1>6. post' \in [Wakers -> {"idle", "wake"} \cup Sources] /\ (Notice => Notice')
  BY <1>1, <1>3, <1>4, PostType, NoticeStays
<1>7. TypeOK'
  BY <1>1, <1>4, <1>5, <1>6 DEF TypeOK
<1>8. ASSUME NEW b \in Activations PROVE Unseen(b)' => Unseen(b)
  <2>1. b.mode \in Modes
    BY DEF Activations
  <2>2. Ready(b)' \subseteq Ready(b)
    BY <1>4, <1>5, <2>1 DEF Ready
  <2> QED BY <1>4, <2>2 DEF Unseen
<1> QED BY <1>4, <1>6, <1>7, <1>8, SameStack

(* A wake-up is a message, or is ignored.                                  *)
LEMMA AwakenNotice ==
    ASSUME Awaken
    PROVE  /\ Running /\ ~Top.ignoring => Wake \in ports'
           /\ ports \subseteq ports' /\ ports' \subseteq ports \cup {Wake}
  BY DEF Awaken

(* The wake-up of a thread: it is ignored only where the activation has    *)
(* looked for nothing.                                                     *)
LEMMA WakeUpInd ==
    ASSUME IndInv, NEW w \in Wakers, WakeUp(w)
    PROVE  IndInv'
<1>1. TypeOK
  BY DEF IndInv
<1>2. PICK x \in {"idle", "wake"} \cup Sources : x = "idle"
  OBVIOUS
<1>3. Then(w, x) /\ Awaken
  BY <1>2 DEF WakeUp
<1>4. UNCHANGED <<program, stack, signaled, valid, member, firing, blocks, posted,
                  modeStopped, alarm>>
  BY DEF WakeUp
<1>5. post' \in [Wakers -> {"idle", "wake"} \cup Sources]
  BY <1>1, <1>3, PostType
<1>6. TypeOK'
  BY <1>1, <1>3, <1>4, <1>5, AwakenNotice DEF TypeOK
<1>7. \A b \in Activations : Unseen(b)' => Unseen(b)
  BY <1>4 DEF Unseen, Ready
<1>8. Running /\ ~Top.ignoring => Notice'
  BY <1>3, AwakenNotice DEF Notice
<1> QED BY <1>4, <1>6, <1>7, <1>8, SameStack

(* The wake-up of the time-out.                                            *)
LEMMA TimeoutWakesInd ==
    ASSUME IndInv, TimeoutWakes
    PROVE  IndInv'
<1>1. TypeOK
  BY DEF IndInv
<1>2. Awaken
  BY DEF TimeoutWakes
<1>3. UNCHANGED <<program, stack, signaled, valid, member, firing, blocks, posted,
                  modeStopped, post>> /\ alarm' = FALSE
  BY DEF TimeoutWakes
<1>4. TypeOK'
  BY <1>1, <1>2, <1>3, AwakenNotice DEF TypeOK
<1>5. \A b \in Activations : Unseen(b)' => Unseen(b)
  BY <1>3 DEF Unseen, Ready
<1>6. Running /\ ~Top.ignoring => Notice'
  BY <1>2, AwakenNotice DEF Notice
<1> QED BY <1>3, <1>4, <1>5, <1>6, SameStack

(* A message to a port adds nothing to look for.                           *)
LEMMA SendInd ==
    ASSUME IndInv, NEW p \in program.sends, Send(p)
    PROVE  IndInv'
<1>1. TypeOK /\ p \in Sources1 \cup {Main}
  BY RunLoopAssumption DEF IndInv, TypeOK
<1>2. UNCHANGED <<program, stack, signaled, valid, member, firing, blocks, posted,
                  modeStopped, post, alarm>> /\ ports' = ports \cup {p}
  BY DEF Send
<1>3. TypeOK'
  BY <1>1, <1>2 DEF TypeOK
<1>4. \A b \in Activations : Unseen(b)' => Unseen(b)
  BY <1>2 DEF Unseen, Ready
<1>5. Notice => Notice'
  BY <1>2 DEF Notice
<1> QED BY <1>2, <1>3, <1>4, <1>5, SameStack

(* A block is posted, with the next number, and its thread will wake the   *)
(* loop up.                                                                *)
LEMMA PerformBlockInd ==
    ASSUME IndInv, NEW w \in Wakers, NEW m \in Modes, PerformBlock(w, m)
    PROVE  IndInv'
<1>1. TypeOK /\ ActivationsOK /\ IdsOK /\ BlocksInOrder
      /\ (program.nests \subseteq IgnoredNests => Noticed)
  BY DEF IndInv
<1>2. Notice' /\ post' \in [Wakers -> {"idle", "wake"} \cup Sources]
  BY <1>1, PostWake DEF PerformBlock
<1>3. blocks \in Seq(Blocks) /\ posted \in Nat
  BY <1>1 DEF TypeOK
<1>4. PICK b \in Blocks : b = [id |-> posted, mode |-> m]
  BY <1>3 DEF Blocks
<1>5. /\ blocks' = Append(blocks, b) /\ posted' = posted + 1
      /\ UNCHANGED <<program, stack, ports, signaled, valid, member, firing,
                     modeStopped, alarm>>
  BY <1>4 DEF PerformBlock
<1>6. Older(Ids(blocks), {b.id}) /\ b.id = posted
  BY <1>1, <1>4 DEF Older, IdsOK
<1>7. /\ blocks' \in Seq(Blocks) /\ Ids(blocks') = Ids(blocks) \cup {posted}
      /\ Rising(blocks')
  BY <1>1, <1>3, <1>5, <1>6, IdsAppend DEF BlocksInOrder
<1>8. TypeOK'
  BY <1>1, <1>2, <1>3, <1>5, <1>7 DEF TypeOK
<1>9. ActivationsOK'
  BY <1>1, <1>5 DEF ActivationsOK
<1>10. \A i \in 1..Len(stack) : Held(stack[i]) \subseteq Nat
  <2> SUFFICES ASSUME NEW i \in 1..Len(stack) PROVE Held(stack[i]) \subseteq Nat
    OBVIOUS
  <2>1. stack[i] \in Activations
    BY <1>1 DEF TypeOK
  <2>2. stack[i].keep \in Seq(Blocks) /\ stack[i].run \in Seq(Blocks)
    BY <2>1 DEF Activations
  <2> QED BY <2>2, IdsNat DEF Held
<1>11. IdsOK'
  <2>1. \A i \in 1..Len(stack) : \A x \in Held(stack[i]) : x < posted /\ x \in Nat
    BY <1>1, <1>10 DEF IdsOK
  <2>2. \A x \in Ids(blocks) : x < posted /\ x \in Nat
    BY <1>1, <1>3, IdsNat DEF IdsOK
  <2>3. \A i \in 1..Len(stack) : \A x \in Held(stack[i]) : x < posted + 1
    BY <1>3, <2>1
  <2>4. \A x \in Ids(blocks') : x < posted + 1
    BY <1>3, <1>7, <2>2
  <2> QED BY <1>5, <2>3, <2>4 DEF IdsOK
<1>12. BlocksInOrder'
  <2>1. \A i \in 1..Len(stack) : Older(Held(stack[i]), Ids(blocks'))
    BY <1>1, <1>7 DEF Older, BlocksInOrder, IdsOK
  <2> QED BY <1>1, <1>5, <1>7, <2>1 DEF BlocksInOrder
<1>13. program.nests \subseteq IgnoredNests => Noticed'
  BY <1>1, <1>2, <1>5 DEF Noticed
<1> QED BY <1>5, <1>8, <1>9, <1>11, <1>12, <1>13 DEF IndInv

(* Steps that change one activation from outside, innermost or not.        *)
LEMMA SetStep ==
    ASSUME IndInv, NEW i \in 1..Len(stack), NEW a \in Activations,
           stack' = [stack EXCEPT ![i] = a],
           ActivationOK(a), a.pc = stack[i].pc, a.run = stack[i].run, a.keep = stack[i].keep,
           Excused(stack[i]) => Excused(a),
           UNCHANGED <<program, ports, signaled, valid, member, firing, blocks, posted,
                       modeStopped>>,
           post' \in [Wakers -> {"idle", "wake"} \cup Sources], alarm' \in BOOLEAN,
           Notice \/ Unseen(a) # Unseen(stack[i]) => Notice'
    PROVE  IndInv'
<1>1. TypeOK /\ ActivationsOK /\ IdsOK /\ BlocksInOrder
      /\ (program.nests \subseteq IgnoredNests => Noticed)
  BY DEF IndInv
<1>2. stack \in Seq(Activations)
  BY <1>1 DEF TypeOK
<1>3. PICK n \in Nat \ {0} : n = Len(stack) /\ i \in 1..n
  BY <1>2
<1>4. /\ stack' \in Seq(Activations) /\ Len(stack') = n /\ stack'[i] = a
      /\ \A j \in 1..n : j # i => stack'[j] = stack[j]
  BY <1>2, <1>3, Replaced
<1>5. \A j \in 1..n : /\ stack'[j].pc = stack[j].pc
                      /\ stack'[j].run = stack[j].run /\ stack'[j].keep = stack[j].keep
  BY <1>4
<1>6. \A j \in 1..n : Held(stack'[j]) = Held(stack[j])
  BY <1>5 DEF Held
<1>7. TypeOK'
  BY <1>1, <1>4 DEF TypeOK
<1>8. ActivationsOK'
  <2>1. \A j \in 1..n : ActivationOK(stack[j]) /\ (j # n => stack[j].pc = "callout")
    BY <1>1, <1>3 DEF ActivationsOK
  <2>2. \A j \in 1..n : ActivationOK(stack'[j]) /\ (j # n => stack'[j].pc = "callout")
    BY <1>4, <1>5, <2>1
  <2> QED BY <1>4, <2>2 DEF ActivationsOK
<1>9. IdsOK'
  <2>1. \A j \in 1..n : \A x \in Held(stack'[j]) : x < posted
    BY <1>1, <1>3, <1>6 DEF IdsOK
  <2> QED BY <1>1, <1>4, <2>1 DEF IdsOK
<1>10. BlocksInOrder'
  <2>1. \A j \in 1..n :
          /\ Rising(stack[j].keep) /\ Rising(stack[j].run)
          /\ Older(Ids(stack[j].keep), Ids(stack[j].run))
          /\ Older(Held(stack[j]), Ids(blocks))
          /\ \A k \in (j + 1)..n : Older(Held(stack[j]), Held(stack[k]))
    BY <1>1, <1>3 DEF BlocksInOrder
  <2>2. \A j \in 1..n : \A k \in (j + 1)..n : k \in 1..n
    OBVIOUS
  <2>3. \A j \in 1..n : \A k \in (j + 1)..n : Older(Held(stack'[j]), Held(stack'[k]))
    BY <1>6, <2>1, <2>2
  <2>4. \A j \in 1..n :
          /\ Rising(stack'[j].keep) /\ Rising(stack'[j].run)
          /\ Older(Ids(stack'[j].keep), Ids(stack'[j].run))
          /\ Older(Held(stack'[j]), Ids(blocks))
    BY <1>5, <1>6, <2>1
  <2>5. Rising(blocks)
    BY <1>1 DEF BlocksInOrder
  <2> QED BY <1>4, <2>3, <2>4, <2>5 DEF BlocksInOrder
<1>11. ASSUME Noticed PROVE Noticed'
  <2>1. \A j \in 1..(n - 1) : j \in 1..n /\ Excused(stack[j])
    BY <1>3, <1>11 DEF Noticed
  <2>2. \A j \in 1..(n - 1) : Excused(stack'[j])
    BY <1>4, <2>1
  <2>3. PICK c \in Activations : c = stack'[n] /\ c = Top'
    BY <1>4 DEF Top
  <2>4. PICK b \in Activations : b = stack[n] /\ b = Top
    BY <1>2, <1>3 DEF Top
  <2>5. Running
    BY <1>3 DEF Running
  <2>6. Excused(b) \/ Notice \/ ~Unseen(b)
    BY <1>11, <2>4, <2>5 DEF Noticed
  <2>7. Unseen(c)' = Unseen(c)
    BY DEF Unseen, Ready
  <2>8. Excused(c) \/ Notice' \/ ~Unseen(c)'
    <3>1. CASE i = n
      <4>1. c = a
        BY <1>4, <2>3, <3>1
      <4> QED BY <2>4, <2>6, <2>7, <3>1, <4>1
    <3>2. CASE i # n
      <4>1. n \in 1..n /\ n # i
        BY <1>3, <3>2
      <4>2. stack'[n] = stack[n]
        BY <1>4, <4>1
      <4>3. c = b
        BY <2>3, <2>4, <4>2
      <4> QED BY <2>6, <2>7, <4>3
    <3> QED BY <3>1, <3>2
  <2>9. Excused(Top') \/ Notice' \/ ~Unseen(Top)'
    BY <2>3, <2>8
  <2> QED BY <1>4, <2>2, <2>9 DEF Noticed
<1> QED BY <1>1, <1>7, <1>8, <1>9, <1>10, <1>11 DEF IndInv

(* What the invariant says of it.                                          *)
LEMMA AtIndex ==
    ASSUME IndInv, NEW i \in 1..Len(stack)
    PROVE  stack[i] \in Activations /\ ActivationOK(stack[i])
  BY DEF IndInv, TypeOK, ActivationsOK

(* A run is stopped, and its thread will wake the loop up;                 *)
LEMMA StopInd ==
    ASSUME IndInv, NEW w \in Wakers, Stop(w)
    PROVE  IndInv'
<1>1. TypeOK /\ Running
  BY DEF IndInv, Stop
<1>2. Notice' /\ post' \in [Wakers -> {"idle", "wake"} \cup Sources]
  BY <1>1, PostWake DEF Stop
<1>3. PICK n \in 1..Len(stack) : n = Len(stack) /\ Top = stack[n]
  BY <1>1, StackTop
<1>4. PICK b \in Activations : b = stack[n] /\ ActivationOK(b)
  BY AtIndex
<1>5. PICK a \in Activations : a = [b EXCEPT !.stopped = TRUE]
  <2>1. PICK f \in BOOLEAN : f = TRUE
    OBVIOUS
  <2>2. [b EXCEPT !.stopped = f] \in Activations
    BY DEF Activations
  <2> QED BY <2>1, <2>2
<1>6. stack' = [stack EXCEPT ![n] = a]
  BY <1>3, <1>4, <1>5 DEF Stop, With
<1>7. /\ a.pc = b.pc /\ a.run = b.run /\ a.keep = b.keep /\ a.mode = b.mode /\ a.then = b.then
      /\ a.ignoring = b.ignoring /\ a.handled = b.handled /\ a.poll = b.poll
      /\ a.callout = b.callout /\ a.todo = b.todo
  BY <1>5 DEF Activations
<1>8. Place(a) = Place(b)
  BY <1>7 DEF Place
<1>9. ActivationOK(a)
  BY <1>4, <1>7, <1>8 DEF ActivationOK
<1>10. Excused(b) => Excused(a)
  BY <1>7, <1>8 DEF Excused
<1>11. alarm' \in BOOLEAN
       /\ UNCHANGED <<program, ports, signaled, valid, member, firing, blocks, posted,
                      modeStopped>>
  BY <1>1 DEF Stop, TypeOK
<1> QED BY <1>2, <1>4, <1>6, <1>7, <1>9, <1>10, <1>11, SetStep

(* ... its time has passed,                                                *)
LEMMA ExpireInd ==
    ASSUME IndInv, NEW i \in 1..Len(stack), Expire(i)
    PROVE  IndInv'
<1>1. TypeOK
  BY DEF IndInv
<1>2. PICK b \in Activations : b = stack[i] /\ ActivationOK(b)
  BY AtIndex
<1>3. PICK a \in Activations : a = [b EXCEPT !.late = TRUE]
  <2>1. PICK f \in BOOLEAN : f = TRUE
    OBVIOUS
  <2>2. [b EXCEPT !.late = f] \in Activations
    BY DEF Activations
  <2> QED BY <2>1, <2>2
<1>4. stack' = [stack EXCEPT ![i] = a]
  BY <1>2, <1>3 DEF Expire
<1>5. /\ a.pc = b.pc /\ a.run = b.run /\ a.keep = b.keep /\ a.mode = b.mode /\ a.then = b.then
      /\ a.ignoring = b.ignoring /\ a.handled = b.handled /\ a.poll = b.poll
      /\ a.callout = b.callout /\ a.todo = b.todo /\ a.stopped = b.stopped
      /\ a.timed = b.timed
  BY <1>3 DEF Activations
<1>6. Place(a) = Place(b)
  BY <1>5 DEF Place
<1>7. ActivationOK(a)
  BY <1>2, <1>5, <1>6 DEF ActivationOK
<1>8. Excused(b) => Excused(a)
  BY <1>5, <1>6 DEF Excused
<1>9. /\ UNCHANGED <<program, ports, signaled, valid, member, firing, blocks, posted,
                     modeStopped, post, alarm>>
      /\ post' \in [Wakers -> {"idle", "wake"} \cup Sources] /\ alarm' \in BOOLEAN
  BY <1>1 DEF Expire, TypeOK
<1>10. Notice' = Notice
  BY <1>9 DEF Notice
<1>11. Unseen(a) = Unseen(b)
  BY <1>5, <1>6 DEF Unseen, Ready
<1> QED BY <1>2, <1>4, <1>5, <1>7, <1>8, <1>9, <1>10, <1>11, SetStep

(* ... which its timer sees, and will wake the loop up.                    *)
LEMMA TimeoutInd ==
    ASSUME IndInv, NEW i \in 1..Len(stack), Timeout(i)
    PROVE  IndInv'
<1>1. TypeOK
  BY DEF IndInv
<1>2. PICK b \in Activations : b = stack[i] /\ ActivationOK(b)
  BY AtIndex
<1>3. PICK a \in Activations : a = [b EXCEPT !.timed = "now"]
  BY DEF Activations
<1>4. stack' = [stack EXCEPT ![i] = a]
  BY <1>2, <1>3 DEF Timeout
<1>5. /\ a.pc = b.pc /\ a.run = b.run /\ a.keep = b.keep /\ a.mode = b.mode /\ a.then = b.then
      /\ a.ignoring = b.ignoring /\ a.handled = b.handled /\ a.poll = b.poll
      /\ a.callout = b.callout /\ a.todo = b.todo
  BY <1>3 DEF Activations
<1>6. Place(a) = Place(b)
  BY <1>5 DEF Place
<1>7. ActivationOK(a)
  BY <1>2, <1>5, <1>6 DEF ActivationOK
<1>8. Excused(b) => Excused(a)
  BY <1>5, <1>6 DEF Excused
<1>9. /\ UNCHANGED <<program, ports, signaled, valid, member, firing, blocks, posted,
                     modeStopped, post>> /\ alarm' = TRUE
      /\ post' \in [Wakers -> {"idle", "wake"} \cup Sources] /\ alarm' \in BOOLEAN
  BY <1>1 DEF Timeout, TypeOK
<1>10. Notice'
  BY <1>9 DEF Notice
<1> QED BY <1>2, <1>4, <1>5, <1>7, <1>8, <1>9, <1>10, SetStep

-----------------------------------------------------------------------------
(* The theorems.                                                           *)

(* The invariant holds at the start,                                       *)
LEMMA InitInd == Init => IndInv
<1> SUFFICES ASSUME Init PROVE IndInv
  OBVIOUS
<1>1. TypeOK
  <2>1. <<>> \in Seq(Activations) /\ <<>> \in Seq(Blocks)
    BY EmptySeq
  <2>2. member \in [Modes -> SUBSET Sources]
    BY RunLoopAssumption DEF Init
  <2> QED BY <2>1, <2>2 DEF Init, TypeOK
<1>2. Len(stack) = 0 /\ 1..0 = {} /\ stack = <<>> /\ blocks = <<>>
  BY DEF Init
<1>3. ActivationsOK /\ IdsOK /\ BlocksInOrder
  BY <1>2, IdsEmpty DEF ActivationsOK, IdsOK, BlocksInOrder
<1>4. 1..(0 - 1) = {}
  OBVIOUS
<1>5. Noticed
  BY <1>2, <1>4 DEF Noticed, Running
<1> QED BY <1>1, <1>3, <1>5 DEF IndInv

(* ... and is kept by every step.                                          *)
LEMMA IndStep == IndInv /\ [Next]_vars => IndInv'
<1> SUFFICES ASSUME IndInv, [Next]_vars PROVE IndInv'
  OBVIOUS
<1>1. CASE LoopStep
  BY <1>1, DoObserversInd, NotifyInd, ReturnInd, PrologueInd, TakeBlocksInd, RunBlockInd,
     PutBlocksBackInd, CollectSources0Ind, PerformSource0Ind, ServeMainInd, SleepInd,
     ReceiveInd, WokenInd, HandleInd, EndOfIterationInd, RunReturnsInd DEF LoopStep
<1>2. CASE \E r \in program.runs : Run(r)
  BY <1>2, RunInd
<1>3. ASSUME NEW w \in Wakers,
             \/ WakeUp(w) \/ RemoveInvalid(w)
             \/ \E s \in Sources0 : Signal(w, s)
             \/ \E s \in program.removes : Invalidate(w, s)
             \/ \E m \in Modes : PerformBlock(w, m)
             \/ \E m \in program.stops : StopMode(w, m) \/ Stop(w)
      PROVE  IndInv'
  BY <1>3, WakeUpInd, RemoveInvalidInd, SignalInd, InvalidateInd, PerformBlockInd,
     StopModeInd, StopInd
<1>4. CASE \E p \in program.sends : Send(p)
  BY <1>4, SendInd
<1>5. CASE \E i \in 1..Len(stack) : Expire(i) \/ Timeout(i)
  BY <1>5, ExpireInd, TimeoutInd
<1>6. CASE TimeoutWakes
  BY <1>6, TimeoutWakesInd
<1>7. CASE UNCHANGED vars
  <2>1. TypeOK
    BY DEF IndInv
  <2>2. TypeOK' /\ Notice' = Notice
    BY <1>7, <2>1 DEF vars, TypeOK, Notice
  <2>3. \A b \in Activations : Unseen(b)' => Unseen(b)
    BY <1>7 DEF vars, Unseen, Ready
  <2> QED BY <1>7, <2>2, <2>3, SameStack DEF vars
<1> QED BY <1>1, <1>2, <1>3, <1>4, <1>5, <1>6, <1>7 DEF Next

(* The inductive invariant of the run loop.                                *)
THEOREM Invariance == Spec => []IndInv
<1> QED BY InitInd, IndStep, PTL DEF Spec

(* Type correctness of the model.                                          *)
THEOREM TypeCorrect == Spec => []TypeOK
<1>1. IndInv => TypeOK
  BY DEF IndInv
<1> QED BY <1>1, Invariance, PTL

(* Blocks stay in the order they were posted, and none is held twice,      *)
(* while activations take the whole list, run what is of their mode and    *)
(* put the rest back before what came meanwhile (__CFRunLoopDoBlocks,      *)
(* CFRunLoop.c:1603-1650): for any number of threads that post and any     *)
(* nesting of runs.                                                        *)
THEOREM BlocksStayInOrder == Spec => []BlocksInOrder
<1>1. IndInv => BlocksInOrder
  BY DEF IndInv
<1> QED BY <1>1, Invariance, PTL

(* The loop does not sleep over a source, a block, a stop or a time-out    *)
(* whose thread has finished waking it up (__CFRunLoopRun,                 *)
(* CFRunLoop.c:2393-2460, CFRunLoopWakeUp, 2693-2712), although wake-ups   *)
(* are ignored between two sleeps: for any number of threads and any       *)
(* programs that nest runs only where wake-ups are ignored.                *)
THEOREM NoWakeupLost == Spec => []NoLostWakeup
<1>1. IndInv => NoLostWakeup
  <2> SUFFICES ASSUME IndInv, program.nests \subseteq IgnoredNests,
                      Asleep, Wake \notin ports, ~alarm, \A w \in Wakers : post[w] # "wake"
               PROVE  ~Pending
    BY DEF NoLostWakeup, WakesUp
  <2>1. Running /\ Top.pc = "waiting" /\ ~Top.poll
    BY DEF Asleep, At
  <2>2. PICK b \in Activations : b = Top /\ ActivationOK(b) /\ Inner(b)
    BY <2>1, TopInv DEF Inner
  <2>3. b.pc = "waiting" /\ Place(b) = b.pc /\ ~b.poll
    BY <2>1, <2>2 DEF Place
  <2>4. ~b.handled
    BY <2>2, <2>3 DEF ActivationOK, PastPoll, PastSources
  <2>5. ~Excused(b)
    BY <2>3, <2>4 DEF Excused, PastStops, PastBlocks, PastSources, PastPoll
  <2>6. ~Notice
    BY DEF Notice
  <2>7. ~Unseen(b)
    BY <2>2, <2>5, <2>6 DEF Inner
  <2>8. blocks \in Seq(Blocks)
    BY DEF IndInv, TypeOK
  <2>9. DOMAIN blocks = 1..Len(blocks)
    BY <2>8
  <2> QED BY <2>2, <2>3, <2>7, <2>9 DEF Pending, Unseen, Ready, PastBlocks, PastSources, PastPoll
<1> QED BY <1>1, Invariance, PTL

-----------------------------------------------------------------------------
(* Callouts inside callouts.                                               *)

(* What a step of the innermost activation, from b to a, may come to call  *)
(* out to: observers that are not in a callout, and the main queue if no   *)
(* activation is in its callout or it served it before.                    *)
Reaches(a, b) ==
    /\ \A o \in Observers : o \in a.todo => o \in b.todo \/ o \notin firing
    /\ a.queue => b.queue \/ ~InMainQueue
    /\ a.live = Main => b.live = Main \/ b.queue
    /\ a.pc = "callout" /\ a.callout \in Observers => a.callout \in b.todo
    /\ a.pc = "callout" /\ a.callout = "main" => b.live = Main

(* Such a step keeps the callouts in order,                                *)
LEMMA CalloutsTop ==
    ASSUME TypeOK, ActivationsOK, CalloutsOK, Running, NEW a \in Activations,
           stack' = With(a), Reaches(a, Top),
           a.pc = "callout" /\ a.callout \in Observers => a.callout \in firing',
           \A o \in firing : o \in firing' \/ (Top.pc = "callout" /\ Top.callout = o)
    PROVE  CalloutsOK'
<1>1. PICK n \in Nat \ {0} : n = Len(stack) /\ Top = stack[n] /\ Top \in Activations /\ n \in 1..n
  BY StackTop
<1>2. Len(stack') = n /\ stack'[n] = a /\ \A i \in 1..n : i # n => stack'[i] = stack[i]
  BY <1>1, StackWith
<1>3. \A i \in 1..(n - 1) : i \in 1..n /\ i # n /\ stack[i].pc = "callout" /\ n \in (i + 1)..n
  BY <1>1 DEF ActivationsOK
<1>4. \A i \in 1..(n - 1) : stack[i].callout \in Observers => stack[i].callout \in firing
  BY <1>1, <1>3 DEF CalloutsOK
<1>5. \A i \in 1..(n - 1) : OutOfReach(stack[i], Top)
  BY <1>1, <1>3 DEF CalloutsOK
<1>6. \A i \in 1..(n - 1) : stack[i].callout \in Observers => stack[i].callout \in firing'
  BY <1>4, <1>5 DEF OutOfReach
<1>7. \A i \in 1..(n - 1) : OutOfReach(stack[i], a)
  <2> SUFFICES ASSUME NEW i \in 1..(n - 1) PROVE OutOfReach(stack[i], a)
    OBVIOUS
  <2>1. ASSUME stack[i].callout \in Observers
        PROVE  stack[i].callout \notin a.todo
               /\ (a.pc = "callout" => a.callout # stack[i].callout)
    BY <1>4, <1>5, <2>1 DEF OutOfReach, Reaches
  <2>2. ASSUME stack[i].callout = "main"
        PROVE  /\ ~a.queue /\ a.live # Main
               /\ (a.pc = "callout" => a.callout # "main")
    <3>1. InMainQueue
      BY <1>1, <1>3, <2>2 DEF InMainQueue
    <3> QED BY <1>5, <2>2, <3>1 DEF OutOfReach, Reaches
  <2> QED BY <2>1, <2>2 DEF OutOfReach
<1>8. \A i \in 1..n : stack'[i].pc = "callout" /\ stack'[i].callout \in Observers =>
                         stack'[i].callout \in firing'
  <2> SUFFICES ASSUME NEW i \in 1..n
               PROVE  stack'[i].pc = "callout" /\ stack'[i].callout \in Observers =>
                         stack'[i].callout \in firing'
    OBVIOUS
  <2>1. CASE i = n
    BY <1>2, <2>1
  <2>2. CASE i # n
    <3>1. i \in 1..(n - 1) /\ stack'[i] = stack[i]
      BY <1>2, <2>2
    <3> QED BY <1>6, <3>1
  <2> QED BY <2>1, <2>2
<1>9. \A i \in 1..n : \A j \in (i + 1)..n : OutOfReach(stack'[i], stack'[j])
  <2> SUFFICES ASSUME NEW i \in 1..n, NEW j \in (i + 1)..n
               PROVE  OutOfReach(stack'[i], stack'[j])
    OBVIOUS
  <2>1. i \in 1..(n - 1) /\ stack'[i] = stack[i]
    BY <1>2
  <2>2. CASE j = n
    BY <1>2, <1>7, <2>1, <2>2
  <2>3. CASE j # n
    <3>1. j \in 1..n /\ stack'[j] = stack[j]
      BY <1>2, <2>3
    <3>2. OutOfReach(stack[i], stack[j])
      BY <1>1 DEF CalloutsOK
    <3> QED BY <2>1, <3>1, <3>2
  <2> QED BY <2>2, <2>3
<1> QED BY <1>2, <1>8, <1>9 DEF CalloutsOK

(* ... if it sets the firing bit of the observer that it calls out to, and *)
(* clears it only on the way back.                                         *)
CalloutsKept ==
    \E a \in Activations :
       /\ stack' = With(a) /\ Reaches(a, Top)
       /\ a.pc = "callout" /\ a.callout \in Observers => a.callout \in firing'
       /\ \A o \in firing : o \in firing' \/ (Top.pc = "callout" /\ Top.callout = o)

(* Every step of the loop is one, but a return.                            *)
LEMMA CalloutsLoop ==
    ASSUME IndInv, TypeOK', LoopStep, ~RunReturns
    PROVE  CalloutsKept
<1>1. PICK b \in Activations : b = Top /\ ActivationOK(b)
  <2>1. Running
    BY DEF LoopStep, DoObservers, Notify, Return, Prologue, TakeBlocks, RunBlock,
       PutBlocksBack, CollectSources0, PerformSource0, ServeMain, Sleep, Receive,
       Woken, Handle, EndOfIteration, RunReturns, At
  <2> QED BY <2>1, TopInv DEF Inner
<1>2. \A e : stack' = With(e) => e \in Activations
  <2>1. Running
    BY DEF LoopStep, DoObservers, Notify, Return, Prologue, TakeBlocks, RunBlock,
       PutBlocksBack, CollectSources0, PerformSource0, ServeMain, Sleep, Receive,
       Woken, Handle, EndOfIteration, RunReturns, At
  <2>2. stack \in Seq(Activations) /\ stack' \in Seq(Activations) /\ stack # <<>>
    BY <2>1 DEF IndInv, TypeOK, Running
  <2>3. PICK n \in Nat \ {0} : n = Len(stack) /\ n \in 1..n
    BY <2>2
  <2> SUFFICES ASSUME NEW e, stack' = With(e) PROVE e \in Activations
    OBVIOUS
  <2>4. stack' = [stack EXCEPT ![n] = e]
    BY <2>3 DEF With
  <2>5. stack'[n] = e /\ n \in DOMAIN stack'
    BY <2>2, <2>3, <2>4
  <2> QED BY <2>2, <2>5
<1>3. \A e : e \in Activations /\ stack' = With(e) /\ Reaches(e, b)
             /\ (e.pc = "callout" => e.callout \notin Observers) /\ firing' = firing
             => CalloutsKept
  BY <1>1 DEF CalloutsKept
<1>4. \A e : e \in Activations /\ stack' = With(e) /\ firing' = firing
             /\ e.pc # "callout" /\ e.todo \subseteq b.todo /\ e.queue = b.queue
             /\ e.live \in {b.live, None}
             => CalloutsKept
  <2> SUFFICES ASSUME NEW e \in Activations, stack' = With(e), firing' = firing,
                      e.pc # "callout", e.todo \subseteq b.todo, e.queue = b.queue,
                      e.live \in {b.live, None}
               PROVE  CalloutsKept
    OBVIOUS
  <2>1. Reaches(e, b)
    BY DEF Reaches, Main, None
  <2> QED BY <1>3, <2>1
<1>5. \A x \in DOMAIN ObserverStages : Stage[ObserverStages[x]] # "callout"
  BY StageNext
<1>6. Stage["exit"] # "callout" /\ Stage["beforeTimers"] # "callout"
      /\ Stage["beforeWaiting"] # "callout" /\ Stage["afterWaiting"] # "callout"
      /\ Stage["sleep"] # "callout" /\ Stage["handle"] # "callout"
  BY StageFacts
<1>7. "main" \notin Sources \cup Observers /\ Sources \cap Observers = {}
      /\ Sources1 \subseteq Sources /\ Sources0 \subseteq Sources
  BY RunLoopAssumption DEF Main, Sources
<1>8. CASE DoObservers
  <2>1. Top.pc \in DOMAIN ObserverStages
    BY <1>8, RunLoopAssumption DEF DoObservers, Observed, ObserverStages
  <2>2. PICK t, p : /\ stack' = With([b EXCEPT !.todo = t, !.then = Stage[ObserverStages[Top.pc]], !.pc = p])
                    /\ t = {o \in (Observers \cap valid) \ firing : Top.pc \in Activities[o]}
                    /\ p \in {Stage[ObserverStages[Top.pc]], "notify"}
    BY <1>1, <1>8 DEF DoObservers
  <2>3. PICK a \in Activations :
            a = [b EXCEPT !.todo = t, !.then = Stage[ObserverStages[Top.pc]], !.pc = p]
            /\ stack' = With(a)
    BY <1>2, <2>2
  <2>4. a.todo = t /\ a.pc = p /\ a.queue = b.queue /\ a.live = b.live
    BY <2>3 DEF Activations
  <2>5. a.pc # "callout"
    BY <1>5, <2>1, <2>2, <2>4
  <2>6. \A o \in t : o \notin firing
    BY <2>2
  <2>7. Reaches(a, b)
    BY <2>4, <2>5, <2>6 DEF Reaches
  <2> QED BY <1>3, <1>8, <2>3, <2>5, <2>7 DEF DoObservers
<1>9. CASE Notify
  <2>1. b.pc = "notify"
    BY <1>1, <1>9 DEF Notify, At
  <2>2. CASE b.todo = {}
    <3>1. PICK a \in Activations : a = [b EXCEPT !.pc = b.then] /\ stack' = With(a)
      BY <1>1, <1>2, <1>9, <2>2 DEF Notify, Goto
    <3>2. a.pc = b.then /\ a.todo = b.todo /\ a.queue = b.queue /\ a.live = b.live
      BY <3>1 DEF Activations
    <3>3. b.then # "callout"
      BY <1>1, <1>5, <2>1 DEF ActivationOK
    <3> QED BY <1>1, <1>4, <1>9, <2>2, <3>1, <3>2, <3>3 DEF Notify
  <2>3. CASE b.todo # {} /\ First(b.todo) \in valid
    <3>1. PICK o : o = First(b.todo)
      OBVIOUS
    <3>2. o \in b.todo
      BY <2>3, <3>1, FirstIn DEF Activations
    <3>3. /\ firing' = firing \cup {o}
          /\ stack' = With([b EXCEPT !.todo = @ \ {o}, !.pc = "callout", !.callout = o])
      BY <1>1, <1>9, <2>3, <3>1 DEF Notify
    <3>4. PICK a \in Activations :
              a = [b EXCEPT !.todo = @ \ {o}, !.pc = "callout", !.callout = o]
              /\ stack' = With(a)
      BY <1>2, <3>3
    <3>5. a.todo \subseteq b.todo /\ a.queue = b.queue /\ a.live = b.live /\ a.callout = o
      BY <3>4 DEF Activations
    <3>6. o \in Observers
      BY <1>1, <2>1, <3>2 DEF ActivationOK
    <3>7. Reaches(a, b)
      BY <1>7, <3>2, <3>5, <3>6 DEF Reaches, Main
    <3>8. a.callout \in firing' /\ (\A x \in firing : x \in firing')
      BY <3>3, <3>5
    <3> QED BY <1>1, <3>4, <3>7, <3>8 DEF CalloutsKept
  <2>4. CASE b.todo # {} /\ First(b.todo) \notin valid
    <3>1. PICK a \in Activations :
              a = [b EXCEPT !.todo = @ \ {First(b.todo)}] /\ stack' = With(a)
      BY <1>1, <1>2, <1>9, <2>4 DEF Notify
    <3>2. a.todo \subseteq b.todo /\ a.queue = b.queue /\ a.live = b.live /\ a.pc = b.pc
      BY <3>1 DEF Activations
    <3> QED BY <1>1, <1>4, <1>9, <2>1, <2>4, <3>1, <3>2 DEF Notify
  <2> QED BY <2>2, <2>3, <2>4
<1>10. CASE Return
  <2>1. b.pc = "callout"
    BY <1>1, <1>10 DEF Return, At
  <2>2. CASE b.callout \in Observers
    <3>1. PICK a \in Activations :
              a = [b EXCEPT !.callout = None, !.pc = "notify"] /\ stack' = With(a)
      BY <1>1, <1>2, <1>10, <2>2 DEF Return
    <3>2. a.todo = b.todo /\ a.queue = b.queue /\ a.live = b.live /\ a.pc = "notify"
      BY <3>1 DEF Activations
    <3>3. Reaches(a, b)
      BY <3>2 DEF Reaches
    <3>4. firing' = firing \ {b.callout}
      BY <1>1, <1>10, <2>2 DEF Return
    <3> QED BY <1>1, <2>1, <3>1, <3>2, <3>3, <3>4 DEF CalloutsKept
  <2>3. CASE b.callout \notin Observers
    <3>1. PICK p : p = IF b.callout = "block" THEN "runBlocks" ELSE b.then
      OBVIOUS
    <3>2. PICK a \in Activations :
              a = [b EXCEPT !.callout = None, !.pc = p] /\ stack' = With(a)
      BY <1>1, <1>2, <1>10, <2>3, <3>1 DEF Return
    <3>3. a.todo = b.todo /\ a.queue = b.queue /\ a.live = b.live /\ a.pc = p
      BY <3>2 DEF Activations
    <3>4. p # "callout"
      BY <1>1, <2>1, <2>3, <3>1 DEF ActivationOK
    <3> QED BY <1>1, <1>4, <1>10, <2>3, <3>2, <3>3, <3>4 DEF Return
  <2> QED BY <2>2, <2>3
<1>11. CASE Prologue
  <2>1. PICK q, p, f : /\ q = MainSafe(b.mode) /\ p \in {Stage["exit"], Stage["beforeTimers"]}
                    /\ \/ stack' = With([b EXCEPT !.stopped = FALSE, !.queue = q, !.pc = p])
                       \/ stack' = With([b EXCEPT !.stopped = FALSE, !.queue = q,
                                            !.ignoring = FALSE, !.handled = FALSE,
                                            !.poll = FALSE, !.pc = p])
    BY <1>1, <1>11 DEF Prologue, Iteration
  <2>2. PICK a \in Activations :
            /\ \/ a = [b EXCEPT !.stopped = FALSE, !.queue = q, !.pc = p]
               \/ a = [b EXCEPT !.stopped = FALSE, !.queue = q,
                                            !.ignoring = FALSE, !.handled = FALSE,
                                            !.poll = FALSE, !.pc = p]
            /\ stack' = With(a)
    BY <1>2, <2>1
  <2>3. a.todo = b.todo /\ a.queue = q /\ a.live = b.live /\ a.pc = p
    BY <2>2 DEF Activations
  <2>4. q => ~InMainQueue
    BY <2>1 DEF MainSafe
  <2>5. Reaches(a, b)
    BY <1>6, <2>1, <2>3, <2>4 DEF Reaches
  <2> QED BY <1>3, <1>6, <1>11, <2>1, <2>2, <2>3, <2>5 DEF Prologue
<1>12. CASE TakeBlocks
  <2>1. PICK p, q : /\ q \in {"sources", "poll", "end"} /\ p \in {q, "runBlocks"}
                    /\ stack' = With([b EXCEPT !.then = q, !.run = blocks, !.pc = p])
    <3>1. b.pc \in {"blocks", "blocksAgain", "blocksLast"}
      BY <1>1, <1>12 DEF TakeBlocks, BlockStages
    <3>2. BlockStages[b.pc] \in {"sources", "poll", "end"}
      BY <3>1 DEF BlockStages
    <3> QED BY <1>1, <1>12, <3>2 DEF TakeBlocks
  <2>2. PICK a \in Activations :
            a = [b EXCEPT !.then = q, !.run = blocks, !.pc = p] /\ stack' = With(a)
    BY <1>2, <2>1
  <2>3. a.todo = b.todo /\ a.queue = b.queue /\ a.live = b.live /\ a.pc = p
    BY <2>2 DEF Activations
  <2> QED BY <1>4, <1>12, <2>1, <2>2, <2>3 DEF TakeBlocks
<1>13. CASE RunBlock
  <2>1. b.pc = "runBlocks"
    BY <1>1, <1>13 DEF RunBlock, At
  <2>2. PICK a \in Activations :
            /\ \/ a = [b EXCEPT !.run = Tail(@), !.pc = "callout", !.callout = "block"]
               \/ a = [b EXCEPT !.run = Tail(@), !.keep = Append(@, Head(b.run))]
            /\ stack' = With(a)
    BY <1>1, <1>2, <1>13 DEF RunBlock
  <2>3. /\ a.todo = b.todo /\ a.queue = b.queue /\ a.live = b.live
        /\ a.pc = "callout" => a.callout = "block"
    BY <2>1, <2>2 DEF Activations
  <2>4. "block" \notin Observers /\ "block" # "main"
    BY RunLoopAssumption
  <2>5. Reaches(a, b)
    BY <2>3, <2>4 DEF Reaches
  <2> QED BY <1>3, <1>13, <2>2, <2>3, <2>4, <2>5 DEF RunBlock
<1>14. CASE PutBlocksBack
  <2>1. PICK a \in Activations :
            a = [b EXCEPT !.keep = <<>>, !.pc = b.then] /\ stack' = With(a)
    BY <1>1, <1>2, <1>14 DEF PutBlocksBack
  <2>2. a.todo = b.todo /\ a.queue = b.queue /\ a.live = b.live /\ a.pc = b.then
    BY <2>1 DEF Activations
  <2>3. b.then # "callout"
    BY <1>1, <1>14 DEF PutBlocksBack, At, ActivationOK
  <2> QED BY <1>4, <1>14, <2>1, <2>2, <2>3 DEF PutBlocksBack
<1>15. CASE CollectSources0
  <2>1. PICK t, p : /\ t \subseteq Sources0 /\ p \in {"poll", "perform"}
                    /\ stack' = With([b EXCEPT !.todo = t, !.pc = p])
    BY <1>1, <1>15 DEF CollectSources0
  <2>2. PICK a \in Activations : a = [b EXCEPT !.todo = t, !.pc = p] /\ stack' = With(a)
    BY <1>2, <2>1
  <2>3. a.todo = t /\ a.queue = b.queue /\ a.live = b.live /\ a.pc = p
    BY <2>2 DEF Activations
  <2>4. Reaches(a, b)
    BY <1>7, <2>1, <2>3 DEF Reaches
  <2> QED BY <1>3, <1>15, <2>1, <2>2, <2>3, <2>4 DEF CollectSources0
<1>16. CASE PerformSource0
  <2>1. b.pc = "perform"
    BY <1>1, <1>16 DEF PerformSource0, At
  <2> DEFINE gone(s) == [b EXCEPT !.todo = @ \ {s}]
             called(s) == [gone(s) EXCEPT !.handled = TRUE, !.pc = "callout",
                                          !.callout = s, !.then = "perform"]
  <2>2. PICK s, p : /\ p \in {"blocksAgain", "poll"}
                    /\ \/ stack' = With([b EXCEPT !.todo = {}, !.pc = p])
                       \/ stack' = With(gone(s))
                       \/ stack' = With(called(s)) /\ s \in signaled
    <3>1. CASE b.todo = {} \/ (b.after /\ b.handled)
      <4>1. stack' = With([b EXCEPT !.todo = {},
                              !.pc = IF b.handled THEN "blocksAgain" ELSE "poll"])
        BY <1>1, <1>16, <3>1 DEF PerformSource0
      <4> QED BY <4>1
    <3>2. CASE ~(b.todo = {} \/ (b.after /\ b.handled))
      <4>1. PICK s : s = First(b.todo)
        OBVIOUS
      <4>2. stack' = With(gone(s)) \/ (stack' = With(called(s)) /\ s \in signaled)
        BY <1>1, <1>16, <3>2, <4>1 DEF PerformSource0, CallOut
      <4> QED BY <4>2
    <3> QED BY <3>1, <3>2
  <2>3. PICK a \in Activations :
            /\ \/ a = [b EXCEPT !.todo = {}, !.pc = p]
               \/ a = gone(s)
               \/ a = called(s) /\ s \in signaled
            /\ stack' = With(a)
    BY <1>2, <2>2
  <2>4. /\ a.todo \subseteq b.todo /\ a.queue = b.queue /\ a.live = b.live
        /\ a.pc = "callout" => a.callout = s /\ s \in signaled
    <3>1. ASSUME a = [b EXCEPT !.todo = {}, !.pc = p]
          PROVE  a.todo = {} /\ a.queue = b.queue /\ a.live = b.live /\ a.pc = p
      BY <3>1 DEF Activations
    <3>2. ASSUME a = gone(s)
          PROVE  a.todo = b.todo \ {s} /\ a.queue = b.queue /\ a.live = b.live /\ a.pc = b.pc
      BY <3>2 DEF Activations
    <3>3. ASSUME a = called(s)
          PROVE  a.todo = b.todo \ {s} /\ a.queue = b.queue /\ a.live = b.live
                 /\ a.callout = s
      BY <3>3 DEF Activations
    <3> QED BY <2>1, <2>2, <2>3, <3>1, <3>2, <3>3
  <2>5. signaled \subseteq Sources
    BY <1>7 DEF IndInv, TypeOK
  <2>6. a.pc = "callout" => a.callout \notin Observers /\ a.callout # "main"
    BY <1>7, <2>4, <2>5
  <2>7. Reaches(a, b)
    BY <2>4, <2>6 DEF Reaches
  <2> QED BY <1>3, <1>16, <2>3, <2>6, <2>7 DEF PerformSource0
<1>17. CASE ServeMain
  <2>1. PICK q, p : /\ q = (b.handled \/ b.timed = "now")
                    /\ p = Stage[IF q THEN "sleep" ELSE "beforeWaiting"]
    OBVIOUS
  <2>2. CASE b.queue /\ ~b.didMain /\ Main \in ports
    <3>1. PICK a \in Activations :
              a = [b EXCEPT !.poll = q, !.live = Main, !.pc = "handle"] /\ stack' = With(a)
      BY <1>1, <1>2, <1>17, <2>1, <2>2 DEF ServeMain
    <3>2. a.todo = b.todo /\ a.queue = b.queue /\ a.pc = "handle"
      BY <3>1 DEF Activations
    <3>3. Reaches(a, b)
      BY <2>2, <3>2 DEF Reaches
    <3> QED BY <1>3, <1>17, <3>1, <3>2, <3>3 DEF ServeMain
  <2>3. CASE ~(b.queue /\ ~b.didMain /\ Main \in ports)
    <3>1. PICK a \in Activations :
              a = [b EXCEPT !.poll = q, !.didMain = FALSE, !.pc = p] /\ stack' = With(a)
      BY <1>1, <1>2, <1>17, <2>1, <2>3 DEF ServeMain
    <3>2. a.todo = b.todo /\ a.queue = b.queue /\ a.live = b.live /\ a.pc = p
      BY <3>1 DEF Activations
    <3> QED BY <1>4, <1>6, <1>17, <2>1, <3>1, <3>2 DEF ServeMain
  <2> QED BY <2>2, <2>3
<1>18. CASE Sleep
  <2>1. PICK a \in Activations : a = [b EXCEPT !.pc = "waiting"] /\ stack' = With(a)
    BY <1>1, <1>2, <1>18 DEF Sleep, Goto
  <2>2. a.todo = b.todo /\ a.queue = b.queue /\ a.live = b.live /\ a.pc = "waiting"
    BY <2>1 DEF Activations
  <2> QED BY <1>4, <1>18, <2>1, <2>2 DEF Sleep
<1>19. CASE Receive
  <2>0. PICK p : \/ stack' = With([b EXCEPT !.live = p, !.pc = "woken"]) /\ p \in WaitSet
                 \/ stack' = With([b EXCEPT !.pc = "woken"])
    BY <1>1, <1>19 DEF Receive, Goto
  <2>1. PICK a \in Activations :
            /\ \/ a = [b EXCEPT !.live = p, !.pc = "woken"] /\ p \in WaitSet
               \/ a = [b EXCEPT !.pc = "woken"]
            /\ stack' = With(a)
    BY <1>2, <2>0
  <2>2. /\ a.todo = b.todo /\ a.queue = b.queue /\ a.pc = "woken"
        /\ a.live = b.live \/ a.live \in WaitSet
    BY <2>1 DEF Activations
  <2>3. Main \in WaitSet => b.queue
    BY <1>1, <1>7 DEF WaitSet, Main, Wake
  <2>4. Reaches(a, b)
    BY <2>2, <2>3 DEF Reaches
  <2> QED BY <1>3, <1>19, <2>1, <2>2, <2>4 DEF Receive
<1>20. CASE Woken
  <2>1. PICK p : p = Stage[IF b.poll THEN "handle" ELSE "afterWaiting"]
    OBVIOUS
  <2>2. PICK a \in Activations : a = [b EXCEPT !.ignoring = TRUE, !.pc = p] /\ stack' = With(a)
    BY <1>1, <1>2, <1>20, <2>1 DEF Woken
  <2>3. a.todo = b.todo /\ a.queue = b.queue /\ a.live = b.live /\ a.pc = p
    BY <2>2 DEF Activations
  <2> QED BY <1>4, <1>6, <1>20, <2>1, <2>2, <2>3 DEF Woken
<1>21. CASE Handle
  <2> DEFINE done == [b EXCEPT !.ignoring = TRUE, !.live = None, !.pc = "blocksLast"]
             ofMain == [b EXCEPT !.ignoring = TRUE, !.live = None, !.handled = TRUE,
                                 !.didMain = TRUE, !.pc = "callout",
                                 !.callout = "main", !.then = "blocksLast"]
             ofSource == [b EXCEPT !.ignoring = TRUE, !.live = None, !.handled = TRUE,
                                   !.pc = "callout",
                                   !.callout = b.live, !.then = "blocksLast"]
  <2>0. \/ stack' = With(done)
        \/ stack' = With(ofMain) /\ b.live = Main
        \/ stack' = With(ofSource) /\ b.live \in Sources
    <3>1. CASE b.live \in {None, Wake}
      <4>1. b.live # Main
        BY <3>1 DEF Main, None, Wake
      <4>2. stack' = With(done)
        BY <1>1, <1>21, <3>1, <4>1 DEF Handle
      <4> QED BY <4>2
    <3>2. CASE b.live = Main
      <4>1. b.live \notin {None, Wake}
        BY <3>2 DEF Main, None, Wake
      <4>2. stack' = With(ofMain)
        BY <1>1, <1>21, <3>2, <4>1 DEF Handle, CallOut
      <4> QED BY <3>2, <4>2
    <3>3. CASE b.live \notin {None, Wake, Main}
      <4>1. b.live \in Sources
        BY <1>7, <3>3 DEF Activations
      <4>2. stack' = With(done) \/ stack' = With(ofSource)
        BY <1>1, <1>21, <3>3 DEF Handle, CallOut
      <4> QED BY <4>1, <4>2
    <3> QED BY <3>1, <3>2, <3>3
  <2>1. PICK a \in Activations :
            /\ \/ a = done
               \/ a = ofMain /\ b.live = Main
               \/ a = ofSource /\ b.live \in Sources
            /\ stack' = With(a)
    BY <1>2, <2>0
  <2>2. /\ a.todo = b.todo /\ a.queue = b.queue /\ a.live = None
        /\ a.pc = "callout" => (a.callout = "main" /\ b.live = Main) \/ a.callout \in Sources
    BY <2>1 DEF Activations
  <2>3. Reaches(a, b) /\ (a.pc = "callout" => a.callout \notin Observers)
    BY <1>7, <2>2 DEF Reaches, Main, None
  <2> QED BY <1>3, <1>21, <2>1, <2>3 DEF Handle
<1>22. CASE EndOfIteration
  <2> DEFINE exits(s, p) == [b EXCEPT !.stopped = s, !.pc = p]
             goesOn(s, p) == [b EXCEPT !.stopped = s, !.ignoring = FALSE, !.handled = FALSE,
                                       !.poll = FALSE, !.pc = p]
  <2>0. PICK s, p : /\ p \in {Stage["exit"], Stage["beforeTimers"]}
                    /\ stack' = With(exits(s, p)) \/ stack' = With(goesOn(s, p))
    BY <1>1, <1>22 DEF EndOfIteration, Iteration
  <2>1. PICK a \in Activations : (a = exits(s, p) \/ a = goesOn(s, p)) /\ stack' = With(a)
    BY <1>2, <2>0
  <2>2. a.todo = b.todo /\ a.queue = b.queue /\ a.live = b.live /\ a.pc = p
    BY <2>1 DEF Activations
  <2> QED BY <1>4, <1>6, <1>22, <2>0, <2>1, <2>2 DEF EndOfIteration
<1> QED BY <1>8, <1>9, <1>10, <1>11, <1>12, <1>13, <1>14, <1>15, <1>16, <1>17, <1>18, <1>19,
           <1>20, <1>21, <1>22 DEF LoopStep

(* Steps that leave the callouts alone.                                    *)
LEMMA CalloutsSame ==
    ASSUME TypeOK, CalloutsOK, Len(stack') = Len(stack), firing' = firing,
           \A i \in 1..Len(stack) :
              /\ stack'[i].pc = stack[i].pc /\ stack'[i].callout = stack[i].callout
              /\ stack'[i].todo = stack[i].todo /\ stack'[i].queue = stack[i].queue
              /\ stack'[i].live = stack[i].live
    PROVE  CalloutsOK'
<1>1. PICK n \in Nat : n = Len(stack)
  BY DEF TypeOK
<1>2. \A i \in 1..n : stack[i].pc = "callout" /\ stack[i].callout \in Observers =>
                         stack[i].callout \in firing
  BY <1>1 DEF CalloutsOK
<1>3. \A i \in 1..n : \A j \in (i + 1)..n : OutOfReach(stack[i], stack[j])
  BY <1>1 DEF CalloutsOK
<1>4. \A i \in 1..n : \A j \in (i + 1)..n : OutOfReach(stack'[i], stack'[j])
  <2> SUFFICES ASSUME NEW i \in 1..n, NEW j \in (i + 1)..n
               PROVE  OutOfReach(stack'[i], stack'[j])
    OBVIOUS
  <2>1. j \in 1..n /\ OutOfReach(stack[i], stack[j])
    BY <1>3
  <2> QED BY <1>1, <2>1 DEF OutOfReach
<1> QED BY <1>1, <1>2, <1>4 DEF CalloutsOK

(* The callouts stay in order.                                             *)
LEMMA CalloutsStep == IndInv /\ IndInv' /\ CalloutsOK /\ [Next]_vars => CalloutsOK'
<1> SUFFICES ASSUME IndInv, IndInv', CalloutsOK, [Next]_vars PROVE CalloutsOK'
  OBVIOUS
<1>1. TypeOK /\ ActivationsOK /\ TypeOK' /\ stack \in Seq(Activations)
  BY DEF IndInv, TypeOK
<1>2. CASE LoopStep /\ ~RunReturns
  <2>1. Running
    BY <1>2 DEF LoopStep, DoObservers, Notify, Return, Prologue, TakeBlocks, RunBlock,
       PutBlocksBack, CollectSources0, PerformSource0, ServeMain, Sleep, Receive,
       Woken, Handle, EndOfIteration, RunReturns, At
  <2>2. CalloutsKept
    BY <1>1, <1>2, CalloutsLoop
  <2> QED BY <1>1, <2>1, <2>2, CalloutsTop DEF CalloutsKept
<1>3. CASE RunReturns
  <2>1. /\ stack' = SubSeq(stack, 1, Len(stack) - 1) /\ stack # <<>> /\ firing' = firing
    BY <1>3 DEF RunReturns, At, Running
  <2>2. PICK n \in Nat \ {0} : n = Len(stack)
    BY <1>1, <2>1, Rests
  <2>3. Len(stack') = n - 1 /\ \A i \in 1..(n - 1) : stack'[i] = stack[i]
    BY <1>1, <2>1, <2>2, Rests
  <2>4. \A i \in 1..(n - 1) :
           /\ stack[i].pc = "callout" /\ stack[i].callout \in Observers =>
                 stack[i].callout \in firing
           /\ \A j \in (i + 1)..(n - 1) : OutOfReach(stack[i], stack[j])
    BY <2>2 DEF CalloutsOK
  <2>5. \A i \in 1..(n - 1) : \A j \in (i + 1)..(n - 1) : j \in 1..(n - 1)
    OBVIOUS
  <2>6. \A i \in 1..(n - 1) : \A j \in (i + 1)..(n - 1) : OutOfReach(stack'[i], stack'[j])
    BY <2>3, <2>4, <2>5
  <2> QED BY <2>1, <2>3, <2>4, <2>6 DEF CalloutsOK
<1>4. ASSUME NEW r \in program.runs, Run(r)
      PROVE  CalloutsOK'
  <2>1. PICK n \in Nat : n = Len(stack)
    BY <1>1
  <2>2. PICK a : /\ stack' = Append(stack, a) /\ a.pc = Stage["entry"] /\ a.todo = {}
                 /\ ~a.queue /\ a.live = None
    BY <1>4 DEF Run
  <2>3. /\ Len(stack') = n + 1 /\ stack'[n + 1] = a
        /\ \A i \in 1..n : stack'[i] = stack[i]
    BY <1>1, <2>1, <2>2
  <2>4. a.pc # "callout"
    BY <2>2, StageFacts
  <2>5. \A b : OutOfReach(b, a)
    BY <2>2, <2>4 DEF OutOfReach, Main, None
  <2>6. \A i \in 1..n :
           /\ stack[i].pc = "callout" /\ stack[i].callout \in Observers =>
                 stack[i].callout \in firing
           /\ \A j \in (i + 1)..n : OutOfReach(stack[i], stack[j])
    BY <2>1 DEF CalloutsOK
  <2>7. firing' = firing
    BY <1>4 DEF Run
  <2>8. \A i \in 1..(n + 1) :
           stack'[i].pc = "callout" /\ stack'[i].callout \in Observers =>
              stack'[i].callout \in firing'
    <3> SUFFICES ASSUME NEW i \in 1..(n + 1), stack'[i].pc = "callout"
                 PROVE  stack'[i].callout \in Observers => stack'[i].callout \in firing'
      OBVIOUS
    <3>1. i \in 1..n /\ stack'[i] = stack[i]
      BY <2>3, <2>4
    <3> QED BY <2>6, <2>7, <3>1
  <2>9. \A i \in 1..(n + 1) : \A j \in (i + 1)..(n + 1) : OutOfReach(stack'[i], stack'[j])
    <3> SUFFICES ASSUME NEW i \in 1..(n + 1), NEW j \in (i + 1)..(n + 1)
                 PROVE  OutOfReach(stack'[i], stack'[j])
      OBVIOUS
    <3>1. i \in 1..n /\ stack'[i] = stack[i]
      BY <2>3
    <3>2. CASE j = n + 1
      BY <2>3, <2>5, <3>2
    <3>3. CASE j # n + 1
      <4>1. j \in 1..n /\ j \in (i + 1)..n /\ stack'[j] = stack[j]
        BY <2>3, <3>3
      <4> QED BY <2>6, <3>1, <4>1
    <3> QED BY <3>2, <3>3
  <2> QED BY <2>3, <2>8, <2>9 DEF CalloutsOK
<1>5. ASSUME UNCHANGED <<stack, firing>> PROVE CalloutsOK'
  BY <1>1, <1>5, CalloutsSame
<1>6. ASSUME NEW i \in 1..Len(stack), Expire(i) \/ Timeout(i)
      PROVE  CalloutsOK'
  <2>1. PICK b \in Activations : b = stack[i]
    BY <1>1
  <2>2. PICK a : /\ a = [b EXCEPT !.late = TRUE] \/ a = [b EXCEPT !.timed = "now"]
                 /\ stack' = [stack EXCEPT ![i] = a]
    <3>1. CASE Expire(i)
      <4>1. stack' = [stack EXCEPT ![i] = [b EXCEPT !.late = TRUE]]
        BY <1>1, <2>1, <3>1 DEF Expire
      <4> QED BY <4>1
    <3>2. CASE Timeout(i)
      <4>1. stack' = [stack EXCEPT ![i] = [b EXCEPT !.timed = "now"]]
        BY <1>1, <2>1, <3>2 DEF Timeout
      <4> QED BY <4>1
    <3> QED BY <1>6, <3>1, <3>2
  <2>3. /\ a.pc = b.pc /\ a.callout = b.callout /\ a.todo = b.todo /\ a.queue = b.queue
        /\ a.live = b.live
    BY <2>2 DEF Activations
  <2>4. Len(stack') = Len(stack) /\ \A j \in 1..Len(stack) : j # i => stack'[j] = stack[j]
    BY <1>1, <2>2
  <2>5. stack'[i] = a
    BY <1>1, <2>2
  <2>6. firing' = firing
    BY <1>6 DEF Expire, Timeout
  <2> QED BY <1>1, <2>1, <2>3, <2>4, <2>5, <2>6, CalloutsSame
<1>7. ASSUME NEW w \in Wakers, NEW m \in Modes, Stop(w)
      PROVE  CalloutsOK'
  <2>1. PICK n \in Nat \ {0} : n = Len(stack) /\ Top = stack[n] /\ Top \in Activations /\ n \in 1..n
    BY <1>1, <1>7, StackTop DEF Stop
  <2>2. PICK b \in Activations : b = stack[n]
    BY <2>1
  <2>3. PICK a : a = [b EXCEPT !.stopped = TRUE]
    OBVIOUS
  <2>4. stack' = [stack EXCEPT ![n] = a] /\ firing' = firing
    BY <1>7, <2>1, <2>2, <2>3 DEF Stop, With
  <2>5. /\ a.pc = b.pc /\ a.callout = b.callout /\ a.todo = b.todo /\ a.queue = b.queue
        /\ a.live = b.live
    BY <2>3 DEF Activations
  <2>6. Len(stack') = n /\ stack'[n] = a /\ \A j \in 1..n : j # n => stack'[j] = stack[j]
    BY <1>1, <2>1, <2>4
  <2> QED BY <1>1, <2>1, <2>2, <2>4, <2>5, <2>6, CalloutsSame
<1>8. ASSUME NEW w \in Wakers,
             \/ WakeUp(w) \/ RemoveInvalid(w)
             \/ \E s \in Sources0 : Signal(w, s)
             \/ \E s \in program.removes : Invalidate(w, s)
             \/ \E m \in Modes : PerformBlock(w, m)
             \/ \E m \in program.stops : StopMode(w, m)
      PROVE  CalloutsOK'
  BY <1>5, <1>8 DEF WakeUp, RemoveInvalid, Signal, Invalidate, PerformBlock, StopMode
<1>9. CASE \E p \in program.sends : Send(p)
  BY <1>5, <1>9 DEF Send
<1>10. CASE TimeoutWakes
  BY <1>5, <1>10 DEF TimeoutWakes
<1>11. CASE UNCHANGED vars
  BY <1>5, <1>11 DEF vars
<1>12. \A m \in program.stops : m \in Modes
  BY <1>1, RunLoopAssumption DEF TypeOK
<1> QED BY <1>2, <1>3, <1>4, <1>6, <1>7, <1>8, <1>9, <1>10, <1>11, <1>12 DEF Next, LoopStep

(* Neither an observer nor the main queue is called out to from inside its *)
(* own callout (the firing bit, CFRunLoop.c:1665, and libdispatchQSafe,    *)
(* 2327-2329): for any nesting of runs, in any callouts and modes.         *)
THEOREM NeverReentered == Spec => []NotReentered
<1>1. Init => CalloutsOK
  BY DEF Init, CalloutsOK
<1>2. IndInv /\ CalloutsOK => NotReentered
  <2> SUFFICES ASSUME IndInv, CalloutsOK, NEW i \in 1..Len(stack), NEW j \in 1..Len(stack),
                      i < j, stack[j].pc = "callout", stack[i].callout = stack[j].callout
               PROVE  stack[j].callout \notin Observers \cup {"main"}
    BY DEF NotReentered
  <2>1. j \in (i + 1)..Len(stack)
    BY DEF IndInv, TypeOK
  <2>2. OutOfReach(stack[i], stack[j])
    BY <2>1 DEF CalloutsOK
  <2> QED BY <2>2 DEF OutOfReach
<1> QED BY <1>1, <1>2, Invariance, CalloutsStep, PTL DEF Spec
=============================================================================
