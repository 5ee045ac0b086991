---- MODULE ClassNames_proofs ----
(***************************************************************************)
(* Proofs about ClassNames, for every set of class structures and every    *)
(* assignment of names, where no image is mapped again at an address at    *)
(* which a class was remapped (with it both theorems are false).           *)
(*                                                                         *)
(* TablesFit is kept by IndInv.  A class may be removed from the tables    *)
(* safely because no other class that is there has its metaclass, which    *)
(* is RemapsOK: a future class that was taken has the metaclass of the     *)
(* structure it stands for, which is not there itself and leads to no      *)
(* other class.                                                            *)
(***************************************************************************)
EXTENDS ClassNames, TLAPS

\* Two classes that are there do not share a metaclass.
LEMMA MetasDiffer ==
    ASSUME NamesAssumption, TypeOK, KindsOK, RemapsOK,
           NEW c \in Classes, NEW d \in Classes, Live(c), Live(d), meta[c] = meta[d]
    PROVE  c = d
  BY DEF NamesAssumption, TypeOK, KindsOK, RemapsOK, Live, Classes, remapClass

-----------------------------------------------------------------------------
(* The invariant holds at first, and every operation keeps it.             *)

\* No class is there at first.
LEMMA InitOK == ASSUME NamesAssumption, Init PROVE IndInv
<1> USE DEF NamesAssumption, Init, Classes
<1>1. TypeOK
  BY DEF TypeOK, Names
<1>2. KindsOK
  BY DEF KindsOK
<1>3. RemapsOK
  BY DEF RemapsOK
<1>4. AllocatedOK
  BY DEF AllocatedOK
<1>5. TablesFit
  BY DEF TablesFit, Live
<1> QED BY <1>1, <1>2, <1>3, <1>4, <1>5 DEF IndInv

\* A class that is ignored enters no table but the remapping.
LEMMA readIgnoredClassOK ==
    ASSUME NamesAssumption, ~AddressesReused, IndInv,
           NEW c \in Classes, readIgnoredClass(c)
    PROVE  IndInv'
<1> USE DEF NamesAssumption, readIgnoredClass, Mappable, addRemappedClass, Classes
<1>1. TypeOK'
  BY DEF IndInv, TypeOK
<1>2. KindsOK'
  <2>1. \A d \in Classes : status'[d] = IF d = c THEN "ignored" ELSE status[d]
    BY DEF IndInv, TypeOK
  <2>2. c \notin Futures /\ c \notin Made /\ c \in Compiled /\ NameOf[c] \in Names
    BY DEF Names
  <2> QED BY <2>1, <2>2 DEF IndInv, KindsOK
<1>3. RemapsOK'
  BY DEF IndInv, TypeOK, KindsOK, RemapsOK, remapClass
<1>4. AllocatedOK'
  BY DEF IndInv, TypeOK, KindsOK, AllocatedOK
<1>5. TablesFit'
  BY DEF IndInv, TypeOK, KindsOK, TablesFit, Live, isKnownClass
<1> QED BY <1>1, <1>2, <1>3, <1>4, <1>5 DEF IndInv

\* A future class that is taken is found from then on, by the name unless it
\* is in use, and leads from the structure it replaces.
LEMMA readFutureClassOK ==
    ASSUME NamesAssumption, ~AddressesReused, IndInv,
           NEW c \in Classes, readFutureClass(c)
    PROVE  IndInv'
<1> DEFINE n == NameOf[c]
           new == future[n]
<1>0. /\ c \in Compiled /\ status[c] = "absent" /\ c \notin DOMAIN remapped
      /\ n \in Names /\ new \in Futures /\ c # new
      /\ status[new] = "future" /\ name[new] = n
      /\ future' = [future EXCEPT ![n] = Nil]
      /\ status' = [status EXCEPT ![c] = "replaced", ![new] = "mapped"]
      /\ meta' = [meta EXCEPT ![new] = c]
      /\ remapped' = [d \in DOMAIN remapped \cup {c} |-> IF d = c THEN new ELSE remapped[d]]
      /\ allocated' = allocated \cup {new}
      /\ UNCHANGED <<name, asked>>
      /\ named[n] # c
      /\ IF named[n] # Nil
         THEN nonMeta' = [nonMeta EXCEPT ![c] = new] /\ UNCHANGED named
         ELSE named' = [named EXCEPT ![n] = new] /\ UNCHANGED nonMeta
  BY DEF NamesAssumption, readFutureClass, Mappable, addRemappedClass, addNamedClass,
         addClassTableEntry, getClass, IndInv, TypeOK, TablesFit, Names, Classes, Live
<1> USE DEF NamesAssumption, Classes
<1> HIDE DEF n, new
<1>1. TypeOK'
  BY <1>0 DEF IndInv, TypeOK
<1>2. KindsOK'
  <2>1. \A d \in Classes :
           status'[d] = IF d = c THEN "replaced" ELSE IF d = new THEN "mapped" ELSE status[d]
    BY <1>0 DEF IndInv, TypeOK
  <2>2. c \notin Futures /\ c \notin Made /\ new \notin Compiled /\ new \notin Made
    BY <1>0
  <2>3. name[c] \in Names /\ name[new] \in Names
    BY <1>0 DEF IndInv, KindsOK, n
  <2>4. \A d \in Compiled :
           /\ status'[d] \in {"absent", "mapped", "ignored", "replaced"}
           /\ name'[d] = NameOf[d]
    <3>1. name' = name
      BY <1>0
    <3>2. \A d \in Compiled : status'[d] = status[d] \/ status'[d] = "replaced"
      BY <2>1, <2>2
    <3> QED BY <3>1, <3>2 DEF IndInv, KindsOK
  <2>5. \A d \in Futures : status'[d] \in {"absent", "future", "mapped"}
    BY <2>1, <2>2 DEF IndInv, KindsOK
  <2>6. \A d \in Made : status'[d] \in {"absent", "constructing", "constructed"}
    BY <2>1, <2>2 DEF IndInv, KindsOK
  <2>7. \A d \in Classes : status'[d] # "absent" => name'[d] \in Names
    BY <1>0, <2>1, <2>3 DEF IndInv, KindsOK
  <2> QED BY <2>4, <2>5, <2>6, <2>7 DEF KindsOK
<1>3. RemapsOK'
  BY <1>0 DEF IndInv, TypeOK, KindsOK, RemapsOK, remapClass
<1>4. AllocatedOK'
  BY <1>0 DEF IndInv, TypeOK, KindsOK, AllocatedOK
<1>5. TablesFit'
  BY <1>0 DEF IndInv, TypeOK, KindsOK, RemapsOK, AllocatedOK, TablesFit, Live, isKnownClass
<1> QED BY <1>1, <1>2, <1>3, <1>4, <1>5 DEF IndInv

\* A class that is read is found, by the name unless it is in use.
LEMMA readClassOK ==
    ASSUME NamesAssumption, ~AddressesReused, IndInv,
           NEW c \in Classes, readClass(c)
    PROVE  IndInv'
<1> DEFINE n == NameOf[c]
<1>0. /\ c \in Compiled /\ status[c] = "absent" /\ c \notin DOMAIN remapped
      /\ n \in Names /\ name[c] = n /\ meta[c] = c
      /\ \A d \in Classes : status'[d] = IF d = c THEN "mapped" ELSE status[d]
      /\ status' = [status EXCEPT ![c] = "mapped"]
      /\ UNCHANGED <<name, meta, future, remapped, asked, allocated>>
      /\ named[n] # c /\ nonMeta[c] = Nil
      /\ IF named[n] # Nil
         THEN nonMeta' = [nonMeta EXCEPT ![c] = c] /\ UNCHANGED named
         ELSE named' = [named EXCEPT ![n] = c] /\ UNCHANGED nonMeta
  BY DEF NamesAssumption, readClass, Mappable, addNamedClass, addClassTableEntry, getClass,
         IndInv, TypeOK, KindsOK, RemapsOK, TablesFit, Names, Classes, Live, remapClass
<1> USE DEF NamesAssumption, Classes
<1> HIDE DEF n
<1>1. TypeOK'
  BY <1>0 DEF IndInv, TypeOK
<1>2. KindsOK'
  BY <1>0 DEF IndInv, KindsOK
<1>3. RemapsOK'
  BY <1>0 DEF IndInv, KindsOK, RemapsOK, remapClass
<1>4. AllocatedOK'
  BY <1>0 DEF IndInv, AllocatedOK
<1>5. TablesFit'
  BY <1>0 DEF IndInv, TypeOK, KindsOK, RemapsOK, AllocatedOK, TablesFit, Live, isKnownClass
<1> QED BY <1>1, <1>2, <1>3, <1>4, <1>5 DEF IndInv

\* What detach_class removes is what leads to the class.
LEMMA DetachExact ==
    ASSUME NamesAssumption, IndInv, NEW r \in Classes, detach_class(r),
           status[r] \in {"mapped", "constructing", "constructed"},
           status'[r] = "absent", UNCHANGED <<name, meta, future>>,
           \A d \in Classes \ {r} :
               \/ status'[d] = status[d]
               \/ status[d] = "replaced" /\ status'[d] = "absent"
    PROVE  /\ TablesFit' /\ AllocatedOK'
           /\ named' \in [Names -> Classes \cup {Nil}]
           /\ nonMeta' \in [Classes -> Classes \cup {Nil}]
           /\ allocated' \subseteq Futures \cup Made
<1> USE DEF NamesAssumption, Classes
<1>1. /\ allocated' = allocated \ {r}
      /\ IF named[name[r]] = r
         THEN named' = [named EXCEPT ![name[r]] = Nil] /\ UNCHANGED nonMeta
         ELSE nonMeta' = [nonMeta EXCEPT ![meta[r]] = Nil] /\ UNCHANGED named
  BY DEF detach_class, removeNamedClass
<1>2. /\ name[r] \in Names /\ meta[r] \in Classes
      /\ \A d \in Classes \ {r} : Live(d)' <=> Live(d)
      /\ ~Live(r)'
  BY DEF IndInv, TypeOK, KindsOK, Live
<1>3. nonMeta[meta[r]] \in {Nil, r}
  <2> SUFFICES ASSUME nonMeta[meta[r]] # Nil PROVE nonMeta[meta[r]] = r
    OBVIOUS
  <2> DEFINE d == nonMeta[meta[r]]
  <2>1. d \in Classes /\ Live(d) /\ meta[d] = meta[r]
    BY <1>2 DEF IndInv, TypeOK, TablesFit
  <2>2. CASE Live(r)
    BY <2>1, <2>2, MetasDiffer DEF IndInv
  <2>3. CASE ~Live(r)
    <3>1. r \in Made /\ meta[r] = r
      BY <2>3 DEF IndInv, KindsOK, RemapsOK, Live
    <3> QED BY <2>1, <3>1 DEF IndInv, KindsOK, RemapsOK, Live
  <2> QED BY <2>2, <2>3
<1>4. AllocatedOK'
  BY <1>1 DEF IndInv, AllocatedOK
<1>5. TablesFit'
  <2>1. \A d \in Classes : Live(d)' =>
           isKnownClass(d)' /\ (named'[name'[d]] = d) # (nonMeta'[meta'[d]] = d)
    BY <1>1, <1>2, <1>3 DEF IndInv, TypeOK, KindsOK, TablesFit, isKnownClass, Live
  <2>2. \A n \in Names : named'[n] # Nil => Live(named[n])' /\ name'[named'[n]] = n
    <3> SUFFICES ASSUME NEW n \in Names, named'[n] # Nil
                 PROVE  Live(named[n])' /\ name'[named'[n]] = n
      OBVIOUS
    <3>1. named'[n] = named[n] /\ named[n] # r
      BY <1>1, <1>2 DEF IndInv, TypeOK, TablesFit
    <3> QED BY <1>2, <3>1 DEF IndInv, TypeOK, TablesFit, Live
  <2>3. \A n \in Names : future'[n] # Nil =>
           status'[future'[n]] = "future" /\ name'[future'[n]] = n
    BY DEF IndInv, TypeOK, TablesFit
  <2>4. \A m \in Classes : nonMeta'[m] # Nil => Live(nonMeta[m])' /\ meta'[nonMeta'[m]] = m
    <3> SUFFICES ASSUME NEW m \in Classes, nonMeta'[m] # Nil
                 PROVE  Live(nonMeta[m])' /\ meta'[nonMeta'[m]] = m
      OBVIOUS
    <3>1. nonMeta'[m] = nonMeta[m] /\ nonMeta[m] # r
      <4>1. nonMeta'[m] = nonMeta[m]
        BY <1>1, <1>2 DEF IndInv, TypeOK
      <4>2. nonMeta[m] = r => Live(r) /\ meta[r] = m /\ nonMeta[meta[r]] = r
        BY DEF IndInv, TablesFit
      <4>3. Live(r) /\ nonMeta[meta[r]] = r => named[name[r]] # r
        BY <1>2 DEF IndInv, TablesFit
      <4>4. named[name[r]] # r => nonMeta'[meta[r]] = Nil
        BY <1>1, <1>2 DEF IndInv, TypeOK
      <4> QED BY <4>1, <4>2, <4>3, <4>4
    <3> QED BY <1>2, <3>1 DEF IndInv, TypeOK, TablesFit, Live
  <2>5. \A d \in allocated' : status'[d] \in {"mapped", "constructing", "constructed"}
    BY <1>1 DEF IndInv, TypeOK, TablesFit
  <2> QED BY <2>1, <2>2, <2>3, <2>4, <2>5 DEF TablesFit, Live
<1> QED BY <1>1, <1>2, <1>4, <1>5 DEF IndInv, TypeOK

\* An image that is unmapped takes its class away, or the one it was taken for.
LEMMA unloadImageOK ==
    ASSUME NamesAssumption, ~AddressesReused, IndInv,
           NEW c \in Classes, _unload_image(c)
    PROVE  IndInv'
<1> DEFINE old == remapClass(c)
<1> USE DEF NamesAssumption, Classes
<1>0. /\ c \in Compiled /\ old \in Classes \cup {Nil} /\ status[c] # "absent"
      /\ \A d \in Classes : status'[d] = IF d = c \/ d = old THEN "absent" ELSE status[d]
      /\ status' \in [Classes -> {"absent", "mapped", "ignored", "replaced", "future",
                                  "constructing", "constructed"}]
      /\ UNCHANGED <<name, meta, future, remapped, asked>>
      /\ IF old = Nil THEN UNCHANGED <<named, nonMeta, allocated>> ELSE detach_class(old)
  BY DEF _unload_image, IndInv, TypeOK, remapClass
<1>1. \/ status[c] = "mapped" /\ old = c
      \/ status[c] = "ignored" /\ old = Nil
      \/ status[c] = "replaced" /\ old \in Futures /\ status[old] = "mapped" /\ meta[old] = c
  BY <1>0 DEF IndInv, KindsOK, RemapsOK, remapClass
<1> HIDE DEF old
<1>2. /\ TablesFit' /\ AllocatedOK'
      /\ named' \in [Names -> Classes \cup {Nil}]
      /\ nonMeta' \in [Classes -> Classes \cup {Nil}]
      /\ allocated' \subseteq Futures \cup Made
  <2>1. CASE old = Nil
    BY <1>0, <1>1, <2>1 DEF IndInv, TypeOK, KindsOK, AllocatedOK, TablesFit, Live, isKnownClass
  <2>2. CASE old \in Classes
    <3>1. status[old] = "mapped" /\ status'[old] = "absent"
      BY <1>0, <1>1, <2>2
    <3>2. \A d \in Classes \ {old} :
               \/ status'[d] = status[d]
               \/ status[d] = "replaced" /\ status'[d] = "absent"
      BY <1>0, <1>1, <2>2
    <3> HIDE DEF NamesAssumption, Classes
    <3>3. detach_class(old)
      BY <1>0, <2>2, <3>1 DEF NamesAssumption, Classes
    <3> QED BY <1>0, <2>2, <3>1, <3>2, <3>3, DetachExact
  <2> QED BY <1>0, <2>1, <2>2
<1>3. TypeOK'
  BY <1>0, <1>2 DEF IndInv, TypeOK
<1>4. KindsOK'
  BY <1>0 DEF IndInv, KindsOK
<1>5. RemapsOK'
  <2>1. \A f \in Futures : status'[f] = "mapped" => meta[f] # c
    BY <1>0, <1>1 DEF IndInv, RemapsOK, remapClass, old
  <2>2. \A d \in Compiled : status'[d] = "replaced" =>
           status'[remapped[d]] = "mapped"
    BY <1>0, <1>1 DEF IndInv, RemapsOK
  <2>3. \A f \in Futures : status'[f] = "mapped" =>
           /\ meta[f] \in Compiled /\ status'[meta[f]] = "replaced"
           /\ remapClass(meta[f]) = f
    <3> SUFFICES ASSUME NEW f \in Futures, status'[f] = "mapped"
                 PROVE  /\ meta[f] \in Compiled /\ status'[meta[f]] = "replaced"
                        /\ remapClass(meta[f]) = f
      OBVIOUS
    <3>1. status[f] = "mapped" /\ meta[f] # c
      BY <1>0, <2>1
    <3>2. /\ meta[f] \in Compiled /\ status[meta[f]] = "replaced"
          /\ remapClass(meta[f]) = f
      BY <3>1 DEF IndInv, RemapsOK
    <3>3. meta[f] # old
      BY <1>1, <3>1, <3>2
    <3> QED BY <1>0, <3>1, <3>2, <3>3
  <2>4. \A d \in Compiled : status'[d] # "absent" => status'[d] = status[d]
    BY <1>0
  <2>5. \A d \in Compiled :
           /\ status'[d] = "mapped" => d \notin DOMAIN remapped
           /\ status'[d] = "ignored" => d \in DOMAIN remapped /\ remapped[d] = Nil
           /\ status'[d] = "replaced" =>
                 /\ d \in DOMAIN remapped /\ remapped[d] \in Futures
                 /\ status'[remapped[d]] = "mapped" /\ meta[remapped[d]] = d
    BY <2>2, <2>4 DEF IndInv, RemapsOK
  <2>6. \A d \in Compiled \cup Made : meta'[d] = d
    BY <1>0 DEF IndInv, RemapsOK
  <2>7. meta' = meta /\ remapped' = remapped
    BY <1>0
  <2> QED BY <2>3, <2>5, <2>6, <2>7 DEF RemapsOK, remapClass
<1> QED BY <1>2, <1>3, <1>4, <1>5 DEF IndInv

\* A look-up changes no table.
LEMMA getFutureClassOK ==
    ASSUME NamesAssumption, IndInv, NEW n \in Names, getFutureClass(n)
    PROVE  IndInv'
  BY DEF getFutureClass, IndInv, TypeOK, KindsOK, RemapsOK, AllocatedOK, TablesFit,
         Live, isKnownClass, remapClass

\* A reservation is of a name that no other reserves.
LEMMA allocateFutureClassOK ==
    ASSUME NamesAssumption, IndInv, NEW n \in Names, _objc_allocateFutureClass(n)
    PROVE  IndInv'
<1> USE DEF NamesAssumption, Classes
<1>1. CASE future[n] # Nil
  BY <1>1 DEF _objc_allocateFutureClass, IndInv, TypeOK, KindsOK, RemapsOK,
         AllocatedOK, TablesFit, Live, isKnownClass, remapClass
<1>2. CASE future[n] = Nil
  <2>1. PICK f \in Futures :
           /\ status[f] = "absent"
           /\ status' = [status EXCEPT ![f] = "future"]
           /\ name' = [name EXCEPT ![f] = n]
           /\ future' = [future EXCEPT ![n] = f]
    BY <1>2 DEF _objc_allocateFutureClass
  <2>2. /\ UNCHANGED <<meta, named, nonMeta, allocated, remapped>>
        /\ asked' \subseteq asked
    BY DEF _objc_allocateFutureClass
  <2>3. /\ \A d \in Classes : status'[d] = IF d = f THEN "future" ELSE status[d]
        /\ \A d \in Classes : name'[d] = IF d = f THEN n ELSE name[d]
    BY <2>1 DEF IndInv, TypeOK
  <2>4. \A d \in Classes : Live(d)' => Live(d) /\ d # f
    BY <2>1, <2>3 DEF Live
  <2>5. TypeOK'
    BY <2>1, <2>2 DEF IndInv, TypeOK
  <2>6. KindsOK'
    BY <2>3 DEF IndInv, KindsOK
  <2>7. RemapsOK'
    BY <2>1, <2>2, <2>3 DEF IndInv, RemapsOK, remapClass
  <2>8. AllocatedOK'
    BY <2>1, <2>2, <2>3 DEF IndInv, AllocatedOK
  <2>9. TablesFit'
    BY <2>1, <2>2, <2>3, <2>4 DEF IndInv, TypeOK, KindsOK, AllocatedOK, TablesFit, Live, isKnownClass
  <2> QED BY <2>5, <2>6, <2>7, <2>8, <2>9 DEF IndInv
<1> QED BY <1>1, <1>2

\* A class that is being made is on the heap and not yet found.
LEMMA allocateClassPairOK ==
    ASSUME NamesAssumption, IndInv, NEW c \in Classes, NEW n \in Names,
           objc_allocateClassPair(c, n)
    PROVE  IndInv'
<1> USE DEF NamesAssumption, Classes
<1>1. /\ c \in Made /\ c \notin Compiled /\ c \notin Futures /\ status[c] = "absent"
      /\ \A d \in Classes : status'[d] = IF d = c THEN "constructing" ELSE status[d]
      /\ \A d \in Classes : name'[d] = IF d = c THEN n ELSE name[d]
      /\ status' = [status EXCEPT ![c] = "constructing"]
      /\ name' = [name EXCEPT ![c] = n]
      /\ allocated' = allocated \cup {c}
      /\ UNCHANGED <<meta, named, nonMeta, future, remapped, asked>>
  BY DEF objc_allocateClassPair, addClassTableEntry, IndInv, TypeOK
<1>2. TypeOK'
  BY <1>1 DEF IndInv, TypeOK
<1>3. KindsOK'
  BY <1>1 DEF IndInv, KindsOK
<1>4. RemapsOK'
  BY <1>1 DEF IndInv, RemapsOK, remapClass
<1>5. AllocatedOK'
  BY <1>1 DEF IndInv, AllocatedOK
<1>6. TablesFit'
  BY <1>1 DEF IndInv, TypeOK, KindsOK, AllocatedOK, TablesFit, Live, isKnownClass
<1> QED BY <1>2, <1>3, <1>4, <1>5, <1>6 DEF IndInv

\* A class that is registered is found, by the name unless it is in use.
LEMMA registerClassPairOK ==
    ASSUME NamesAssumption, IndInv, NEW c \in Classes, objc_registerClassPair(c)
    PROVE  IndInv'
<1> USE DEF NamesAssumption, Classes
<1> DEFINE n == name[c]
<1>1. /\ c \in Made /\ c \notin Compiled /\ c \notin Futures
      /\ status[c] = "constructing"
      /\ n \in Names /\ meta[c] = c /\ named[n] # c /\ nonMeta[c] = Nil
      /\ \A d \in Classes : status'[d] = IF d = c THEN "constructed" ELSE status[d]
      /\ status' = [status EXCEPT ![c] = "constructed"]
      /\ UNCHANGED <<name, meta, allocated, future, remapped, asked>>
      /\ IF named[n] # Nil
         THEN nonMeta' = [nonMeta EXCEPT ![c] = c] /\ UNCHANGED named
         ELSE named' = [named EXCEPT ![n] = c] /\ UNCHANGED nonMeta
  BY DEF objc_registerClassPair, addNamedClass, getClass, IndInv, TypeOK, KindsOK,
         RemapsOK, TablesFit, Live, remapClass
<1> HIDE DEF n
<1>2. TypeOK'
  BY <1>1 DEF IndInv, TypeOK
<1>3. KindsOK'
  BY <1>1 DEF IndInv, KindsOK
<1>4. RemapsOK'
  BY <1>1 DEF IndInv, KindsOK, RemapsOK, remapClass
<1>5. AllocatedOK'
  BY <1>1 DEF IndInv, AllocatedOK
<1>6. TablesFit'
  BY <1>1 DEF n, IndInv, TypeOK, KindsOK, RemapsOK, AllocatedOK, TablesFit, Live, isKnownClass
<1> QED BY <1>2, <1>3, <1>4, <1>5, <1>6 DEF IndInv

\* A class that is disposed of is found no more, registered or not.
LEMMA disposeClassPairOK ==
    ASSUME NamesAssumption, IndInv, NEW c \in Classes, objc_disposeClassPair(c)
    PROVE  IndInv'
<1> USE DEF Classes
<1>1. /\ c \in Made /\ c \notin Compiled /\ c \notin Futures
      /\ status[c] \in {"constructing", "constructed"}
      /\ \A d \in Classes : status'[d] = IF d = c THEN "absent" ELSE status[d]
      /\ status' = [status EXCEPT ![c] = "absent"]
      /\ UNCHANGED <<name, meta, future, remapped, asked>>
      /\ detach_class(c)
  BY DEF NamesAssumption, objc_disposeClassPair, IndInv, TypeOK, KindsOK
<1>2. /\ TablesFit' /\ AllocatedOK'
      /\ named' \in [Names -> Classes \cup {Nil}]
      /\ nonMeta' \in [Classes -> Classes \cup {Nil}]
      /\ allocated' \subseteq Futures \cup Made
  <2> HIDE DEF Classes
  <2>1. /\ status[c] \in {"mapped", "constructing", "constructed"}
        /\ status'[c] = "absent"
        /\ \A d \in Classes \ {c} :
               \/ status'[d] = status[d]
               \/ status[d] = "replaced" /\ status'[d] = "absent"
    BY <1>1
  <2>2. UNCHANGED <<name, meta, future>> /\ detach_class(c)
    BY <1>1
  <2> QED BY <2>1, <2>2, DetachExact
<1>3. TypeOK'
  BY <1>1, <1>2 DEF IndInv, TypeOK
<1>4. KindsOK'
  BY <1>1 DEF IndInv, KindsOK
<1>5. RemapsOK'
  BY <1>1 DEF NamesAssumption, IndInv, KindsOK, RemapsOK, remapClass
<1> QED BY <1>2, <1>3, <1>4, <1>5 DEF IndInv

\* So does a step that changes nothing.
LEMMA StutterOK == ASSUME IndInv, UNCHANGED nameVars PROVE IndInv'
  BY DEF nameVars, IndInv, TypeOK, KindsOK, RemapsOK, AllocatedOK, TablesFit,
         Live, isKnownClass, remapClass

-----------------------------------------------------------------------------
(* The theorems.                                                           *)

\* Every operation keeps the invariant (objc-runtime-new.mm:927-1370).
LEMMA Invariance == ASSUME NamesAssumption, ~AddressesReused PROVE Spec => []IndInv
<1>1. ASSUME IndInv, Next PROVE IndInv'
  <2>1. ASSUME NEW c \in Classes,
               \/ readIgnoredClass(c) \/ readFutureClass(c) \/ readClass(c)
               \/ _unload_image(c) \/ objc_registerClassPair(c) \/ objc_disposeClassPair(c)
        PROVE  IndInv'
    BY <1>1, <2>1, readIgnoredClassOK, readFutureClassOK, readClassOK, unloadImageOK,
       registerClassPairOK, disposeClassPairOK
  <2>2. ASSUME NEW n \in Names,
               \/ getFutureClass(n) \/ _objc_allocateFutureClass(n)
               \/ \E c \in Classes : objc_allocateClassPair(c, n)
        PROVE  IndInv'
    BY <1>1, <2>2, getFutureClassOK, allocateFutureClassOK, allocateClassPairOK
  <2> QED BY <1>1, <2>1, <2>2 DEF Next
<1> QED BY <1>1, InitOK, StutterOK, PTL DEF Spec

\* Every class structure of an image that is mapped leads to a class that is
\* there, unless it is ignored (objc-runtime-new.mm:1334-1340).
THEOREM RemapsStayLive ==
    ASSUME NamesAssumption, ~AddressesReused PROVE Spec => []RemapsLive
<1>1. IndInv => RemapsLive
  <2> SUFFICES ASSUME IndInv, NEW c \in Compiled
               PROVE  /\ status[c] = "ignored" <=> (status[c] # "absent" /\ remapClass(c) = Nil)
                      /\ status[c] \in {"mapped", "replaced"} => Live(remapClass(c))
    BY DEF RemapsLive
  <2>1. c # Nil /\ Nil \notin Futures
    BY DEF NamesAssumption
  <2>2. status[c] \in {"absent", "mapped", "ignored", "replaced"}
    BY DEF IndInv, KindsOK
  <2>3. /\ status[c] = "mapped" => remapClass(c) = c
        /\ status[c] = "ignored" => remapClass(c) = Nil
        /\ status[c] = "replaced" =>
              remapClass(c) \in Futures /\ status[remapClass(c)] = "mapped"
    BY DEF IndInv, RemapsOK, remapClass
  <2> QED BY <2>1, <2>2, <2>3 DEF Live
<1> QED BY <1>1, Invariance, PTL

\* Every class that is there is found, by its name or else by its metaclass,
\* every entry of the tables leads to one that is there, and so does every
\* remapped reference (objc-runtime-new.mm:927-1370, 1910-2220).
THEOREM NamesStayExact ==
    ASSUME NamesAssumption, ~AddressesReused PROVE Spec => []NamesExact
<1>1. IndInv /\ RemapsLive => NamesExact
  BY DEF IndInv, NamesExact
<1> QED BY <1>1, Invariance, RemapsStayLive, PTL

====
