---- MODULE MCWeakReferences ----
(***************************************************************************)
(* Instances of WeakReferences for TLC: two objects of one class that is   *)
(* not initialized yet, in two side tables; nil shares the second one.     *)
(***************************************************************************)
EXTENDS WeakReferences, TLC

CONSTANTS a, b, C

MCClassOf == [o \in {a, b} |-> C]
MCTableOf == [o \in {a, b, Nil} |-> IF o = a THEN 1 ELSE 2]

Symmetry == Permutations(Threads) \cup Permutations(Locations)
====
