---- MODULE MCObjcSync ----
(***************************************************************************)
(* Instances of ObjcSync for TLC: two objects in one list, a third in      *)
(* another one.                                                            *)
(***************************************************************************)
EXTENDS ObjcSync, TLC

CONSTANTS a, b, c

MCListOf == [o \in Objects |-> IF o = c THEN 2 ELSE 1]
MCSameRank == [o \in Objects |-> 0]
MCRank == [o \in Objects |-> IF o = a THEN 1 ELSE IF o = b THEN 2 ELSE 3]

Symmetry == Permutations(Threads) \cup Permutations(Datas)
====
