---- MODULE MCRootRefcount ----
(***************************************************************************)
(* Instances of RootRefcount for TLC.                                      *)
(***************************************************************************)
EXTENDS RootRefcount, TLC

Symmetry == Permutations(Threads) \cup Permutations(Refs)
====
