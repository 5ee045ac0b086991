---------------------------- MODULE MCInitialize -----------------------------
(* A small instance of Initialize for TLC: a root class, a class, its       *)
(* subclass and another class of the root, under every program in which the *)
(* classes' +initialize methods do not wait for each other in a circle.     *)
EXTENDS Initialize

CONSTANTS Root, A, B, C, t1, t2

MCSuperclass == (Root :> NoClass) @@ (A :> Root) @@ (B :> A) @@ (C :> Root)
MCSends == (t1 :> {B}) @@ (t2 :> {C, A})

\* What a class's +initialize may have to wait for.
Needs(p, c) ==
    UNION {UNION {Line(m) : m \in p.messages[d]} : d \in Implementers(p, c)}
        \ Line(c)

Acyclic(p) ==
    \A S \in SUBSET Classes \ {{}} : \E c \in S : Needs(p, c) \cap S = {}

MCPrograms ==
    {p \in [own : {S \cup {Root} : S \in SUBSET {A, B, C}},
            messages : [Classes -> SUBSET {A, B, C}]] :
        /\ \A c \in Classes : /\ c \notin p.messages[c]
                              /\ c \notin p.own \ {Root} => p.messages[c] = {}
        /\ Acyclic(p)}
=============================================================================
