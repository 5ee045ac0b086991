---- MODULE AbstractSync ----
(***************************************************************************)
(* What @synchronized promises a program: each object is a recursive lock. *)
(* A thread enters an object that no other thread is inside of, and may    *)
(* enter it again; leaving an object it is not inside of is an error that  *)
(* changes nothing.                                                        *)
(***************************************************************************)
EXTENDS Naturals

CONSTANTS
    Threads,
    Objects

VARIABLES
    depth,    \* depth[t][o]: how many times t is inside of o
    result    \* what the last call of each thread returned

vars == <<depth, result>>

Init ==
    /\ depth = [t \in Threads |-> [o \in Objects |-> 0]]
    /\ result = [t \in Threads |-> "success"]

Call(t) ==
    /\ result' = [result EXCEPT ![t] = "none"]
    /\ UNCHANGED depth

Enter(t, o) ==
    /\ result[t] = "none"
    /\ \A u \in Threads \ {t} : depth[u][o] = 0
    /\ depth' = [depth EXCEPT ![t][o] = @ + 1]
    /\ result' = [result EXCEPT ![t] = "success"]

(* Leaving never waits: it takes effect as it is called.                   *)
Leave(t, o) ==
    /\ result[t] # "none"
    /\ depth[t][o] > 0
    /\ depth' = [depth EXCEPT ![t][o] = @ - 1]
    /\ result' = [result EXCEPT ![t] = "success"]

(* The thread tried to leave o.                                            *)
Refuse(t, o) ==
    /\ result[t] = "none"
    /\ depth[t][o] = 0
    /\ result' = [result EXCEPT ![t] = "notOwning"]
    /\ UNCHANGED depth

Next ==
    \E t \in Threads :
        \/ Call(t)
        \/ \E o \in Objects : Enter(t, o) \/ Leave(t, o) \/ Refuse(t, o)

Spec == Init /\ [][Next]_vars
====
