---- MODULE AbstractPool ----
(***************************************************************************)
(* What autorelease pools promise the code of a thread: its pending        *)
(* releases are one stack.  A push puts a boundary on it, an autorelease   *)
(* an object; the pop of a pool releases from the top, one entry at a      *)
(* time, everything above the pool's boundary and the boundary, whatever   *)
(* the released objects push in the meantime, and nothing below.           *)
(***************************************************************************)
EXTENDS Naturals, Sequences

CONSTANTS
    Objects,
    Boundary   \* the entry a push leaves

VARIABLES
    stack,   \* the pending releases, innermost last
    goals    \* for each pop in progress, the height it cuts the stack to

vars == <<stack, goals>>

Init == stack = <<>> /\ goals = <<>>

Push(entry) ==
    /\ stack' = Append(stack, entry)
    /\ UNCHANGED goals

(* A pop may take the stack down to a boundary, or, when the thread ends,  *)
(* to nothing.                                                             *)
BeginPop(height) ==
    /\ height # 0 => stack[height + 1] = Boundary
    /\ goals' = Append(goals, height)
    /\ UNCHANGED stack

Release ==
    /\ goals # <<>>
    /\ Len(stack) > goals[Len(goals)]
    /\ stack' = SubSeq(stack, 1, Len(stack) - 1)
    /\ UNCHANGED goals

EndPop ==
    /\ goals # <<>>
    /\ Len(stack) = goals[Len(goals)]
    /\ goals' = SubSeq(goals, 1, Len(goals) - 1)
    /\ UNCHANGED stack

(* The pop of a pool that holds nothing may be one step.                   *)
DropUnused ==
    /\ stack # <<>> /\ stack[Len(stack)] = Boundary
    /\ stack' = SubSeq(stack, 1, Len(stack) - 1)
    /\ UNCHANGED goals

Next ==
    \/ \E entry \in Objects \cup {Boundary} : Push(entry)
    \/ \E height \in 0 .. Len(stack) - 1 : BeginPop(height)
    \/ Release
    \/ EndPop
    \/ DropUnused

Spec == Init /\ [][Next]_vars
====
