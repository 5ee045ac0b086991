---- MODULE MCRunLoopModes ----
(***************************************************************************)
(* Instances of RunLoopModes for TLC: two modes, a timer that repeats and  *)
(* one that fires once, a source and an observer.                          *)
(***************************************************************************)
EXTENDS RunLoopModes, TLC

CONSTANTS default, tracking, repeats, once, source, observer

MCInterval == (repeats :> 2) @@ (once :> 0)
MCTolerance == (repeats :> 0) @@ (once :> 1)
MCFirstFire == (repeats :> 1) @@ (once :> 1)

First(D, T) == (default :> D) @@ (tracking :> T)
Nothing == [first |-> First({}, {}), adds |-> {}, removes |-> {},
            where |-> Modes \cup {Common}, invalidates |-> {}, sets |-> {},
            commons |-> {}, runs |-> {}, early |-> 0, until |-> 3]

\* A timer is set while another thread adds it to the mode that runs, which
\* has a timer that fires once.
Setting == [Nothing EXCEPT !.first = First({repeats}, {once}),
                           !.adds = {repeats}, !.where = {tracking},
                           !.sets = {repeats},
                           !.runs = {tracking}, !.until = 1]
\* A timer of two modes is set, also in its callout in one of them.
Calling == [Nothing EXCEPT !.first = First({repeats}, Timers),
                           !.sets = {repeats}, !.runs = {default}, !.until = 2]
\* Timers in two modes, which are run inside each other.
Nesting == [Nothing EXCEPT !.first = First(Timers, Timers),
                           !.removes = {once}, !.runs = Modes]
\* A timer is invalidated.
Ending == [Nothing EXCEPT !.adds = {repeats}, !.removes = {repeats},
                          !.invalidates = {repeats}, !.runs = {default},
                          !.until = 1]
\* The membership of sources and observers, and the common modes.
Joining == [Nothing EXCEPT !.adds = {source, observer},
                           !.removes = {source, observer},
                           !.invalidates = {source, observer},
                           !.commons = Modes, !.until = 0]
MCPrograms == {Setting, Calling, Nesting, Ending, Joining}
\* The kernel's timers fire a little early.
MCEarly == {[Setting EXCEPT !.early = 1]}
====
