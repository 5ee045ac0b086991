---- MODULE MCRunLoop ----
(***************************************************************************)
(* Instances of RunLoop for TLC: two modes, the first a common mode of the *)
(* main thread with a source of each version, and observers of the         *)
(* beginning and the end of a sleep.                                       *)
(***************************************************************************)
EXTENDS RunLoop, TLC

CONSTANTS default, tracking, s0, s1, before, after

MCSourcesOf == (default :> {s0, s1}) @@ (tracking :> {s0})
MCActivities == [o \in Observers |-> IF o = after THEN {"afterWaiting"}
                                     ELSE {"beforeWaiting"}]
MCOrder == (s0 :> 0) @@ (s1 :> 1) @@ (after :> 2) @@ (before :> 3)

Base == [mode |-> default, after |-> FALSE, timed |-> "never"]

\* Runs nested in callouts where wake-ups are ignored, and in blocks; runs
\* that are posted to, that end, that lose their sources, that are timed.
Nesting ==
    [runs |-> {Base, [mode |-> tracking, after |-> TRUE, timed |-> "never"]},
     nests |-> {after, "main"}, stops |-> {tracking}, removes |-> {},
     sends |-> {Main}, blocks |-> 0]
NestingBlocks ==
    [runs |-> {Base, [mode |-> tracking, after |-> TRUE, timed |-> "never"]},
     nests |-> {"block"}, stops |-> {}, removes |-> {},
     sends |-> {}, blocks |-> 2]
Posting ==
    [runs |-> {Base, [mode |-> default, after |-> TRUE, timed |-> "never"]},
     nests |-> {}, stops |-> {}, removes |-> {},
     sends |-> {Main, s1}, blocks |-> 2]
Ending ==
    [runs |-> {Base, [mode |-> default, after |-> TRUE, timed |-> "later"],
               [mode |-> default, after |-> FALSE, timed |-> "now"]},
     nests |-> {}, stops |-> {default}, removes |-> {},
     sends |-> {Main}, blocks |-> 0]
Losing ==
    [runs |-> {Base}, nests |-> {}, stops |-> {}, removes |-> {s0, s1},
     sends |-> {s1}, blocks |-> 1]
Timing ==
    [runs |-> {Base, [mode |-> tracking, after |-> FALSE, timed |-> "later"]},
     nests |-> {after}, stops |-> {}, removes |-> {},
     sends |-> {s1}, blocks |-> 0]

MCPrograms == {Nesting, NestingBlocks, Posting,
               Ending, Losing, Timing}
\* A run nested in an observer of the beginning of a sleep.
MCEarly == {[Timing EXCEPT !.nests = {before}]}
====
