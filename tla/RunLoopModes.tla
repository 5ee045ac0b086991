----------------------------- MODULE RunLoopModes -----------------------------
(***************************************************************************)
(* The items of a run loop's modes, RunLoop/CFRunLoop.c: sources,          *)
(* observers and timers added, removed and invalidated by other threads,   *)
(* and the timers, kept sorted in each mode, armed through one kernel      *)
(* timer a mode, called out to and scheduled again by the thread of the    *)
(* loop, whose program may run the loop again from a timer's callout.      *)
(*                                                                         *)
(* The loop holds its lock and its mode's from one step to the next but    *)
(* where it waits or calls out, and a call that adds to several modes all  *)
(* along; validity is changed and tested under the lock of the item alone, *)
(* or none.  An activation is abstracted to its wait for the timer port of *)
(* its mode: the rest is in RunLoop.                                       *)
(***************************************************************************)
EXTENDS Integers, Sequences, FiniteSets, SequencesExt, FiniteSetsExt

CONSTANTS
    Modes, Timers,
    Others,         \* the sources and the observers
    Observers,      \* those of Others that are observers
    Interval,       \* Interval[t]: 0 if timer t fires once
    Tolerance,
    FirstFire,      \* the fire time each timer is created with
    Movers,         \* the threads that add and remove items,
    Setters,        \* and those that set dates and invalidate items
    Programs,       \* what they call: a set of records of Program
    MaxNesting

Workers == Movers \cup Setters
Items == Timers \cup Others
Never == 1000       \* UINT64_MAX
Common == "common"  \* kCFRunLoopCommonModes
None == "none"

\* A program: the timers each mode has at first, the items it adds, removes
\* and where, the items it invalidates, the timers whose next fire date it
\* sets, the modes it adds to the common ones and the modes it runs, how
\* early the kernel's timers fire, and the bound of the time.
ASSUME ModesAssumption ==
    /\ \A t \in Timers : Interval[t] \in Nat /\ Tolerance[t] \in Nat
    /\ \A p \in Programs :
          /\ p.first \in [Modes -> SUBSET Timers]
          /\ p.adds \subseteq Items /\ p.removes \subseteq Items
          /\ p.where \subseteq Modes \cup {Common}
          /\ p.invalidates \subseteq Items /\ p.sets \subseteq Timers
          /\ p.commons \subseteq Modes /\ p.runs \subseteq Modes
          /\ p.early \in Nat /\ p.until \in Nat

VARIABLES
    program, now,
    stack,          \* the activations of the loop, the innermost one last
    mode,           \* mode[m]: _timers, the deadlines and the kernel's timer;
                    \* passed, for the properties alone: a change of the date
                    \* of one of its timers passed the mode by
    due,            \* the modes with a message in the port of their timer
    members,        \* members[m]: the sources and observers of m
    refs,           \* refs[i]: _rlCount, or the size of the bag _runLoops
    rlModes,        \* rlModes[t]: _rlModes of timer t; _runLoop if not empty
    fire,           \* fire[t]: _fireTSR
    firing, valid,
    commonModes, commonItems,
    calls,          \* calls[w]: what thread w is in the middle of
    overlapped      \* for the properties alone: the items invalidated while a
                    \* call that had found them valid was adding them

vars == <<program, now, stack, mode, due, members, refs, rlModes, fire, firing,
          valid, commonModes, commonItems, calls, overlapped>>

Running == stack # <<>>
Top == stack[Len(stack)]
With(a) == [stack EXCEPT ![Len(stack)] = a]
At(pc) == Running /\ Top.pc = pc
\* The locks of the loop and of its modes are free.
Free == /\ Running => Top.pc # "timers"
        /\ \A w \in Workers : calls[w].op # "adding"

-----------------------------------------------------------------------------
(* A mode's timers: r is mode[m], F _fireTSR, G the firing timers.         *)

\* __CFRunLoopInsertionIndexInTimerArray, a binary search for the place
\* after the timers that fire no later than at time f.
InsertionIndex(q, F, f) ==
    LET n == Len(q)
        leq(i) == i < n /\ F[q[i + 1]] <= f
        step(i, add) == IF leq(i + add) THEN i + add ELSE i
        search[s \in (0..n) \X (0..(2 * n))] ==
            LET i == step(s[1], s[2])
            IN  IF s[2] = 0 THEN (IF leq(s[1]) THEN i + 1 ELSE i)
                ELSE search[<<i, s[2] \div 2>>]
        bit == CHOOSE b \in {2, 4, 8, 16} : b \div 2 <= n /\ n < b
    IN  IF n = 0 THEN 0 ELSE search[<<0, bit>>]

Sorted(q, F) == \A i \in 1..(Len(q) - 1) : F[q[i]] <= F[q[i + 1]]

\* __CFArmNextTimerInMode: the kernel's timer is set if the deadlines
\* changed, and cancelled if there are none.  The walk ends at a timer that
\* fires after the earliest hard deadline before it in the list.
Arm(r, F, G) ==
    LET live == SelectSeq(r.timers, LAMBDA t : t \notin G)
        hardOf(S) == Min({F[live[j]] + Tolerance[live[j]] : j \in S} \cup {Never})
        seen == {i \in 1..Len(live) :
                    \A k \in 1..i : F[live[k]] <= hardOf(1..(k - 1))}
        soft == Min({F[live[i]] : i \in seen} \cup {Never})
        hard == hardOf(seen)
    IN  [r EXCEPT
           !.soft = soft, !.hard = hard, !.passed = @ /\ ~Sorted(r.timers, F),
           !.kernel = CASE soft = Never -> Never
                        [] soft # Never /\ (soft # r.soft \/ hard # r.hard) -> soft
                        [] OTHER -> @]

Passed(r) == [r EXCEPT !.passed = TRUE]

\* __CFRepositionTimerInMode.
Placed(r, t, F, G) ==
    LET i == InsertionIndex(r.timers, F, F[t])
    IN  Arm([r EXCEPT !.timers = InsertAt(@, i + 1, t)], F, G)
Without(r, t) == [r EXCEPT !.timers = Remove(@, t)]

Reposition(r, t, F, G) ==
    IF t \in Range(r.timers) THEN Placed(Without(r, t), t, F, G) ELSE r

-----------------------------------------------------------------------------
Init ==
    /\ program \in Programs
    /\ now = 0
    /\ stack = <<>>
    /\ fire = FirstFire
    /\ mode = [m \in Modes |->
                  FoldSet(LAMBDA t, r : Placed(r, t, fire, {}),
                          [timers |-> <<>>, soft |-> Never, hard |-> Never,
                           kernel |-> Never, passed |-> FALSE],
                          program.first[m])]
    /\ due = {}
    /\ members = [m \in Modes |-> {}]
    /\ refs = [i \in Others |-> 0]
    /\ rlModes = [t \in Timers |-> {m \in Modes : t \in program.first[m]}]
    /\ firing = {}
    /\ valid = Items
    /\ commonModes = {CHOOSE m \in Modes : TRUE}
    /\ commonItems = {}
    /\ calls = [w \in Workers |-> [op |-> None]]
    /\ overlapped = {}

\* Time passes, but not that of a kernel timer that has to fire.
Tick ==
    /\ now < program.until
    /\ \A m \in Modes : mode[m].kernel > now
    /\ now' = now + 1
    /\ UNCHANGED <<program, stack, mode, due, members, refs, rlModes, fire, firing,
                   valid, commonModes, commonItems, calls, overlapped>>

\* The kernel's timer of m fires, at its time or a little early, once.
KernelFires(m) ==
    /\ mode[m].kernel <= now + program.early
    /\ mode' = [mode EXCEPT ![m].kernel = Never]
    /\ due' = due \cup {m}
    /\ UNCHANGED <<program, now, stack, members, refs, rlModes, fire, firing, valid,
                   commonModes, commonItems, calls, overlapped>>

-----------------------------------------------------------------------------
(* The thread of the loop.                                                 *)

\* The loop runs a mode that is not empty, also from a timer's callout.
Run(m) ==
    /\ Running => Top.pc = "callout"
    /\ Free
    /\ Len(stack) < MaxNesting
    /\ mode[m].timers # <<>>
    /\ stack' = Append(stack, [mode |-> m, pc |-> "waiting", todo |-> <<>>,
                               timer |-> None, old |-> 0, modes |-> {},
                               handled |-> FALSE])
    /\ UNCHANGED <<program, now, mode, due, members, refs, rlModes, fire, firing,
                   valid, commonModes, commonItems, calls, overlapped>>

Leave ==
    /\ At("waiting")
    /\ stack' = Front(stack)
    /\ UNCHANGED <<program, now, mode, due, members, refs, rlModes, fire, firing,
                   valid, commonModes, commonItems, calls, overlapped>>

\* A message of the timer's port: __CFRunLoopDoTimers collects the timers
\* that are due,
CollectTimers ==
    /\ At("waiting") /\ Free
    /\ Top.mode \in due
    /\ due' = due \ {Top.mode}
    /\ LET dueNow(t) == t \in valid \ firing /\ fire[t] <= now
       IN  stack' = With([Top EXCEPT
              !.pc = "timers", !.handled = FALSE,
              !.todo = SelectSeq(mode[Top.mode].timers, dueNow)])
    /\ UNCHANGED <<program, now, mode, members, refs, rlModes, fire, firing, valid,
                   commonModes, commonItems, calls, overlapped>>

(* Mutant: the deadlines are left, "just in case" the next are the same.   *)
FireTimerSameDeadlines ==
    /\ At("timers")
    /\ Top.todo # <<>>
    /\ LET t == Head(Top.todo)
           m == Top.mode
           a == [Top EXCEPT !.todo = Tail(@)]
       IN  IF t \in valid \ firing /\ fire[t] <= now /\ rlModes[t] # {}
           THEN /\ firing' = firing \cup {t}
                /\ mode' = [mode EXCEPT ![m] = Arm(@, fire, firing')]
                /\ stack' = With([a EXCEPT !.pc = "callout", !.timer = t,
                                           !.old = fire[t]])
           ELSE stack' = With(a) /\ UNCHANGED <<mode, firing>>
    /\ UNCHANGED <<program, now, due, members, refs, rlModes, fire, valid,
                   commonModes, commonItems, calls, overlapped>>

\* and __CFRunLoopDoTimer calls out to each that still is, with the kernel's
\* timer armed for the others.
FireTimer ==
    /\ At("timers")
    /\ Top.todo # <<>>
    /\ LET t == Head(Top.todo)
           m == Top.mode
           a == [Top EXCEPT !.todo = Tail(@)]
           reset == [mode[m] EXCEPT !.soft = Never, !.hard = Never]
       IN  IF t \in valid \ firing /\ fire[t] <= now /\ rlModes[t] # {}
           THEN /\ firing' = firing \cup {t}
                /\ mode' = [mode EXCEPT ![m] = Arm(reset, fire, firing')]
                /\ stack' = With([a EXCEPT !.pc = "callout", !.timer = t,
                                           !.old = fire[t]])
           ELSE stack' = With(a) /\ UNCHANGED <<mode, firing>>
    /\ UNCHANGED <<program, now, due, members, refs, rlModes, fire, valid,
                   commonModes, commonItems, calls, overlapped>>

\* Re-arm the next timer if none was handled.
TimersDone ==
    /\ At("timers")
    /\ Top.todo = <<>>
    /\ mode' = IF Top.handled THEN mode
               ELSE [mode EXCEPT ![Top.mode] = Arm(@, fire, firing)]
    /\ stack' = With([Top EXCEPT !.pc = "waiting"])
    /\ UNCHANGED <<program, now, due, members, refs, rlModes, fire, firing, valid,
                   commonModes, commonItems, calls, overlapped>>

-----------------------------------------------------------------------------
(* Membership, under the locks of the loop and of the modes.               *)

\* CFRunLoopAddSource, AddObserver or AddTimer of item i to the modes M.
Enter(i, M) ==
    IF i \in Timers
    THEN /\ mode' = [m \in Modes |-> IF m \in M \ rlModes[i]
                                     THEN Placed(mode[m], i, fire, firing)
                                     ELSE mode[m]]
         /\ rlModes' = [rlModes EXCEPT ![i] = @ \cup M]
         /\ UNCHANGED <<members, refs>>
    ELSE /\ members' = [m \in Modes |-> IF m \in M THEN members[m] \cup {i}
                                        ELSE members[m]]
         /\ refs' = [refs EXCEPT
               ![i] = @ + Cardinality({m \in M : i \notin members[m]})]
         /\ UNCHANGED <<mode, rlModes>>

\* CFRunLoopRemoveSource, RemoveObserver or RemoveTimer of i from M.
Exit(i, M) ==
    IF i \in Timers
    THEN LET found == {m \in M : i \in Range(mode[m].timers)}
         IN  /\ mode' = [m \in Modes |-> IF m \in found
                                         THEN Arm(Without(mode[m], i), fire, firing)
                                         ELSE mode[m]]
             /\ rlModes' = [rlModes EXCEPT ![i] = @ \ found]
             /\ UNCHANGED <<members, refs>>
    ELSE /\ members' = [m \in Modes |-> IF m \in M THEN members[m] \ {i}
                                        ELSE members[m]]
         /\ refs' = [refs EXCEPT
               ![i] = Max({0, @ - Cardinality({m \in M : i \in members[m]})})]
         /\ UNCHANGED <<mode, rlModes>>

(* Mutant: an item is looked for in the common modes alone.                *)
InvalidatedCommon(i) ==
    IF i \in Timers THEN rlModes[i] ELSE IF refs[i] = 0 THEN {} ELSE commonModes

\* The first half of an invalidation finds the modes to remove i from: those
\* a timer knows, and all of them if the loop of another item is known.
\* The bag of a source is taken from it.
Invalidated(i) ==
    IF i \in Timers THEN rlModes[i]
    ELSE IF refs[i] = 0 THEN {} ELSE Modes

\* Whether a call that has found i valid is about to put it in a mode.
Entering(i) ==
    \E w \in Workers :
       LET c == calls[w]
       IN  \/ c.op = "add" /\ c.item = i
           \/ c.op = "adding" /\ \E x \in c.at : x[1] = i

NoLongerValid(i) ==
    /\ valid' = valid \ {i}
    /\ overlapped' = overlapped \cup (IF Entering(i) THEN {i} ELSE {})

-----------------------------------------------------------------------------
\* The callout returns.  A timer that does not repeat is invalidated,
CalloutReturns ==
    /\ At("callout")
    /\ LET t == Top.timer
       IN  IF Interval[t] = 0 /\ t \in valid
           THEN /\ NoLongerValid(t)
                /\ stack' = With([Top EXCEPT !.pc = "removing", !.modes = rlModes[t]])
           ELSE /\ stack' = With([Top EXCEPT !.pc = "returned"])
                /\ UNCHANGED <<valid, overlapped>>
    /\ UNCHANGED <<program, now, mode, due, members, refs, rlModes, fire, firing,
                   commonModes, commonItems, calls>>

RemoveFired ==
    /\ At("removing") /\ Free
    /\ LET t == Top.timer
       IN  IF Top.modes = {}
           THEN UNCHANGED <<mode, rlModes, members, refs, commonItems>>
           ELSE /\ Exit(t, Top.modes \cup
                           (IF t \in commonItems THEN commonModes ELSE {}))
                /\ commonItems' = commonItems \ {t}
    /\ stack' = With([Top EXCEPT !.pc = "returned"])
    /\ UNCHANGED <<program, now, due, fire, firing, valid, commonModes, calls,
                   overlapped>>

(* Mutant: a timer set in its callout is not armed after it.               *)
RescheduleUnarmed ==
    /\ At("returned") /\ Free
    /\ Top.timer \in valid => Top.old < fire[Top.timer]
    /\ firing' = firing \ {Top.timer}
    /\ stack' = With([Top EXCEPT !.pc = "timers", !.timer = None,
                                 !.handled = TRUE])
    /\ UNCHANGED <<program, now, due, mode, members, refs, rlModes, fire, valid,
                   commonModes, commonItems, calls, overlapped>>

\* a valid one is scheduled again, unless it was set to a later date.
Reschedule ==
    /\ At("returned") /\ Free
    /\ LET t == Top.timer
           m == Top.mode
           G == firing \ {t}
           next == CHOOSE n \in (Top.old + 1)..(now + Interval[t]) :
                      /\ n > now
                      /\ (n - Top.old) % Interval[t] = 0
                      /\ \A k \in (now + 1)..(n - 1) :
                            (k - Top.old) % Interval[t] # 0
           F == [fire EXCEPT ![t] = next]
       IN  /\ firing' = G
           /\ CASE t \notin valid -> UNCHANGED <<mode, fire>>
                [] t \in valid /\ Top.old < fire[t] ->
                      /\ mode' = [k \in Modes |->
                                    CASE k = m -> Arm(mode[k], fire, G)
                                      [] k \in rlModes[t] \ {m} -> Passed(mode[k])
                                      [] OTHER -> mode[k]]
                      /\ UNCHANGED fire
                [] OTHER ->
                      /\ fire' = F
                      /\ mode' = [k \in Modes |->
                                    IF k \in rlModes[t]
                                    THEN Reposition(mode[k], t, F, G)
                                    ELSE mode[k]]
    /\ stack' = With([Top EXCEPT !.pc = "timers", !.timer = None,
                                 !.handled = TRUE])
    /\ UNCHANGED <<program, now, due, members, refs, rlModes, valid, commonModes,
                   commonItems, calls, overlapped>>

-----------------------------------------------------------------------------
(* Calls of other threads, and of the program from a callout.              *)

Idle(w) == calls[w].op = None
Calls(w, c) == calls' = [calls EXCEPT ![w] = c]
Returns(w) == Calls(w, [op |-> None])

\* Whether the item is valid is tested before the lock is taken.
Add(w, i, where) ==
    /\ Idle(w)
    /\ i \in valid
    /\ Calls(w, [op |-> "add", item |-> i, where |-> where])
    /\ UNCHANGED <<program, now, stack, mode, due, members, refs, rlModes, fire,
                   firing, valid, commonModes, commonItems, overlapped>>

\* x is the item and mode, if any, that a call is about to add.
AddingTo(w, x, todo) ==
    Calls(w, IF x \cup todo = {} THEN [op |-> None]
             ELSE [op |-> "adding", at |-> x, todo |-> todo])

\* A mode of its own gets the item; the common modes get it one by one, under
\* the lock of the loop, by calls that test it again before they enter it.
AddLocked(w) ==
    /\ calls[w].op = "add"
    /\ Free
    /\ LET c == calls[w]
       IN  IF c.where = Common
           THEN /\ commonItems' = commonItems \cup {c.item}
                /\ AddingTo(w, {}, {c.item} \X commonModes)
                /\ UNCHANGED <<mode, rlModes, members, refs>>
           ELSE /\ Enter(c.item, {c.where})
                /\ Returns(w)
                /\ UNCHANGED commonItems
    /\ UNCHANGED <<program, now, stack, due, fire, firing, valid, commonModes, overlapped>>

\* CFRunLoopAddCommonMode: the common items join it in the same way.
AddCommonMode(w, m) ==
    /\ Idle(w)
    /\ Free
    /\ m \notin commonModes
    /\ commonModes' = commonModes \cup {m}
    /\ AddingTo(w, {}, commonItems \X {m})
    /\ UNCHANGED <<program, now, stack, mode, due, members, refs, rlModes, fire,
                   firing, valid, commonItems, overlapped>>

AddNext(w) ==
    /\ calls[w].op = "adding"
    /\ calls[w].at = {}
    /\ \E x \in calls[w].todo :
          AddingTo(w, IF x[1] \in valid THEN {x} ELSE {}, calls[w].todo \ {x})
    /\ UNCHANGED <<program, now, stack, mode, due, members, refs, rlModes, fire,
                   firing, valid, commonModes, commonItems, overlapped>>

EnterNext(w) ==
    /\ calls[w].op = "adding"
    /\ \E x \in calls[w].at : Enter(x[1], {x[2]})
    /\ AddingTo(w, {}, calls[w].todo)
    /\ UNCHANGED <<program, now, stack, due, fire, firing, valid, commonModes,
                   commonItems, overlapped>>

RemoveItem(w, i, where) ==
    /\ Idle(w)
    /\ Free
    /\ IF where = Common
       THEN /\ commonItems' = commonItems \ {i}
            /\ Exit(i, IF i \in commonItems THEN commonModes ELSE {})
       ELSE Exit(i, {where}) /\ UNCHANGED commonItems
    /\ UNCHANGED <<program, now, stack, due, fire, firing, valid, commonModes, calls,
                   overlapped>>

\* CFRunLoopSourceInvalidate, ObserverInvalidate, TimerInvalidate: under the
\* lock of the item,
Invalidate(w, i) ==
    /\ Idle(w)
    /\ i \in valid
    /\ NoLongerValid(i)
    /\ Calls(w, [op |-> IF Invalidated(i) = {} THEN None ELSE "invalidate",
                 item |-> i, modes |-> Invalidated(i)])
    /\ refs' = IF i \in Others \ Observers THEN [refs EXCEPT ![i] = 0] ELSE refs
    /\ UNCHANGED <<program, now, stack, mode, due, members, rlModes, fire, firing,
                   commonModes, commonItems>>

\* and then under the lock of the loop.
InvalidateLocked(w) ==
    /\ calls[w].op = "invalidate"
    /\ Free
    /\ LET i == calls[w].item
       IN  /\ commonItems' = commonItems \ {i}
           /\ Exit(i, calls[w].modes \cup
                      (IF i \in commonItems THEN commonModes ELSE {}))
    /\ Returns(w)
    /\ UNCHANGED <<program, now, stack, due, fire, firing, valid, commonModes, overlapped>>

\* CFRunLoopTimerSetNextFireDate: a timer in no mode is set at once; the
\* modes of another are read before the lock of the loop is taken.
SetNextFireDate(w, t, f) ==
    /\ Idle(w)
    /\ t \in valid
    /\ IF rlModes[t] = {}
       THEN fire' = [fire EXCEPT ![t] = f] /\ UNCHANGED calls
       ELSE /\ Calls(w, [op |-> "set", item |-> t, date |-> f,
                         modes |-> rlModes[t]])
            /\ UNCHANGED fire
    /\ UNCHANGED <<program, now, stack, mode, due, members, refs, rlModes, firing,
                   valid, commonModes, commonItems, overlapped>>

SetLocked(w) ==
    /\ calls[w].op = "set"
    /\ Free
    /\ LET t == calls[w].item
           F == [fire EXCEPT ![t] = calls[w].date]
       IN  /\ fire' = F
           /\ mode' = [m \in Modes |->
                CASE m \in calls[w].modes -> Reposition(mode[m], t, F, firing)
                  [] m \in rlModes[t] \ calls[w].modes -> Passed(mode[m])
                  [] OTHER -> mode[m]]
    /\ Returns(w)
    /\ UNCHANGED <<program, now, stack, due, members, refs, rlModes, firing, valid,
                   commonModes, commonItems, overlapped>>

-----------------------------------------------------------------------------
LoopStep ==
    \/ CollectTimers \/ FireTimer \/ TimersDone
    \/ CalloutReturns \/ RemoveFired \/ Reschedule

Locked(w) ==
    \/ AddLocked(w) \/ AddNext(w) \/ EnterNext(w)
    \/ InvalidateLocked(w) \/ SetLocked(w)

Next ==
    \/ Tick
    \/ \E m \in Modes : KernelFires(m)
    \/ LoopStep \/ Leave
    \/ \E m \in program.runs : Run(m)
    \/ \E w \in Workers : Locked(w)
    \/ \E w \in Movers :
          \/ \E m \in program.commons : AddCommonMode(w, m)
          \/ \E i \in program.adds, at \in program.where : Add(w, i, at)
          \/ \E i \in program.removes, at \in program.where : RemoveItem(w, i, at)
    \/ \E w \in Setters :
          \/ \E i \in program.invalidates : Invalidate(w, i)
          \/ \E t \in program.sets, f \in now..program.until : SetNextFireDate(w, t, f)

Spec == Init /\ [][Next]_vars

\* Time passes, the kernel's timers fire, the thread of the loop runs and
\* calls out to code that returns, and who waits for the loop's lock gets it.
FairSpec ==
    /\ Spec
    /\ WF_vars(Tick)
    /\ \A m \in Modes : WF_vars(KernelFires(m))
    /\ SF_vars(LoopStep)
    /\ SF_vars(CalloutReturns)
    /\ \A w \in Workers : SF_vars(Locked(w))
-----------------------------------------------------------------------------
(* Properties.                                                             *)

\* "If we do not re-arm it, then no timers will ever be serviced again": a
\* mode with a timer that could fire has its kernel timer set for it, or a
\* message of it to look at, also during callouts and between the halves of
\* other threads' calls.  The timers of a mode stay sorted by their fire
\* time, which every insertion by a binary search relies on.  Exempt is a
\* mode passed by until it is armed again: one that did not hold the timer
\* when CFRunLoopTimerSetNextFireDate read its modes, before it took the lock
\* of the loop, or one that is not run while a callout of the timer is, in
\* which the timer is set.  Nothing else unsorts a mode or leaves it unarmed.
TimersStayArmed ==
    Free => \A m \in Modes :
       mode[m].passed
          \/ /\ \A t \in Range(mode[m].timers) \cap (valid \ firing) :
                   m \in due \/ mode[m].kernel <= fire[t]
             /\ Sorted(mode[m].timers, fire)

\* Timers, sources and observers know the modes that hold them, and one
\* that was invalidated is in no mode when nobody is in the middle of a
\* call: it would keep the mode from being empty.  Exempt are the items
\* overlapped: invalidated after an add had tested them and before it put
\* them in a mode.  No other order of calls leaves an invalid item.
RegisteredWhereItIs ==
    /\ \A t \in Timers, m \in Modes :
          m \in rlModes[t] <=> t \in Range(mode[m].timers)
    /\ \A i \in Others \cap valid : refs[i] = Cardinality({m \in Modes : i \in members[m]})
    /\ (/\ \A w \in Workers : Idle(w)
        /\ \A k \in 1..Len(stack) : stack[k].pc # "removing")
          => \A m \in Modes :
                members[m] \cup Range(mode[m].timers) \subseteq valid \cup overlapped

\* A timer that is due in the mode that runs is called out to: it fires
\* again later or not at all, unless it is taken from the mode or set, or
\* the run ends or is nested, or the mode was passed by.
TimersFire ==
    \A t \in Timers :
       (/\ Len(stack) = 1
        /\ t \in valid \ firing /\ Top.mode \in rlModes[t] /\ fire[t] <= now)
           ~> (\/ Len(stack) # 1
               \/ t \notin valid \/ Top.mode \notin rlModes[t] \/ fire[t] > now
               \/ mode[Top.mode].passed)

\* Not so: a timer added to another mode between the halves of a call that
\* sets its date is out of order there and fires at the time last armed, and
\* one set in its own callout is armed in the mode that runs alone.
SetInAllItsModes == \A m \in Modes : ~mode[m].passed

\* Not so, with two threads: an item is left in a mode by an add that found
\* it valid before it was invalidated and removed.
InvalidatedAreGone ==
    (/\ \A w \in Workers : Idle(w)
     /\ \A k \in 1..Len(stack) : stack[k].pc # "removing")
       => \A m \in Modes : members[m] \cup Range(mode[m].timers) \subseteq valid
=============================================================================
