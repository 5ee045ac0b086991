------------------------------- MODULE RunLoop -------------------------------
(***************************************************************************)
(* The run of a run loop, RunLoop/CFRunLoop.c: nested activations of       *)
(* __CFRunLoopRun in one thread, with their observers, blocks, sources of  *)
(* version 0 and 1, the main dispatch queue, the wake-up port, time-outs   *)
(* and stops, while other threads post work, wake the loop up and stop it. *)
(*                                                                         *)
(* The thread of the loop holds the lock of the loop and of its mode at    *)
(* every stage below but those of Unlocked; what other threads do under    *)
(* the lock waits for one of these.  CFRunLoopSourceSignal takes only the  *)
(* lock of the source and happens at any stage.                            *)
(*                                                                         *)
(* Program code runs in a callout, where it may run the loop again; the    *)
(* work it posts there a waker posts during the callout.  Timers are in    *)
(* RunLoopModes, and so is the membership of modes: here the sources and  *)
(* observers of a mode are constants, and common modes are spelled out.    *)
(***************************************************************************)
EXTENDS Naturals, Sequences, FiniteSets

CONSTANTS
    Modes,          \* the names of the modes
    Sources0,       \* sources of version 0
    Sources1,       \* sources of version 1, which are also their ports
    Observers,
    SourcesOf,      \* SourcesOf[m]: the sources of mode m
    Activities,     \* Activities[o]: the _activities of observer o
    Repeats,        \* the observers that repeat
    Order,          \* Order[x]: the rank by _order of a source or an observer
    MainModes,      \* the common modes, if the loop is the main thread's
    Wakers,         \* the threads that post work
    Programs,       \* what the program does with the loop, a set of Program
    MaxNesting      \* a bound on the activations

Sources == Sources0 \cup Sources1
Main == "main"      \* the port of the main dispatch queue
Wake == "wake"      \* _wakeUpPort, whose queue holds one message
None == "none"

ASSUME RunLoopAssumption ==
    /\ SourcesOf \in [Modes -> SUBSET Sources]
    /\ Repeats \subseteq Observers
    /\ \A p \in Programs :
          /\ p.runs \subseteq [mode : Modes, after : BOOLEAN,
                               timed : {"never", "later", "now"}]
          /\ p.stops \subseteq Modes /\ p.removes \subseteq Sources
          /\ p.sends \subseteq Sources1 \cup {Main} /\ p.blocks \in Nat
    /\ Sources \cap Observers = {}
    /\ {"idle", "block", Main, Wake, None} \cap (Sources \cup Observers) = {}
    /\ \A o \in Observers :
          Activities[o] \subseteq {"entry", "beforeTimers", "beforeSources",
                                   "beforeWaiting", "afterWaiting", "exit"}
    /\ \A x, y \in Sources \cup Observers :
          Order[x] \in Nat /\ (x # y => Order[x] # Order[y])

\* A program: the calls of CFRunLoopRunInMode it makes, the callouts it makes
\* them from when the loop runs, the modes it stops, the sources it
\* invalidates, the ports it sends to and how many blocks it posts.

VARIABLES
    program,        \* the program, one of Programs
    stack,          \* the activations, the innermost one last
    ports,          \* the ports that hold a message
    signaled,       \* the sources whose signalled bit is set
    valid,          \* the sources and observers that are valid
    member,         \* member[m]: the sources in _sources0, _sources1 of m
    firing,         \* the observers whose firing bit is set
    blocks,         \* _blocks_head: what CFRunLoopPerformBlock queued
    posted,         \* the number of blocks queued so far
    modeStopped,    \* the modes whose _stopped is set
    post,           \* post[w]: what thread w still has to do
    alarm           \* __CFRunLoopTimeout has yet to wake the loop up

vars == <<program, stack, ports, signaled, valid, member, firing, blocks, posted,
          modeStopped, post, alarm>>

-----------------------------------------------------------------------------
(* Activations.                                                            *)

\* An activation: the frames of CFRunLoopRunSpecific and __CFRunLoopRun and
\* the _per_run_data they push.
\*   mode, after     the mode, and returnAfterSourceHandled
\*   timed, late     "never", "later" or "now", and whether termTSR has passed
\*   stopped, ignoring   of _per_run_data: stopped, ignoreWakeUps
\*   queue, didMain  dispatchPort is the main queue's, didDispatchPortLastTime
\*   handled, poll   sourceHandledThisLoop, poll
\*   live            livePort: None, Wake, Main or a source of version 1
\*   pc, then        the stage it is at, the one after a callout or a list
\*   callout         what is being called out
\*   todo            the sources and observers collected and not called yet
\*   run, keep       the taken blocks not looked at yet, those of other modes
Running == stack # <<>>
Top == stack[Len(stack)]
With(a) == [stack EXCEPT ![Len(stack)] = a]
\* The stages at which the thread of the loop holds no lock.
Unlocked == {"callout", "runBlocks", "perform", "notify", "waiting"}
Free == Running => Top.pc \in Unlocked

At(pc) == Running /\ Top.pc = pc
\* The innermost activation goes on to a stage.
Goto(pc) == stack' = With([Top EXCEPT !.pc = pc])
\* It calls out to the program, and goes on to stage next afterwards.
CallOut(a, what, next) ==
    stack' = With([a EXCEPT !.pc = "callout", !.callout = what, !.then = next])

\* CFRunLoopIsWaiting: __CFRunLoopSetSleeping to __CFRunLoopUnsetSleeping.
Asleep == At("waiting") /\ ~Top.poll

\* __CFTSDKeyIsInGCDMainQ: the thread is inside the main queue's callback.
InMainQueue ==
    \E i \in 1..Len(stack) :
       stack[i].pc = "callout" /\ stack[i].callout = "main"
MainSafe(m) == m \in MainModes /\ ~InMainQueue

\* __CFRunLoopModeIsEmpty; observers do not count.
ModeIsEmpty(m) ==
    /\ ~MainSafe(m)
    /\ member[m] = {}
    /\ \A i \in 1..Len(blocks) : blocks[i].mode # m

First(S) == CHOOSE x \in S : \A y \in S : Order[x] <= Order[y]

-----------------------------------------------------------------------------
Init ==
    /\ program \in Programs
    /\ stack = <<>>
    /\ ports = {}
    /\ signaled = {}
    /\ valid = Sources \cup Observers
    /\ member = SourcesOf
    /\ firing = {}
    /\ blocks = <<>>
    /\ posted = 0
    /\ modeStopped = {}
    /\ post = [w \in Wakers |-> "idle"]
    /\ alarm = FALSE

-----------------------------------------------------------------------------
(* CFRunLoopRunSpecific and __CFRunLoopRun, by the thread of the loop.     *)

\* The stages that notify observers, each with the stage that follows it.
ObserverStages ==
    [entry |-> "prologue", beforeTimers |-> "beforeSources",
     beforeSources |-> "blocks", beforeWaiting |-> "sleep",
     afterWaiting |-> "handle", exit |-> "return"]

\* Those at which it does its blocks,
BlockStages == [blocks |-> "sources", blocksAgain |-> "poll",
                blocksLast |-> "end"]
\* and all of them.
Stages ==
    Unlocked \cup DOMAIN ObserverStages \cup DOMAIN BlockStages
    \cup {"prologue", "sources", "poll", "sleep", "woken", "handle", "end",
          "return"}

\* _observerMask: a stage that no observer is for is passed over.
Observed == UNION {Activities[o] : o \in Observers}
Stage[pc \in Stages] ==
    IF pc \in DOMAIN ObserverStages \ Observed
    THEN Stage[ObserverStages[pc]] ELSE pc

MayRun ==
    \/ ~Running
    \/ /\ At("callout")
       /\ Top.callout \in program.nests
       /\ Len(stack) < MaxNesting

\* An empty mode is not run.
Run(r) ==
    /\ MayRun
    /\ ~ModeIsEmpty(r.mode)
    /\ stack' = Append(stack,
          [mode |-> r.mode, after |-> r.after, timed |-> r.timed,
           late |-> r.timed = "now",
           stopped |-> FALSE, ignoring |-> FALSE, queue |-> FALSE,
           didMain |-> TRUE, handled |-> FALSE, poll |-> FALSE,
           live |-> None, pc |-> Stage["entry"], then |-> "entry",
           callout |-> None, todo |-> {}, run |-> <<>>, keep |-> <<>>])
    /\ UNCHANGED <<program, ports, signaled, valid, member, firing, blocks, posted,
                   modeStopped, post, alarm>>

\* __CFRunLoopDoObservers collects the valid observers that are not firing,
DoObservers ==
    /\ Running
    /\ Top.pc \in Observed
    /\ LET todo == {o \in (Observers \cap valid) \ firing :
                       Top.pc \in Activities[o]}
           next == Stage[ObserverStages[Top.pc]]
       IN  stack' = With([Top EXCEPT
                       !.todo = todo, !.then = next,
                       !.pc = IF todo = {} THEN next ELSE "notify"])
    /\ UNCHANGED <<program, ports, signaled, valid, member, firing, blocks, posted,
                   modeStopped, post, alarm>>

\* and calls them in order, those that are still valid.
Notify ==
    /\ At("notify")
    /\ IF Top.todo = {}
       THEN Goto(Top.then) /\ UNCHANGED firing
       ELSE LET o == First(Top.todo)
                a == [Top EXCEPT !.todo = @ \ {o}]
            IN  IF o \in valid
                THEN /\ firing' = firing \cup {o}
                     /\ stack' = With([a EXCEPT !.pc = "callout",
                                                !.callout = o])
                ELSE stack' = With(a) /\ UNCHANGED firing
    /\ UNCHANGED <<program, ports, signaled, valid, member, blocks, posted,
                   modeStopped, post, alarm>>

\* The program's code returns, to the list it was called from or to the
\* stage after the callout; an observer that does not repeat is invalidated.
Return ==
    /\ At("callout")
    /\ LET what == Top.callout
       IN  IF what \in Observers
           THEN /\ firing' = firing \ {what}
                /\ valid' = IF what \in Repeats THEN valid ELSE valid \ {what}
                /\ stack' = With([Top EXCEPT !.callout = None,
                                             !.pc = "notify"])
           ELSE /\ stack' = With([Top EXCEPT
                       !.callout = None,
                       !.pc = IF what = "block" THEN "runBlocks" ELSE Top.then])
                /\ UNCHANGED <<firing, valid>>
    /\ UNCHANGED <<program, ports, signaled, member, blocks, posted, modeStopped,
                   post, alarm>>

(* Mutant: the loop goes on ignoring wake-ups.                             *)
IterationDeaf(a) ==
    [a EXCEPT !.handled = FALSE, !.poll = FALSE, !.pc = Stage["beforeTimers"]]

\* The beginning of the loop's body.
Iteration(a) ==
    [a EXCEPT !.ignoring = FALSE, !.handled = FALSE, !.poll = FALSE,
              !.pc = Stage["beforeTimers"]]

\* The prologue honours a stop that came before, and decides whether the
\* activation serves the main queue.
Prologue ==
    /\ At("prologue")
    /\ LET a == [Top EXCEPT !.stopped = FALSE, !.queue = MainSafe(Top.mode)]
       IN  stack' = With(IF Top.stopped \/ Top.mode \in modeStopped
                         THEN [a EXCEPT !.pc = Stage["exit"]]
                         ELSE Iteration(a))
    /\ modeStopped' = IF Top.stopped THEN modeStopped
                      ELSE modeStopped \ {Top.mode}
    /\ UNCHANGED <<program, ports, signaled, valid, member, firing, blocks, posted,
                   post, alarm>>

\* __CFRunLoopDoBlocks takes the whole list,
TakeBlocks ==
    /\ Running
    /\ Top.pc \in DOMAIN BlockStages
    /\ LET next == BlockStages[Top.pc]
       IN  stack' = With([Top EXCEPT
              !.then = next, !.run = blocks,
              !.pc = IF blocks = <<>> THEN next ELSE "runBlocks"])
    /\ blocks' = <<>>
    /\ UNCHANGED <<program, ports, signaled, valid, member, firing, posted,
                   modeStopped, post, alarm>>

\* looks at its blocks in turn, calls those of its mode and keeps the others,
RunBlock ==
    /\ At("runBlocks")
    /\ Top.run # <<>>
    /\ LET b == Head(Top.run)
           a == [Top EXCEPT !.run = Tail(@)]
       IN  stack' = With(IF b.mode = Top.mode
                         THEN [a EXCEPT !.pc = "callout", !.callout = "block"]
                         ELSE [a EXCEPT !.keep = Append(@, b)])
    /\ UNCHANGED <<program, ports, signaled, valid, member, firing, blocks, posted,
                   modeStopped, post, alarm>>

(* Mutant: the blocks of other modes are put back at the end of the list.  *)
PutBlocksBackLast ==
    /\ At("runBlocks")
    /\ Top.run = <<>>
    /\ blocks' = blocks \o Top.keep
    /\ stack' = With([Top EXCEPT !.keep = <<>>, !.pc = Top.then])
    /\ UNCHANGED <<program, ports, signaled, valid, member, firing, posted,
                   modeStopped, post, alarm>>

\* and puts those back, before the blocks posted meanwhile.
PutBlocksBack ==
    /\ At("runBlocks")
    /\ Top.run = <<>>
    /\ blocks' = Top.keep \o blocks
    /\ stack' = With([Top EXCEPT !.keep = <<>>, !.pc = Top.then])
    /\ UNCHANGED <<program, ports, signaled, valid, member, firing, posted,
                   modeStopped, post, alarm>>

\* __CFRunLoopDoSources0 collects the valid sources that are signalled,
CollectSources0 ==
    /\ At("sources")
    /\ LET todo == member[Top.mode] \cap Sources0 \cap valid \cap signaled
       IN  stack' = With([Top EXCEPT
                       !.todo = todo,
                       !.pc = IF todo = {} THEN "poll" ELSE "perform"])
    /\ UNCHANGED <<program, ports, signaled, valid, member, firing, blocks, posted,
                   modeStopped, post, alarm>>

\* and performs those that still are, in order.
PerformSource0 ==
    /\ At("perform")
    /\ IF Top.todo = {} \/ (Top.after /\ Top.handled)
       THEN /\ stack' = With([Top EXCEPT
                           !.todo = {},
                           !.pc = IF Top.handled THEN "blocksAgain" ELSE "poll"])
            /\ UNCHANGED signaled
       ELSE LET s == First(Top.todo)
                a == [Top EXCEPT !.todo = @ \ {s}]
            IN  /\ signaled' = signaled \ {s}
                /\ IF s \in signaled \cap valid
                   THEN CallOut([a EXCEPT !.handled = TRUE], s, "perform")
                   ELSE stack' = With(a)
    /\ UNCHANGED <<program, ports, valid, member, firing, blocks, posted,
                   modeStopped, post, alarm>>

\* Serve the main queue at once, unless the last iteration did; otherwise
\* go to sleep, or only look at the ports.
ServeMain ==
    /\ At("poll")
    /\ LET poll == Top.handled \/ Top.timed = "now"
           a == [Top EXCEPT !.poll = poll]
       IN  IF Top.queue /\ ~Top.didMain /\ Main \in ports
           THEN /\ ports' = ports \ {Main}
                /\ stack' = With([a EXCEPT !.live = Main, !.pc = "handle"])
           ELSE /\ stack' = With([a EXCEPT
                               !.didMain = FALSE,
                               !.pc = Stage[IF poll THEN "sleep"
                                            ELSE "beforeWaiting"]])
                /\ UNCHANGED ports
    /\ UNCHANGED <<program, signaled, valid, member, firing, blocks, posted,
                   modeStopped, post, alarm>>

\* The locks are let go of for the wait.
Sleep ==
    /\ At("sleep")
    /\ Goto("waiting")
    /\ UNCHANGED <<program, ports, signaled, valid, member, firing, blocks, posted,
                   modeStopped, post, alarm>>

\* The port set of the activation: the mode's, and the main queue's.
WaitSet ==
    {Wake} \cup (member[Top.mode] \cap Sources1)
    \cup (IF Top.queue THEN {Main} ELSE {})

\* mach_msg returns a message of any port of the set, or none if polling.
Receive ==
    /\ At("waiting")
    /\ \/ \E p \in ports \cap WaitSet :
             /\ ports' = ports \ {p}
             /\ stack' = With([Top EXCEPT !.live = p, !.pc = "woken"])
       \/ /\ Top.poll
          /\ ports \cap WaitSet = {}
          /\ Goto("woken")
          /\ UNCHANGED ports
    /\ UNCHANGED <<program, signaled, valid, member, firing, blocks, posted,
                   modeStopped, post, alarm>>

\* Under the locks again, wake-ups are of no use until the next iteration.
Woken ==
    /\ At("woken")
    /\ stack' = With([Top EXCEPT
          !.ignoring = TRUE,
          !.pc = Stage[IF Top.poll THEN "handle" ELSE "afterWaiting"]])
    /\ UNCHANGED <<program, ports, signaled, valid, member, firing, blocks, posted,
                   modeStopped, post, alarm>>

\* What the message was for.  __CFRunLoopDoSource1 passes over a source
\* that was removed or invalidated since.
Handle ==
    /\ At("handle")
    /\ LET a == [Top EXCEPT !.ignoring = TRUE, !.live = None]
       IN  CASE Top.live \in {None, Wake} ->
                  stack' = With([a EXCEPT !.pc = "blocksLast"])
             [] Top.live = Main ->
                  CallOut([a EXCEPT !.handled = TRUE, !.didMain = TRUE],
                          "main", "blocksLast")
             [] OTHER ->
                  IF Top.live \in member[a.mode] \cap valid
                  THEN CallOut([a EXCEPT !.handled = TRUE], Top.live,
                               "blocksLast")
                  ELSE stack' = With([a EXCEPT !.pc = "blocksLast"])
    /\ UNCHANGED <<program, ports, signaled, valid, member, firing, blocks, posted,
                   modeStopped, post, alarm>>

\* The reasons to return, in the order they are tried: only the one that
\* applies first is consumed.
EndOfIteration ==
    /\ At("end")
    /\ LET done == Top.handled /\ Top.after
           first(c) == ~done /\ ~Top.late /\ c
           stop == first(Top.stopped)
           modeStop == first(~Top.stopped /\ Top.mode \in modeStopped)
           returns == \/ done \/ Top.late \/ stop \/ modeStop
                      \/ ModeIsEmpty(Top.mode)
           a == [Top EXCEPT !.stopped = @ /\ ~stop]
       IN  /\ stack' = With(IF returns THEN [a EXCEPT !.pc = Stage["exit"]]
                            ELSE Iteration(a))
           /\ modeStopped' = IF modeStop THEN modeStopped \ {Top.mode}
                             ELSE modeStopped
    /\ UNCHANGED <<program, ports, signaled, valid, member, firing, blocks, posted,
                   post, alarm>>

\* __CFRunLoopPopPerRunData, and the mode of the activation below.
RunReturns ==
    /\ At("return")
    /\ stack' = SubSeq(stack, 1, Len(stack) - 1)
    /\ UNCHANGED <<program, ports, signaled, valid, member, firing, blocks, posted,
                   modeStopped, post, alarm>>

-----------------------------------------------------------------------------
(* What posts work and wakes the loop up.                                  *)

MayPost(w) == post[w] = "idle"

Then(w, what) == post' = [post EXCEPT ![w] = what]

\* CFRunLoopSourceSignal, followed by CFRunLoopWakeUp.
Signal(w, s) ==
    /\ MayPost(w)
    /\ s \in valid
    /\ signaled' = signaled \cup {s}
    /\ Then(w, "wake")
    /\ UNCHANGED <<program, stack, ports, valid, member, firing, blocks, posted,
                   modeStopped, alarm>>

\* CFRunLoopPerformBlock, followed by CFRunLoopWakeUp.
PerformBlock(w, m) ==
    /\ MayPost(w)
    /\ Free
    /\ posted < program.blocks
    /\ blocks' = Append(blocks, [id |-> posted, mode |-> m])
    /\ posted' = posted + 1
    /\ Then(w, "wake")
    /\ UNCHANGED <<program, stack, ports, signaled, valid, member, firing,
                   modeStopped, alarm>>

\* CFRunLoopStop stops the innermost activation, and wakes the loop up
\* with the lock released in between.
Stop(w) ==
    /\ MayPost(w)
    /\ Free
    /\ Running
    /\ stack' = With([Top EXCEPT !.stopped = TRUE])
    /\ Then(w, "wake")
    /\ UNCHANGED <<program, ports, signaled, valid, member, firing, blocks, posted,
                   modeStopped, alarm>>

StopMode(w, m) ==
    /\ MayPost(w)
    /\ Free
    /\ modeStopped' = modeStopped \cup {m}
    /\ Then(w, "wake")
    /\ UNCHANGED <<program, stack, ports, signaled, valid, member, firing, blocks,
                   posted, alarm>>

\* CFRunLoopSourceInvalidate, which then removes the source from every mode
\* of the loop under its lock.
Invalidate(w, s) ==
    /\ MayPost(w)
    /\ s \in valid
    /\ valid' = valid \ {s}
    /\ signaled' = signaled \ {s}
    /\ Then(w, s)
    /\ UNCHANGED <<program, stack, ports, member, firing, blocks, posted,
                   modeStopped, alarm>>

RemoveInvalid(w) ==
    /\ post[w] \in Sources
    /\ Free
    /\ member' = [m \in Modes |-> member[m] \ {post[w]}]
    /\ Then(w, "idle")
    /\ UNCHANGED <<program, stack, ports, signaled, valid, firing, blocks, posted,
                   modeStopped, alarm>>

(* Mutant: the flag is not kept for each activation.                       *)
AwakenAnyRun ==
    ports' = IF \E i \in 1..Len(stack) : stack[i].ignoring THEN ports
             ELSE ports \cup {Wake}

\* A message is sent only to a loop that does not ignore wake-ups.
Awaken == ports' = IF Running /\ Top.ignoring THEN ports
                   ELSE ports \cup {Wake}

WakeUp(w) ==
    /\ post[w] = "wake"
    /\ Free
    /\ Awaken
    /\ Then(w, "idle")
    /\ UNCHANGED <<program, stack, signaled, valid, member, firing, blocks, posted,
                   modeStopped, alarm>>

\* Somebody sends a message to the port of a source, or gives the main
\* queue work.
Send(p) ==
    /\ ports' = ports \cup {p}
    /\ UNCHANGED <<program, stack, signaled, valid, member, firing, blocks, posted,
                   modeStopped, post, alarm>>

\* The time of activation i is over;
Expire(i) ==
    /\ stack[i].timed = "later"
    /\ ~stack[i].late
    /\ stack' = [stack EXCEPT ![i].late = TRUE]
    /\ UNCHANGED <<program, ports, signaled, valid, member, firing, blocks, posted,
                   modeStopped, post, alarm>>

\* __CFRunLoopTimeout sets its termTSR to zero, on a dispatch queue,
Timeout(i) ==
    /\ stack[i].timed = "later"
    /\ stack[i].late
    /\ ~alarm
    /\ stack' = [stack EXCEPT ![i].timed = "now"]
    /\ alarm' = TRUE
    /\ UNCHANGED <<program, ports, signaled, valid, member, firing, blocks, posted,
                   modeStopped, post>>

\* and wakes the loop up, which may run another activation by then.
TimeoutWakes ==
    /\ alarm
    /\ Free
    /\ Awaken
    /\ alarm' = FALSE
    /\ UNCHANGED <<program, stack, signaled, valid, member, firing, blocks, posted,
                   modeStopped, post>>

-----------------------------------------------------------------------------
LoopStep ==
    \/ DoObservers \/ Notify \/ Return \/ Prologue
    \/ TakeBlocks \/ RunBlock \/ PutBlocksBack
    \/ CollectSources0 \/ PerformSource0 \/ ServeMain \/ Sleep \/ Receive
    \/ Woken \/ Handle \/ EndOfIteration \/ RunReturns

Next ==
    \/ LoopStep
    \/ \E r \in program.runs : Run(r)
    \/ \E w \in Wakers :
          \/ WakeUp(w) \/ RemoveInvalid(w)
          \/ \E s \in Sources0 : Signal(w, s)
          \/ \E s \in program.removes : Invalidate(w, s)
          \/ \E m \in Modes : PerformBlock(w, m)
          \/ \E m \in program.stops : StopMode(w, m) \/ Stop(w)
    \/ \E p \in program.sends : Send(p)
    \/ \E i \in 1..Len(stack) : Expire(i) \/ Timeout(i)
    \/ TimeoutWakes

Spec == Init /\ [][Next]_vars

\* The thread of the loop runs, callouts return, who posted work goes on to
\* wake the loop up, and the dispatch timer of an activation fires.
FairSpec ==
    /\ Spec
    /\ WF_vars(LoopStep)
    /\ SF_vars(Return)
    /\ \A w \in Wakers : SF_vars(WakeUp(w)) /\ SF_vars(RemoveInvalid(w))
    /\ SF_vars(TimeoutWakes)

-----------------------------------------------------------------------------
(* Properties.                                                             *)

\* What an activation would do if it did not sleep.
Pending ==
    \/ member[Top.mode] \cap Sources0 \cap valid \cap signaled # {}
    \/ \E i \in 1..Len(blocks) : blocks[i].mode = Top.mode
    \/ Top.stopped
    \/ Top.mode \in modeStopped
    \/ Top.timed = "now"

\* The loop does not sleep over work, a stop or a time-out whose thread has
\* finished waking it up, although wake-ups are ignored between two sleeps
\* and one message serves for many.
WakesUp ==
    (Asleep /\ Wake \notin ports /\ ~alarm /\ \A w \in Wakers : post[w] # "wake")
        => ~Pending

\* It does not if the program runs the loop inside its own callouts only
\* where wake-ups are ignored: another nested run may take the message that
\* was meant for the activation around it.
IgnoredNests ==
    Sources \cup {"main"} \cup {o \in Observers : Activities[o] = {"afterWaiting"}}
NoLostWakeup == program.nests \subseteq IgnoredNests => WakesUp

\* Neither an observer nor the main queue is called out to from inside its
\* own callout, however the program nests its runs of the loop.
NotReentered ==
    \A i, j \in 1..Len(stack) :
       (/\ i < j
        /\ stack[j].pc = "callout"
        /\ stack[i].callout = stack[j].callout)
           => stack[j].callout \notin Observers \cup {"main"}

\* Blocks stay in the order they were posted, none twice, while activations
\* take the list and put back what is not theirs: what an outer activation
\* holds is older than what the inner ones and the list hold, and what it
\* keeps is older than what it has not looked at.
Ids(q) == {q[k].id : k \in DOMAIN q}
Rising(q) == \A k, l \in DOMAIN q : k < l => q[k].id < q[l].id
Older(S, T) == \A x \in S, y \in T : x < y
Held(a) == Ids(a.keep) \cup Ids(a.run)
BlocksInOrder ==
    /\ Rising(blocks)
    /\ \A i \in 1..Len(stack) :
          /\ Rising(stack[i].keep) /\ Rising(stack[i].run)
          /\ Older(Ids(stack[i].keep), Ids(stack[i].run))
          /\ Older(Held(stack[i]), Ids(blocks))
          /\ \A j \in (i + 1)..Len(stack) : Older(Held(stack[i]), Held(stack[j]))

\* A signalled source of the mode that runs is performed, or the run ends
\* or another is nested in it, whatever else the loop is given to do.  The
\* main queue is not starved by the sources either: an iteration that did
\* not follow one that served it serves it first.
SourcesServed ==
    /\ \A s \in Sources0, n \in 1..MaxNesting :
          (Len(stack) = n /\ s \in signaled \cap member[Top.mode])
              ~> (s \notin signaled \/ Len(stack) # n)
    /\ (Len(stack) = 1 /\ Top.queue /\ Main \in ports)
          ~> (Main \notin ports \/ Len(stack) # 1)

-----------------------------------------------------------------------------
(* The rest of the inductive invariant.                                    *)

Blocks == [id : Nat, mode : Modes]
Activations ==
    [mode : Modes, after : BOOLEAN, timed : {"never", "later", "now"},
     late : BOOLEAN, stopped : BOOLEAN, ignoring : BOOLEAN, queue : BOOLEAN,
     didMain : BOOLEAN, handled : BOOLEAN, poll : BOOLEAN,
     live : {None, Wake, Main} \cup Sources1,
     pc : Stages, then : Stages,
     callout : {None, "main", "block"} \cup Sources \cup Observers,
     todo : SUBSET (Sources \cup Observers),
     run : Seq(Blocks), keep : Seq(Blocks)]

TypeOK ==
    /\ program \in Programs
    /\ stack \in Seq(Activations)
    /\ ports \subseteq {Wake, Main} \cup Sources1
    /\ signaled \subseteq Sources0
    /\ valid \subseteq Sources \cup Observers
    /\ member \in [Modes -> SUBSET Sources]
    /\ firing \subseteq Observers
    /\ blocks \in Seq(Blocks)
    /\ posted \in Nat
    /\ modeStopped \subseteq Modes
    /\ post \in [Wakers -> {"idle", "wake"} \cup Sources]
    /\ alarm \in BOOLEAN

\* The stage an activation is at, or goes on to after the list or the callout
\* it is in.
Place(a) == IF a.pc \in {"callout", "notify", "runBlocks"} THEN a.then ELSE a.pc

\* From the beginning of an iteration to the sleep: what comes meanwhile has
\* to keep the loop from sleeping, from the stage on that looked for it.
PastSources == {"poll", "beforeWaiting", "sleep", "waiting"}
PastBlocks == {"sources", "perform"} \cup PastSources
PastStops == {"beforeTimers", "beforeSources", "blocks", "blocksAgain"}
             \cup PastBlocks
PastPoll == PastSources \ {"poll"}

\* The activation will not sleep, or only look at the ports.
Excused(a) ==
    \/ Place(a) \notin PastStops
    \/ a.handled
    \/ Place(a) \in PastPoll /\ a.poll

\* The lists hold a block only while the activation is in them, and its
\* callout is one that its stage makes.
ActivationOK(a) ==
    /\ Place(a) \in PastStops => ~a.ignoring
    /\ Place(a) \in PastPoll /\ a.handled => a.poll
    /\ Place(a) = "blocksAgain" => a.handled
    /\ a.pc = "runBlocks" \/ (a.pc = "callout" /\ a.callout = "block")
          \/ (a.run = <<>> /\ a.keep = <<>>)
    /\ \A k \in DOMAIN a.keep : a.keep[k].mode # a.mode
    /\ a.pc = "notify" \/ (a.pc = "callout" /\ a.callout \in Observers) =>
          \E x \in DOMAIN ObserverStages :
             /\ a.then = Stage[ObserverStages[x]]
             /\ \A o \in a.todo : o \in Observers /\ x \in Activities[o]
             /\ a.pc = "callout" => x \in Activities[a.callout]
    /\ a.pc = "callout" =>
          \/ a.callout \in Observers
          \/ a.callout = "block" /\ a.then \in {"sources", "poll", "end"}
          \/ a.callout \in Sources0 /\ a.then = "perform" /\ a.handled
          \/ a.callout \in Sources1 \cup {"main"} /\ a.then = "blocksLast"
    /\ a.pc = "runBlocks" => a.then \in {"sources", "poll", "end"}

\* Somebody has still to wake the loop up, or has.
Notice ==
    Wake \in ports \/ alarm \/ \E w \in Wakers : post[w] = "wake"

\* What an activation has not looked at since it began to look.
Ready(a) == member[a.mode] \cap Sources0 \cap valid \cap signaled
Unseen(a) ==
    \/ a.stopped \/ a.mode \in modeStopped
    \/ Place(a) \in PastBlocks /\ \E k \in DOMAIN blocks : blocks[k].mode = a.mode
    \/ Place(a) = "perform" /\ ~(Ready(a) \subseteq a.todo)
    \/ Place(a) \in PastSources /\ Ready(a) # {}
    \/ Place(a) \in PastPoll /\ a.timed = "now"

\* Only the innermost activation takes messages, and the others sleep no
\* more before the next iteration.
Noticed ==
    /\ Running => Excused(Top) \/ Notice \/ ~Unseen(Top)
    /\ \A i \in 1..(Len(stack) - 1) : Excused(stack[i])

ActivationsOK ==
    \A i \in 1..Len(stack) :
       ActivationOK(stack[i]) /\ (i # Len(stack) => stack[i].pc = "callout")
IdsOK ==
    /\ \A x \in Ids(blocks) : x < posted
    /\ \A i \in 1..Len(stack) : \A x \in Held(stack[i]) : x < posted

IndInv ==
    /\ TypeOK
    /\ ActivationsOK
    /\ IdsOK
    /\ BlocksInOrder
    /\ program.nests \subseteq IgnoredNests => Noticed

\* An observer in its callout has its firing bit set; no activation nested in
\* the callout has collected it since.  One nested in the main queue's callout
\* does not serve the main queue.
OutOfReach(a, b) ==
    /\ a.callout \in Observers =>
          a.callout \notin b.todo /\ (b.pc = "callout" => b.callout # a.callout)
    /\ a.callout = "main" =>
          ~b.queue /\ b.live # Main /\ (b.pc = "callout" => b.callout # "main")
CalloutsOK ==
    /\ \A i \in 1..Len(stack) :
          stack[i].pc = "callout" /\ stack[i].callout \in Observers =>
             stack[i].callout \in firing
    /\ \A i \in 1..Len(stack) : \A j \in (i + 1)..Len(stack) :
          OutOfReach(stack[i], stack[j])
=============================================================================
