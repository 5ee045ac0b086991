------------------------------ MODULE Initialize ------------------------------
(***************************************************************************)
(* The +initialize protocol of objc-initialize.mm: the first message to a  *)
(* class initializes its superclasses and then the class, once, while      *)
(* other threads that send it messages wait for that to end.  +initialize  *)
(* is code of the program and sends messages itself, to subclasses of the  *)
(* class too; it may throw.  The process may be forked in the middle.      *)
(***************************************************************************)
EXTENDS Naturals, Sequences, FiniteSets, SequencesExt

CONSTANTS
    Threads,
    Classes,
    NoClass,        \* the superclass of a root class
    Superclass,     \* [Classes -> Classes \cup {NoClass}]
    Sends,          \* the classes a thread sends messages to, by thread
    Programs        \* the programs: who implements +initialize, and to which
                    \* classes the implementation sends messages

\* No class is its own ancestor; and a root class's own +initialize is empty,
\* as classHasTrivialInitialize assumes.
ASSUME HierarchyAssumption ==
    /\ NoClass \notin Classes
    /\ Superclass \in [Classes -> Classes \cup {NoClass}]
    /\ Sends \in [Threads -> SUBSET Classes]
    /\ \A S \in SUBSET Classes : S # {} => \E c \in S : Superclass[c] \notin S
    /\ \A p \in Programs :
           /\ p.own \subseteq Classes
           /\ p.messages \in [Classes -> SUBSET Classes]
           /\ \A c \in Classes : Superclass[c] = NoClass => p.messages[c] = {}

Ancestors[c \in Classes] ==
    IF Superclass[c] = NoClass THEN {}
    ELSE {Superclass[c]} \cup Ancestors[Superclass[c]]

Line(c) == {c} \cup Ancestors[c]

VARIABLES
    program,
    state,      \* RW_INITIALIZING and RW_INITIALIZED of the metaclass
    list,       \* by thread, the classes it is initializing
    pending,    \* the classes in pendingInitializeMap, each under its superclass
    stack,      \* by thread, its calls of _class_initialize and +initialize
    live,       \* the threads of the process: one of them after a fork
    halted      \* "no", or why the process was halted

vars == <<program, state, list, pending, stack, live, halted>>

\* The implementation of +initialize a class responds with, if any.
Implementers(p, c) ==
    {d \in p.own \cap Line(c) : \A e \in p.own \cap Line(c) : d \notin Ancestors[e]}

Body(c) == UNION {program.messages[d] : d \in Implementers(program, c)}

classHasTrivialInitialize(c) ==
    \A d \in Implementers(program, c) : Superclass[d] = NoClass

MultithreadedForkChild == live # Threads

Frame(c, pc, todo) == [cls |-> c, pc |-> pc, todo |-> todo]

Init ==
    /\ program \in Programs
    /\ state = [c \in Classes |-> "no"]
    /\ list = [t \in Threads |-> {}]
    /\ pending = {}
    /\ stack = [t \in Threads |-> <<Frame(NoClass, "body", Sends[t])>>]
    /\ live = Threads
    /\ halted = "no"

At(t, pc) ==
    /\ halted = "no"
    /\ t \in live
    /\ Last(stack[t]).pc = pc

Cls(t) == Last(stack[t]).cls

Goto(t, pc) == stack' = [stack EXCEPT ![t][Len(stack[t])].pc = pc]

Call(t, c) == stack' = [stack EXCEPT ![t] = Append(@, Frame(c, "super", {}))]

\* A call for a superclass goes on with the class, one for a message returns
\* to the code that sent it.
Popped(s) ==
    IF Last(Front(s)).pc = "super"
    THEN [Front(s) EXCEPT ![Len(s) - 1].pc = "lock"]
    ELSE Front(s)

\* An exception goes through the calls up to the next code of the program.
Unwound(s) ==
    SubSeq(s, 1, CHOOSE i \in 1 .. Len(s) - 1 :
                     /\ s[i].pc = "body"
                     /\ \A j \in i + 1 .. Len(s) - 1 : s[j].pc # "body")

Return(t) == stack' = [stack EXCEPT ![t] = Popped(@)]

Fatal == /\ halted' = "fatal"
         /\ UNCHANGED <<program, state, list, pending, stack, live>>

(***************************************************************************)
(* The program: a thread, and the +initialize it runs, send messages.  A   *)
(* message to a class that is not initialized calls _class_initialize.     *)
(***************************************************************************)
Send(t) ==
    /\ At(t, "body")
    /\ \E c \in Last(stack[t]).todo :
           LET sent == [stack[t] EXCEPT ![Len(stack[t])].todo = @ \ {c}]
           IN  stack' = [stack EXCEPT
                   ![t] = IF state[c] = "initialized" THEN sent
                          ELSE Append(sent, Frame(c, "super", {}))]
    /\ UNCHANGED <<program, state, list, pending, live, halted>>

InitializeReturns(t) ==
    /\ At(t, "body")
    /\ Cls(t) # NoClass
    /\ Last(stack[t]).todo = {}
    /\ Goto(t, "finish")
    /\ UNCHANGED <<program, state, list, pending, live, halted>>

InitializeThrows(t) ==
    /\ At(t, "body")
    /\ Cls(t) # NoClass
    /\ Goto(t, "throw")
    /\ UNCHANGED <<program, state, list, pending, live, halted>>

\* The child of fork() has the forking thread only, and no lock is held.
Fork(t) ==
    /\ At(t, "body")
    /\ ~ MultithreadedForkChild
    /\ live' = {t}
    /\ list' = [u \in Threads |-> IF u = t THEN list[u] ELSE {}]
    /\ stack' = [u \in Threads |-> IF u = t THEN stack[u] ELSE <<>>]
    /\ UNCHANGED <<program, state, pending, halted>>

(***************************************************************************)
(* _class_initialize.                                                      *)
(***************************************************************************)
InitializeSuper(t) ==
    /\ At(t, "super")
    /\ LET supercls == Superclass[Cls(t)] IN
           IF supercls # NoClass /\ state[supercls] # "initialized"
           THEN Call(t, supercls)
           ELSE Goto(t, "lock")
    /\ UNCHANGED <<program, state, list, pending, live, halted>>

\* Under classInitLock: the thread that sets RW_INITIALIZING initializes.
SetInitializing(t) ==
    /\ At(t, "lock")
    /\ state[Cls(t)] = "no"
    /\ IF Cls(t) \in list[t] THEN Fatal
       ELSE /\ state' = [state EXCEPT ![Cls(t)] = "initializing"]
            /\ list' = [list EXCEPT ![t] = @ \cup {Cls(t)}]
            /\ IF MultithreadedForkChild THEN Goto(t, "fork")
               ELSE stack' = [stack EXCEPT ![t][Len(stack[t])] =
                                 Frame(Cls(t), "body", Body(Cls(t)))]
            /\ UNCHANGED <<program, pending, live, halted>>

SetAlready(t) ==
    /\ At(t, "lock")
    /\ state[Cls(t)] # "no"
    /\ Goto(t, "initializing")
    /\ UNCHANGED <<program, state, list, pending, live, halted>>

\* Mutant: a class that is being initialized is taken for usable.
IsInitializingBlind(t) ==
    /\ At(t, "initializing")
    /\ Return(t)
    /\ UNCHANGED <<program, state, list, pending, live, halted>>

\* isInitializing(), read without the lock.
IsInitializing(t) ==
    /\ At(t, "initializing")
    /\ IF state[Cls(t)] # "initializing"
       THEN Goto(t, "initialized") /\ UNCHANGED <<list, halted>>
       ELSE IF Cls(t) \in list[t] THEN Return(t) /\ UNCHANGED <<list, halted>>
       ELSE IF ~ MultithreadedForkChild
       THEN Goto(t, "wait") /\ UNCHANGED <<list, halted>>
       ELSE /\ list' = [list EXCEPT ![t] = @ \cup {Cls(t)}]
            /\ Goto(t, "fork")
            /\ UNCHANGED halted
    /\ UNCHANGED <<program, state, pending, live>>

IsInitialized(t) ==
    /\ At(t, "initialized")
    /\ IF state[Cls(t)] = "initialized"
       THEN Return(t) /\ UNCHANGED <<program, state, list, pending, live, halted>>
       ELSE Fatal

\* Mutant: the class is not looked at again under the lock.
waitForInitializeToCompleteBlind(t) ==
    /\ At(t, "wait")
    /\ Goto(t, "waiting")
    /\ UNCHANGED <<program, state, list, pending, live, halted>>

waitForInitializeToComplete(t) ==
    /\ At(t, "wait")
    /\ IF state[Cls(t)] = "initialized" THEN Return(t) ELSE Goto(t, "waiting")
    /\ UNCHANGED <<program, state, list, pending, live, halted>>

performForkChildInitialize(t) ==
    /\ At(t, "fork")
    /\ IF classHasTrivialInitialize(Cls(t))
       THEN Goto(t, "finish") /\ UNCHANGED halted
       ELSE halted' = "forked" /\ UNCHANGED stack
    /\ UNCHANGED <<program, state, list, pending, live>>

(***************************************************************************)
(* lockAndFinishInitializing.                                              *)
(***************************************************************************)
\* The class, and the subclasses that merely waited for it.
Finished(c) ==
    {d \in Classes : c \in Line(d) /\ Line(d) \ Line(c) \subseteq pending}

\* notifyAll(): who waits looks again.
Notified(s) ==
    IF s # <<>> /\ Last(s).pc = "waiting"
    THEN [s EXCEPT ![Len(s)].pc = "wait"] ELSE s

After(t, s) == IF Last(s).pc = "throw" THEN Unwound(s) ELSE Popped(s)

\* Mutant: a class whose +initialize has returned is initialized.
SuperIsInitializedAlways(c) == TRUE

SuperIsInitialized(c) ==
    Superclass[c] # NoClass => state[Superclass[c]] = "initialized"

Finishing(t) == At(t, "finish") \/ At(t, "throw")

_finishInitializing(t) ==
    LET finished == Finished(Cls(t)) IN
    /\ Finishing(t)
    /\ SuperIsInitialized(Cls(t))
    /\ IF ~ finished \subseteq list[t] THEN Fatal
       ELSE /\ state' = [c \in Classes |-> IF c \in finished THEN "initialized"
                                           ELSE state[c]]
            /\ list' = [list EXCEPT ![t] = @ \ finished]
            /\ pending' = pending \ finished
            /\ stack' = [u \in Threads |-> IF u = t THEN After(t, stack[t])
                                           ELSE Notified(stack[u])]
            /\ UNCHANGED <<program, live, halted>>

_finishInitializingAfter(t) ==
    /\ Finishing(t)
    /\ ~ SuperIsInitialized(Cls(t))
    /\ pending' = pending \cup {Cls(t)}
    /\ stack' = [stack EXCEPT ![t] = After(t, @)]
    /\ UNCHANGED <<program, state, list, live, halted>>

RuntimeStep(t) ==
    \/ InitializeSuper(t)
    \/ SetInitializing(t) \/ SetAlready(t)
    \/ IsInitializing(t) \/ IsInitialized(t)
    \/ waitForInitializeToComplete(t)
    \/ performForkChildInitialize(t)
    \/ _finishInitializing(t) \/ _finishInitializingAfter(t)

ProgramStep(t) == Send(t) \/ InitializeReturns(t)

Next == \E t \in Threads : \/ RuntimeStep(t) \/ ProgramStep(t)
                           \/ InitializeThrows(t) \/ Fork(t)

Spec == Init /\ [][Next]_vars

\* The scheduler runs every thread; the program's +initialize methods return.
FairSpec == Spec /\ \A t \in Threads : WF_vars(RuntimeStep(t) \/ ProgramStep(t))
-----------------------------------------------------------------------------
\* The threads that are initializing a class.
Initializers(c) == {t \in live : c \in list[t]}

(* "The initializing+initialized part of the class hierarchy will be a     *)
(* contiguous subtree starting at the root" (objc-initialize.mm:88): a     *)
(* class is initialized after its superclass, and while the superclass is  *)
(* still initializing only its own thread gets past it, one at a time.     *)
Contiguous ==
    \A c \in Classes :
        /\ Cardinality(Initializers(c)) <= 1
        /\ Superclass[c] # NoClass /\ state[c] # "no" =>
               \/ state[Superclass[c]] = "initialized"
               \/ /\ state[c] = "initializing"
                  /\ state[Superclass[c]] = "initializing"
                  /\ Initializers(c) \subseteq Initializers(Superclass[c])

(* A message sent through _class_initialize reaches its class only when    *)
(* the class is initialized, or by a thread that is initializing it; and   *)
(* none of the fatal errors "thread is already initializing this class",   *)
(* "thread is not initializing this class" and "thread-safe class init in  *)
(* objc runtime is buggy" is reached, not in the child of a fork either.   *)
OthersWait ==
    [][/\ halted' # "fatal"
       /\ \A t \in live' :
              Len(stack'[t]) < Len(stack[t]) /\ Last(stack'[t]).pc = "body"
                  /\ Last(stack[t]).pc # "throw" =>
              LET c == stack[t][Len(stack'[t]) + 1].cls
              IN  state'[c] = "initialized" \/ c \in list'[t]]_vars

(* Every message gets through: the OmniWeb deadlock of                     *)
(* objc-initialize.mm:60 does not happen, and no thread waits for a class  *)
(* whose initializer is gone.  The child of a fork halts rather than wait. *)
MessagesReturn ==
    <>(\/ halted # "no"
       \/ \A t \in live : Len(stack[t]) = 1 /\ Last(stack[t]).todo = {})

(* The frames of the calls, from the message to the end.                    *)
Frames ==
    [cls : Classes \cup {NoClass},
     pc : {"super", "lock", "initializing", "initialized", "wait", "waiting",
           "fork", "body", "finish", "throw"},
     todo : SUBSET Classes]

TypeOK ==
    /\ program \in Programs
    /\ state \in [Classes -> {"no", "initializing", "initialized"}]
    /\ list \in [Threads -> SUBSET Classes]
    /\ pending \subseteq Classes
    /\ stack \in [Threads -> Seq(Frames)]
    /\ live \subseteq Threads
    /\ halted \in {"no", "fatal", "forked"}

-----------------------------------------------------------------------------
(* The rest of the inductive invariant.                                    *)
Initializes(f, c) == f.pc \in {"body", "fork", "finish", "throw"} /\ f.cls = c

\* A call for a class begins where the superclass is out of its way.
SuperReady(t, c) == SuperIsInitialized(c) \/ Superclass[c] \in list[t]

\* Below the innermost call of a thread are its code and calls that wait for
\* the superclass; it runs the +initialize of a class once.
StackOK(s) ==
    /\ s # <<>>
    /\ s[1].cls = NoClass /\ s[1].pc = "body"
    /\ \A i \in DOMAIN s : i # 1 => s[i].cls \in Classes
    /\ \A i \in DOMAIN s : i # Len(s) =>
           \/ s[i].pc = "body"
           \/ s[i].pc = "super" /\ s[i + 1].cls = Superclass[s[i].cls]
    /\ \A i, j \in DOMAIN s : i # j =>
           ~ (Initializes(s[i], s[i].cls) /\ Initializes(s[j], s[i].cls))

FrameOK(t, f) ==
    f.cls # NoClass =>
        /\ f.pc # "super" => SuperReady(t, f.cls)
        /\ f.pc = "initializing" => state[f.cls] # "no"
        /\ f.pc = "initialized" => state[f.cls] = "initialized"
        /\ Initializes(f, f.cls) => f.cls \in list[t]
        /\ f.pc = "body" => f.todo \subseteq Body(f.cls) /\ f.cls \notin pending
        /\ f.pc = "fork" => MultithreadedForkChild /\ f.cls \notin pending

\* With a frame above it, the +initialize of a class has sent a message.
ThreadOK(t) ==
    /\ StackOK(stack[t])
    /\ \A i \in DOMAIN stack[t] :
           /\ FrameOK(t, stack[t][i])
           /\ stack[t][i].pc = "body" /\ stack[t][i].cls # NoClass
                 /\ i # Len(stack[t]) =>
                     Body(stack[t][i].cls) # {}

\* Only the calling thread of fork() is left, and what the others were
\* initializing is on no list.
ForkOK ==
    /\ MultithreadedForkChild => \E t \in Threads : live = {t}
    /\ \A t \in Threads \ live : list[t] = {} /\ stack[t] = <<>>

\* A class on a list is being initialized: its +initialize runs, or has
\* ended before that of the superclass.
ListOK ==
    /\ \A t \in Threads : \A c \in list[t] :
           /\ state[c] = "initializing"
           /\ \/ c \in pending
              \/ \E i \in DOMAIN stack[t] : Initializes(stack[t][i], c)
    /\ \A t, u \in Threads : t # u => list[t] \cap list[u] = {}

\* A pending class waits for a superclass that is being initialized, by the
\* same thread unless that is gone; and if the superclass is not pending, its
\* +initialize does something, so the child of a fork will not finish it.
PendingOK ==
    \A d \in pending :
        /\ state[d] = "initializing"
        /\ Superclass[d] # NoClass /\ state[Superclass[d]] = "initializing"
        /\ Superclass[d] \notin pending => Body(Superclass[d]) # {}
        /\ \A t \in live : Superclass[d] \in list[t] =>
               \/ d \in list[t]
               \/ /\ Last(stack[t]).pc = "fork"
                  /\ Last(stack[t]).cls = Superclass[d]

SubtreeOK ==
    \A c \in Classes : Superclass[c] # NoClass /\ state[c] # "no" =>
        \/ state[Superclass[c]] = "initialized"
        \/ /\ state[c] = "initializing"
           /\ state[Superclass[c]] = "initializing"
           /\ \A t \in Threads : c \in list[t] => Superclass[c] \in list[t]

IndInv ==
    /\ TypeOK
    /\ halted # "fatal"
    /\ \A t \in live : ThreadOK(t)
    /\ ForkOK
    /\ ListOK
    /\ PendingOK
    /\ SubtreeOK
=============================================================================
