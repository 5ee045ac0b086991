---- MODULE AltHandlers ----
(***************************************************************************)
(* Exceptions and the alternative handlers of one thread                   *)
(* (objc-exception.mm:425-1405).  The stack is a sequence of frames: those *)
(* of the program, each at an instruction (`ip') inside a range of its     *)
(* function's call site table, and those of the unwinder (`ip' 0), on top  *)
(* of the frames it goes through.  An alternative handler belongs to the   *)
(* nearest frame inside a try that has any @catch, whatever it catches; it *)
(* is called, and forgotten, when that try is unwound.                     *)
(*                                                                         *)
(* Pad[ip] is the landing pad of a range, 0 for none; Clauses[pad] are the *)
(* types it catches, none for a cleanup; Landing[pad] is where it goes on; *)
(* Tries[ip] are the pads with a @catch whose try is around ip; Does[ip]   *)
(* is what the code there calls.  A program removes its handlers before it *)
(* leaves a try by itself.                                                 *)
(***************************************************************************)
EXTENDS Integers, Sequences, FiniteSets

CONSTANTS
    Pad, FunctionOf,        \* of each instruction
    Clauses, Landing,       \* of each landing pad
    Tries,                  \* of each instruction
    Does,                   \* what the program does at an instruction: some of
                            \* "call", "add", "remove" and "throw"
    Callback,               \* the instruction where a handler's function starts
    SuperOf, NoClass,       \* the classes of exceptions and their superclasses
    Missing,                \* weak-linked classes that are not there
    InitialSlots,           \* the slots of a new list, 4 in the program
    MaxStack, MaxHandlers

ips == DOMAIN Pad
AnyObject == "id"

HandlersAssumption ==
    /\ FunctionOf \in [ips -> Nat] /\ DOMAIN Tries = ips /\ Callback \in ips
    /\ Does \in [ips -> SUBSET {"call", "add", "remove", "throw"}]
    /\ \A ip \in ips : Pad[ip] # 0 =>
          FunctionOf[Landing[Pad[ip]]] = FunctionOf[ip]
    \* an exception that leaves the innermost try leaves no other one of the
    \* same frame on its way
    /\ \A ip \in ips : Cardinality(Tries[ip]) > 1 => AnyObject \in Clauses[Pad[ip]]

VARIABLES
    stack,          \* the frames: [ip, at, to, slot, exc]
    handlers,       \* data->handlerList, allocated slots
    used,
    registered,     \* what the program has registered, in order
    ended           \* "" or how the process ended

excVars == <<stack, handlers, used, registered, ended>>

Top == Len(stack)
Frame(ip) == [ip |-> ip, at |-> 0, to |-> 0, slot |-> 0, exc |-> NoClass]
Unwinder(at, to, exc) == [ip |-> 0, at |-> at, to |-> to, slot |-> 1, exc |-> exc]
Free == [cfa |-> 0, start |-> 0, end |-> 0, ips |-> {}]
Unwinders == {i \in 1 .. Top : stack[i].ip = 0}
Running == ended = "" /\ Top > 0 /\ Top \notin Unwinders

-----------------------------------------------------------------------------
(* The call site table and the classes.                                    *)

\* The catch of a type takes an exception: @catch (id), or a class that is
\* there and is the exception's own or a superclass.
_objc_default_exception_matcher[class \in DOMAIN SuperOf] ==
    {class} \cup IF SuperOf[class] = NoClass THEN {}
                 ELSE _objc_default_exception_matcher[SuperOf[class]]
_objc_exception_do_catch(type, exc) ==
    \/ type = AnyObject
    \/ type \notin Missing /\ type \in _objc_default_exception_matcher[exc]
Catches(ip, exc) ==
    ip # 0 /\ Pad[ip] # 0
        /\ \E type \in Clauses[Pad[ip]] : _objc_exception_do_catch(type, exc)

isObjCExceptionCatcher(ip) == ip # 0 /\ Pad[ip] # 0 /\ Clauses[Pad[ip]] # {}

\* All ranges with the landing pad of ip, as a span and, if there are more
\* than one, one by one.
SamePad(ip) == {i \in ips : Pad[i] = Pad[ip]}
TryRange(ip, cfa) ==
    LET same == SamePad(ip)
    IN  [cfa |-> cfa,
         start |-> CHOOSE i \in same : \A j \in same : i <= j,
         end |-> 1 + CHOOSE i \in same : \A j \in same : j <= i,
         ips |-> IF Cardinality(same) = 1 THEN {} ELSE same]

\* The nearest frame inside a try with a @catch: the frames that the
\* unwinder has gone through are still on the stack.
Catchers == {i \in 1 .. Top : isObjCExceptionCatcher(stack[i].ip)}
findHandler == CHOOSE i \in Catchers : \A j \in Catchers : j <= i

-----------------------------------------------------------------------------
(* The list of handlers.                                                   *)

IsFree(slot) == slot.start = 0 /\ slot.end = 0 /\ slot.cfa = 0
FreeSlots == {i \in 1 .. Len(handlers) : IsFree(handlers[i])}

\* A handler registered for a frame that an exception is going through comes
\* too late to be sure of its call.
TooLate(frame) == \E u \in Unwinders : stack[u].to <= frame /\ frame < u

Place(slot, frame) ==
    /\ used' = used + 1
    /\ registered' = Append(registered,
          [token |-> slot, cfa |-> frame, pad |-> Pad[stack[frame].ip],
           call |-> IF TooLate(frame) THEN "unsure" ELSE "pending"])

\* The list is full: double it.
Grow(frame) ==
    LET allocated == IF Len(handlers) = 0 THEN InitialSlots ELSE 2 * Len(handlers)
        range == TryRange(stack[frame].ip, frame)
    IN  /\ used = Len(handlers)
        /\ handlers' = [i \in 1 .. allocated |->
                           IF i <= used THEN handlers[i]
                           ELSE IF i = used + 1 THEN range ELSE Free]
        /\ Place(used + 1, frame) /\ UNCHANGED ended

\* Else take the first slot that is free.
Reuse(frame) ==
    /\ used # Len(handlers)
    /\ IF FreeSlots = {}
       THEN /\ ended' = "alt handlers in objc runtime are buggy!"
            /\ UNCHANGED <<handlers, used, registered>>
       ELSE LET slot == CHOOSE i \in FreeSlots : \A j \in FreeSlots : i <= j
            IN  /\ handlers' = [handlers EXCEPT ![slot] =
                                    TryRange(stack[frame].ip, frame)]
                /\ Place(slot, frame) /\ UNCHANGED ended

objc_addExceptionHandler ==
    /\ Running /\ "add" \in Does[stack[Top].ip] /\ Catchers # {} /\ Len(registered) < MaxHandlers
    /\ LET frame == findHandler IN Grow(frame) \/ Reuse(frame)
    /\ UNCHANGED stack

Without(i) == SubSeq(registered, 1, i - 1) \o SubSeq(registered, i + 1, Len(registered))

objc_removeExceptionHandler ==
    /\ Running /\ "remove" \in Does[stack[Top].ip]
    /\ \E i \in 1 .. Len(registered) :
          LET token == registered[i].token
          IN  /\ registered[i].call # "made"
              /\ IF token > Len(handlers) \/ IsFree(handlers[token])
                 THEN /\ ended' = "unknown alt handler"
                      /\ UNCHANGED <<handlers, used, registered>>
                 ELSE /\ handlers' = [handlers EXCEPT ![token] = Free]
                      /\ used' = used - 1
                      /\ registered' = Without(i)
                      /\ UNCHANGED ended
    /\ UNCHANGED stack

-----------------------------------------------------------------------------
(* The program.                                                            *)

HandlersOf(frame) == {i \in 1 .. Len(registered) :
                         registered[i].cfa = frame /\ registered[i].call # "unsure"}

\* A function is called, at any of its instructions.
Call ==
    /\ ended = "" /\ Top \notin Unwinders /\ Top < MaxStack
    /\ Top > 0 => "call" \in Does[stack[Top].ip]
    /\ \E ip \in ips \ {Callback} : stack' = Append(stack, Frame(ip))
    /\ UNCHANGED <<handlers, used, registered, ended>>

\* The innermost function goes on, out of no try it has handlers for.
Move ==
    /\ Running
    /\ \E ip \in ips :
          /\ FunctionOf[ip] = FunctionOf[stack[Top].ip] /\ ip # stack[Top].ip
          /\ \A i \in HandlersOf(Top) : registered[i].pad \in Tries[ip]
          /\ stack' = [stack EXCEPT ![Top].ip = ip]
    /\ UNCHANGED <<handlers, used, registered, ended>>

\* It returns, having removed its handlers; a handler's function returns to
\* the search for the next one.
Return ==
    /\ Running /\ HandlersOf(Top) = {}
    /\ stack' = SubSeq(stack, 1, Top - 1)
    /\ UNCHANGED <<handlers, used, registered, ended>>

-----------------------------------------------------------------------------
(* Throwing and unwinding.                                                 *)

\* The handler of uncaught exceptions is called, then the process ends.
_objc_terminate == ended' = "uncaught" /\ UNCHANGED stack

\* An exception is thrown: the frames are searched, none below an unwinder,
\* for one that catches it.
LastUnwinder ==
    IF Unwinders = {} THEN 0
    ELSE CHOOSE u \in Unwinders : \A v \in Unwinders : v <= u
objc_exception_throw ==
    /\ Running /\ Top < MaxStack /\ "throw" \in Does[stack[Top].ip]
    /\ \E exc \in DOMAIN SuperOf :
          LET found == {i \in LastUnwinder + 1 .. Top : Catches(stack[i].ip, exc)}
          IN  IF found = {}
              THEN _objc_terminate
              ELSE /\ stack' = Append(stack,
                          Unwinder(Top, CHOOSE i \in found : \A j \in found : j <= i,
                                   exc))
                   /\ UNCHANGED ended
    /\ UNCHANGED <<handlers, used, registered>>

\* The frame being unwound, and the handlers of its try not looked at yet.
Now == stack[Top]
MatchesSpan(slot, ip, cfa) == slot.start <= ip /\ ip < slot.end /\ slot.cfa = cfa
Matches(slot, ip, cfa) ==
    /\ MatchesSpan(slot, ip, cfa)
    /\ slot.ips = {} \/ ip \in slot.ips
Waiting == {i \in Now.slot .. Len(handlers) :
               Matches(handlers[i], stack[Now.at].ip, Now.at)}

\* The personality routine calls the handlers of the frame in the order of
\* their slots; each is copied and cleared before its function runs, above
\* the unwinder.
call_alt_handlers ==
    /\ ended = "" /\ Top \in Unwinders /\ Waiting # {}
    /\ LET slot == CHOOSE i \in Waiting : \A j \in Waiting : i <= j
       IN  /\ handlers' = [handlers EXCEPT ![slot] = Free]
           /\ used' = used - 1
           /\ stack' = Append([stack EXCEPT ![Top].slot = slot + 1], Frame(Callback))
           /\ registered' = [i \in 1 .. Len(registered) |->
                 IF registered[i].token = slot THEN [registered[i] EXCEPT !.call = "made"]
                 ELSE registered[i]]
    /\ UNCHANGED ended

\* The handlers of the tries that the frame leaves are done with.
Leave(frame, tries) ==
    registered' = SelectSeq(registered, LAMBDA r :
                               r.call = "unsure" \/ r.cfa # frame \/ r.pad \notin tries)

LandAt(frame) ==
    [SubSeq(stack, 1, frame) EXCEPT ![frame].ip = Landing[Pad[stack[frame].ip]]]

\* Then the C++ personality: the frame that catches goes on at its pad,
Catch ==
    /\ Now.at = Now.to
    /\ LET ip == stack[Now.at].ip
       IN  Leave(Now.at, Tries[ip] \ Tries[Landing[Pad[ip]]])
    /\ stack' = LandAt(Now.at)

\* a cleanup runs in its frame and resumes the unwinding there,
Cleanup ==
    LET ip == stack[Now.at].ip
    IN  /\ Now.at # Now.to /\ Pad[ip] # 0 /\ Clauses[Pad[ip]] = {}
        /\ stack' = Append(LandAt(Now.at), Unwinder(Now.at, Now.to, Now.exc))
        /\ UNCHANGED registered

\* and any other frame is passed.
Pass ==
    LET ip == stack[Now.at].ip
    IN  /\ Now.at # Now.to /\ (Pad[ip] # 0 => Clauses[Pad[ip]] # {})
        /\ stack' = [stack EXCEPT ![Top].at = @ - 1, ![Top].slot = 1]
        /\ Leave(Now.at, Tries[ip])

__objc_personality_v0 ==
    /\ ended = "" /\ Top \in Unwinders /\ Waiting = {}
    /\ Catch \/ Cleanup \/ Pass
    /\ UNCHANGED <<handlers, used, ended>>

Init == stack = <<>> /\ handlers = <<>> /\ used = 0 /\ registered = <<>> /\ ended = ""

Next ==
    \/ Call \/ Move \/ Return
    \/ objc_addExceptionHandler \/ objc_removeExceptionHandler
    \/ objc_exception_throw \/ call_alt_handlers \/ __objc_personality_v0

Spec == Init /\ [][Next]_excVars

-----------------------------------------------------------------------------
(* What the list promises.                                                 *)

TypeOK ==
    /\ \A i \in 1 .. Top : stack[i].ip \in ips \cup {0}
    /\ used \in Nat

Occupied == {i \in 1 .. Len(handlers) : ~ IsFree(handlers[i])}

\* A handler is in the list as long as the try it was registered for goes
\* on: it is not called for an exception caught inside that try, nor for
\* another frame at the same address later, nor left behind when an exception
\* leaves the try, whatever the functions of other handlers add, remove and
\* throw meanwhile; and a free slot is found when the count says there is one
\* (objc-exception.mm:1156-1250, :1357-1405).
HandlersKept ==
    LET beingUnwound == {stack[u].at : u \in Unwinders}
        settled == {i \in 1 .. Len(registered) :
                       /\ registered[i].call # "unsure"
                       /\ registered[i].cfa \notin beingUnwound}
    IN  /\ ended \notin {"alt handlers in objc runtime are buggy!", "unknown alt handler"}
        /\ used = Cardinality(Occupied)
        /\ \A i \in settled :
              LET r == registered[i]
              IN  /\ r.call = "pending" /\ r.token \in Occupied /\ handlers[r.token].cfa = r.cfa
                  /\ r.cfa <= Top /\ r.pad \in Tries[stack[r.cfa].ip]
        /\ \A i \in Occupied : \E j \in 1 .. Len(registered) :
              /\ registered[j].token = i /\ registered[j].cfa = handlers[i].cfa
             /\ registered[j].call # "made"

\* `called in order registered' (objc-exception.mm:1363).
CalledInOrder ==
    [][ call_alt_handlers =>
          \A i \in Waiting, j \in 1 .. Len(registered) :
             (registered[j].token = i /\ IsFree(handlers'[i]))
                => \A k \in 1 .. j - 1 : registered[k].token \notin Waiting ]_excVars
====
