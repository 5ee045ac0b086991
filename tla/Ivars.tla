---- MODULE Ivars ----
(***************************************************************************)
(* Non-fragile instance variables (objc-runtime-new.mm): a class that was  *)
(* compiled against a smaller superclass has its ivars moved when it is    *)
(* realized, a class made at run time gets its ivars one by one, and how   *)
(* an ivar's memory is managed is looked up, with the offset it has by     *)
(* then, in layouts that were compiled for the old one (objc-class.mm).    *)
(* Realization runs under runtimeLock, a step for each class, superclasses *)
(* first.                                                                  *)
(*                                                                         *)
(* The compiled classes are a chain, each the subclass of the one before.  *)
(* A layout is here the set of the words it marks; Layouts has the string. *)
(* Bitfields without a name, which have no offset to move, are left out.   *)
(***************************************************************************)
EXTENDS Integers, FiniteSets, SequencesExt

CONSTANTS
    WordSize,
    Types,          \* of ivars: [size, alignment, memory], memory being
                    \* strong, weak, unretained or none for what is no object
    Compiled,       \* the compiled classes are 1 .. Compiled, 1 the root
    MaxGrowth,      \* bound: bytes by which a superclass has grown
    MaxIvars        \* bound: ivars of a class

\* What an instance has to give.
IvarsAssumption ==
    /\ WordSize \in Nat \ {0} /\ Compiled \in Nat \ {0} /\ MaxGrowth \in Nat /\ MaxIvars \in Nat
    /\ \A t \in Types : t.size \in Nat /\ t.alignment \in Nat \ {0}
                        /\ (t.memory # "none" => t.size = WordSize /\ t.alignment = WordSize)

NewClass == Compiled + 1        \* the class made at run time
Classes == 1 .. NewClass

VARIABLES
    ro,         \* class -> its class_ro_t
    status,     \* class -> compiled, realized, constructing or none
    super,      \* class -> its superclass
    debug       \* DebugNonFragileIvars

ivarVars == <<ro, status, super, debug>>

AlignUp(n, a) == ((n + a - 1) \div a) * a
word_align(n) == AlignUp(n, WordSize)

\* An ivar behind a class of the size.
Ivar(t, size) == [offset |-> AlignUp(size, t.alignment), type |-> t]
EndOf(ivar) == ivar.offset + ivar.type.size

\* A class compiled with ivars of the types against a superclass of the size:
\* it starts with its first ivar, and its layouts with the first word there.
CompiledClass(types, size) ==
    LET ivars == FoldLeft(LAMBDA s, t : Append(s, Ivar(t, IF s = <<>> THEN size
                                                          ELSE EndOf(Last(s)))),
                          <<>>, types)
        start == IF ivars = <<>> THEN size ELSE ivars[1].offset
        Words(m) == {(ivars[i].offset - word_align(start)) \div WordSize :
                        i \in {j \in DOMAIN ivars : ivars[j].type.memory = m}}
    IN [instanceStart |-> start,
        instanceSize |-> IF ivars = <<>> THEN size ELSE EndOf(Last(ivars)),
        ivars |-> ivars, ivarLayout |-> Words("strong"), weakIvarLayout |-> Words("weak")]

Root == [CompiledClass(<<>>, WordSize) EXCEPT !.instanceStart = 0]

\* Each class against the one before as it was then; how far that one has
\* grown since shows in its own size only.
CompiledChain(types, growth) ==
    LET then[c \in 1 .. Compiled] ==
            IF c = 1 THEN Root ELSE CompiledClass(types[c], then[c - 1].instanceSize)
    IN [c \in Classes |-> IF c = NewClass THEN Root
                          ELSE [then[c] EXCEPT !.instanceSize = @ + growth[c]]]

Init ==
    /\ \E types \in [2 .. Compiled -> UNION {[1 .. n -> Types] : n \in 0 .. MaxIvars}],
          growth \in [1 .. Compiled -> 0 .. MaxGrowth] :
          /\ \A c \in 3 .. Compiled : growth[c] = 0
          /\ ro = CompiledChain(types, growth)
    /\ status = [c \in Classes |-> IF c = NewClass THEN "none" ELSE "compiled"]
    /\ super = [c \in Classes |-> c - 1]
    /\ debug \in BOOLEAN

-----------------------------------------------------------------------------
Highest(S) == CHOOSE n \in S : \A m \in S : m <= n

Alignments(r) == {r.ivars[i].type.alignment : i \in DOMAIN r.ivars}

Moved(r, by) ==
    [r EXCEPT !.ivars = [i \in DOMAIN @ |-> [@[i] EXCEPT !.offset = @ + by]],
              !.instanceStart = @ + by, !.instanceSize = @ + by]

\* Mutant: as far as the superclass has grown, alignment or not.
Difference(r, superSize) == superSize - r.instanceStart

\* How far the ivars move: all by the same, so that each keeps its alignment.
Slide(r, superSize) ==
    AlignUp(superSize - r.instanceStart, Highest({1} \cup Alignments(r)))

moveIvars(r, superSize) == Moved(r, Slide(r, superSize))

\* For debugging the class is first moved to the front, but for what its start
\* is misaligned by.
MovedToFront(r) ==
    LET alignment == Highest({WordSize} \cup Alignments(r))
    IN Moved(r, (r.instanceStart % alignment) - r.instanceStart)

reconcileInstanceVariables(c) ==
    LET r == IF debug THEN MovedToFront(ro[c]) ELSE ro[c]
        superSize == ro[super[c]].instanceSize
    IN IF r.instanceStart >= superSize THEN r ELSE moveIvars(r, superSize)

realizeClass(c) ==
    /\ status[c] = "compiled"
    /\ c > 1 => status[super[c]] = "realized"
    /\ status' = [status EXCEPT ![c] = "realized"]
    /\ ro' = IF c = 1 THEN ro ELSE [ro EXCEPT ![c] = reconcileInstanceVariables(c)]
    /\ UNCHANGED <<super, debug>>

objc_allocateClassPair(s) ==
    /\ status[NewClass] = "none" /\ status[s] = "realized"
    /\ status' = [status EXCEPT ![NewClass] = "constructing"]
    /\ super' = [super EXCEPT ![NewClass] = s]
    /\ ro' = [ro EXCEPT ![NewClass] = CompiledClass(<<>>, ro[s].instanceSize)]
    /\ UNCHANGED debug

class_addIvar(t) ==
    /\ status[NewClass] = "constructing" /\ Len(ro[NewClass].ivars) < MaxIvars
    /\ LET ivar == Ivar(t, ro[NewClass].instanceSize) IN
       ro' = [ro EXCEPT ![NewClass].ivars = Append(@, ivar), ![NewClass].instanceSize = EndOf(ivar)]
    /\ UNCHANGED <<status, super, debug>>

objc_registerClassPair ==
    /\ status[NewClass] = "constructing"
    /\ status' = [status EXCEPT ![NewClass] = "realized"]
    /\ UNCHANGED <<ro, super, debug>>

Next ==
    \/ \E c \in Classes : realizeClass(c) \/ objc_allocateClassPair(c)
    \/ \E t \in Types : class_addIvar(t)
    \/ objc_registerClassPair

Spec == Init /\ [][Next]_ivarVars

-----------------------------------------------------------------------------
\* How the ivar's memory is managed, its class being compiled with ARC.
_class_lookUpIvar(c, ivar) ==
    LET word == (ivar.offset - word_align(ro[c].instanceStart)) \div WordSize IN
    IF word \in ro[c].ivarLayout THEN "strong"
    ELSE IF word \in ro[c].weakIvarLayout THEN "weak" ELSE "unretained"

\* Of an object no two ivars share a byte, whichever class they are of and
\* whatever has grown or been moved; each lies aligned and within its class;
\* and an ivar that is an object is managed as it was compiled to be, though
\* it has moved (objc-runtime-new.mm:1706-1855, objc-class.mm:243-275).
IvarsFit ==
    \A c \in {d \in Classes : status[d] \in {"realized", "constructing"}} :
        /\ c > 1 => ro[c].instanceSize >= ro[super[c]].instanceSize
        /\ \A i \in DOMAIN ro[c].ivars :
              LET ivar == ro[c].ivars[i] IN
              /\ ivar.offset >= (IF i = 1 THEN ro[super[c]].instanceSize
                                 ELSE EndOf(ro[c].ivars[i - 1]))
              /\ ivar.offset % ivar.type.alignment = 0
              /\ EndOf(ivar) <= ro[c].instanceSize
              /\ c # NewClass /\ ivar.type.memory # "none" =>
                    _class_lookUpIvar(c, ivar) = ivar.type.memory
====
