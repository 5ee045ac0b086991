---- MODULE Layouts ----
(***************************************************************************)
(* Ivar layouts (objc-layout.mm): which words of an object hold references,*)
(* as a bitmap that is slid, pasted and merged when a superclass changes,  *)
(* and as a string of bytes, a skip count in the high half and a scan      *)
(* count in the low one, that ends with a zero byte.  isScanned of         *)
(* objc-class.mm reads a word's bit from the string.  Every function here  *)
(* works on its arguments only, so each is a step.                         *)
(***************************************************************************)
EXTENDS Integers, FiniteSets, SequencesExt

CONSTANTS
    Nibble,     \* the most a half of a byte counts (0xf)
    MaxWords,   \* bound: words of a bitmap
    MaxSource   \* bound: words of a bitmap that is pasted or merged

\* What an instance has to give.
LayoutsAssumption == Nibble \in Nat \ {0} /\ MaxWords \in Nat /\ MaxSource \in Nat

VARIABLES
    bits,       \* the bitmap: a sequence of 0 and 1, the first word first
    weak,       \* the bitmap of weak references
    marked      \* what it has been told: the words with a reference

layoutVars == <<bits, weak, marked>>

Word(b, i) == b[i + 1]
NULL == "NULL"

-----------------------------------------------------------------------------
\* Layout strings.  The runs of a bitmap: words to skip, then words to scan.
Runs(b) ==
    FoldLeft(LAMBDA runs, bit :
                 LET last == IF runs = <<>> THEN <<0, 0>> ELSE Last(runs)
                     before == IF runs = <<>> THEN <<>> ELSE Front(runs)
                 IN IF bit = 1 THEN Append(before, <<last[1], last[2] + 1>>)
                    ELSE IF last[2] = 0 THEN Append(before, <<last[1] + 1, 0>>)
                    ELSE Append(runs, <<1, 0>>),
             <<>>, b)

\* How often a count is more than a half byte holds, and what is left of it.
Over(n) == IF n = 0 THEN 0 ELSE (n - 1) \div Nibble
Rest(n) == n - Nibble * Over(n)

Times(n, byte) == [i \in 1 .. n |-> byte]

\* The bytes of a run.  What is left of the skip merges with the first scan.
RunBytes(run) ==
    LET skip == Rest(run[1])
        over == Over(run[2])
    IN Times(Over(run[1]), <<Nibble, 0>>)
       \o (IF over = 0 THEN <<>> ELSE <<<<skip, Nibble>>>> \o Times(over - 1, <<0, Nibble>>))
       \o <<<<IF over = 0 THEN skip ELSE 0, Rest(run[2])>>>>

\* strdup: as far as the first zero byte.
CString(bytes) ==
    LET zero == {i \in DOMAIN bytes : bytes[i] = <<0, 0>>} IN
    IF zero = {} THEN bytes
    ELSE SubSeq(bytes, 1, (CHOOSE i \in zero : \A j \in zero : i <= j) - 1)

\* A weak layout without references and another without gaps are NULL.
compress_layout(b, w) ==
    IF (w /\ 1 \notin ToSet(b)) \/ (~w /\ 0 \notin ToSet(b)) THEN NULL
    ELSE CString(FlattenSeq([i \in DOMAIN Runs(b) |-> RunBytes(Runs(b)[i])]))

set_bits(b, which, n) == [i \in DOMAIN b |-> IF i - 1 \in which .. which + n - 1 THEN 1 ELSE b[i]]
clear_bits(b, which, n) == [i \in DOMAIN b |-> IF i - 1 \in which .. which + n - 1 THEN 0 ELSE b[i]]

\* The word up to which the first n bytes reach.
Reach(s, n) == FoldLeft(LAMBDA at, byte : at + byte[1] + byte[2], 0, SubSeq(s, 1, n))

decompress_layout(s, b) ==
    FoldLeft(LAMBDA r, i : set_bits(r, Reach(s, i - 1) + s[i][1], s[i][2]),
             b, [i \in DOMAIN s |-> i])

layout_bitmap_create(s, stringWords, words, w) ==
    LET empty == Times(words, 0) IN
    IF s # NULL THEN decompress_layout(s, empty)
    ELSE IF w THEN empty ELSE set_bits(empty, 0, stringWords)

\* The first byte that reaches beyond the word tells whether in its skip.
isScanned(i, s) ==
    /\ s # NULL
    /\ LET Beyond == {n \in DOMAIN s : Reach(s, n) > i} IN
       /\ Beyond # {}
       /\ LET n == CHOOSE m \in Beyond : \A k \in Beyond : m <= k
          IN Reach(s, n - 1) + s[n][1] <= i

-----------------------------------------------------------------------------
\* Mutant: always from the first bit on.
CopyForwards(src, dst, n) == [i \in 1 .. n |-> i - 1]

\* The order in which bits are moved, from the end where the new place is
\* behind the old one.
CopyOrder(src, dst, n) == [i \in 1 .. n |-> IF dst > src THEN n - i ELSE i - 1]

move_bits(b, src, dst, n) ==
    FoldLeft(LAMBDA r, pos : [r EXCEPT ![dst + pos + 1] = Word(r, src + pos)],
             b, CopyOrder(src, dst, n))

\* The new bits are undefined: those of the old words of memory, here ones.
layout_bitmap_grow(b, n) == b \o Times(n - Len(b), 1)

layout_bitmap_slide(b, old, new) ==
    clear_bits(move_bits(layout_bitmap_grow(b, Len(b) + new - old), old, new, Len(b) - old),
               old, new - old)

layout_bitmap_slide_anywhere(b, old, new) ==
    IF old < new THEN layout_bitmap_slide(b, old, new)
    ELSE SubSeq(move_bits(b, old, new, Len(b) - old), 1, Len(b) - (old - new))

\* The words of the source as far as oldWords, zeros behind its end.
layout_bitmap_splat(b, src, oldWords) ==
    [i \in DOMAIN b |-> IF i > oldWords THEN b[i] ELSE IF i <= Len(src) THEN src[i] ELSE 0]

layout_bitmap_or(b, src) ==
    [i \in DOMAIN b |-> IF i <= Len(src) /\ src[i] = 1 THEN 1 ELSE b[i]]

layout_bitmap_clear(b, src) ==
    [i \in DOMAIN b |-> IF i <= Len(src) /\ src[i] = 1 THEN 0 ELSE b[i]]

-----------------------------------------------------------------------------
Init ==
    /\ weak \in BOOLEAN /\ marked = {}
    /\ \E n \in 0 .. MaxWords : bits = layout_bitmap_create(CString(<<>>), 0, n, weak)

\* An ivar that is an object, or an array of objects.
layout_bitmap_set_ivar(i, n) ==
    /\ i + n <= Len(bits)
    /\ bits' = set_bits(bits, i, n) /\ marked' = marked \cup (i .. i + n - 1)
    /\ UNCHANGED weak

Slide(old, new) ==
    /\ old # new /\ Len(bits) + new - old <= MaxWords
    /\ bits' = layout_bitmap_slide_anywhere(bits, old, new)
    /\ marked' = {p \in marked : p < old /\ p < new}
                 \cup {p + new - old : p \in {q \in marked : q >= old}}
    /\ UNCHANGED weak

\* Another bitmap, of a superclass.
Source == UNION {[1 .. n -> {0, 1}] : n \in 0 .. MaxSource}
MarkedIn(src) == {i - 1 : i \in {j \in DOMAIN src : src[j] = 1}}

Splat(src, oldWords) ==
    /\ Len(src) <= Len(bits) /\ oldWords <= Len(bits)
    /\ bits' = layout_bitmap_splat(bits, src, oldWords)
    /\ marked' = {p \in marked : p >= oldWords} \cup {p \in MarkedIn(src) : p < oldWords}
    /\ UNCHANGED weak

Or(src) ==
    /\ Len(src) <= Len(bits)
    /\ bits' = layout_bitmap_or(bits, src) /\ marked' = marked \cup MarkedIn(src)
    /\ UNCHANGED weak

Clear(src) ==
    /\ Len(src) <= Len(bits)
    /\ bits' = layout_bitmap_clear(bits, src) /\ marked' = marked \ MarkedIn(src)
    /\ UNCHANGED weak

Next ==
    \/ \E i \in 0 .. Len(bits), n \in 1 .. 2 : layout_bitmap_set_ivar(i, n)
    \/ \E old \in 0 .. Len(bits), new \in 0 .. MaxWords : Slide(old, new)
    \/ \E src \in Source :
          Or(src) \/ Clear(src) \/ \E oldWords \in 0 .. MaxSource : Splat(src, oldWords)

Spec == Init /\ [][Next]_layoutVars

-----------------------------------------------------------------------------
\* After any sequence of slides, forwards and backwards and over themselves,
\* the bitmap has the words it should; written to a string and read back it is
\* the same, however long its runs; and the string tells of each word what the
\* bitmap does, no byte within it being zero (objc-layout.mm:56-497).
LayoutExact ==
    LET s == compress_layout(bits, weak) IN
    /\ {i \in 0 .. Len(bits) - 1 : Word(bits, i) = 1} = marked
    /\ layout_bitmap_create(s, Len(bits), Len(bits), weak) = bits
    /\ s # NULL => \A i \in 0 .. Len(bits) : isScanned(i, s) <=> i \in marked
====
