---- MODULE WeakTable ----
(***************************************************************************)
(* The weak table of objc-weak.mm: one entry for each object that weak     *)
(* variables hold, in an open hash table, and in each entry the set of     *)
(* those variables, inline while they are few and in an open hash table    *)
(* of its own from then on.  WeakReferences takes an entry for a set of    *)
(* locations; this module has the slots, the probing, the growth and the   *)
(* compaction.  Everything here runs under the lock of the side table, so  *)
(* an operation is a step.                                                 *)
(*                                                                         *)
(* Both tables are the same code twice: linear probing from the hash, and  *)
(* a bound on the displacement of what was ever inserted since the last    *)
(* rehash, which ends a search.  Nothing marks a slot that was emptied.    *)
(***************************************************************************)
EXTENDS Integers, FiniteSets, SequencesExt

CONSTANTS
    Objects,            \* the objects
    Locations,          \* the weak variables
    Nil,
    ObjectHash,         \* hash_pointer of an object
    LocationHash,       \* w_hash_pointer of a weak variable
    WEAK_INLINE_COUNT,  \* the referrers an entry holds inline
    InitialSize,        \* the first size of the table (64)
    CompactSize,        \* from this size on it may shrink (1024)
    Sparse,             \* ... when at most one in Sparse is used (16)
    Shrink              \* ... to a Shrink-th of its size (8)

\* What an instance has to give.
WeakTableAssumption ==
    /\ Nil \notin Objects \cup Locations
    /\ ObjectHash \in [Objects -> Nat] /\ LocationHash \in [Locations -> Nat]
    /\ WEAK_INLINE_COUNT > 1 /\ InitialSize > 1
    /\ Sparse > Shrink /\ CompactSize \div Shrink >= InitialSize

VARIABLES
    table,      \* weak_table_t: slots with referents, num_entries, displacement
    entry,      \* object -> its weak_entry_t, NoEntry where it has none
    weakVar     \* location -> the object in the weak variable, or Nil

weakVars == <<table, entry, weakVar>>

NoEntry == [out_of_line |-> FALSE, refs |-> <<>>]

Larger(m, n) == IF m > n THEN m ELSE n

-----------------------------------------------------------------------------
\* Open tables: slots 0 .. size - 1, the number used, the displacement bound.
Size(t) == Cardinality(DOMAIN t.slots)

Empty(n) == [slots |-> [i \in 0 .. n - 1 |-> Nil], num |-> 0, max |-> 0]

Displacements(t, h, x) ==
    {d \in 0 .. Size(t) - 1 : t.slots[(h + d) % Size(t)] = x}

Least(S) == CHOOSE d \in S : \A e \in S : d <= e

\* The insertion of x where the probe from its hash meets the first free slot.
Place(t, h, x) ==
    LET d == Least(Displacements(t, h, Nil)) IN
    [slots |-> [t.slots EXCEPT ![(h + d) % Size(t)] = x],
     num   |-> t.num + 1,
     max   |-> Larger(d, t.max)]

\* Mutant: the search ends at the first free slot.
FoundBeforeGap(t, h, x) ==
    {d \in Displacements(t, h, x) : \A e \in 0 .. d : t.slots[(h + e) % Size(t)] # Nil}

\* The slots the search of x from its hash would accept.
Found(t, h, x) == {d \in Displacements(t, h, x) : d <= t.max}

Rehash(t, hash, n) ==
    FoldLeft(LAMBDA new, i : LET x == t.slots[i - 1] IN
                             IF x = Nil THEN new ELSE Place(new, hash[x], x),
             Empty(n), [i \in 1 .. Size(t) |-> i])

-----------------------------------------------------------------------------
\* Referrers of an entry.  Inline, refs is a sequence of WEAK_INLINE_COUNT
\* locations or Nil; out of line it is an open table.
NewEntry(l) ==
    [out_of_line |-> FALSE,
     refs |-> [i \in 1 .. WEAK_INLINE_COUNT |-> IF i = 1 THEN l ELSE Nil]]

\* The table made from a full inline array is invalid until it is rehashed.
OutOfLine(e) ==
    IF e.out_of_line THEN e.refs
    ELSE [slots |-> [i \in 0 .. WEAK_INLINE_COUNT - 1 |-> e.refs[i + 1]],
          num |-> WEAK_INLINE_COUNT, max |-> 0]

grow_refs_and_insert(t, l) ==
    Place(Rehash(t, LocationHash, 2 * Size(t)), LocationHash[l], l)

FreeInline(e) == {i \in 1 .. WEAK_INLINE_COUNT : e.refs[i] = Nil}

append_referrer(e, l) ==
    IF ~e.out_of_line /\ FreeInline(e) # {}
    THEN [e EXCEPT !.refs[Least(FreeInline(e))] = l]
    ELSE LET t == OutOfLine(e) IN
         [out_of_line |-> TRUE,
          refs |-> IF t.num >= (Size(t) * 3) \div 4
                   THEN grow_refs_and_insert(t, l)
                   ELSE Place(t, LocationHash[l], l)]

\* A referrer that the search does not find is reported and stays.
remove_referrer(e, l) ==
    IF ~e.out_of_line
    THEN LET S == {i \in 1 .. WEAK_INLINE_COUNT : e.refs[i] = l} IN
         IF S = {} THEN e ELSE [e EXCEPT !.refs[Least(S)] = Nil]
    ELSE LET h == LocationHash[l]
             D == Found(e.refs, h, l)
         IN IF D = {} THEN e
            ELSE [e EXCEPT !.refs.slots[(h + Least(D)) % Size(e.refs)] = Nil,
                           !.refs.num = @ - 1]

\* Out of line with no referrer left, the test goes on to the inline array,
\* whose first word is the pointer to the referrers: the entry stays.
IsEmpty(e) == ~e.out_of_line /\ \A i \in 1 .. WEAK_INLINE_COUNT : e.refs[i] = Nil

Referrers(e) ==
    IF e.out_of_line
    THEN {e.refs.slots[i] : i \in DOMAIN e.refs.slots} \ {Nil}
    ELSE ToSet(e.refs) \ {Nil}

-----------------------------------------------------------------------------
\* The table of entries, with a copy of the entries themselves.
weak_entry_for_referent(t, o) == Found(t, ObjectHash[o], o)

weak_grow_maybe(t) ==
    IF t.num >= (Size(t) * 3) \div 4
    THEN Rehash(t, ObjectHash, IF Size(t) = 0 THEN InitialSize ELSE 2 * Size(t))
    ELSE t

weak_compact_maybe(t) ==
    IF Size(t) >= CompactSize /\ Size(t) \div Sparse >= t.num
    THEN Rehash(t, ObjectHash, Size(t) \div Shrink)
    ELSE t

weak_entry_remove(t, o) ==
    LET h == ObjectHash[o]
        i == (h + Least(weak_entry_for_referent(t, o))) % Size(t)
    IN weak_compact_maybe([t EXCEPT !.slots[i] = Nil, !.num = @ - 1])

\* Each operation maps a pair of the table and its entries to another one.
weak_unregister_no_lock(w, o, l) ==
    IF weak_entry_for_referent(w[1], o) = {} THEN w
    ELSE LET e == remove_referrer(w[2][o], l) IN
         IF IsEmpty(e)
         THEN <<weak_entry_remove(w[1], o), [w[2] EXCEPT ![o] = NoEntry]>>
         ELSE <<w[1], [w[2] EXCEPT ![o] = e]>>

weak_register_no_lock(w, o, l) ==
    IF weak_entry_for_referent(w[1], o) # {}
    THEN <<w[1], [w[2] EXCEPT ![o] = append_referrer(@, l)]>>
    ELSE <<Place(weak_grow_maybe(w[1]), ObjectHash[o], o),
           [w[2] EXCEPT ![o] = NewEntry(l)]>>

-----------------------------------------------------------------------------
Init ==
    /\ table = Empty(0)
    /\ entry = [o \in Objects |-> NoEntry]
    /\ weakVar = [l \in Locations |-> Nil]

\* objc_storeWeak, objc_initWeak and objc_destroyWeak: out of the old object,
\* into the new one, then the variable.  A deallocating object is not
\* registered and nil is stored in its place.
storeWeak(l, new) ==
    /\ weakVar[l] # new
    /\ LET old == weakVar[l]
           w == IF old = Nil THEN <<table, entry>>
                ELSE weak_unregister_no_lock(<<table, entry>>, old, l)
           v == IF new = Nil THEN w ELSE weak_register_no_lock(w, new, l)
       IN table' = v[1] /\ entry' = v[2]
    /\ weakVar' = [weakVar EXCEPT ![l] = new]

\* The object is deallocated, its weak variables are cleared, and its memory
\* may become another object.
weak_clear_no_lock(o) ==
    /\ weak_entry_for_referent(table, o) # {}
    /\ weakVar' = [l \in Locations |-> IF l \in Referrers(entry[o]) /\ weakVar[l] = o
                                       THEN Nil ELSE weakVar[l]]
    /\ table' = weak_entry_remove(table, o)
    /\ entry' = [entry EXCEPT ![o] = NoEntry]

Next ==
    \/ \E l \in Locations, new \in Objects \cup {Nil} : storeWeak(l, new)
    \/ \E o \in Objects : weak_clear_no_lock(o)

Spec == Init /\ [][Next]_weakVars

-----------------------------------------------------------------------------
\* The referrers of an object are exactly the weak variables that hold it:
\* the search finds the entry and each of them within the displacement, the
\* counts are those of the slots, and no search goes round the whole table.
\* A location the search misses would be left in the entry and be written
\* to after it is gone (objc-weak.mm:168-231).
EntryExact(o) ==
    LET e == entry[o] IN
    /\ Referrers(e) = {l \in Locations : weakVar[l] = o}
    /\ (Referrers(e) # {} => weak_entry_for_referent(table, o) # {})
    /\ (e.out_of_line =>
          /\ e.refs.num = Cardinality(Referrers(e)) /\ e.refs.max < Size(e.refs) - 1
          /\ Cardinality({i \in DOMAIN e.refs.slots : e.refs.slots[i] # Nil}) = e.refs.num
          /\ \A l \in Referrers(e) : Found(e.refs, LocationHash[l], l) # {})

WeakTableExact ==
    /\ \A o \in Objects : EntryExact(o)
    /\ table.num = Cardinality({i \in DOMAIN table.slots : table.slots[i] # Nil})
    /\ (Size(table) > 0 => table.max < Size(table) - 1)
====
