---- MODULE ContactManager ----
(***************************************************************************)
(* HHContactManager (HHContactsManager/HHManager/HHContactManager.m): what *)
(* it keeps of the system's store of contacts, which other programs change *)
(* too, at any time.  The store tells of changes after the fact; the       *)
(* manager then reads its contacts and its groups again.  All of it runs   *)
(* on the main thread, each request to the store an action.  A request may *)
(* fail, and no error is looked at: a reading then yields nil and a change *)
(* is not made.  Groups have identifiers; their names may repeat.          *)
(***************************************************************************)
EXTENDS Integers, Sequences, FiniteSets

CONSTANTS
    People,
    Letter,         \* person -> the letter sorted under, 0 for none
    Own,            \* the names of the groups that are made at first, in order
    Moves,          \* <<old, new>>: from where to where contacts are moved then
    Nil,
    MaxGroups       \* bound: groups ever made

Names == {Own[i] : i \in DOMAIN Own} \cup UNION {{m[1], m[2]} : m \in {Moves[i] : i \in DOMAIN Moves}}
Ids == 1 .. MaxGroups

ContactsAssumption ==
    /\ Nil \notin Names \cup People /\ MaxGroups \in Nat
    /\ Letter \in [People -> 0 .. 26]

VARIABLES
    contacts, groups, members,  \* the store: people; id -> name or Nil; id -> people
    made,                       \* groups ever made
    observing, changed,         \* the manager is to be told; of a change
    todo,                       \* the steps of -init and -config left
    moving,                     \* contacts being moved, and the one in between
    telling,                    \* -contactStoreDidChange is half done
    known, knownGroups          \* allContacts and groups, as last read; Nil if
                                \* that failed, and before it

store == <<contacts, groups, members, made>>
contactVars == <<store, observing, changed, todo, moving, telling, known, knownGroups>>

\* The list of contacts is empty when it could not be read.
allContacts == IF known = Nil THEN {} ELSE known

\* The first group of a name in a list of groups, or 0; nil has none.
Named(list, name) ==
    LET found == IF list = Nil THEN {} ELSE {id \in Ids : list[id] = name}
    IN  IF found = {} THEN 0 ELSE CHOOSE id \in found : \A i \in found : id <= i

groupWithName(name) == Named(knownGroups, name)

\* Groups that are nil are read again, by an addition or a query of a group,
\* which may fail once more.
RereadGroups == knownGroups' \in IF knownGroups = Nil THEN {groups, Nil} ELSE {knownGroups}

\* A group is looked up in what is known, its contacts in the store.
ContactsOf(list, name) == IF Named(list, name) = 0 THEN {} ELSE members[Named(list, name)]
queryContactsWithGroupName(name, people) ==
    RereadGroups /\ people \in {ContactsOf(knownGroups', name), {}}

\* What is asked for if no request fails.
queryWithOutGroups ==
    allContacts \ UNION {ContactsOf(knownGroups, Own[i]) : i \in DOMAIN Own}

\* The sections of a list of people: the letters in order, `#' last, each
\* with its people.
Rank(letter) == IF letter = 0 THEN 27 ELSE letter
sortNameWithDatas(people) ==
    LET letters == {Letter[p] : p \in people}
        Place(l) == Cardinality({k \in letters : Rank(k) <= Rank(l)})
        LetterAt(i) == CHOOSE l \in letters : Place(l) = i
    IN  [i \in 1 .. Cardinality(letters) |->
            [key |-> LetterAt(i), persons |-> {p \in people : Letter[p] = LetterAt(i)}]]

Step(do, old, new) == [do |-> do, old |-> old, new |-> new]

\* Mutant: the manager asks to be told when it has read everything.
ObserveLast == <<Step("contacts", Nil, Nil), Step("groups", Nil, Nil),
                 Step("observe", Nil, Nil)>>
Starting == <<Step("observe", Nil, Nil), Step("contacts", Nil, Nil),
              Step("groups", Nil, Nil)>>
config == [i \in DOMAIN Own |-> Step("make", Nil, Own[i])]
          \o [i \in DOMAIN Moves |-> Step("move", Moves[i][1], Moves[i][2])]

Init ==
    /\ contacts \in SUBSET People
    /\ made \in 0 .. 1
    /\ groups \in [Ids -> Names \cup {Nil}]
    /\ \A id \in Ids : groups[id] = Nil <=> id > made
    /\ members \in [Ids -> {{}, contacts}]
    /\ \A id \in Ids : id > made => members[id] = {}
    /\ observing = FALSE /\ changed = FALSE /\ telling = FALSE
    /\ known = Nil /\ knownGroups = Nil
    /\ todo = Starting \o config /\ moving = Nil

-----------------------------------------------------------------------------
(* The store, whoever changes it.                                          *)

Made(name) ==
    /\ made < MaxGroups /\ made' = made + 1
    /\ groups' = [groups EXCEPT ![made + 1] = name]
    /\ UNCHANGED <<contacts, members>>
Deleted(id) ==
    /\ groups[id] # Nil /\ groups' = [groups EXCEPT ![id] = Nil]
    /\ members' = [members EXCEPT ![id] = {}] /\ UNCHANGED <<contacts, made>>
Open(id) == IF id = 0 THEN FALSE ELSE groups[id] # Nil
Joins(p, id) ==
    /\ members' = IF p \in contacts /\ Open(id)
                  THEN [members EXCEPT ![id] = @ \cup {p}] ELSE members
    /\ UNCHANGED <<contacts, groups, made>>
Leaves(p, id) ==
    /\ members' = IF id = 0 THEN members ELSE [members EXCEPT ![id] = @ \ {p}]
    /\ UNCHANGED <<contacts, groups, made>>
Appears(p) ==
    contacts' = contacts \cup {p} /\ UNCHANGED <<groups, members, made>>
Disappears(p) ==
    /\ contacts' = contacts \ {p}
    /\ members' = [id \in Ids |-> members[id] \ {p}] /\ UNCHANGED <<groups, made>>

\* The manager's own change may fail.
executeSaveRequest(Change) == Change \/ UNCHANGED store

\* A change is told to a manager that asked to be told.
Told == changed' = (changed \/ (observing /\ store' # store))

-----------------------------------------------------------------------------
(* The manager: -init, -config and what the program asks of it.            *)

Doing(do) == ~ telling /\ todo # <<>> /\ (todo # <<>> => Head(todo).do = do)
Done == todo' = Tail(todo)
Idle == ~ telling /\ todo = <<>>

addObserver ==
    /\ Doing("observe") /\ Done /\ observing' = TRUE
    /\ UNCHANGED <<store, changed, moving, telling, known, knownGroups>>
queryContacts ==
    /\ Doing("contacts") /\ Done /\ known' \in {contacts, Nil}
    /\ UNCHANGED <<store, observing, changed, moving, telling, knownGroups>>
queryGroups ==
    /\ Doing("groups") /\ Done /\ knownGroups' \in {groups, Nil}
    /\ UNCHANGED <<store, observing, changed, moving, telling, known>>

\* None is made if the manager knows of one of the name.
addGroupWithName(name) ==
    /\ RereadGroups
    /\ IF Named(knownGroups', name) # 0 THEN UNCHANGED store
       ELSE executeSaveRequest(Made(name))
    /\ Told /\ UNCHANGED <<observing, moving, telling, known>>
Make == Doing("make") /\ Done /\ addGroupWithName(Head(todo).new)

\* Contacts are moved one by one, out of the old group and into the new one
\* of those that the manager knows.
MoveAll ==
    /\ Doing("move") /\ moving = Nil
    /\ \E people \in SUBSET People :
          /\ queryContactsWithGroupName(Head(todo).old, people)
          /\ moving' = [people |-> people, out |-> Nil]
    /\ UNCHANGED <<store, observing, changed, todo, telling, known>>
MoveOut ==
    /\ Doing("move") /\ moving # Nil /\ (moving # Nil => moving.out = Nil)
    /\ \E p \in moving.people :
          /\ executeSaveRequest(Leaves(p, groupWithName(Head(todo).old)))
          /\ moving' = [people |-> moving.people \ {p}, out |-> p]
    /\ Told /\ UNCHANGED <<observing, todo, telling, known, knownGroups>>
MoveIn ==
    /\ Doing("move") /\ moving # Nil /\ (moving # Nil => moving.out # Nil)
    /\ executeSaveRequest(Joins(moving.out, groupWithName(Head(todo).new)))
    /\ moving' = [moving EXCEPT !.out = Nil]
    /\ Told /\ UNCHANGED <<observing, todo, telling, known, knownGroups>>
Moved ==
    /\ Doing("move") /\ Done /\ moving = [people |-> {}, out |-> Nil] /\ moving' = Nil
    /\ UNCHANGED <<store, observing, changed, telling, known, knownGroups>>

\* What is known is read again, on the main thread.
contactStoreDidChange ==
    \/ /\ Idle /\ changed /\ changed' = FALSE /\ telling' = TRUE
       /\ known' \in {contacts, Nil}
       /\ UNCHANGED <<store, observing, todo, moving, knownGroups>>
    \/ /\ telling /\ telling' = FALSE /\ knownGroups' \in {groups, Nil}
       /\ UNCHANGED <<store, observing, changed, todo, moving, known>>

deleteWithGroup(id) == knownGroups # Nil /\ knownGroups[id] # Nil /\ Deleted(id)
addContact(p) == Appears(p)
deleteContact(p) == Disappears(p)
updataContat(p, name) == p \in allContacts /\ Joins(p, groupWithName(name))
deleteContat(p, name) == p \in allContacts /\ Leaves(p, groupWithName(name))

Request ==
    /\ Idle
    /\ executeSaveRequest(
          \/ \E id \in Ids : deleteWithGroup(id)
          \/ \E p \in People :
                \/ addContact(p) \/ deleteContact(p)
                \/ \E name \in Names : updataContat(p, name) \/ deleteContat(p, name))
    /\ Told /\ UNCHANGED <<observing, todo, moving, telling, known, knownGroups>>

\* The contacts of a group, or those outside the groups, are asked for.
Query ==
    /\ Idle /\ RereadGroups
    /\ UNCHANGED <<store, observing, changed, todo, moving, telling, known>>

AddGroup == \E name \in Names : Idle /\ addGroupWithName(name) /\ UNCHANGED todo

\* Another program.
Elsewhere ==
    /\ \/ \E name \in Names : Made(name)
       \/ \E id \in Ids : Deleted(id) \/ \E p \in contacts : Joins(p, id) \/ Leaves(p, id)
       \/ \E p \in People : Appears(p) \/ Disappears(p)
    /\ Told /\ UNCHANGED <<observing, todo, moving, telling, known, knownGroups>>

Next ==
    \/ addObserver \/ queryContacts \/ queryGroups \/ Make
    \/ MoveAll \/ MoveOut \/ MoveIn \/ Moved
    \/ contactStoreDidChange \/ Request \/ Query \/ AddGroup \/ Elsewhere

Spec == Init /\ [][Next]_contactVars

-----------------------------------------------------------------------------
\* When there is nothing more to be told, what the manager read last is the
\* store as it is, whatever changed while it started and whichever requests
\* failed: its contacts and its groups, those that it read at all (ReadAtLast);
\* the contacts outside its groups are those in none of them; and every
\* contact it has is in one section of its list, the sections in order
\* (HHContactManager.m:30-76, :137-294).
CaughtUp ==
    (Idle /\ ~ changed) =>
        /\ known # Nil => known = contacts
        /\ knownGroups # Nil => knownGroups = groups
        /\ LET own == {id \in Ids : \E i \in DOMAIN Own : groups[id] = Own[i]}
               sections == sortNameWithDatas(allContacts)
           IN  /\ (/\ known # Nil /\ knownGroups # Nil
                   /\ \A i, j \in own : groups[i] = groups[j] => i = j)
                     => queryWithOutGroups = contacts \ UNION {members[id] : id \in own}
               /\ UNION {sections[i].persons : i \in DOMAIN sections} = allContacts
               /\ \A i, j \in DOMAIN sections : i < j =>
                     /\ sections[i].persons \cap sections[j].persons = {}
                     /\ sections[i].key # 0 /\ (sections[i].key < sections[j].key
                                                \/ sections[j].key = 0)

\* The manager has read the contacts and the groups (HHContactManager.m:37-40,
\* :74-75).
ReadAtLast == (Idle /\ ~ changed) => known # Nil /\ knownGroups # Nil

\* `A group that is there is not added again' (HHContactManager.m:86-97).
AddedOnce ==
    [][ \A name \in Names : (AddGroup /\ made' # made /\ groups'[made'] = name)
          => \A id \in 1 .. MaxGroups : groups[id] # name ]_contactVars
====
