----------------------------- MODULE FieldMasks -----------------------------
(***************************************************************************)
(* Messages of a relayed method, the mask over its response and the pin of *)
(* its requests (protowire.go; passthrough.go, applyPin).                  *)
(*                                                                         *)
(* A message is a function from its places to what is there: a message's   *)
(* type, or a scalar.  A place is the sequence of the steps that lead to   *)
(* it, and a step a field with its element in a list or its key in a map,  *)
(* 0 where it is neither; a map's entry is a scalar.  A mask is the set of *)
(* its paths: a node of the tree NewFieldMask builds is the sequence of    *)
(* the names that lead to it.                                              *)
(***************************************************************************)
EXTENDS Naturals, Sequences, FiniteSets, SequencesExt

CONSTANT Descriptors   \* message -> field -> [card, type, oneof]

Nothing == "nothing"   \* the type of what is no message, and no oneof
Types == DOMAIN Descriptors
Declares(type, field) == field \in DOMAIN Descriptors[type]

ASSUME DescriptorsAssumption ==
    \A type \in Types : \A field \in DOMAIN Descriptors[type] :
        LET fd == Descriptors[type][field]
        IN  /\ fd.card \in {"one", "list", "map"}
            /\ fd.oneof # Nothing => fd.card = "one"

Steps == [field : STRING, element : Nat, key : Nat]
Upto(place, k) == SubSeq(place, 1, k)
FieldPath(place) == [i \in DOMAIN place |-> place[i].field]

\* The fields populated in the message at a place, a list's elements one by one.
Populated(m, place) ==
    {next \in DOMAIN m : Len(next) = Len(place) + 1 /\ Upto(next, Len(place)) = place}

Elements(m, place, field) ==
    {Last(next).element : next \in {n \in Populated(m, place) : Last(n).field = field}}

\* What a step of a message of a type leads to, as its descriptor has it.  What it
\* does not declare is a scalar: a field a newer module added.
Fits(type, step, value) ==
    IF ~Declares(type, step.field) THEN value \notin Types
    ELSE LET fd == Descriptors[type][step.field]
         IN  /\ step.element # 0 <=> fd.card = "list"
             /\ step.key # 0 => fd.card = "map"
             /\ IF fd.card # "map" /\ fd.type \in Types THEN value = fd.type
                ELSE value \notin Types

IsMessage(m, type) ==
    /\ DOMAIN m \subseteq Seq(Steps)
    /\ <<>> \in DOMAIN m /\ m[<<>>] = type /\ type \in Types
    /\ \A place \in DOMAIN m : \A k \in 0..Len(place) : Upto(place, k) \in DOMAIN m
    /\ \A place \in DOMAIN m \ {<<>>} :
          /\ m[Front(place)] \in Types
          /\ Fits(m[Front(place)], Last(place), m[place])

\* The elements of a list are numbered one after the other.
ListsAreRuns(m) ==
    \A place \in DOMAIN m : m[place] \in Types =>
        \A field \in DOMAIN Descriptors[m[place]] :
            Descriptors[m[place]][field].card = "list" =>
                LET elements == Elements(m, place, field)
                IN  IsFiniteSet(elements) /\ elements = 1..Cardinality(elements)

----------------------------------------------------------------------------
(* FieldMask.                                                              *)

\* Mutant of Descends: a map may be descended into.
DescendsMaps(fd) == fd.type \in Types

Descends(fd) == fd.type \in Types /\ fd.card # "map"

\* NewFieldMask: whether a path names fields that exist, and messages but last.
Resolves(type, path) ==
    \E current \in [1..Len(path) -> Types] :
        /\ path # <<>> /\ current[1] = type
        /\ \A i \in 1..Len(path) : Declares(current[i], path[i])
        /\ \A i \in 1..Len(path) - 1 :
              LET fd == Descriptors[current[i]][path[i]]
              IN  Descends(fd) /\ current[i + 1] = fd.type

\* The node at names is all; it is in the tree.
All(paths, names) == names \in paths
InTree(paths, names) == \E path \in paths : IsPrefix(names, path)

\* Mutant of PathsOf: what ends a path is a node with nothing under it.
PathsToLeaves(paths) == {p \in paths : \A q \in paths : IsPrefix(p, q) => q = p}

\* FieldMask.paths: the walk ends at a node that is all.
PathsOf(paths) == {p \in paths : \A q \in paths : IsPrefix(q, p) => q = p}

\* One call of prune, for the message at a place: what it ranges over, the fields
\* it clears and those it goes into, an element at a time.
Ranged(m, place) == {next \in Populated(m, place) : Declares(m[place], Last(next).field)}

Disallowed(paths, m, place) ==
    {next \in Ranged(m, place) : ~All(paths, FieldPath(place)) /\ ~InTree(paths, FieldPath(next))}

\* Mutant of Deeper: an element of a list is left as it is.
DeeperButLists(paths, m, place) ==
    {next \in Ranged(m, place) :
        /\ ~All(paths, FieldPath(place)) /\ Last(next).element = 0
        /\ InTree(paths, FieldPath(next)) /\ ~All(paths, FieldPath(next))}

Deeper(paths, m, place) ==
    {next \in Ranged(m, place) :
        /\ ~All(paths, FieldPath(place))
        /\ InTree(paths, FieldPath(next)) /\ ~All(paths, FieldPath(next))}

\* m without some of its fields, and all that is in them.
Cleared(m, fields) ==
    [place \in {p \in DOMAIN m : \A next \in fields : ~IsPrefix(next, p)} |-> m[place]]

----------------------------------------------------------------------------
(* applyPin: the pin, in its wire form, is read into the request.          *)

SameOneof(type, field, other) ==
    /\ field # other
    /\ Declares(type, field) /\ Declares(type, other)
    /\ Descriptors[type][field].oneof # Nothing
    /\ Descriptors[type][field].oneof = Descriptors[type][other].oneof

\* Mutant of Landing: an element of a list takes the place of the page's.
LandingInPlace(m, at, step) == Append(at, step)

\* Where a field of the pin is put in the message at a place: an element comes
\* after those that are there.
Landing(m, at, step) ==
    Append(at, IF step.element = 0 THEN step
               ELSE [step EXCEPT !.element = Cardinality(Elements(m, at, step.field)) + 1])

\* The members of its oneof that are there make room for it.
Displaced(m, at, step) ==
    {next \in Populated(m, at) : SameOneof(m[at], step.field, Last(next).field)}

\* m with value put there.
Put(m, at, step, value) ==
    LET kept == Cleared(m, Displaced(m, at, step))
    IN  [place \in DOMAIN kept \cup {Landing(m, at, step)} |->
            IF place = Landing(m, at, step) THEN value ELSE kept[place]]

\* What its generated type makes of a pin: it declares every field, a oneof has one
\* member, and the wire has each place once, after the message it is in.
IsPin(pin) ==
    LET places == DOMAIN pin.message
    IN  /\ IsMessage(pin.message, pin.of)
        /\ \A p \in places \ {<<>>} : Declares(pin.message[Front(p)], Last(p).field)
        /\ \A p, q \in places \ {<<>>} :
              Front(p) = Front(q) => ~SameOneof(pin.message[Front(p)], Last(p).field, Last(q).field)
        /\ pin.wire \in Seq(places \ {<<>>})
        /\ \A p \in places \ {<<>>} : \E i \in DOMAIN pin.wire : pin.wire[i] = p
        /\ \A i, j \in DOMAIN pin.wire :
              /\ pin.wire[i] = pin.wire[j] => i = j
              /\ pin.wire[i] = Front(pin.wire[j]) => i < j

----------------------------------------------------------------------------
(* What a message says, place by place, to compare messages by.            *)

\* A place is within what paths allow: in a field one names, or on the way to it.
Within(place, paths) ==
    \E path \in paths : IsPrefix(path, FieldPath(place)) \/ IsPrefix(FieldPath(place), path)

\* A place wherever its elements stand in their lists.
Said(place) == [i \in DOMAIN place |-> [place[i] EXCEPT !.element = 0]]

\* What a page's message m has at a place, the pin p takes the place of: it has
\* the place, or another member of a oneof on the way to it.
TakenBy(m, place, p) ==
    \/ place \in DOMAIN p /\ \A j \in DOMAIN place : place[j].element = 0
    \/ \E i \in DOMAIN place, q \in DOMAIN p :
          /\ Len(q) = i /\ Front(q) = Upto(place, i - 1)
          /\ \A j \in 1..i : place[j].element = 0
          /\ SameOneof(m[Upto(place, i - 1)], Last(q).field, place[i].field)
=============================================================================
