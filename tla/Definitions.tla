----------------------------- MODULE Definitions -----------------------------
(***************************************************************************)
(* The definitions of an interface document: the schemas of the values its *)
(* operations take and return, each message and struct described once and  *)
(* referred to by name (operations.go, schemaFor, structSchema and         *)
(* messageSchema).                                                         *)
(*                                                                         *)
(* A shape is a message's descriptor or a Go type, a pointer, a slice or a *)
(* map included.  Only what a shape has in it that is described by         *)
(* reference or not at all matters here: its scalars are left out, and     *)
(* whether a message holds another once, in a list or in a map.            *)
(***************************************************************************)
EXTENDS Naturals, Sequences, SequencesExt

CONSTANTS
    Shapes,       \* the messages and types values are made of
    Members,      \* the shapes a shape is made of, in the order of its fields
    Containers,   \* the types described by their element, and registered by no name
    Title,        \* the name a shape's definition has: definitionName, title
    Inline,       \* the well-known messages, described where they stand
    Undescribed,  \* what has no schema: an anonymous struct, a contract of methods
    Documented    \* the values a document may have to describe, in order

ASSUME ShapesAssumption ==
    /\ Members \in [Shapes -> Seq(Shapes)]
    /\ Containers \cap (Inline \cup Undescribed) = {}
    /\ Documented \subseteq Seq(Shapes)

ErrorTitle == "Error"    \* what every operation's failures refer to

VARIABLES
    left,         \* the values still to describe
    open,         \* the shapes being described, each with the members it has left
    definitions,  \* the definitions: name -> the shape, and how far it is described
    refs,         \* the references made so far: [title, shape]
    rendering     \* "on", "done" or "panicked"

describing == <<left, open, definitions, refs, rendering>>

DescribingInit ==
    /\ left \in Documented
    /\ open = <<>>
    /\ definitions = [title \in {ErrorTitle} |-> [shape |-> ErrorTitle, state |-> "whole"]]
    /\ refs = {}
    /\ rendering = "on"

\* The definitions with the one of a name set.
Define(title, shape, state) ==
    [t \in DOMAIN definitions \cup {title} |->
        IF t = title THEN [shape |-> shape, state |-> state] ELSE definitions[t]]

\* Mutant of Seen: a shape is registered once it is whole.
SeenWhole(shape) ==
    Title[shape] \in DOMAIN definitions /\ definitions[Title[shape]].state = "whole"

Seen(shape) == Title[shape] \in DOMAIN definitions

\* A shape met where the frames on are open: described where it stands, refused,
\* described by its element, referred to, or registered under its name and then
\* described.
Meet(shape, frames) ==
    CASE shape \in Undescribed ->
            rendering' = "panicked" /\ open' = frames /\ UNCHANGED <<definitions, refs>>
      [] shape \in Inline \ Undescribed ->
            open' = frames /\ UNCHANGED <<definitions, refs, rendering>>
      [] shape \in Containers ->
            /\ open' = Append(frames, [shape |-> shape, left |-> Members[shape]])
            /\ UNCHANGED <<definitions, refs, rendering>>
      [] OTHER ->
            /\ refs' = refs \cup {[title |-> Title[shape], shape |-> shape]}
            /\ IF Seen(shape) THEN open' = frames /\ definitions' = definitions
               ELSE /\ open' = Append(frames, [shape |-> shape, left |-> Members[shape]])
                    /\ definitions' = Define(Title[shape], shape, "begun")
            /\ rendering' = rendering

\* valueSchema, of an operation's response or request.
DescribeValue ==
    /\ rendering = "on"
    /\ open = <<>> /\ left # <<>>
    /\ left' = Tail(left)
    /\ Meet(Head(left), <<>>)

\* schemaFor or fieldSchema, of the next field of the shape being described.
DescribeMember ==
    /\ rendering = "on"
    /\ open # <<>> /\ Last(open).left # <<>>
    /\ Meet(Head(Last(open).left),
            Append(Front(open), [Last(open) EXCEPT !.left = Tail(Last(open).left)]))
    /\ UNCHANGED left

\* Mutant of Whole: the definition stays what it was registered as.
WholeUnset(shape) == definitions

Whole(shape) == Define(Title[shape], shape, "whole")

\* Every field is described: the definition takes the place of the one registered,
\* if one was.
CloseShape ==
    /\ rendering = "on"
    /\ open # <<>> /\ Last(open).left = <<>>
    /\ definitions' = IF Last(open).shape \in Containers THEN definitions
                      ELSE Whole(Last(open).shape)
    /\ open' = Front(open)
    /\ UNCHANGED <<left, refs, rendering>>

Rendered ==
    /\ rendering = "on"
    /\ open = <<>> /\ left = <<>>
    /\ rendering' = "done"
    /\ UNCHANGED <<left, open, definitions, refs>>

Describe == DescribeValue \/ DescribeMember \/ CloseShape \/ Rendered

Describes == DescribingInit /\ [][Describe]_describing

----------------------------------------------------------------------------
(* What the definitions promise.                                           *)

\* The document is closed: what it refers to is defined, and whole; and a shape
\* no other shares its name with is what its reference leads to.
ReferencesResolve ==
    rendering = "done" =>
        \A r \in refs :
            /\ r.title \in DOMAIN definitions
            /\ definitions[r.title].state = "whole"
            /\ (r.title # ErrorTitle /\ \A q \in refs : q.title = r.title => q = r)
                   => definitions[r.title].shape = r.shape

Inside(shape) == {Members[shape][i] : i \in DOMAIN Members[shape]}

\* Going from containers to what they hold leaves them: none is made of containers
\* for ever, as type Tree []Tree is.
ContainersEnd ==
    \A S \in SUBSET Containers : S # {} => \E shape \in S : Inside(shape) \cap S = {}

\* A "self-referencing shape terminates in a $ref instead of recursing forever"
\* (schemaFor's comment): a shape described inside itself has one that is referred
\* to by name in between.
SelfReferencesTerminate ==
    \A i, j \in DOMAIN open : i < j /\ open[i].shape = open[j].shape =>
        \E k \in i..j : open[k].shape \notin Containers

\* What has a name is never described inside another of that name, so however shapes
\* refer to one another they end in references, unless containers alone hold one
\* another for ever.
ShapesEndInReferences ==
    /\ \A i, j \in DOMAIN open :
          /\ {open[i].shape, open[j].shape} \cap Containers = {}
          /\ Title[open[i].shape] = Title[open[j].shape]
          => i = j
    /\ ContainersEnd => SelfReferencesTerminate
=============================================================================
