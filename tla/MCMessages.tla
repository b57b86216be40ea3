----------------------------- MODULE MCMessages -----------------------------
(* An instance of Messages for TLC: a document with parts, an owner and a    *)
(* document it is part of.                                                   *)
EXTENDS Messages, FiniteSets

Field(card, type) == [card |-> card, type |-> type, oneof |-> Nothing]
In(oneof, type) == [card |-> "one", type |-> type, oneof |-> oneof]

MCDescriptors ==
    [document |-> [id |-> Field("one", Nothing), tags |-> Field("list", Nothing),
                   labels |-> Field("map", Nothing), owners |-> Field("map", "person"),
                   owner |-> Field("one", "person"), parts |-> Field("list", "part"),
                   parent |-> Field("one", "document"),
                   user |-> In("by", "person"), service |-> In("by", Nothing)],
     part |-> [text |-> Field("one", Nothing), author |-> Field("one", "person")],
     person |-> [name |-> Field("one", Nothing), email |-> Field("one", Nothing)]]

MCPaths == {<<"id">>, <<"tags">>, <<"labels">>, <<"owner">>, <<"owner", "name">>,
            <<"parts", "text">>, <<"parts", "author", "name">>, <<"parent", "parts">>,
            <<"parent", "owner", "name">>, <<"owners", "name">>, <<"id", "name">>, <<"unheard">>}

SomeMasks == {[over |-> "document", paths |-> paths] :
                paths \in {s \in SUBSET MCPaths : Cardinality(s) <= 2}}
           \cup {[over |-> "person", paths |-> {<<"name">>}]}

\* The places of a message written as records in records, with what is there.
RECURSIVE PlacesOf(_, _)
PlacesOf(type, m) ==
    LET At(f, element, key, v) ==
            LET step == [field |-> f, element |-> element, key |-> key]
                inner == IF Declares(type, f) THEN Descriptors[type][f].type ELSE Nothing
            IN  IF inner \in Types /\ key = 0
                THEN {<<<<step>> \o p[1], p[2]>> : p \in PlacesOf(inner, v)}
                ELSE {<<<<step>>, v>>}
        Card(f) == IF Declares(type, f) THEN Descriptors[type][f].card ELSE "one"
    IN  {<<<<>>, type>>} \cup UNION {
            CASE Card(f) = "list" -> UNION {At(f, i, 0, m[f][i]) : i \in DOMAIN m[f]}
              [] Card(f) = "map" -> UNION {At(f, 0, k, m[f][k]) : k \in DOMAIN m[f]}
              [] Card(f) = "one" -> At(f, 0, 0, m[f]) : f \in DOMAIN m}

Tree(m) ==
    LET places == PlacesOf("document", m)
    IN  [place \in {p[1] : p \in places} |-> (CHOOSE p \in places : p[1] = place)[2]]

Ada == [name |-> "ada", email |-> "mail"]
Bob == [name |-> "bob"]
Part == [text |-> "t", author |-> Ada]
Root == [id |-> "1", owner |-> Bob, parts |-> <<Part>>, later |-> "x"]

SomeAnswers == {Tree(m) : m \in
             {<<>>,
              Root,
              [id |-> "2", tags |-> <<"a", "b">>, labels |-> <<"v">>, owner |-> Ada,
               owners |-> <<"v">>, later |-> "x"],
              [parts |-> <<Part, [text |-> "u"]>>, parent |-> Root, user |-> Bob]}}

SomeRequests == {Tree(m) : m \in
              {<<>>,
               [id |-> "1", tags |-> <<"a">>, labels |-> <<"v", "v">>, later |-> "x"],
               [owner |-> Ada, parts |-> <<Part>>, service |-> "s"],
               [owner |-> Bob, parent |-> Root, user |-> Ada]}}

\* A wire form: what is in a message after it, and elements in their order.
Pin(type, tree) ==
    [of |-> type, message |-> tree,
     wire |-> SetToSortSeq(DOMAIN tree \ {<<>>},
                 LAMBDA p, q : \/ Len(p) < Len(q)
                               \/ Len(p) = Len(q) /\ Last(p).element < Last(q).element)]

SomePins == {Pin("document", Tree(m)) :
              m \in {[id |-> "9", tags |-> <<"z", "y">>, labels |-> <<"w">>],
                     [owner |-> [name |-> "eve"], parts |-> <<[text |-> "z"]>>, user |-> [email |-> "e"]],
                     [service |-> "r", parent |-> [id |-> "7", parts |-> <<[text |-> "z"]>>]]}}
          \cup {Pin("person", <<>> :> "person")}

\* TLC evaluates these once, and what stands for a constant each time it is used.
MCMasks == SomeMasks
MCPins == SomePins
MCRequests == SomeRequests
MCAnswers == SomeAnswers

\* Shapes: the messages, two Go types of one name, one named as the errors are, a
\* well-known message, an anonymous struct, a slice of pages and two of items.
MCContainers == {"pages", "rows", "row"}
MCShapes == {"document", "part", "person", "time", "page", "item", "otheritem", "error", "anonymous"}
                \cup MCContainers
MCMembers ==
    [s \in MCShapes |->
        CASE s = "document" -> <<"time", "person", "part", "document">>
          [] s = "part" -> <<"person">>
          [] s = "page" -> <<"rows", "document", "pages">>
          [] s = "item" -> <<"page", "row">>
          [] s = "otheritem" -> <<"document">>
          [] s = "error" -> <<"item">>
          [] s = "pages" -> <<"page">>
          [] s = "rows" -> <<"row">>
          [] s = "row" -> <<"item">>
          [] OTHER -> <<>>]
MCTitle ==
    [s \in MCShapes |-> IF s \in {"item", "otheritem"} THEN "Item"
                        ELSE IF s = "error" THEN ErrorTitle ELSE s]
MCDocumented == {<<"document", "document">>, <<"pages", "part">>, <<"item", "otheritem", "error">>,
                 <<"person", "anonymous">>}

\* A struct with a field of type Tree map[string]Tree.
TreeShapes == {"folder", "tree"}
TreeMembers == [folder |-> <<"tree">>, tree |-> <<"tree">>]
TreeTitle == [s \in TreeShapes |-> s]
TreeDocumented == {<<"folder">>}
=============================================================================
