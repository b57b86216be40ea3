-------------------------- MODULE DefinitionsProofs --------------------------
(***************************************************************************)
(* Proofs about Definitions, for any shapes however they refer to one      *)
(* another.                                                                *)
(***************************************************************************)
EXTENDS Definitions, SequenceTheorems, TLAPS

Frames == [shape : Shapes, left : Seq(Shapes)]

\* What is left to describe of a shape is of what it is made of.
LeftIsInside(frame) == \A i \in DOMAIN frame.left : frame.left[i] \in Inside(frame.shape)

\* The types, and that a reference has the name of its shape.
DescribingType ==
    /\ left \in Seq(Shapes)
    /\ open \in Seq(Frames)
    /\ \A r \in refs : r.shape \in Shapes /\ r.title = Title[r.shape]
    /\ ErrorTitle \in DOMAIN definitions
    /\ rendering = "done" => open = <<>>

\* What is referred to is registered, for the shape it is described from.
ReferredIsRegistered ==
    /\ \A r \in refs : r.title \in DOMAIN definitions
    /\ \A t \in DOMAIN definitions \ {ErrorTitle} :
          \E r \in refs : r.title = t /\ r.shape = definitions[t].shape

\* What is registered and not whole is open, and what is open is registered, unless
\* its element describes it.
BegunIsOpen ==
    /\ \A t \in DOMAIN definitions :
          \/ definitions[t].state = "whole"
          \/ \E i \in DOMAIN open : open[i].shape \notin Containers /\ Title[open[i].shape] = t
    /\ \A i \in DOMAIN open : open[i].shape \notin Containers =>
          /\ Title[open[i].shape] \in DOMAIN definitions \ {ErrorTitle}
          /\ definitions[Title[open[i].shape]].shape = open[i].shape

\* No two shapes open are registered under one name.
NamesOpenOnce ==
    \A i, j \in DOMAIN open :
        /\ open[i].shape \notin Containers /\ open[j].shape \notin Containers
        /\ Title[open[i].shape] = Title[open[j].shape]
        => i = j

\* A shape is described inside the one it was met in.
OpenIsInside ==
    /\ \A i \in DOMAIN open : LeftIsInside(open[i])
    /\ \A i \in DOMAIN open : i + 1 \in DOMAIN open =>
          open[i + 1].shape \in Inside(open[i].shape)

DInv ==
    /\ DescribingType
    /\ ReferredIsRegistered
    /\ BegunIsOpen
    /\ NamesOpenOnce
    /\ OpenIsInside

\* Nothing is described yet.
LEMMA InitDInv == DescribingInit => DInv
  BY ShapesAssumption
     DEF DescribingInit, DInv, DescribingType, ReferredIsRegistered, BegunIsOpen,
         NamesOpenOnce, OpenIsInside

\* A shape opened on frames comes after them, with all its members left.
LEMMA Opened ==
    ASSUME NEW shape \in Shapes, NEW frames \in Seq(Frames),
           Len(frames) = Len(open), open \in Seq(Frames),
           \A i \in DOMAIN open : frames[i].shape = open[i].shape,
           \A i \in DOMAIN frames : LeftIsInside(frames[i]),
           open' = Append(frames, [shape |-> shape, left |-> Members[shape]])
    PROVE  /\ open' \in Seq(Frames) /\ DOMAIN open' = 1..Len(open) + 1
           /\ \A i \in DOMAIN open : i \in DOMAIN open' /\ open'[i].shape = open[i].shape
           /\ \A i \in DOMAIN open' : i \in DOMAIN open \/ i = Len(open) + 1
           /\ open'[Len(open) + 1].shape = shape
           /\ \A i \in DOMAIN open' : LeftIsInside(open'[i])
<1> DEFINE top == [shape |-> shape, left |-> Members[shape]]
<1>1. top \in Frames /\ top.shape = shape /\ LeftIsInside(top)
  BY ShapesAssumption DEF Frames, LeftIsInside, Inside
<1>2. DOMAIN frames = 1..Len(open) /\ DOMAIN open = 1..Len(open) /\ Len(open) \in Nat
  OBVIOUS
<1> HIDE DEF top
<1>3. Append(frames, top) \in Seq(Frames) /\ DOMAIN Append(frames, top) = 1..Len(open) + 1
  BY <1>1, <1>2
<1>4. \A i \in DOMAIN open : Append(frames, top)[i] = frames[i]
  BY <1>1, <1>2
<1>5. Append(frames, top)[Len(open) + 1] = top
  BY <1>1, <1>2
<1>6. open' = Append(frames, top)
  BY DEF top
<1>7. \A i \in DOMAIN open' : i \in DOMAIN open \/ i = Len(open) + 1
  BY <1>2, <1>3, <1>6
<1>8. \A i \in DOMAIN open : i \in DOMAIN open'
  BY <1>2, <1>3, <1>6
<1>9. \A i \in DOMAIN open' : LeftIsInside(open'[i])
  BY <1>1, <1>2, <1>4, <1>5, <1>6, <1>7
<1> QED
  BY <1>1, <1>3, <1>4, <1>5, <1>6, <1>7, <1>8, <1>9

\* Meeting a shape of the last that is open, with the frames moved on, keeps the
\* invariant: a shape that has a name is opened only if its name is new.
LEMMA MeetStep ==
    ASSUME DInv, NEW shape \in Shapes, NEW frames \in Seq(Frames),
           Len(frames) = Len(open),
           \A i \in DOMAIN open : frames[i].shape = open[i].shape,
           \A i \in DOMAIN frames : LeftIsInside(frames[i]),
           \A i \in DOMAIN open : i + 1 \notin DOMAIN open => shape \in Inside(open[i].shape),
           left' \in Seq(Shapes), rendering = "on",
           Meet(shape, frames)
    PROVE  DInv'
<1> USE DEF DInv
<1>1. DOMAIN frames = DOMAIN open /\ DOMAIN open = 1..Len(open) /\ Len(open) \in Nat
  BY DEF DescribingType
<1>2. CASE open' = frames
  <2>1. NamesOpenOnce' /\ OpenIsInside'
    <3>1. NamesOpenOnce'
      BY <1>1, <1>2 DEF NamesOpenOnce
    <3>2. \A i \in DOMAIN open' : LeftIsInside(open'[i])
      BY <1>2
    <3>3. \A i \in DOMAIN open' : i + 1 \in DOMAIN open' =>
             open'[i + 1].shape \in Inside(open'[i].shape)
      BY <1>1, <1>2 DEF OpenIsInside
    <3> QED
      BY <3>1, <3>2, <3>3 DEF OpenIsInside, LeftIsInside, Inside
  <2>2. CASE UNCHANGED <<definitions, refs>> /\ rendering' \in {"on", "panicked"}
    <3>1. DescribingType'
      BY <1>2, <2>2 DEF DescribingType
    <3>2. ReferredIsRegistered'
      BY <2>2 DEF ReferredIsRegistered
    <3>3. BegunIsOpen'
      BY <1>1, <1>2, <2>2 DEF BegunIsOpen
    <3> QED
      BY <2>1, <3>1, <3>2, <3>3
  <2>3. CASE /\ refs' = refs \cup {[title |-> Title[shape], shape |-> shape]}
             /\ rendering' = rendering
             /\ Seen(shape) /\ definitions' = definitions
    <3>1. DescribingType'
      BY <1>2, <2>3 DEF DescribingType
    <3>2. ReferredIsRegistered'
      BY <2>3 DEF ReferredIsRegistered, Seen
    <3>3. BegunIsOpen'
      BY <1>1, <1>2, <2>3 DEF BegunIsOpen
    <3> QED
      BY <2>1, <3>1, <3>2, <3>3
  <2> QED
    BY <1>2, <2>2, <2>3, ShapesAssumption DEF Meet
<1>3. CASE open' = Append(frames, [shape |-> shape, left |-> Members[shape]])
  <2>1. /\ open' \in Seq(Frames) /\ DOMAIN open' = 1..Len(open) + 1
        /\ \A i \in DOMAIN open : i \in DOMAIN open' /\ open'[i].shape = open[i].shape
        /\ \A i \in DOMAIN open' : i \in DOMAIN open \/ i = Len(open) + 1
        /\ open'[Len(open) + 1].shape = shape
        /\ \A i \in DOMAIN open' : LeftIsInside(open'[i])
    BY <1>3, Opened DEF DescribingType
  <2>2. OpenIsInside'
    <3>1. ASSUME NEW i \in DOMAIN open', i + 1 \in DOMAIN open'
          PROVE  open'[i + 1].shape \in Inside(open'[i].shape)
      <4>1. i \in DOMAIN open /\ i \in 1..Len(open)
        BY <1>1, <2>1, <3>1
      <4>2. CASE i + 1 \in DOMAIN open
        BY <2>1, <4>1, <4>2 DEF OpenIsInside
      <4>3. CASE i + 1 \notin DOMAIN open
        <5>1. i + 1 = Len(open) + 1
          BY <2>1, <3>1, <4>3
        <5> QED
          BY <2>1, <4>1, <4>3, <5>1
      <4> QED
        BY <4>2, <4>3
    <3> QED
      BY <2>1, <3>1 DEF OpenIsInside, LeftIsInside, Inside
  <2>3. CASE shape \in Containers /\ UNCHANGED <<definitions, refs, rendering>>
    <3>1. DescribingType'
      BY <2>1, <2>3 DEF DescribingType
    <3>2. ReferredIsRegistered'
      BY <2>3 DEF ReferredIsRegistered
    <3>3. BegunIsOpen'
      BY <2>1, <2>3 DEF BegunIsOpen
    <3>4. NamesOpenOnce'
      BY <2>1, <2>3 DEF NamesOpenOnce
    <3> QED
      BY <2>2, <3>1, <3>2, <3>3, <3>4
  <2>4. CASE /\ refs' = refs \cup {[title |-> Title[shape], shape |-> shape]}
             /\ rendering' = rendering
             /\ ~Seen(shape) /\ shape \notin Containers
             /\ definitions' = Define(Title[shape], shape, "begun")
    <3>1. /\ DOMAIN definitions' = DOMAIN definitions \cup {Title[shape]}
          /\ definitions'[Title[shape]].shape = shape
          /\ \A t \in DOMAIN definitions : definitions'[t] = definitions[t]
      <4> DEFINE begun == Define(Title[shape], shape, "begun")
      <4>1. /\ DOMAIN begun = DOMAIN definitions \cup {Title[shape]}
            /\ begun[Title[shape]].shape = shape
            /\ \A t \in DOMAIN definitions : t # Title[shape] => begun[t] = definitions[t]
        BY DEF Define
      <4>2. definitions' = begun
        BY <2>4
      <4> HIDE DEF begun
      <4> QED
        BY <2>4, <4>1, <4>2 DEF Seen
    <3>2. /\ Title[shape] # ErrorTitle
          /\ \A i \in DOMAIN open :
                open[i].shape \notin Containers => Title[open[i].shape] # Title[shape]
      BY <2>4 DEF Seen, DescribingType, BegunIsOpen
    <3>3. DescribingType'
      BY <2>1, <2>4, <3>1 DEF DescribingType
    <3>4. ReferredIsRegistered'
      <4>1. \A r \in refs' : r.title \in DOMAIN definitions'
        BY <2>4, <3>1 DEF ReferredIsRegistered
      <4>2. ASSUME NEW t \in DOMAIN definitions' \ {ErrorTitle}
            PROVE  \E r \in refs' : r.title = t /\ r.shape = definitions'[t].shape
        <5>1. CASE t = Title[shape]
          <6>1. [title |-> Title[shape], shape |-> shape] \in refs'
            BY <2>4
          <6>2. definitions'[t].shape = shape
            BY <3>1, <5>1
          <6> WITNESS [title |-> Title[shape], shape |-> shape] \in refs'
          <6> QED
            BY <5>1, <6>2
        <5>2. CASE t # Title[shape]
          BY <2>4, <3>1, <4>2, <5>2 DEF ReferredIsRegistered
        <5> QED
          BY <5>1, <5>2
      <4> QED
        BY <4>1, <4>2 DEF ReferredIsRegistered
    <3>5. BegunIsOpen'
      <4>1. ASSUME NEW t \in DOMAIN definitions'
            PROVE  \/ definitions'[t].state = "whole"
                   \/ \E i \in DOMAIN open' :
                         open'[i].shape \notin Containers /\ Title[open'[i].shape] = t
        <5>1. CASE t = Title[shape]
          <6>1. Len(open) + 1 \in DOMAIN open'
            BY <1>1, <2>1
          <6> QED
            BY <2>1, <2>4, <5>1, <6>1
        <5>2. CASE t \in DOMAIN definitions
          BY <2>1, <3>1, <5>2 DEF BegunIsOpen
        <5> QED
          BY <3>1, <5>1, <5>2
      <4>2. \A i \in DOMAIN open' : open'[i].shape \notin Containers =>
               /\ Title[open'[i].shape] \in DOMAIN definitions' \ {ErrorTitle}
               /\ definitions'[Title[open'[i].shape]].shape = open'[i].shape
        BY <2>1, <3>1, <3>2 DEF BegunIsOpen
      <4> QED
        BY <4>1, <4>2 DEF BegunIsOpen
    <3>6. NamesOpenOnce'
      BY <2>1, <3>2 DEF NamesOpenOnce
    <3> QED
      BY <2>2, <3>3, <3>4, <3>5, <3>6
  <2>5. CASE open' = frames
    BY <1>2, <2>5
  <2> QED
    BY <2>3, <2>4, <2>5, ShapesAssumption DEF Meet
<1>4. open' = frames \/ open' = Append(frames, [shape |-> shape, left |-> Members[shape]])
  BY ShapesAssumption DEF Meet
<1> QED
  BY <1>2, <1>3, <1>4

\* What is left of frames without the last, which are the frames before it.
LEMMA FrontFrames ==
    ASSUME open \in Seq(Frames), open # <<>>
    PROVE  /\ Len(open) \in Nat \ {0} /\ DOMAIN open = 1..Len(open)
           /\ Last(open) = open[Len(open)] /\ Last(open) \in Frames
           /\ Front(open) \in Seq(Frames) /\ DOMAIN Front(open) = 1..Len(open) - 1
           /\ Len(Front(open)) = Len(open) - 1
           /\ \A i \in 1..Len(open) - 1 : Front(open)[i] = open[i]
<1>1. Len(open) \in Nat \ {0} /\ DOMAIN open = 1..Len(open)
  <2>1. Len(open) \in Nat /\ DOMAIN open = 1..Len(open)
    OBVIOUS
  <2>2. Len(open) # 0
    BY EmptySeq
  <2> QED
    BY <2>1, <2>2
<1>2. Last(open) = open[Len(open)] /\ Last(open) \in Frames
  BY <1>1 DEF Last
<1>3. Front(open) = SubSeq(open, 1, Len(open) - 1)
  BY DEF Front
<1>4. \A i \in 1..Len(open) - 1 : open[i] \in Frames
  BY <1>1
<1>5. Len(open) - 1 \in Int /\ 1 \in Int
  BY <1>1
<1>6. /\ Front(open) \in Seq(Frames)
      /\ Len(Front(open)) = IF 1 <= Len(open) - 1 THEN Len(open) - 1 - 1 + 1 ELSE 0
      /\ \A i \in 1..Len(open) - 1 - 1 + 1 : Front(open)[i] = open[1 + i - 1]
  BY <1>3, <1>4, <1>5, SubSeqProperties
<1>7. Len(Front(open)) = Len(open) - 1 /\ \A i \in 1..Len(open) - 1 : Front(open)[i] = open[i]
  <2> HIDE DEF Front
  <2>1. Len(open) - 1 - 1 + 1 = Len(open) - 1 /\ \A i \in 1..Len(open) - 1 : 1 + i - 1 = i
    BY <1>1
  <2>2. Len(Front(open)) = Len(open) - 1
    <3>1. (IF 1 <= Len(open) - 1 THEN Len(open) - 1 - 1 + 1 ELSE 0) = Len(open) - 1
      BY <1>1
    <3> QED
      BY <1>6, <3>1
  <2>3. \A i \in 1..Len(open) - 1 : Front(open)[i] = open[1 + i - 1]
    BY <1>6, <2>1
  <2> QED
    BY <2>1, <2>2, <2>3
<1>8. DOMAIN Front(open) = 1..Len(open) - 1
  BY <1>6, <1>7
<1> QED
  BY <1>1, <1>2, <1>6, <1>7, <1>8

\* The invariant is inductive.
LEMMA DInvStep == DInv /\ [Describe]_describing => DInv'
<1> SUFFICES ASSUME DInv, [Describe]_describing PROVE DInv'
  OBVIOUS
<1> USE DEF DInv
<1>1. CASE UNCHANGED describing
  BY <1>1 DEF describing, DescribingType, ReferredIsRegistered, BegunIsOpen, NamesOpenOnce,
     OpenIsInside, LeftIsInside, Inside
<1>2. CASE DescribeValue
  <2>1. left \in Seq(Shapes) /\ left # <<>> /\ open = <<>> /\ rendering = "on"
    BY <1>2 DEF DescribeValue, DescribingType
  <2>2. Head(left) \in Shapes /\ left' \in Seq(Shapes)
    BY <1>2, <2>1 DEF DescribeValue
  <2>3. Meet(Head(left), <<>>)
    BY <1>2 DEF DescribeValue
  <2>4. <<>> \in Seq(Frames) /\ Len(<<>>) = Len(open) /\ DOMAIN open = {} /\ DOMAIN <<>> = {}
    BY <2>1
  <2> QED
    BY <2>1, <2>2, <2>3, <2>4, MeetStep
<1>3. CASE DescribeMember
  <2> DEFINE moved == [Last(open) EXCEPT !.left = Tail(Last(open).left)]
             frames == Append(Front(open), moved)
  <2>1. open \in Seq(Frames) /\ open # <<>> /\ left' \in Seq(Shapes) /\ rendering = "on"
    BY <1>3 DEF DescribeMember, DescribingType
  <2>2. Last(open) \in Frames /\ Last(open).left # <<>>
    BY <1>3, <2>1, FrontFrames DEF DescribeMember
  <2>3. Head(Last(open).left) \in Shapes /\ moved \in Frames /\ moved.shape = Last(open).shape
    BY <2>2 DEF Frames
  <2>4. frames \in Seq(Frames) /\ Len(frames) = Len(open)
    <3> HIDE DEF moved
    <3>1. Front(open) \in Seq(Frames) /\ Len(Front(open)) = Len(open) - 1 /\ Len(open) \in Nat \ {0}
      BY <2>1, FrontFrames
    <3> QED
      BY <2>3, <3>1
  <2>5. \A i \in DOMAIN open : frames[i].shape = open[i].shape
    <3> SUFFICES ASSUME NEW i \in DOMAIN open PROVE frames[i].shape = open[i].shape
      OBVIOUS
    <3> HIDE DEF moved
    <3>1. CASE i = Len(open)
      <4>1. frames[i] = moved
        BY <2>1, <2>3, <3>1, FrontFrames
      <4> QED
        BY <2>1, <2>3, <3>1, <4>1, FrontFrames
    <3>2. CASE i # Len(open)
      <4>1. i \in 1..Len(open) - 1
        BY <2>1, <3>2, FrontFrames
      <4>2. frames[i] = Front(open)[i]
        BY <2>1, <2>3, <4>1, FrontFrames
      <4> QED
        BY <2>1, <4>1, <4>2, FrontFrames
    <3> QED
      BY <3>1, <3>2
  <2>6. Meet(Head(Last(open).left), frames)
    BY <1>3 DEF DescribeMember
  <2>7. LeftIsInside(Last(open)) /\ Head(Last(open).left) \in Inside(Last(open).shape)
    <3>1. LeftIsInside(Last(open))
      BY <2>1, FrontFrames DEF OpenIsInside
    <3>2. 1 \in DOMAIN Last(open).left /\ Head(Last(open).left) = Last(open).left[1]
      BY <2>2 DEF Frames
    <3> QED
      BY <3>1, <3>2 DEF LeftIsInside
  <2>8. LeftIsInside(moved)
    <3>1. moved.left = Tail(Last(open).left) /\ moved.shape = Last(open).shape
      BY <2>2 DEF Frames
    <3>2. Last(open).left \in Seq(Shapes)
      BY <2>2 DEF Frames
    <3>3. \A i \in DOMAIN Tail(Last(open).left) :
             /\ i + 1 \in DOMAIN Last(open).left
             /\ Tail(Last(open).left)[i] = Last(open).left[i + 1]
      BY <2>2, <3>2
    <3> HIDE DEF moved
    <3> QED
      BY <2>7, <3>1, <3>3 DEF LeftIsInside
  <2>9. \A i \in DOMAIN frames : LeftIsInside(frames[i])
    <3> SUFFICES ASSUME NEW i \in DOMAIN frames PROVE LeftIsInside(frames[i])
      OBVIOUS
    <3> HIDE DEF moved
    <3>1. i \in 1..Len(open) /\ Len(Front(open)) = Len(open) - 1 /\ Len(open) \in Nat \ {0}
      BY <2>1, <2>4, FrontFrames
    <3>2. CASE i = Len(open)
      <4>1. frames[i] = moved
        BY <2>1, <2>3, <3>2, FrontFrames
      <4> QED
        BY <2>8, <4>1
    <3>3. CASE i # Len(open)
      <4>1. i \in 1..Len(open) - 1 /\ i \in DOMAIN open
        BY <2>1, <3>1, <3>3, FrontFrames
      <4>2. frames[i] = Front(open)[i]
        BY <2>1, <2>3, <4>1, FrontFrames
      <4>3. frames[i] = open[i]
        BY <2>1, <4>1, <4>2, FrontFrames
      <4> QED
        BY <4>1, <4>3 DEF OpenIsInside
    <3> QED
      BY <3>2, <3>3
  <2>10. \A i \in DOMAIN open :
            i + 1 \notin DOMAIN open => Head(Last(open).left) \in Inside(open[i].shape)
    <3> SUFFICES ASSUME NEW i \in DOMAIN open, i + 1 \notin DOMAIN open
                 PROVE  Head(Last(open).left) \in Inside(open[i].shape)
      OBVIOUS
    <3>1. i = Len(open)
      BY <2>1, FrontFrames
    <3> QED
      BY <2>1, <2>7, <3>1, FrontFrames
  <2> HIDE DEF frames, moved
  <2> QED
    BY <2>1, <2>3, <2>4, <2>5, <2>6, <2>9, <2>10, MeetStep
<1>4. CASE CloseShape
  <2> DEFINE top == Last(open).shape
  <2>1. /\ open \in Seq(Frames) /\ open # <<>>
        /\ open' = Front(open)
        /\ definitions' = IF top \in Containers THEN definitions ELSE Define(Title[top], top, "whole")
        /\ UNCHANGED <<left, refs, rendering>> /\ rendering = "on"
    BY <1>4 DEF CloseShape, DescribingType, Whole
  <2>2. /\ DOMAIN open' = 1..Len(open) - 1 /\ top = open[Len(open)].shape
        /\ \A i \in DOMAIN open' : i \in DOMAIN open /\ open'[i] = open[i]
        /\ \A i \in DOMAIN open : i \in DOMAIN open' \/ i = Len(open)
        /\ open' \in Seq(Frames) /\ Len(open) \in DOMAIN open
    BY <2>1, FrontFrames
  <2>3. NamesOpenOnce' /\ OpenIsInside'
    <3>1. NamesOpenOnce'
      BY <2>2 DEF NamesOpenOnce
    <3>2. \A i \in DOMAIN open' : LeftIsInside(open[i]) /\ open'[i] = open[i]
      BY <2>2 DEF OpenIsInside
    <3>3. \A i \in DOMAIN open' : i + 1 \in DOMAIN open' =>
             open'[i + 1].shape \in Inside(open'[i].shape)
      BY <2>2 DEF OpenIsInside
    <3> HIDE DEF top
    <3> QED
      BY <3>1, <3>2, <3>3 DEF OpenIsInside, LeftIsInside, Inside
  <2>4. /\ DOMAIN definitions' = DOMAIN definitions
        /\ \A t \in DOMAIN definitions : definitions'[t].shape = definitions[t].shape
        /\ top \in Containers => definitions' = definitions
        /\ top \notin Containers =>
              /\ definitions'[Title[top]].state = "whole"
              /\ \A t \in DOMAIN definitions : t # Title[top] => definitions'[t] = definitions[t]
    <3> DEFINE closed == Define(Title[top], top, "whole")
    <3>1. CASE top \in Containers
      BY <2>1, <3>1
    <3>2. CASE top \notin Containers
      <4>1. Title[top] \in DOMAIN definitions /\ definitions[Title[top]].shape = top
        BY <2>2, <3>2 DEF BegunIsOpen
      <4>2. /\ DOMAIN closed = DOMAIN definitions \cup {Title[top]}
            /\ closed[Title[top]].shape = top /\ closed[Title[top]].state = "whole"
            /\ \A t \in DOMAIN definitions : t # Title[top] => closed[t] = definitions[t]
        BY DEF Define
      <4>3. definitions' = closed
        BY <2>1, <3>2
      <4> HIDE DEF closed, top
      <4> QED
        BY <3>2, <4>1, <4>2, <4>3
    <3> QED
      BY <3>1, <3>2
  <2>5. DescribingType'
    BY <2>1, <2>2, <2>4 DEF DescribingType
  <2>6. ReferredIsRegistered'
    BY <2>1, <2>4 DEF ReferredIsRegistered
  <2>7. BegunIsOpen'
    <3>1. ASSUME NEW t \in DOMAIN definitions
          PROVE  \/ definitions'[t].state = "whole"
                 \/ \E i \in DOMAIN open' :
                       open'[i].shape \notin Containers /\ Title[open'[i].shape] = t
      <4>1. CASE top \notin Containers /\ t = Title[top]
        BY <2>4, <4>1
      <4>2. CASE top \in Containers \/ t # Title[top]
        <5>1. definitions'[t] = definitions[t]
          BY <2>4, <4>2
        <5>2. CASE \E i \in DOMAIN open :
                      open[i].shape \notin Containers /\ Title[open[i].shape] = t
          <6> PICK i \in DOMAIN open : open[i].shape \notin Containers /\ Title[open[i].shape] = t
            BY <5>2
          <6>1. i # Len(open)
            BY <2>2, <4>2
          <6> QED
            BY <2>2, <6>1
        <5> QED
          BY <5>1, <5>2 DEF BegunIsOpen
      <4> QED
        BY <4>1, <4>2
    <3>2. \A i \in DOMAIN open' : open'[i].shape \notin Containers =>
             /\ Title[open'[i].shape] \in DOMAIN definitions' \ {ErrorTitle}
             /\ definitions'[Title[open'[i].shape]].shape = open'[i].shape
      BY <2>2, <2>4 DEF BegunIsOpen
    <3> QED
      BY <2>4, <3>1, <3>2 DEF BegunIsOpen
  <2> QED
    BY <2>3, <2>5, <2>6, <2>7
<1>5. CASE Rendered
  BY <1>5 DEF Rendered, DescribingType, ReferredIsRegistered, BegunIsOpen, NamesOpenOnce,
     OpenIsInside, LeftIsInside, Inside
<1> QED
  BY <1>1, <1>2, <1>3, <1>4, <1>5 DEF Describe

\* Every state of a rendering satisfies the invariant.
THEOREM DescribingInvariant == Describes => []DInv
<1> QED
  BY InitDInv, DInvStep, PTL DEF Describes

\* The document refers to nothing it does not define, whatever its shapes refer to,
\* themselves included.
THEOREM ReferencesAlwaysResolve == Describes => []ReferencesResolve
<1>1. ASSUME DInv PROVE ReferencesResolve
  <2> SUFFICES ASSUME rendering = "done", NEW r \in refs
               PROVE  /\ r.title \in DOMAIN definitions
                      /\ definitions[r.title].state = "whole"
                      /\ (r.title # ErrorTitle /\ \A q \in refs : q.title = r.title => q = r)
                             => definitions[r.title].shape = r.shape
    BY DEF ReferencesResolve
  <2>1. r.title \in DOMAIN definitions
    BY <1>1 DEF DInv, ReferredIsRegistered
  <2>2. definitions[r.title].state = "whole"
    BY <1>1, <2>1 DEF DInv, DescribingType, BegunIsOpen
  <2>3. ASSUME r.title # ErrorTitle, \A q \in refs : q.title = r.title => q = r
        PROVE  definitions[r.title].shape = r.shape
    BY <1>1, <2>1, <2>3 DEF DInv, ReferredIsRegistered
  <2> QED
    BY <2>1, <2>2, <2>3
<1> QED
  BY <1>1, DescribingInvariant, PTL

\* Shapes nested in one another from one to itself are not all containers, if
\* containers end.
LEMMA ContainersDoNotRepeat ==
    ASSUME DInv, ContainersEnd, NEW i \in DOMAIN open, NEW j \in DOMAIN open,
           i < j, open[i].shape = open[j].shape,
           \A k \in i..j : open[k].shape \in Containers
    PROVE  FALSE
<1> DEFINE S == {open[k].shape : k \in i..j}
<1>1. /\ DOMAIN open = 1..Len(open) /\ Len(open) \in Nat /\ i \in Nat /\ j \in Nat
      /\ i..j \subseteq DOMAIN open
  BY DEF DInv, DescribingType
<1>2. S \in SUBSET Containers /\ S # {}
  <2>1. i \in i..j
    BY <1>1
  <2> QED
    BY <2>1
<1>3. PICK shape \in S : Inside(shape) \cap S = {}
  BY <1>2 DEF ContainersEnd
<1>4. PICK k \in i..j : open[k].shape = shape /\ k + 1 \in i..j
  <2>1. PICK l \in i..j : open[l].shape = shape
    BY <1>3
  <2>2. CASE l = j
    <3>1. i \in i..j /\ i + 1 \in i..j
      BY <1>1
    <3> QED
      BY <2>1, <2>2, <3>1
  <2>3. CASE l # j
    <3>1. l + 1 \in i..j
      BY <1>1, <2>3
    <3> QED
      BY <2>1, <3>1
  <2> QED
    BY <2>2, <2>3
<1>5. open[k + 1].shape \in Inside(shape)
  BY <1>1, <1>4 DEF DInv, OpenIsInside
<1>6. open[k + 1].shape \in S
  BY <1>4
<1> QED
  BY <1>3, <1>5, <1>6

\* However shapes refer to one another they end in references, if no container holds
\* itself through containers alone: no name is open twice, and no container without
\* a name between.
THEOREM SelfReferencesEnd == Describes => []ShapesEndInReferences
<1>1. ASSUME DInv PROVE ShapesEndInReferences
  <2>1. ASSUME ContainersEnd PROVE SelfReferencesTerminate
    BY <1>1, <2>1, ContainersDoNotRepeat DEF SelfReferencesTerminate
  <2>2. \A i, j \in DOMAIN open :
           /\ {open[i].shape, open[j].shape} \cap Containers = {}
           /\ Title[open[i].shape] = Title[open[j].shape]
           => i = j
    BY <1>1 DEF DInv, NamesOpenOnce
  <2> QED
    BY <2>1, <2>2 DEF ShapesEndInReferences
<1> QED
  BY <1>1, DescribingInvariant, PTL
=============================================================================
