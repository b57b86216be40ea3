--------------------------- MODULE MessagesProofs ---------------------------
(***************************************************************************)
(* Proofs about Messages, for any descriptors, messages, masks and pins.   *)
(***************************************************************************)
EXTENDS Messages, DefinitionsProofs, FiniteSetTheorems, WellFoundedInduction

(* Places and paths.                                                       *)

\* What of a sequence comes first.
LEMMA UptoFacts ==
    ASSUME NEW S, NEW s \in Seq(S), NEW k \in 0..Len(s)
    PROVE  /\ Upto(s, k) \in Seq(S) /\ Len(Upto(s, k)) = k
           /\ \A i \in 1..k : Upto(s, k)[i] = s[i]
<1>1. \A i \in 1..k : s[i] \in S
  OBVIOUS
<1>2. 1 \in Int /\ k \in Int
  OBVIOUS
<1>3. /\ SubSeq(s, 1, k) \in Seq(S)
      /\ Len(SubSeq(s, 1, k)) = IF 1 <= k THEN k - 1 + 1 ELSE 0
      /\ \A i \in 1..k - 1 + 1 : SubSeq(s, 1, k)[i] = s[1 + i - 1]
  BY <1>1, <1>2, SubSeqProperties
<1>4. k - 1 + 1 = k /\ (IF 1 <= k THEN k ELSE 0) = k /\ \A i \in 1..k : 1 + i - 1 = i
  OBVIOUS
<1> QED
  BY <1>3, <1>4 DEF Upto

\* A sequence is told by its elements.
LEMMA SameSeq ==
    ASSUME NEW S, NEW s \in Seq(S), NEW t \in Seq(S), Len(s) = Len(t),
           \A i \in 1..Len(s) : s[i] = t[i]
    PROVE  s = t
  BY SeqEqual

\* Prefixes, element by element and as what comes first.
LEMMA PrefixFacts ==
    ASSUME NEW S, NEW s \in Seq(S), NEW t \in Seq(S)
    PROVE  /\ IsPrefix(s, t) <=> Len(s) <= Len(t) /\ \A i \in 1..Len(s) : s[i] = t[i]
           /\ IsPrefix(s, t) <=> Len(s) <= Len(t) /\ Upto(t, Len(s)) = s
<1>1. Len(s) \in Nat /\ Len(t) \in Nat /\ Len(s) \in 0..Len(s)
  OBVIOUS
<1>2. /\ Upto(s, Len(s)) \in Seq(S) /\ Len(Upto(s, Len(s))) = Len(s)
      /\ \A i \in 1..Len(s) : Upto(s, Len(s))[i] = s[i]
  BY <1>1, UptoFacts
<1>3. Upto(s, Len(s)) = s
  BY <1>2, SameSeq
<1>4. IsPrefix(s, t) <=> Len(s) <= Len(t) /\ Upto(t, Len(s)) = s
  BY <1>3 DEF IsPrefix, Upto
<1>5. ASSUME Len(s) <= Len(t)
      PROVE  Upto(t, Len(s)) = s <=> \A i \in 1..Len(s) : s[i] = t[i]
  <2>1. Len(s) \in 0..Len(t)
    BY <1>1, <1>5
  <2>2. /\ Upto(t, Len(s)) \in Seq(S) /\ Len(Upto(t, Len(s))) = Len(s)
        /\ \A i \in 1..Len(s) : Upto(t, Len(s))[i] = t[i]
    BY <2>1, UptoFacts
  <2>3. ASSUME \A i \in 1..Len(s) : s[i] = t[i] PROVE Upto(t, Len(s)) = s
    BY <2>2, <2>3, SameSeq
  <2> QED
    BY <2>2, <2>3
<1> QED
  BY <1>4, <1>5

\* A place that is not the first is its front and its last step.
LEMMA FrontFacts ==
    ASSUME NEW S, NEW s \in Seq(S), s # <<>>
    PROVE  /\ Len(s) \in Nat \ {0} /\ Len(s) - 1 \in 0..Len(s)
           /\ Front(s) = Upto(s, Len(s) - 1) /\ Front(s) \in Seq(S)
           /\ Len(Front(s)) = Len(s) - 1 /\ \A i \in 1..Len(s) - 1 : Front(s)[i] = s[i]
           /\ Last(s) = s[Len(s)] /\ Last(s) \in S
           /\ IsPrefix(Front(s), s)
<1>1. Len(s) \in Nat \ {0}
  BY EmptySeq
<1>2. Len(s) - 1 \in 0..Len(s) /\ Len(s) \in 1..Len(s)
  BY <1>1
<1>3. Front(s) = Upto(s, Len(s) - 1)
  BY DEF Front, Upto
<1>4. /\ Upto(s, Len(s) - 1) \in Seq(S) /\ Len(Upto(s, Len(s) - 1)) = Len(s) - 1
      /\ \A i \in 1..Len(s) - 1 : Upto(s, Len(s) - 1)[i] = s[i]
  BY <1>2, UptoFacts
<1>5. Len(s) - 1 <= Len(s)
  BY <1>1
<1>6. IsPrefix(Front(s), s)
  BY <1>3, <1>4, <1>5, PrefixFacts
<1> QED
  BY <1>1, <1>2, <1>3, <1>4, <1>6 DEF Last

\* The names of a place are a sequence as long as it.
LEMMA NamesFacts ==
    ASSUME NEW place \in Seq(Steps)
    PROVE  /\ FieldPath(place) \in Seq(STRING) /\ Len(FieldPath(place)) = Len(place)
           /\ \A i \in 1..Len(place) : FieldPath(place)[i] = place[i].field
<1>1. DOMAIN place = 1..Len(place) /\ Len(place) \in Nat
  OBVIOUS
<1>2. \A i \in 1..Len(place) : place[i].field \in STRING
  <2>1. \A i \in 1..Len(place) : place[i] \in Steps
    OBVIOUS
  <2> QED
    BY <2>1 DEF Steps
<1>3. FieldPath(place) = [i \in 1..Len(place) |-> place[i].field]
  BY <1>1 DEF FieldPath
<1>4. FieldPath(place) \in [1..Len(place) -> STRING]
  BY <1>2, <1>3
<1> QED
  BY <1>1, <1>3, <1>4

\* Prefixes of one sequence are prefixes of each other.
LEMMA PrefixOrder ==
    ASSUME NEW S, NEW s \in Seq(S), NEW t \in Seq(S), NEW u \in Seq(S)
    PROVE  /\ IsPrefix(s, s) /\ IsPrefix(<<>>, s)
           /\ IsPrefix(s, t) /\ IsPrefix(t, u) => IsPrefix(s, u)
           /\ IsPrefix(s, u) /\ IsPrefix(t, u) /\ Len(s) <= Len(t) => IsPrefix(s, t)
           /\ IsPrefix(s, t) /\ Len(s) = Len(t) => s = t
           /\ IsPrefix(s, t) => Len(s) <= Len(t)
<1> DEFINE Before(x, y) == Len(x) <= Len(y) /\ \A i \in 1..Len(x) : x[i] = y[i]
<1>0. <<>> \in Seq(S)
  OBVIOUS
<1>1a. IsPrefix(s, s) <=> Before(s, s)
  BY PrefixFacts
<1>1b. IsPrefix(<<>>, s)
  <2>1. ASSUME NEW e \in Seq(S), Len(e) = 0 PROVE IsPrefix(e, s)
    <3>1. Len(e) <= Len(s) /\ \A i \in 1..Len(e) : e[i] = s[i]
      BY <2>1
    <3> QED
      BY <3>1, PrefixFacts
  <2> QED
    BY <1>0, <2>1
<1>1c. IsPrefix(s, t) <=> Before(s, t)
  BY PrefixFacts
<1>1d. IsPrefix(t, u) <=> Before(t, u)
  BY PrefixFacts
<1>1e. IsPrefix(s, u) <=> Before(s, u)
  BY PrefixFacts
<1>2. Len(s) \in Nat /\ Len(t) \in Nat /\ Len(u) \in Nat /\ Len(<<>>) = 0
  OBVIOUS
<1>3. Before(s, s)
  BY <1>2
<1>4. Before(s, t) /\ Before(t, u) => Before(s, u)
  BY <1>2
<1>5. Before(s, u) /\ Before(t, u) /\ Len(s) <= Len(t) => Before(s, t)
  BY <1>2
<1>6. Before(s, t) /\ Len(s) = Len(t) => s = t
  BY SameSeq
<1>7. Before(s, t) => Len(s) <= Len(t)
  OBVIOUS
<1> HIDE DEF Before
<1> QED
  BY <1>1a, <1>1b, <1>1c, <1>1d, <1>1e, <1>3, <1>4, <1>5, <1>6, <1>7

\* The names on the way to a place are those on the way to what it is in, and more.
LEMMA NamesOfPrefix ==
    ASSUME NEW p \in Seq(Steps), NEW q \in Seq(Steps), IsPrefix(p, q)
    PROVE  IsPrefix(FieldPath(p), FieldPath(q))
<1>1. Len(p) <= Len(q) /\ (\A i \in 1..Len(p) : p[i] = q[i]) /\ Len(p) \in Nat /\ Len(q) \in Nat
  BY PrefixFacts
<1>2. /\ FieldPath(p) \in Seq(STRING) /\ Len(FieldPath(p)) = Len(p)
      /\ \A i \in 1..Len(p) : FieldPath(p)[i] = p[i].field
      /\ FieldPath(q) \in Seq(STRING) /\ Len(FieldPath(q)) = Len(q)
      /\ \A i \in 1..Len(q) : FieldPath(q)[i] = q[i].field
  BY NamesFacts
<1>3. \A i \in 1..Len(p) : FieldPath(p)[i] = FieldPath(q)[i]
  BY <1>1, <1>2
<1> QED
  BY <1>1, <1>2, <1>3, PrefixFacts

----------------------------------------------------------------------------
(* Messages, and what is left of them.                                     *)

Closed(m) ==
    /\ DOMAIN m \subseteq Seq(Steps)
    /\ \A place \in DOMAIN m : \A k \in 0..Len(place) : Upto(place, k) \in DOMAIN m

\* A message has the places its places are in.
LEMMA MessageIsClosed ==
    ASSUME NEW m, NEW type, IsMessage(m, type)
    PROVE  Closed(m)
  BY DEF IsMessage, Closed

\* Where one place is inside another, what is next on the way there is populated.
LEMMA NextOnTheWay ==
    ASSUME NEW m, Closed(m), NEW p \in DOMAIN m, NEW q \in DOMAIN m,
           IsPrefix(q, p), Len(q) < Len(p)
    PROVE  LET next == Upto(p, Len(q) + 1)
           IN  /\ next \in Populated(m, q) /\ next \in Seq(Steps) /\ next # <<>>
               /\ Len(next) = Len(q) + 1 /\ Front(next) = q /\ Last(next) = p[Len(q) + 1]
               /\ IsPrefix(next, p) /\ IsPrefix(q, next)
<1> DEFINE next == Upto(p, Len(q) + 1)
<1>1. /\ p \in Seq(Steps) /\ q \in Seq(Steps) /\ Len(q) \in Nat /\ Len(p) \in Nat
      /\ Len(q) + 1 \in 0..Len(p)
  BY DEF Closed
<1>2. /\ next \in Seq(Steps) /\ Len(next) = Len(q) + 1 /\ next \in DOMAIN m
      /\ \A i \in 1..Len(q) + 1 : next[i] = p[i]
  BY <1>1, UptoFacts DEF Closed
<1> HIDE DEF next
<1>3. next # <<>> /\ Len(q) + 1 \in 1..Len(q) + 1
  BY <1>1, <1>2
<1>4. \A i \in 1..Len(q) : q[i] = p[i]
  BY <1>1, PrefixFacts
<1>5. IsPrefix(next, p)
  <2>1. Len(next) <= Len(p) /\ \A i \in 1..Len(next) : next[i] = p[i]
    BY <1>1, <1>2
  <2> QED
    BY <1>1, <1>2, <2>1, PrefixFacts
<1>6. IsPrefix(q, next) /\ Upto(next, Len(q)) = q
  <2>1. Len(q) <= Len(next) /\ \A i \in 1..Len(q) : q[i] = next[i]
    BY <1>1, <1>2, <1>4
  <2> QED
    BY <1>1, <1>2, <2>1, PrefixFacts
<1>7. Front(next) = q
  <2>1. Front(next) = Upto(next, Len(next) - 1) /\ Len(next) - 1 = Len(q)
    BY <1>1, <1>2, <1>3, FrontFacts
  <2> QED
    BY <1>6, <2>1
<1>8. Last(next) = p[Len(q) + 1]
  BY <1>2, <1>3, FrontFacts
<1>9. next \in Populated(m, q)
  BY <1>2, <1>6 DEF Populated
<1> QED
  BY <1>2, <1>3, <1>5, <1>6, <1>7, <1>8, <1>9 DEF next

\* What is populated at a place is one step inside it.
LEMMA PopulatedFacts ==
    ASSUME NEW m, Closed(m), NEW q \in DOMAIN m, NEW next \in Populated(m, q)
    PROVE  /\ next \in DOMAIN m /\ next \in Seq(Steps) /\ next # <<>> /\ q \in Seq(Steps)
           /\ Len(next) = Len(q) + 1 /\ Len(q) \in Nat
           /\ Front(next) = q /\ IsPrefix(q, next)
           /\ Last(next) = next[Len(next)] /\ Last(next) \in Steps
<1>1. /\ next \in DOMAIN m /\ next \in Seq(Steps) /\ q \in Seq(Steps)
      /\ Len(next) = Len(q) + 1 /\ Upto(next, Len(q)) = q /\ Len(q) \in Nat
  BY DEF Populated, Closed
<1>2. next # <<>>
  BY <1>1
<1>3. Front(next) = Upto(next, Len(next) - 1) /\ Last(next) = next[Len(next)] /\ Last(next) \in Steps
  BY <1>1, <1>2, FrontFacts
<1>4. Len(next) - 1 = Len(q) /\ Len(q) <= Len(next)
  BY <1>1
<1>5. IsPrefix(q, next)
  BY <1>1, <1>4, PrefixFacts
<1> QED
  BY <1>1, <1>2, <1>3, <1>4, <1>5

\* What comes first is a prefix, and of two prefixes the shorter is one of the longer.
LEMMA UptoIsPrefix ==
    ASSUME NEW S, NEW s \in Seq(S), NEW k \in 0..Len(s)
    PROVE  IsPrefix(Upto(s, k), s)
<1>1. /\ Upto(s, k) \in Seq(S) /\ Len(Upto(s, k)) = k /\ k <= Len(s)
      /\ \A i \in 1..k : Upto(s, k)[i] = s[i]
  BY UptoFacts
<1> QED
  BY <1>1, PrefixFacts

\* A prefix that is not the whole is a prefix of the front.
LEMMA PrefixOfFront ==
    ASSUME NEW S, NEW s \in Seq(S), NEW t \in Seq(S), t # <<>>, s # t, IsPrefix(s, t)
    PROVE  IsPrefix(s, Front(t)) /\ Len(s) < Len(t)
<1>1. /\ Len(t) \in Nat \ {0} /\ Front(t) \in Seq(S) /\ Len(Front(t)) = Len(t) - 1
      /\ IsPrefix(Front(t), t) /\ Len(s) \in Nat
  BY FrontFacts
<1>2. Len(s) <= Len(t) /\ Len(s) # Len(t)
  BY PrefixOrder
<1>3. Len(s) <= Len(Front(t)) /\ Len(s) < Len(t)
  BY <1>1, <1>2
<1> QED
  BY <1>1, <1>3, PrefixOrder

\* What is left when fields are cleared.
LEMMA ClearedFacts ==
    ASSUME NEW m, Closed(m), NEW fields \in SUBSET (Seq(Steps) \ {<<>>})
    PROVE  /\ \A p : p \in DOMAIN Cleared(m, fields) <=>
                        p \in DOMAIN m /\ \A next \in fields : ~IsPrefix(next, p)
           /\ \A p \in DOMAIN Cleared(m, fields) : Cleared(m, fields)[p] = m[p]
           /\ Closed(Cleared(m, fields))
           /\ <<>> \in DOMAIN m => <<>> \in DOMAIN Cleared(m, fields)
<1> DEFINE out == Cleared(m, fields)
<1>1. \A p : p \in DOMAIN out <=> p \in DOMAIN m /\ \A next \in fields : ~IsPrefix(next, p)
  BY DEF Cleared
<1>2. \A p \in DOMAIN out : out[p] = m[p]
  BY DEF Cleared
<1> HIDE DEF out
<1>3. DOMAIN out \subseteq Seq(Steps)
  BY <1>1 DEF Closed
<1>4. ASSUME NEW p \in DOMAIN out, NEW k \in 0..Len(p) PROVE Upto(p, k) \in DOMAIN out
  <2>1. p \in DOMAIN m /\ p \in Seq(Steps) /\ Upto(p, k) \in DOMAIN m
    BY <1>1, <1>3 DEF Closed
  <2>2. Upto(p, k) \in Seq(Steps) /\ IsPrefix(Upto(p, k), p)
    BY <2>1, UptoFacts, UptoIsPrefix
  <2>3. ASSUME NEW next \in fields, IsPrefix(next, Upto(p, k)) PROVE FALSE
    <3>1. IsPrefix(next, p)
      BY <2>1, <2>2, <2>3, PrefixOrder
    <3> QED
      BY <1>1, <3>1
  <2> QED
    BY <1>1, <2>1, <2>3
<1>5. ASSUME NEW next \in Seq(Steps) \ {<<>>} PROVE ~IsPrefix(next, <<>>)
  <2>1. Len(next) \in Nat \ {0} /\ <<>> \in Seq(Steps) /\ Len(<<>>) = 0
    BY FrontFacts
  <2>2. IsPrefix(next, <<>>) => Len(next) <= Len(<<>>)
    BY <2>1, PrefixOrder
  <2> QED
    BY <2>1, <2>2
<1>6. <<>> \in DOMAIN m => <<>> \in DOMAIN out
  BY <1>1, <1>5
<1> QED
  BY <1>1, <1>2, <1>3, <1>4, <1>6 DEF Closed, out

----------------------------------------------------------------------------
(* Pruning.                                                                *)

PartOf(out, m) == DOMAIN out \subseteq DOMAIN m /\ \A place \in DOMAIN out : out[place] = m[place]
DeclaredIn(m, place) == Declares(m[Front(place)], Last(place).field)

\* A path resolved: the messages it goes through.
Through(over, path, current) ==
    /\ path # <<>> /\ current[1] = over
    /\ \A i \in 1..Len(path) : Declares(current[i], path[i])
    /\ \A i \in 1..Len(path) - 1 :
          LET fd == Descriptors[current[i]][path[i]]
          IN  Descends(fd) /\ current[i + 1] = fd.type

\* prune is still to be called only for messages, which the paths that go on go through.
VisitsAreOnTheWay(mask, m, out, waiting) ==
    \A q \in waiting :
        /\ q \in DOMAIN out /\ m[q] \in Types
        /\ q = <<>> \/ InTree(mask.paths, FieldPath(q))
        /\ \A path \in mask.paths : ~IsPrefix(path, FieldPath(q))
        /\ \A path \in mask.paths : \A current \in [1..Len(path) -> Types] :
              Through(mask.over, path, current) /\ IsPrefix(FieldPath(q), path)
                  => current[Len(q) + 1] = m[q]

\* What is allowed is there; what is there and not allowed is inside what prune is
\* still to be called for.
AllowedIsKept(mask, m, out) ==
    \A p \in DOMAIN m \ {<<>>} : DeclaredIn(m, p) /\ Within(p, mask.paths) => p \in DOMAIN out

RestIsVisited(mask, m, out, waiting) ==
    \A p \in DOMAIN out \ {<<>>} :
        DeclaredIn(m, p) /\ ~Within(p, mask.paths) => \E q \in waiting : q # p /\ IsPrefix(q, p)

PruneInv(mask, m, out, waiting) ==
    /\ Closed(out) /\ <<>> \in DOMAIN out /\ PartOf(out, m)
    /\ VisitsAreOnTheWay(mask, m, out, waiting)
    /\ AllowedIsKept(mask, m, out)
    /\ RestIsVisited(mask, m, out, waiting)

IsMask(mask) ==
    /\ mask.paths \subseteq Seq(STRING)
    /\ \A path \in mask.paths : Resolves(mask.over, path)

\* What a place is in is a message, which declares it if there is anything inside it.
LEMMA InsideMessages ==
    ASSUME NEW m, NEW type, IsMessage(m, type), NEW p \in DOMAIN m \ {<<>>}
    PROVE  /\ p \in Seq(Steps) /\ Front(p) \in DOMAIN m /\ m[Front(p)] \in Types
           /\ Fits(m[Front(p)], Last(p), m[p])
           /\ m[p] \in Types => DeclaredIn(m, p)
<1>1. p \in Seq(Steps) /\ m[Front(p)] \in Types /\ Fits(m[Front(p)], Last(p), m[p])
  BY DEF IsMessage
<1>2. Front(p) = Upto(p, Len(p) - 1) /\ Len(p) - 1 \in 0..Len(p)
  BY <1>1, FrontFacts
<1>3. Front(p) \in DOMAIN m
  BY <1>2 DEF IsMessage
<1>4. m[p] \in Types => DeclaredIn(m, p)
  BY <1>1 DEF Fits, DeclaredIn
<1> QED
  BY <1>1, <1>3, <1>4

\* What is on the way to a place is a message.
LEMMA OnTheWayIsMessage ==
    ASSUME NEW m, NEW type, IsMessage(m, type), NEW p \in DOMAIN m, NEW q \in DOMAIN m,
           IsPrefix(q, p), q # p
    PROVE  m[q] \in Types
<1> DEFINE next == Upto(p, Len(q) + 1)
<1>1. Closed(m) /\ p \in Seq(Steps) /\ q \in Seq(Steps)
  BY MessageIsClosed DEF Closed
<1>2. Len(q) <= Len(p) /\ Len(q) # Len(p) /\ Len(q) \in Nat /\ Len(p) \in Nat
  BY <1>1, PrefixOrder
<1>3. Len(q) < Len(p)
  BY <1>2
<1>4. next \in Populated(m, q) /\ next # <<>> /\ Front(next) = q
  BY <1>1, <1>3, NextOnTheWay
<1> HIDE DEF next
<1>5. next \in DOMAIN m \ {<<>>}
  BY <1>4 DEF Populated
<1> QED
  BY <1>4, <1>5, InsideMessages

\* The names of no place.
LEMMA NoNames == FieldPath(<<>>) = <<>> /\ <<>> \in Seq(Steps) /\ Len(<<>>) = 0
<1>1. <<>> \in Seq(Steps) /\ Len(<<>>) = 0
  OBVIOUS
<1>2. FieldPath(<<>>) \in Seq(STRING) /\ Len(FieldPath(<<>>)) = 0
  BY <1>1, NamesFacts
<1> QED
  BY <1>1, <1>2

\* Apply begins at the message itself.
LEMMA PruneBegins ==
    ASSUME NEW mask, IsMask(mask), NEW m, IsMessage(m, mask.over)
    PROVE  PruneInv(mask, m, m, {<<>>})
<1>1. Closed(m) /\ <<>> \in DOMAIN m /\ m[<<>>] = mask.over /\ mask.over \in Types
  BY MessageIsClosed DEF IsMessage
<1>2. PartOf(m, m)
  BY DEF PartOf
<1>3. VisitsAreOnTheWay(mask, m, m, {<<>>})
  <2>1. ASSUME NEW path \in mask.paths PROVE ~IsPrefix(path, <<>>)
    <3>1. path \in Seq(STRING) /\ path # <<>>
      BY DEF IsMask, Resolves
    <3>2. Len(path) \in Nat \ {0} /\ <<>> \in Seq(STRING) /\ Len(<<>>) = 0
      BY <3>1, FrontFacts
    <3>3. IsPrefix(path, <<>>) => Len(path) <= Len(<<>>)
      BY <3>1, <3>2, PrefixOrder
    <3> QED
      BY <3>2, <3>3
  <2>2. 0 + 1 = 1
    OBVIOUS
  <2> QED
    BY <1>1, <2>1, <2>2, NoNames DEF VisitsAreOnTheWay, Through
<1>4. AllowedIsKept(mask, m, m)
  BY DEF AllowedIsKept
<1>5. RestIsVisited(mask, m, m, {<<>>})
  <2>1. ASSUME NEW p \in DOMAIN m PROVE IsPrefix(<<>>, p)
    BY <1>1, PrefixOrder DEF Closed
  <2> QED
    BY <2>1 DEF RestIsVisited
<1> QED
  BY <1>1, <1>2, <1>3, <1>4, <1>5 DEF PruneInv

\* A step of a prefix of a path leads where the path goes, if the path goes on.
LEMMA NextIsMessage ==
    ASSUME NEW type \in Types, NEW step, NEW value, Fits(type, step, value),
           Declares(type, step.field), Descends(Descriptors[type][step.field])
    PROVE  value \in Types /\ value = Descriptors[type][step.field].type
  BY DEF Fits, Descends

\* One call of prune keeps the invariant, and is for messages only.
LEMMA PruneStep ==
    ASSUME NEW mask, IsMask(mask), NEW m, IsMessage(m, mask.over), NEW out, NEW waiting,
           PruneInv(mask, m, out, waiting), NEW q \in waiting
    PROVE  LET deeper == Deeper(mask.paths, out, q)
           IN  /\ \A next \in deeper : out[next] \in Types
               /\ PruneInv(mask, m, Cleared(out, Disallowed(mask.paths, out, q)),
                           (waiting \ {q}) \cup deeper)
<1> DEFINE deeper == Deeper(mask.paths, out, q)
           gone == Disallowed(mask.paths, out, q)
           rest == Cleared(out, gone)
           onward == (waiting \ {q}) \cup deeper
           P == mask.paths
<1>1. /\ Closed(out) /\ <<>> \in DOMAIN out /\ PartOf(out, m) /\ Closed(m)
      /\ VisitsAreOnTheWay(mask, m, out, waiting) /\ AllowedIsKept(mask, m, out)
      /\ RestIsVisited(mask, m, out, waiting)
  BY MessageIsClosed DEF PruneInv
<1>2. /\ q \in DOMAIN out /\ q \in DOMAIN m /\ q \in Seq(Steps) /\ m[q] \in Types /\ out[q] = m[q]
      /\ \A path \in P : ~IsPrefix(path, FieldPath(q))
  BY <1>1 DEF VisitsAreOnTheWay, PartOf, Closed
<1>3. ASSUME NEW path \in P PROVE path \in Seq(STRING) /\ Len(path) \in Nat
  BY DEF IsMask
<1>4. ~All(P, FieldPath(q))
  <2>1. FieldPath(q) \in Seq(STRING)
    BY <1>2, NamesFacts
  <2>2. IsPrefix(FieldPath(q), FieldPath(q))
    BY <2>1, PrefixOrder
  <2> QED
    BY <1>2, <2>2 DEF All
<1>5. ASSUME NEW next \in Ranged(out, q)
      PROVE  /\ next \in DOMAIN out /\ next \in DOMAIN m /\ next \in Seq(Steps) /\ next # <<>>
             /\ Len(next) = Len(q) + 1 /\ Len(q) \in Nat
             /\ Front(next) = q /\ IsPrefix(q, next) /\ Last(next) = next[Len(next)]
             /\ DeclaredIn(m, next) /\ Declares(m[q], Last(next).field)
             /\ out[next] = m[next] /\ Fits(m[q], Last(next), m[next])
             /\ FieldPath(next) \in Seq(STRING) /\ Len(FieldPath(next)) = Len(q) + 1
             /\ FieldPath(next)[Len(q) + 1] = Last(next).field
  <2>1. next \in Populated(out, q) /\ Declares(m[q], Last(next).field)
    BY <1>2 DEF Ranged
  <2>2. /\ next \in DOMAIN out /\ next \in Seq(Steps) /\ next # <<>>
        /\ Len(next) = Len(q) + 1 /\ Len(q) \in Nat
        /\ Front(next) = q /\ IsPrefix(q, next) /\ Last(next) = next[Len(next)]
    BY <1>1, <1>2, <2>1, PopulatedFacts
  <2>3. next \in DOMAIN m /\ out[next] = m[next]
    BY <1>1, <2>2 DEF PartOf
  <2>4. Fits(m[q], Last(next), m[next])
    BY <2>2, <2>3, InsideMessages
  <2>5. /\ FieldPath(next) \in Seq(STRING) /\ Len(FieldPath(next)) = Len(next)
        /\ FieldPath(next)[Len(next)] = next[Len(next)].field
    <3>1. Len(next) \in 1..Len(next)
      BY <2>2
    <3> QED
      BY <2>2, <3>1, NamesFacts
  <2> QED
    BY <2>1, <2>2, <2>3, <2>4, <2>5 DEF DeclaredIn
<1>6. ASSUME NEW next \in deeper
      PROVE  /\ next \in Ranged(out, q) /\ m[next] \in Types /\ InTree(P, FieldPath(next))
             /\ \A path \in P : ~IsPrefix(path, FieldPath(next))
             /\ \A path \in P : \A current \in [1..Len(path) -> Types] :
                    Through(mask.over, path, current) /\ IsPrefix(FieldPath(next), path)
                        => current[Len(next) + 1] = m[next]
  <2>1. next \in Ranged(out, q) /\ InTree(P, FieldPath(next)) /\ ~All(P, FieldPath(next))
    BY DEF Deeper
  <2>2. FieldPath(q) \in Seq(STRING) /\ IsPrefix(FieldPath(q), FieldPath(next)) /\ Len(FieldPath(q)) = Len(q)
    BY <1>2, <1>5, <2>1, NamesFacts, NamesOfPrefix
  <2>3. ASSUME NEW path \in P, IsPrefix(path, FieldPath(next)) PROVE FALSE
    <3>1. path # FieldPath(next) /\ FieldPath(next) # <<>>
      BY <1>5, <2>1 DEF All
    <3>2. IsPrefix(path, Front(FieldPath(next))) /\ Len(path) < Len(FieldPath(next))
      BY <1>3, <1>5, <2>1, <2>3, <3>1, PrefixOfFront
    <3>3. Len(path) <= Len(FieldPath(q))
      BY <1>3, <1>5, <2>1, <2>2, <3>2
    <3>4. IsPrefix(path, FieldPath(q))
      BY <1>3, <1>5, <2>1, <2>2, <2>3, <3>3, PrefixOrder
    <3> QED
      BY <1>2, <3>4
  <2>4. ASSUME NEW path \in P, NEW current \in [1..Len(path) -> Types],
               Through(mask.over, path, current), IsPrefix(FieldPath(next), path)
        PROVE  m[next] \in Types /\ current[Len(next) + 1] = m[next]
    <3>1. path \in Seq(STRING) /\ IsPrefix(FieldPath(q), path)
      BY <1>3, <1>5, <2>1, <2>2, <2>4, PrefixOrder
    <3>2. current[Len(q) + 1] = m[q]
      BY <1>1, <2>4, <3>1 DEF VisitsAreOnTheWay
    <3>3. Len(FieldPath(next)) <= Len(path) /\ Len(FieldPath(next)) # Len(path)
      <4>1. IsPrefix(path, path)
        BY <3>1, PrefixOrder
      <4>2. Len(FieldPath(next)) = Len(path) => FieldPath(next) = path
        BY <1>5, <2>1, <2>4, <3>1, PrefixOrder
      <4> QED
        BY <1>5, <2>1, <2>3, <2>4, <3>1, <4>1, <4>2, PrefixOrder
    <3>4. Len(q) + 1 \in 1..Len(path) - 1 /\ Len(q) + 1 + 1 = Len(next) + 1
      BY <1>3, <1>5, <2>1, <3>3
    <3>5. path[Len(q) + 1] = Last(next).field
      <4>1. \A i \in 1..Len(FieldPath(next)) : FieldPath(next)[i] = path[i]
        BY <1>5, <2>1, <2>4, <3>1, PrefixFacts
      <4>2. Len(q) + 1 \in 1..Len(FieldPath(next))
        BY <1>5, <2>1
      <4> QED
        BY <1>5, <2>1, <4>1, <4>2
    <3>6. LET fd == Descriptors[m[q]][Last(next).field]
          IN  Descends(fd) /\ current[Len(next) + 1] = fd.type
      BY <2>4, <3>2, <3>4, <3>5 DEF Through
    <3> QED
      BY <1>2, <1>5, <2>1, <3>6, NextIsMessage
  <2>5. m[next] \in Types
    <3>1. PICK path \in P : IsPrefix(FieldPath(next), path)
      BY <2>1 DEF InTree
    <3>2. \E current \in [1..Len(path) -> Types] : Through(mask.over, path, current)
      BY DEF IsMask, Resolves, Through
    <3> QED
      BY <2>4, <3>1, <3>2
  <2> QED
    BY <2>1, <2>3, <2>4, <2>5
<1>7. \A next \in deeper : out[next] \in Types
  BY <1>5, <1>6
<1>8. gone \subseteq Ranged(out, q) /\ gone \in SUBSET (Seq(Steps) \ {<<>>})
      /\ \A next \in gone : ~InTree(P, FieldPath(next))
  BY <1>5 DEF Disallowed
<1>9. /\ \A p : p \in DOMAIN rest <=> p \in DOMAIN out /\ \A next \in gone : ~IsPrefix(next, p)
      /\ \A p \in DOMAIN rest : rest[p] = out[p]
      /\ Closed(rest) /\ <<>> \in DOMAIN rest
  BY <1>1, <1>8, ClearedFacts
<1> HIDE DEF deeper, gone, rest
<1>10. PartOf(rest, m)
  BY <1>1, <1>9 DEF PartOf
<1>11. ASSUME NEW next \in gone, NEW p \in Seq(Steps), IsPrefix(next, p)
       PROVE  IsPrefix(FieldPath(next), FieldPath(p)) /\ FieldPath(p) \in Seq(STRING)
              /\ FieldPath(next) \in Seq(STRING)
  BY <1>5, <1>8, <1>11, NamesFacts, NamesOfPrefix
<1>12. ASSUME NEW p \in DOMAIN m, Within(p, P), NEW next \in gone, IsPrefix(next, p)
       PROVE  FALSE
  <2>1. p \in Seq(Steps) /\ next \in Ranged(out, q)
    BY <1>1, <1>8 DEF Closed
  <2>2. PICK path \in P : IsPrefix(path, FieldPath(p)) \/ IsPrefix(FieldPath(p), path)
    BY <1>12 DEF Within
  <2>3. path \in Seq(STRING) /\ Len(path) \in Nat
    BY <1>3
  <2>4. CASE IsPrefix(FieldPath(p), path)
    <3>1. IsPrefix(FieldPath(next), path)
      BY <1>11, <1>12, <2>1, <2>3, <2>4, PrefixOrder
    <3> QED
      BY <1>8, <3>1 DEF InTree
  <2>5. CASE IsPrefix(path, FieldPath(p))
    <3>1. CASE Len(FieldPath(next)) <= Len(path)
      <4>1. IsPrefix(FieldPath(next), path)
        BY <1>11, <1>12, <2>1, <2>3, <2>5, <3>1, PrefixOrder
      <4> QED
        BY <1>8, <4>1 DEF InTree
    <3>2. CASE ~(Len(FieldPath(next)) <= Len(path))
      <4>1. Len(path) <= Len(q)
        BY <1>5, <2>1, <2>3, <3>2
      <4>2. IsPrefix(q, p)
        BY <1>2, <1>5, <1>12, <2>1, PrefixOrder
      <4>3. /\ IsPrefix(FieldPath(q), FieldPath(p)) /\ FieldPath(q) \in Seq(STRING)
            /\ FieldPath(p) \in Seq(STRING) /\ Len(FieldPath(q)) = Len(q)
        BY <1>2, <2>1, <4>2, NamesFacts, NamesOfPrefix
      <4>4. IsPrefix(path, FieldPath(q))
        BY <2>3, <2>5, <4>1, <4>3, PrefixOrder
      <4> QED
        BY <1>2, <4>4
    <3> QED
      BY <3>1, <3>2
  <2> QED
    BY <2>2, <2>4, <2>5
<1>13. AllowedIsKept(mask, m, rest)
  BY <1>1, <1>9, <1>12 DEF AllowedIsKept
<1>14. VisitsAreOnTheWay(mask, m, rest, onward)
  <2>1. ASSUME NEW v \in waiting PROVE v \in DOMAIN rest
    <3>1. v \in DOMAIN out /\ v \in DOMAIN m /\ v \in Seq(Steps)
      BY <1>1 DEF VisitsAreOnTheWay, PartOf, Closed
    <3>2. CASE v = <<>>
      BY <1>9, <3>2
    <3>3. CASE v # <<>>
      <4>1. DeclaredIn(m, v)
        BY <1>1, <3>1, <3>3, InsideMessages DEF VisitsAreOnTheWay
      <4>2. Within(v, P)
        BY <1>1, <3>3 DEF VisitsAreOnTheWay, InTree, Within
      <4> QED
        BY <1>13, <3>1, <3>3, <4>1, <4>2 DEF AllowedIsKept
    <3> QED
      BY <3>2, <3>3
  <2>2. ASSUME NEW v \in deeper PROVE v \in DOMAIN rest
    <3>1. v \in DOMAIN m /\ v # <<>> /\ DeclaredIn(m, v) /\ InTree(P, FieldPath(v))
      BY <1>5, <1>6, <2>2
    <3>2. Within(v, P)
      BY <3>1 DEF InTree, Within
    <3> QED
      BY <1>13, <3>1, <3>2 DEF AllowedIsKept
  <2>3. ASSUME NEW v \in onward
        PROVE  /\ v \in DOMAIN rest /\ m[v] \in Types
               /\ v = <<>> \/ InTree(P, FieldPath(v))
               /\ \A path \in P : ~IsPrefix(path, FieldPath(v))
               /\ \A path \in P : \A current \in [1..Len(path) -> Types] :
                      Through(mask.over, path, current) /\ IsPrefix(FieldPath(v), path)
                          => current[Len(v) + 1] = m[v]
    <3>1. CASE v \in waiting
      BY <1>1, <2>1, <3>1 DEF VisitsAreOnTheWay
    <3>2. CASE v \in deeper
      BY <1>6, <2>2, <3>2
    <3> QED
      BY <2>3, <3>1, <3>2
  <2> QED
    BY <2>3 DEF VisitsAreOnTheWay
<1>15. RestIsVisited(mask, m, rest, onward)
  <2>1. SUFFICES ASSUME NEW p \in DOMAIN rest \ {<<>>}, DeclaredIn(m, p), ~Within(p, P)
                 PROVE  \E v \in onward : v # p /\ IsPrefix(v, p)
    BY DEF RestIsVisited
  <2>2. p \in DOMAIN out /\ p \in DOMAIN m /\ p \in Seq(Steps)
    BY <1>1, <1>9 DEF PartOf, Closed
  <2>3. PICK v \in waiting : v # p /\ IsPrefix(v, p)
    BY <1>1, <2>1, <2>2 DEF RestIsVisited
  <2>4. CASE v # q
    BY <2>3, <2>4
  <2>5. CASE v = q
    <3> DEFINE next == Upto(p, Len(q) + 1)
    <3>1. Len(q) < Len(p)
      BY <1>2, <2>1, <2>2, <2>3, <2>5, PrefixOfFront
    <3>2. /\ next \in Populated(out, q) /\ next \in Seq(Steps) /\ next # <<>>
          /\ Front(next) = q /\ IsPrefix(next, p)
      BY <1>1, <1>2, <2>2, <2>3, <2>5, <3>1, NextOnTheWay
    <3> HIDE DEF next
    <3>3. next \in DOMAIN out /\ next \in DOMAIN m
      BY <1>1, <3>2 DEF Populated, PartOf
    <3>4. DeclaredIn(m, next)
      <4>1. CASE next = p
        BY <2>1, <4>1
      <4>2. CASE next # p
        <5>1. m[next] \in Types
          BY <2>2, <3>2, <3>3, <4>2, OnTheWayIsMessage
        <5> QED
          BY <3>2, <3>3, <5>1, InsideMessages
      <4> QED
        BY <4>1, <4>2
    <3>5. next \in Ranged(out, q)
      BY <1>2, <3>2, <3>4 DEF Ranged, DeclaredIn
    <3>6. next \notin gone
      BY <1>9, <2>1, <3>2
    <3>7. InTree(P, FieldPath(next))
      BY <1>4, <3>5, <3>6 DEF gone, Disallowed
    <3>8. ~All(P, FieldPath(next))
      <4>1. IsPrefix(FieldPath(next), FieldPath(p))
        BY <2>2, <3>2, NamesOfPrefix
      <4> QED
        BY <2>1, <4>1 DEF All, Within
    <3>9. next \in deeper
      BY <1>4, <3>5, <3>7, <3>8 DEF deeper, Deeper
    <3>10. next # p
      BY <2>1, <3>7 DEF InTree, Within
    <3> QED
      BY <3>2, <3>9, <3>10
  <2> QED
    BY <2>4, <2>5
<1>16. PruneInv(mask, m, rest, onward)
  BY <1>9, <1>10, <1>13, <1>14, <1>15 DEF PruneInv
<1> QED
  BY <1>7, <1>16 DEF deeper, gone, rest

----------------------------------------------------------------------------
(* What the document says.                                                 *)

\* Of some numbers one is the least.
LEMMA LeastNat ==
    ASSUME NEW T \in SUBSET Nat, T # {}
    PROVE  \E n \in T : \A k \in T : n <= k
<1>1. \E n \in T : \A k \in T : ~(<<k, n>> \in OpToRel(<, Nat))
  BY NatLessThanWellFounded, WFMin
<1>2. ASSUME NEW k \in Nat, NEW n \in Nat PROVE <<k, n>> \in OpToRel(<, Nat) <=> k < n
  BY DEF OpToRel
<1>3. PICK n \in T : \A k \in T : ~(<<k, n>> \in OpToRel(<, Nat))
  BY <1>1
<1>4. ASSUME NEW k \in T PROVE n <= k
  <2>1. ~(k < n) /\ k \in Nat /\ n \in Nat
    BY <1>2, <1>3
  <2> QED
    BY <2>1
<1> QED
  BY <1>4

\* A path starts with one that the walk over the mask's tree ends at.
LEMMA StartsWithOne ==
    ASSUME NEW paths \in SUBSET Seq(STRING), NEW path \in paths
    PROVE  \E p \in PathsOf(paths) : IsPrefix(p, path)
<1> DEFINE starts == {p \in paths : IsPrefix(p, path)}
           T == {Len(p) : p \in starts}
<1>1. path \in starts /\ \A p \in starts : Len(p) \in Nat /\ p \in Seq(STRING)
  BY PrefixOrder
<1>2. T \in SUBSET Nat /\ T # {}
  BY <1>1
<1>3. PICK n \in T : \A k \in T : n <= k
  BY <1>2, LeastNat
<1>4. PICK p \in starts : Len(p) = n
  OBVIOUS
<1>5. ASSUME NEW q \in paths, IsPrefix(q, p) PROVE q = p
  <2>1. q \in starts /\ p \in Seq(STRING) /\ q \in Seq(STRING) /\ path \in Seq(STRING)
    BY <1>5, PrefixOrder
  <2>2. Len(p) <= Len(q) /\ Len(q) <= Len(p) /\ Len(p) \in Nat /\ Len(q) \in Nat
    BY <1>1, <1>3, <1>4, <1>5, <2>1, PrefixOrder
  <2> QED
    BY <1>5, <2>1, <2>2, PrefixOrder
<1> QED
  BY <1>5 DEF PathsOf

\* What is within the paths the document has is within the mask's, and the other way.
LEMMA PathsSayTheSame ==
    ASSUME NEW paths \in SUBSET Seq(STRING), NEW place \in Seq(Steps)
    PROVE  Within(place, PathsOf(paths)) <=> Within(place, paths)
<1>1. PathsOf(paths) \subseteq paths
  BY DEF PathsOf
<1>2. ASSUME NEW path \in paths,
             IsPrefix(path, FieldPath(place)) \/ IsPrefix(FieldPath(place), path)
      PROVE  Within(place, PathsOf(paths))
  <2>1. PICK p \in PathsOf(paths) : IsPrefix(p, path)
    BY StartsWithOne
  <2>2. p \in Seq(STRING) /\ path \in Seq(STRING) /\ FieldPath(place) \in Seq(STRING)
    BY <1>1, NamesFacts
  <2>3. IsPrefix(p, FieldPath(place)) \/ IsPrefix(FieldPath(place), p)
    <3>1. CASE IsPrefix(path, FieldPath(place))
      BY <2>1, <2>2, <3>1, PrefixOrder
    <3>2. CASE IsPrefix(FieldPath(place), path)
      <4>1. Len(p) <= Len(FieldPath(place)) \/ Len(FieldPath(place)) <= Len(p)
        BY <2>2
      <4>2. CASE Len(p) <= Len(FieldPath(place))
        BY <2>1, <2>2, <3>2, <4>2, PrefixOrder
      <4>3. CASE Len(FieldPath(place)) <= Len(p)
        BY <2>1, <2>2, <3>2, <4>3, PrefixOrder
      <4> QED
        BY <4>1, <4>2, <4>3
    <3> QED
      BY <1>2, <3>1, <3>2
  <2> QED
    BY <2>3 DEF Within
<1> QED
  BY <1>1, <1>2 DEF Within

\* None of the paths the document has starts with another.
LEMMA PathsAreApart ==
    ASSUME NEW paths, NEW p \in PathsOf(paths), NEW q \in PathsOf(paths), IsPrefix(p, q)
    PROVE  p = q
  BY DEF PathsOf

----------------------------------------------------------------------------
(* Reading a pin.                                                          *)

\* A sequence with one element more.
LEMMA AppendFacts ==
    ASSUME NEW S, NEW s \in Seq(S), NEW e \in S
    PROVE  /\ Append(s, e) \in Seq(S) /\ Append(s, e) # <<>> /\ Len(Append(s, e)) = Len(s) + 1
           /\ Front(Append(s, e)) = s /\ Last(Append(s, e)) = e
           /\ IsPrefix(s, Append(s, e))
<1> DEFINE t == Append(s, e)
<1>1. /\ t \in Seq(S) /\ Len(t) = Len(s) + 1 /\ t[Len(t)] = e /\ Len(s) \in Nat
      /\ \A i \in 1..Len(s) : t[i] = s[i]
  OBVIOUS
<1> HIDE DEF t
<1>2. t # <<>> /\ Len(t) - 1 = Len(s) /\ Len(s) <= Len(t)
  BY <1>1
<1>3. Front(t) = Upto(t, Len(s)) /\ Last(t) = e
  BY <1>1, <1>2, FrontFacts
<1>4. IsPrefix(s, t) /\ Upto(t, Len(s)) = s
  <2>1. IsPrefix(s, t)
    BY <1>1, <1>2, PrefixFacts
  <2> QED
    BY <1>1, <2>1, PrefixFacts
<1> QED
  BY <1>1, <1>2, <1>3, <1>4 DEF t

\* A sequence is told by its front and its last element.
LEMMA ByFrontAndLast ==
    ASSUME NEW S, NEW s \in Seq(S), NEW t \in Seq(S), s # <<>>, t # <<>>,
           Front(s) = Front(t), Last(s) = Last(t)
    PROVE  s = t
<1>1. /\ Len(s) \in Nat \ {0} /\ Len(s) - 1 \in 0..Len(s)
      /\ Front(s) = Upto(s, Len(s) - 1) /\ Len(Front(s)) = Len(s) - 1 /\ Last(s) = s[Len(s)]
  BY FrontFacts
<1>2. /\ Len(t) \in Nat \ {0} /\ Len(t) - 1 \in 0..Len(t)
      /\ Front(t) = Upto(t, Len(t) - 1) /\ Len(Front(t)) = Len(t) - 1 /\ Last(t) = t[Len(t)]
  BY FrontFacts
<1>3. Len(s) = Len(t)
  BY <1>1, <1>2
<1>4. \A i \in 1..Len(s) - 1 : Front(s)[i] = s[i]
  BY FrontFacts
<1>5. \A i \in 1..Len(t) - 1 : Front(t)[i] = t[i]
  BY FrontFacts
<1>6. ASSUME NEW i \in 1..Len(s) PROVE s[i] = t[i]
  <2>1. i \in 1..Len(s) - 1 \/ i = Len(s)
    BY <1>1
  <2> QED
    BY <1>1, <1>2, <1>3, <1>4, <1>5, <2>1
<1> QED
  BY <1>3, <1>6, SameSeq

\* What comes first of a sequence comes first of its front, or is all of it.
LEMMA UptoOfFront ==
    ASSUME NEW S, NEW s \in Seq(S)
    PROVE  /\ Upto(s, Len(s)) = s
           /\ s # <<>> => \A k \in 0..Len(s) - 1 : Upto(s, k) = Upto(Front(s), k)
<1>1. Len(s) \in Nat /\ Len(s) \in 0..Len(s)
  OBVIOUS
<1>2. Upto(s, Len(s)) = s
  <2>1. IsPrefix(s, s)
    BY PrefixOrder
  <2> QED
    BY <2>1, PrefixFacts
<1>3. ASSUME s # <<>>, NEW k \in 0..Len(s) - 1 PROVE Upto(s, k) = Upto(Front(s), k)
  <2>1. /\ Len(s) - 1 \in 0..Len(s) /\ Front(s) = Upto(s, Len(s) - 1)
        /\ Front(s) \in Seq(S) /\ Len(Front(s)) = Len(s) - 1
    BY <1>3, FrontFacts
  <2>2. k \in 0..Len(s) /\ k \in 0..Len(Front(s)) /\ k \in Nat
    BY <1>1, <2>1
  <2>3. /\ Upto(s, k) \in Seq(S) /\ Len(Upto(s, k)) = k
        /\ \A i \in 1..k : Upto(s, k)[i] = s[i]
    BY <2>2, UptoFacts
  <2>4. /\ Upto(Front(s), k) \in Seq(S) /\ Len(Upto(Front(s), k)) = k
        /\ \A i \in 1..k : Upto(Front(s), k)[i] = Front(s)[i]
    BY <2>1, <2>2, UptoFacts
  <2>5. \A i \in 1..Len(s) - 1 : Front(s)[i] = s[i]
    BY <2>1, UptoFacts
  <2>6. \A i \in 1..k : i \in 1..Len(s) - 1
    BY <1>1, <1>3
  <2>7. \A i \in 1..Len(Upto(s, k)) : Upto(s, k)[i] = Upto(Front(s), k)[i]
    BY <2>3, <2>4, <2>5, <2>6
  <2> QED
    BY <2>3, <2>4, <2>7, SameSeq
<1> QED
  BY <1>2, <1>3

\* A step and one that leads to the same field, wherever the elements stand.
Alike(s, t) == s.field = t.field /\ s.key = t.key /\ (s.element = 0 <=> t.element = 0)

\* Where an element stands makes no difference to what fits.
LEMMA FitsAlike ==
    ASSUME NEW type, NEW s, NEW t, Alike(s, t), NEW value
    PROVE  Fits(type, s, value) <=> Fits(type, t, value)
  BY DEF Fits, Alike

\* Two places that lead to the same say the same.
LEMMA SaidAlike ==
    ASSUME NEW p \in Seq(Steps) \ {<<>>}, NEW q \in Seq(Steps) \ {<<>>},
           Said(Front(p)) = Said(Front(q)), Len(p) = Len(q), Alike(Last(p), Last(q))
    PROVE  Said(p) = Said(q)
<1>1. /\ Len(p) \in Nat \ {0} /\ Len(p) - 1 \in 0..Len(p) /\ Front(p) \in Seq(Steps)
      /\ Front(p) = Upto(p, Len(p) - 1) /\ Len(Front(p)) = Len(p) - 1
      /\ Last(p) = p[Len(p)] /\ Last(p) \in Steps
  BY FrontFacts
<1>2. /\ Len(q) \in Nat \ {0} /\ Len(q) - 1 \in 0..Len(q) /\ Front(q) \in Seq(Steps)
      /\ Front(q) = Upto(q, Len(q) - 1) /\ Len(Front(q)) = Len(q) - 1
      /\ Last(q) = q[Len(q)] /\ Last(q) \in Steps
  BY FrontFacts
<1>3. \A i \in 1..Len(p) - 1 : Front(p)[i] = p[i]
  BY FrontFacts
<1>4. \A i \in 1..Len(q) - 1 : Front(q)[i] = q[i]
  BY FrontFacts
<1>5. DOMAIN p = 1..Len(p) /\ DOMAIN q = 1..Len(p) /\ DOMAIN Front(p) = 1..Len(p) - 1
      /\ DOMAIN Front(q) = 1..Len(p) - 1
  BY <1>1, <1>2
<1>6. ASSUME NEW i \in 1..Len(p) - 1
      PROVE  [p[i] EXCEPT !.element = 0] = [q[i] EXCEPT !.element = 0]
  <2>1. Said(Front(p))[i] = [Front(p)[i] EXCEPT !.element = 0]
    BY <1>5 DEF Said
  <2>2. Said(Front(q))[i] = [Front(q)[i] EXCEPT !.element = 0]
    BY <1>5 DEF Said
  <2> QED
    BY <1>3, <1>4, <2>1, <2>2
<1>7. [Last(p) EXCEPT !.element = 0] = [Last(q) EXCEPT !.element = 0]
  BY <1>1, <1>2 DEF Alike, Steps
<1>8. ASSUME NEW i \in 1..Len(p)
      PROVE  [p[i] EXCEPT !.element = 0] = [q[i] EXCEPT !.element = 0]
  <2>1. i \in 1..Len(p) - 1 \/ i = Len(p)
    BY <1>1
  <2> QED
    BY <1>1, <1>2, <1>6, <1>7, <2>1
<1> QED
  BY <1>5, <1>8 DEF Said

\* What can be put: in a message that is there, what a field it declares leads to.
CanPut(m, at, step, value) ==
    /\ at \in DOMAIN m /\ m[at] \in Types /\ step \in Steps
    /\ Fits(m[at], step, value) /\ Declares(m[at], step.field)

\* Where the next element of a list is put is no place of the message yet.
LEMMA LandingFacts ==
    ASSUME NEW m, NEW type, IsMessage(m, type), ListsAreRuns(m), NEW at, NEW step, NEW value,
           CanPut(m, at, step, value)
    PROVE  LET there == Landing(m, at, step)
           IN  /\ there \in Seq(Steps) /\ there # <<>> /\ Front(there) = at
               /\ Len(there) = Len(at) + 1 /\ at \in Seq(Steps) /\ IsPrefix(at, there)
               /\ Last(there) \in Steps /\ Alike(Last(there), step)
               /\ step.element = 0 => there = Append(at, step) /\ Last(there) = step
               /\ step.element # 0 => there \notin DOMAIN m
               /\ step.element # 0 =>
                      Last(there).element = Cardinality(Elements(m, at, step.field)) + 1
<1> DEFINE n == Cardinality(Elements(m, at, step.field))
           new == [step EXCEPT !.element = n + 1]
           last == IF step.element = 0 THEN step ELSE new
           there == Append(at, last)
<1>1. at \in Seq(Steps) /\ m[at] \in Types /\ step \in Steps
  BY DEF CanPut, IsMessage
<1>2. ASSUME step.element # 0
      PROVE  n \in Nat /\ Elements(m, at, step.field) = 1..n
  <2>1. Descriptors[m[at]][step.field].card = "list"
    BY <1>2 DEF CanPut, Fits
  <2>2. /\ IsFiniteSet(Elements(m, at, step.field))
        /\ Elements(m, at, step.field) = 1..Cardinality(Elements(m, at, step.field))
    BY <2>1 DEF CanPut, ListsAreRuns, Declares
  <2> QED
    BY <2>2, FS_CardinalityType
<1>3. last \in Steps /\ Alike(last, step)
      /\ (step.element # 0 => last.element = n + 1 /\ last.field = step.field)
      /\ (step.element = 0 => last = step)
  <2>1. CASE step.element = 0
    BY <1>1, <2>1 DEF Alike
  <2>2. CASE step.element # 0
    <3>1. n + 1 \in Nat /\ n + 1 # 0
      BY <1>2, <2>2
    <3> HIDE DEF n
    <3> QED
      BY <1>1, <2>2, <3>1 DEF Alike, Steps
  <2> QED
    BY <2>1, <2>2
<1>4. Landing(m, at, step) = there
  BY DEF Landing
<1> HIDE DEF last
<1>5. /\ there \in Seq(Steps) /\ there # <<>> /\ Len(there) = Len(at) + 1
      /\ Front(there) = at /\ Last(there) = last /\ IsPrefix(at, there)
  BY <1>1, <1>3, AppendFacts
<1> HIDE DEF there
<1>6. ASSUME step.element # 0, there \in DOMAIN m PROVE FALSE
  <2>1. Upto(there, Len(at)) = at
    BY <1>1, <1>5, PrefixFacts
  <2>2. there \in {x \in Populated(m, at) : Last(x).field = step.field}
    BY <1>3, <1>5, <1>6, <2>1 DEF Populated
  <2>3. Last(there).element \in Elements(m, at, step.field)
    BY <2>2 DEF Elements
  <2>4. n + 1 \in 1..n /\ n \in Nat
    BY <1>2, <1>3, <1>5, <1>6, <2>3
  <2> QED
    BY <2>4
<1>7. step.element = 0 => there = Append(at, step) /\ Last(there) = step
  BY <1>3, <1>5 DEF there
<1> QED
  BY <1>1, <1>3, <1>4, <1>5, <1>6, <1>7 DEF n

\* What makes room is a field of the message put in, in no list.
LEMMA DisplacedFacts ==
    ASSUME NEW m, NEW type, IsMessage(m, type), NEW at \in DOMAIN m, NEW step,
           NEW next \in Displaced(m, at, step)
    PROVE  /\ next \in DOMAIN m /\ next \in Seq(Steps) /\ next # <<>>
           /\ Front(next) = at /\ IsPrefix(at, next) /\ Len(next) = Len(at) + 1
           /\ SameOneof(m[at], step.field, Last(next).field)
           /\ Last(next).element = 0
           /\ Descriptors[m[at]][Last(next).field].card = "one"
<1>1. next \in Populated(m, at) /\ SameOneof(m[at], step.field, Last(next).field)
  BY DEF Displaced
<1>2. /\ next \in DOMAIN m /\ next \in Seq(Steps) /\ next # <<>>
      /\ Front(next) = at /\ IsPrefix(at, next) /\ Len(next) = Len(at) + 1
  BY <1>1, MessageIsClosed, PopulatedFacts
<1>3. Fits(m[at], Last(next), m[next]) /\ m[at] \in Types
  BY <1>2, InsideMessages
<1>4. Descriptors[m[at]][Last(next).field].card = "one" /\ Declares(m[at], Last(next).field)
  BY <1>1, <1>3, DescriptorsAssumption DEF SameOneof, Declares
<1>5. Last(next).element = 0
  BY <1>3, <1>4 DEF Fits
<1> QED
  BY <1>1, <1>2, <1>4, <1>5

\* A message in which something is put.
LEMMA PutFacts ==
    ASSUME NEW m, NEW type, IsMessage(m, type), ListsAreRuns(m), NEW at, NEW step, NEW value,
           CanPut(m, at, step, value)
    PROVE  LET there == Landing(m, at, step)
               gone == Displaced(m, at, step)
               out == Put(m, at, step, value)
           IN  /\ \A p : p \in DOMAIN out <=>
                       p = there \/ (p \in DOMAIN m /\ \A next \in gone : ~IsPrefix(next, p))
               /\ out[there] = value
               /\ \A p \in DOMAIN out : p # there => out[p] = m[p]
               /\ there \in DOMAIN m /\ m[there] \in Types => value = m[there]
               /\ there \in DOMAIN m => (m[there] \in Types <=> value \in Types)
               /\ at \in DOMAIN out /\ out[at] = m[at]
<1> DEFINE there == Landing(m, at, step)
           gone == Displaced(m, at, step)
           kept == Cleared(m, gone)
           out == Put(m, at, step, value)
<1>1. /\ there \in Seq(Steps) /\ there # <<>> /\ Front(there) = at /\ at \in Seq(Steps)
      /\ Len(there) = Len(at) + 1 /\ Len(at) \in Nat
      /\ Alike(Last(there), step) /\ (step.element = 0 => Last(there) = step)
      /\ (step.element # 0 => there \notin DOMAIN m)
  BY LandingFacts
<1>2. Closed(m) /\ at \in DOMAIN m
  BY MessageIsClosed DEF CanPut
<1>3. gone \in SUBSET (Seq(Steps) \ {<<>>})
  BY <1>2, DisplacedFacts
<1>4. /\ \A p : p \in DOMAIN kept <=> p \in DOMAIN m /\ \A next \in gone : ~IsPrefix(next, p)
      /\ \A p \in DOMAIN kept : kept[p] = m[p]
  BY <1>2, <1>3, ClearedFacts
<1>5. /\ \A p : p \in DOMAIN out <=> p \in DOMAIN kept \/ p = there
      /\ out[there] = value
      /\ \A p \in DOMAIN out : p # there => out[p] = kept[p]
  <2>1. out = [place \in DOMAIN kept \cup {there} |-> IF place = there THEN value ELSE kept[place]]
    BY DEF Put
  <2> HIDE DEF kept, there, out
  <2> QED
    BY <2>1
<1> HIDE DEF there, gone, kept, out
<1>6. ASSUME there \in DOMAIN m
      PROVE  /\ m[there] \in Types => value = m[there]
             /\ m[there] \in Types <=> value \in Types
  <2>1. Fits(m[at], step, m[there])
    <3>1. Fits(m[at], Last(there), m[there])
      BY <1>1, <1>6, InsideMessages
    <3> QED
      BY <1>1, <3>1, FitsAlike
  <2>2. Fits(m[at], step, value) /\ Declares(m[at], step.field)
    BY DEF CanPut
  <2> QED
    BY <2>1, <2>2 DEF Fits
<1>7. ASSUME NEW next \in gone PROVE ~IsPrefix(next, at)
  <2>1. next \in Seq(Steps) /\ Len(next) = Len(at) + 1
    BY <1>2, DisplacedFacts DEF gone
  <2> QED
    BY <1>1, <2>1, PrefixOrder
<1>8. at # there
  BY <1>1
<1>9. at \in DOMAIN out /\ out[at] = m[at]
  BY <1>2, <1>4, <1>5, <1>7, <1>8
<1> QED
  BY <1>4, <1>5, <1>6, <1>9 DEF there, gone, out

\* What a field is put in, where its type has it, stays a message of its type.
LEMMA PutIsMessage ==
    ASSUME NEW m, NEW type, IsMessage(m, type), ListsAreRuns(m), NEW at, NEW step, NEW value,
           CanPut(m, at, step, value)
    PROVE  IsMessage(Put(m, at, step, value), type)
<1> DEFINE there == Landing(m, at, step)
           gone == Displaced(m, at, step)
           out == Put(m, at, step, value)
<1>1. /\ there \in Seq(Steps) /\ there # <<>> /\ Front(there) = at /\ at \in Seq(Steps)
      /\ Len(there) = Len(at) + 1 /\ Len(at) \in Nat /\ IsPrefix(at, there)
      /\ Alike(Last(there), step)
  BY LandingFacts
<1>2. /\ \A p : p \in DOMAIN out <=>
                    p = there \/ (p \in DOMAIN m /\ \A next \in gone : ~IsPrefix(next, p))
      /\ out[there] = value
      /\ \A p \in DOMAIN out : p # there => out[p] = m[p]
      /\ there \in DOMAIN m /\ m[there] \in Types => value = m[there]
      /\ at \in DOMAIN out /\ out[at] = m[at] /\ at # there
  <2>1. at # there
    BY <1>1
  <2> QED
    BY <2>1, PutFacts
<1>3. /\ Closed(m) /\ at \in DOMAIN m
      /\ \A next \in gone : next \in Seq(Steps) /\ next # <<>>
  BY MessageIsClosed, DisplacedFacts DEF CanPut
<1> HIDE DEF there, gone, out
<1>4. DOMAIN out \subseteq Seq(Steps)
  BY <1>1, <1>2, <1>3 DEF Closed
<1>5. ASSUME NEW p \in DOMAIN m, \A next \in gone : ~IsPrefix(next, p), NEW k \in 0..Len(p)
      PROVE  Upto(p, k) \in DOMAIN out
  <2>1. p \in Seq(Steps) /\ Upto(p, k) \in DOMAIN m
    BY <1>3 DEF Closed
  <2>2. Upto(p, k) \in Seq(Steps) /\ IsPrefix(Upto(p, k), p)
    BY <2>1, UptoFacts, UptoIsPrefix
  <2>3. ASSUME NEW next \in gone, IsPrefix(next, Upto(p, k)) PROVE FALSE
    <3>1. IsPrefix(next, p)
      BY <1>3, <2>1, <2>2, <2>3, PrefixOrder
    <3> QED
      BY <1>5, <3>1
  <2> QED
    BY <1>2, <2>1, <2>3
<1>6. ASSUME NEW p \in DOMAIN out, NEW k \in 0..Len(p) PROVE Upto(p, k) \in DOMAIN out
  <2>1. CASE p = there /\ k = Len(there)
    <3>1. Upto(there, Len(there)) = there
      BY <1>1, UptoOfFront
    <3> QED
      BY <1>2, <2>1, <3>1
  <2>2. CASE p = there /\ k # Len(there)
    <3>1. k \in 0..Len(there) - 1 /\ k \in 0..Len(at)
      BY <1>1, <2>2
    <3>2. Upto(p, k) = Upto(at, k)
      BY <1>1, <2>2, <3>1, UptoOfFront
    <3>3. \A next \in gone : ~IsPrefix(next, at)
      BY <1>2
    <3> QED
      BY <1>3, <1>5, <3>1, <3>2, <3>3
  <2>3. CASE p # there
    BY <1>2, <1>5, <2>3
  <2> QED
    BY <2>1, <2>2, <2>3
<1>7. <<>> \in DOMAIN out /\ out[<<>>] = type
  <2>1. Upto(at, 0) \in Seq(Steps) /\ Len(Upto(at, 0)) = 0 /\ 0 \in 0..Len(at)
    BY <1>1, UptoFacts
  <2>2. Upto(at, 0) = <<>>
    BY <2>1
  <2>3. <<>> \in DOMAIN out
    BY <1>2, <1>6, <2>1, <2>2
  <2> QED
    BY <1>1, <1>2, <2>3 DEF IsMessage
<1>8. ASSUME NEW p \in DOMAIN out \ {<<>>}
      PROVE  out[Front(p)] \in Types /\ Fits(out[Front(p)], Last(p), out[p])
  <2>1. CASE p = there
    <3>1. m[at] \in Types /\ Fits(m[at], step, value)
      BY DEF CanPut
    <3>2. Fits(m[at], Last(there), value)
      BY <1>1, <3>1, FitsAlike
    <3> QED
      BY <1>1, <1>2, <2>1, <3>1, <3>2
  <2>2. CASE p # there
    <3>1. /\ p \in DOMAIN m /\ Front(p) \in DOMAIN m /\ m[Front(p)] \in Types
          /\ Fits(m[Front(p)], Last(p), m[p]) /\ out[p] = m[p]
      BY <1>2, <2>2, InsideMessages
    <3>2. Front(p) \in DOMAIN out
      <4>1. Front(p) = Upto(p, Len(p) - 1) /\ Len(p) - 1 \in 0..Len(p)
        BY <1>4, FrontFacts
      <4> QED
        BY <1>6, <4>1
    <3>3. out[Front(p)] = m[Front(p)]
      BY <1>2, <3>1, <3>2
    <3> QED
      BY <3>1, <3>3
  <2> QED
    BY <2>1, <2>2
<1>9. type \in Types
  BY DEF IsMessage
<1>10. IsMessage(out, type)
  BY <1>4, <1>6, <1>7, <1>8, <1>9 DEF IsMessage
<1> QED
  BY <1>10 DEF out

\* The elements of a list are those of its places.
LEMMA ElementsFacts ==
    ASSUME NEW m, NEW place, NEW field, NEW e
    PROVE  e \in Elements(m, place, field) <=>
               \E next \in Populated(m, place) : Last(next).field = field /\ Last(next).element = e
  BY DEF Elements

\* The elements of its lists are still numbered one after the other.
LEMMA PutListsAreRuns ==
    ASSUME NEW m, NEW type, IsMessage(m, type), ListsAreRuns(m), NEW at, NEW step, NEW value,
           CanPut(m, at, step, value)
    PROVE  ListsAreRuns(Put(m, at, step, value))
<1> DEFINE there == Landing(m, at, step)
           gone == Displaced(m, at, step)
           out == Put(m, at, step, value)
<1>1. /\ there \in Seq(Steps) /\ there # <<>> /\ Front(there) = at /\ at \in Seq(Steps)
      /\ Len(there) = Len(at) + 1 /\ Len(at) \in Nat /\ IsPrefix(at, there)
      /\ Last(there).field = step.field /\ (step.element = 0 <=> Last(there).element = 0)
      /\ step.element # 0 => there \notin DOMAIN m
      /\ step.element # 0 => Last(there).element = Cardinality(Elements(m, at, step.field)) + 1
  BY LandingFacts DEF Alike
<1>2. /\ \A p : p \in DOMAIN out <=>
                    p = there \/ (p \in DOMAIN m /\ \A next \in gone : ~IsPrefix(next, p))
      /\ out[there] = value
      /\ \A p \in DOMAIN out : p # there => out[p] = m[p]
      /\ there \in DOMAIN m => (m[there] \in Types <=> value \in Types)
      /\ there \in DOMAIN m /\ m[there] \in Types => value = m[there]
  BY PutFacts
<1>3. /\ Closed(m) /\ at \in DOMAIN m
      /\ \A next \in gone : next \in Seq(Steps) /\ next # <<>> /\ Front(next) = at
      /\ \A next \in gone : Descriptors[m[at]][Last(next).field].card = "one"
      /\ \A next \in gone : Len(next) = Len(at) + 1 /\ next # there
  BY <1>1, MessageIsClosed, DisplacedFacts DEF CanPut, SameOneof
<1>4. IsMessage(out, type)
  BY PutIsMessage
<1>5. Closed(out)
  BY <1>4, MessageIsClosed
<1>6. m[at] \in Types /\ (step.element # 0 <=> Descriptors[m[at]][step.field].card = "list")
  BY DEF CanPut, Fits
<1> HIDE DEF there, gone, out
<1>7. SUFFICES ASSUME NEW place \in DOMAIN out, out[place] \in Types,
                      NEW field \in DOMAIN Descriptors[out[place]],
                      Descriptors[out[place]][field].card = "list"
               PROVE  /\ IsFiniteSet(Elements(out, place, field))
                      /\ Elements(out, place, field) = 1..Cardinality(Elements(out, place, field))
  BY DEF ListsAreRuns, out
\* What is in a message that was not there before.
<1>8. CASE place \notin DOMAIN m
  <2>1. place = there
    BY <1>2, <1>8
  <2>2. ASSUME NEW next \in Populated(out, place) PROVE FALSE
    <3>1. next \in DOMAIN out /\ next # <<>> /\ Front(next) = place
          /\ Len(next) = Len(place) + 1 /\ Len(place) \in Nat
      BY <1>5, PopulatedFacts
    <3>2. next \in DOMAIN m
      BY <1>2, <2>1, <3>1
    <3>3. Front(next) \in DOMAIN m
      BY <3>1, <3>2, InsideMessages
    <3> QED
      BY <1>8, <3>1, <3>3
  <2>3. Elements(out, place, field) = {}
    BY <2>2 DEF Elements
  <2> QED
    BY <2>3, FS_EmptySet
<1>9. CASE place \in DOMAIN m
  <2>1. out[place] = m[place]
    BY <1>2, <1>7, <1>9
  <2>2. /\ IsFiniteSet(Elements(m, place, field))
        /\ Elements(m, place, field) = 1..Cardinality(Elements(m, place, field))
    BY <1>7, <1>9, <2>1 DEF ListsAreRuns
  <2>3. ASSUME NEW next, Last(next).field = field
        PROVE  next \in Populated(out, place) <=>
                   \/ next \in Populated(m, place)
                   \/ next = there /\ place = at
    <3>1. ASSUME next \in Populated(out, place), next # there PROVE next \in Populated(m, place)
      BY <1>2, <3>1 DEF Populated
    <3>2. ASSUME next \in Populated(out, place), next = there PROVE place = at
      BY <1>1, <1>5, <3>2, PopulatedFacts
    <3>3. ASSUME next = there, place = at PROVE next \in Populated(out, place)
      <4>1. Upto(there, Len(at)) = at
        BY <1>1, PrefixFacts
      <4> QED
        BY <1>1, <1>2, <3>3, <4>1 DEF Populated
    <3>4. ASSUME next \in Populated(m, place) PROVE next \in Populated(out, place)
      <4>1. /\ next \in DOMAIN m /\ next \in Seq(Steps) /\ next # <<>> /\ Front(next) = place
        BY <1>3, <1>9, <3>4, PopulatedFacts
      <4>2. CASE next = there
        BY <1>1, <3>3, <4>1, <4>2
      <4>3. CASE next # there
        <5>1. ASSUME NEW x \in gone, IsPrefix(x, next) PROVE FALSE
          <6>1. CASE x = next
            BY <1>3, <1>7, <2>1, <2>3, <4>1, <6>1
          <6>2. CASE x # next
            <7>1. IsPrefix(x, place)
              BY <1>3, <4>1, <5>1, <6>2, PrefixOfFront
            <7>2. place = there
              BY <1>2, <1>7, <7>1
            <7>3. x = there
              BY <1>1, <1>3, <7>1, <7>2, PrefixOrder
            <7> QED
              BY <1>3, <7>3
          <6> QED
            BY <6>1, <6>2
        <5>2. next \in DOMAIN out
          BY <1>2, <4>1, <5>1
        <5> QED
          BY <3>4, <5>2 DEF Populated
      <4> QED
        BY <4>2, <4>3
    <3> QED
      BY <3>1, <3>2, <3>3, <3>4
  <2>4. CASE place = at /\ field = step.field
    <3> DEFINE n == Cardinality(Elements(m, at, field))
    <3>1. step.element # 0 /\ there \notin DOMAIN m /\ Last(there).element = n + 1
      BY <1>1, <1>6, <1>7, <2>1, <2>4
    <3>2. ASSUME NEW e
          PROVE  e \in Elements(out, place, field) <=> e \in Elements(m, place, field) \/ e = n + 1
      <4>1. e \in Elements(out, place, field) <=>
                \E next \in Populated(out, place) : Last(next).field = field /\ Last(next).element = e
        BY ElementsFacts
      <4>2. e \in Elements(m, place, field) <=>
                \E next \in Populated(m, place) : Last(next).field = field /\ Last(next).element = e
        BY ElementsFacts
      <4> HIDE DEF n
      <4> QED
        BY <1>1, <2>3, <2>4, <3>1, <4>1, <4>2
    <3>3. n \in Nat
      BY <2>2, <2>4, FS_CardinalityType
    <3>4. Elements(m, place, field) = 1..n
      BY <2>2, <2>4
    <3> HIDE DEF n
    <3>5. Elements(out, place, field) = 1..n + 1
      <4>1. ASSUME NEW e PROVE e \in 1..n + 1 <=> e \in 1..n \/ e = n + 1
        BY <3>3
      <4>2. ASSUME NEW e PROVE e \in Elements(out, place, field) <=> e \in 1..n + 1
        BY <3>2, <3>4, <4>1, Zenon
      <4> QED
        BY <4>2
    <3>6. IsFiniteSet(1..n + 1) /\ Cardinality(1..n + 1) = n + 1
      <4>1. 1 \in Int /\ n + 1 \in Int /\ ~(1 > n + 1) /\ n + 1 - 1 + 1 = n + 1
        BY <3>3
      <4> QED
        BY <4>1, FS_Interval
    <3> QED
      BY <3>5, <3>6
  <2>5. CASE ~(place = at /\ field = step.field)
    <3>1. ASSUME NEW e
          PROVE  e \in Elements(out, place, field) <=> e \in Elements(m, place, field)
      <4>1. e \in Elements(out, place, field) <=>
                \E next \in Populated(out, place) : Last(next).field = field /\ Last(next).element = e
        BY ElementsFacts
      <4>2. e \in Elements(m, place, field) <=>
                \E next \in Populated(m, place) : Last(next).field = field /\ Last(next).element = e
        BY ElementsFacts
      <4> QED
        BY <1>1, <2>3, <2>5, <4>1, <4>2
    <3>2. Elements(out, place, field) = Elements(m, place, field)
      BY <3>1
    <3> QED
      BY <2>2, <3>2
  <2> QED
    BY <2>4, <2>5
<1> QED
  BY <1>8, <1>9

\* What has been read of a pin is the beginning of its wire.
PlacesRead(p, put) ==
    LET n == Cardinality(DOMAIN put) - 1
    IN  /\ IsFiniteSet(DOMAIN put) /\ n \in 0..Len(p.wire)
        /\ DOMAIN put = {<<>>} \cup {p.wire[j] : j \in 1..n}

\* It is in the request, where it was put, in what was put there before it.
LandedAsSaid(p, out, put) ==
    \A q \in DOMAIN put :
        /\ put[q] \in DOMAIN out /\ out[put[q]] = p.message[q]
        /\ Said(put[q]) = Said(q) /\ Len(put[q]) = Len(q)
        /\ q # <<>> => Alike(Last(put[q]), Last(q))
        /\ \A k \in 0..Len(q) : Upto(q, k) \in DOMAIN put /\ put[Upto(q, k)] = Upto(put[q], k)

LandedApart(put) == \A q, r \in DOMAIN put : put[q] = put[r] => q = r

\* A place inside an element of the pin's; and one inside no element.
UnderElement(put, place) ==
    \E r \in DOMAIN put \ {<<>>} : Last(r).element # 0 /\ IsPrefix(put[r], place)

Plain(place) == \A j \in DOMAIN place : place[j].element = 0

\* Only inside an element of the pin's is anything put elsewhere than the pin has it.
LandedPlainly(put) ==
    \A q \in DOMAIN put : (put[q] = q /\ Plain(q)) \/ UnderElement(put, put[q])

\* What the page says is in the request, and not inside the pin's elements, but for
\* what the pin takes the place of.
PageStays(p, m, out, put) ==
    \A place \in DOMAIN m :
        \/ place \in DOMAIN out /\ out[place] = m[place] /\ ~UnderElement(put, place)
        \/ TakenBy(m, place, p.message)

\* A message is put only where there is one of its type.
TypesStay(m, out) ==
    \A place \in DOMAIN m \cap DOMAIN out : m[place] \in Types => out[place] = m[place]

MergeInv(p, m, out, put) ==
    /\ PlacesRead(p, put)
    /\ LandedAsSaid(p, out, put)
    /\ LandedApart(put)
    /\ LandedPlainly(put)
    /\ PageStays(p, m, out, put)
    /\ TypesStay(m, out)

\* One place more is read.
WithPlace(put, w, there) == [q \in DOMAIN put \cup {w} |-> IF q = w THEN there ELSE put[q]]

\* Nothing is read yet.
LEMMA MergeBegins ==
    ASSUME NEW p, IsPin(p), NEW m, IsMessage(m, p.of)
    PROVE  MergeInv(p, m, m, [place \in {<<>>} |-> <<>>])
<1> DEFINE put == [place \in {<<>>} |-> <<>>]
<1>1. DOMAIN put = {<<>>} /\ put[<<>>] = <<>>
  OBVIOUS
<1>2. <<>> \in DOMAIN m /\ <<>> \in DOMAIN p.message /\ m[<<>>] = p.message[<<>>]
  BY DEF IsPin, IsMessage
<1> HIDE DEF put
<1>3. PlacesRead(p, put)
  <2>1. IsFiniteSet({<<>>}) /\ Cardinality({<<>>}) = 1
    BY FS_Singleton
  <2>2. 1 - 1 = 0 /\ 0 \in 0..Len(p.wire) /\ 1..0 = {}
    <3>1. Len(p.wire) \in Nat
      BY DEF IsPin
    <3> QED
      BY <3>1
  <2> QED
    BY <1>1, <2>1, <2>2 DEF PlacesRead
<1>4. LandedAsSaid(p, m, put)
  <2>1. ASSUME NEW k \in 0..Len(<<>>) PROVE Upto(<<>>, k) = <<>>
    <3>1. k = Len(<<>>) /\ <<>> \in Seq(Steps)
      OBVIOUS
    <3> QED
      BY <3>1, UptoOfFront
  <2> QED
    BY <1>1, <1>2, <2>1 DEF LandedAsSaid
<1>5. LandedApart(put)
  BY <1>1 DEF LandedApart
<1>6. LandedPlainly(put)
  BY <1>1 DEF LandedPlainly, Plain
<1>7. PageStays(p, m, m, put) /\ TypesStay(m, m)
  BY <1>1 DEF PageStays, UnderElement, TypesStay
<1> QED
  BY <1>3, <1>4, <1>5, <1>6, <1>7 DEF MergeInv, put

\* The next place of a pin is new, and what it is in was read before it.
LEMMA NextOfPin ==
    ASSUME NEW p, IsPin(p), NEW put, PlacesRead(p, put),
           Cardinality(DOMAIN put) - 1 # Len(p.wire), NEW there
    PROVE  LET w == p.wire[Cardinality(DOMAIN put) - 1 + 1]
           IN  /\ w \in DOMAIN p.message \ {<<>>} /\ w \in Seq(Steps) /\ w \notin DOMAIN put
               /\ Front(w) \in DOMAIN put /\ p.message[Front(w)] \in Types
               /\ Fits(p.message[Front(w)], Last(w), p.message[w]) /\ Last(w) \in Steps
               /\ Declares(p.message[Front(w)], Last(w).field)
               /\ PlacesRead(p, WithPlace(put, w, there))
<1> DEFINE n == Cardinality(DOMAIN put) - 1
           w == p.wire[n + 1]
           more == WithPlace(put, w, there)
           places == DOMAIN p.message
<1>1. /\ IsFiniteSet(DOMAIN put) /\ n \in 0..Len(p.wire) /\ n # Len(p.wire)
      /\ DOMAIN put = {<<>>} \cup {p.wire[j] : j \in 1..n}
      /\ Cardinality(DOMAIN put) \in Nat
  BY FS_CardinalityType DEF PlacesRead
<1>2. /\ IsMessage(p.message, p.of) /\ p.wire \in Seq(places \ {<<>>})
      /\ \A q \in places \ {<<>>} : Declares(p.message[Front(q)], Last(q).field)
      /\ \A q \in places \ {<<>>} : \E i \in DOMAIN p.wire : p.wire[i] = q
      /\ \A i, j \in DOMAIN p.wire :
            /\ p.wire[i] = p.wire[j] => i = j
            /\ p.wire[i] = Front(p.wire[j]) => i < j
  BY DEF IsPin
<1>3. Len(p.wire) \in Nat /\ DOMAIN p.wire = 1..Len(p.wire)
  BY <1>2
<1>4. Cardinality(DOMAIN put) = n + 1
  BY <1>1
<1> HIDE DEF n
<1>5. n \in Nat /\ n + 1 \in 1..Len(p.wire) /\ \A j \in 1..n : j \in 1..Len(p.wire) /\ j # n + 1
  BY <1>1, <1>3
<1>6. w \in places \ {<<>>}
  BY <1>2, <1>5
<1>7. w \notin DOMAIN put
  <2>1. ASSUME NEW j \in 1..n, p.wire[j] = w PROVE FALSE
    BY <1>2, <1>3, <1>5, <2>1
  <2> QED
    BY <1>1, <1>6, <2>1
<1>8. /\ w \in Seq(Steps) /\ Front(w) \in places /\ p.message[Front(w)] \in Types
      /\ Fits(p.message[Front(w)], Last(w), p.message[w])
  BY <1>2, <1>6, InsideMessages
<1>9. Front(w) \in DOMAIN put
  <2>1. CASE Front(w) = <<>>
    BY <1>1, <2>1
  <2>2. CASE Front(w) # <<>>
    <3>1. PICK i \in 1..Len(p.wire) : p.wire[i] = Front(w)
      BY <1>2, <1>3, <1>8, <2>2
    <3>2. i < n + 1
      BY <1>2, <1>3, <1>5, <3>1
    <3>3. i \in 1..n
      BY <1>5, <3>2
    <3> QED
      BY <1>1, <3>1, <3>3
  <2> QED
    BY <2>1, <2>2
<1>10. Last(w) \in Steps
  BY <1>6, <1>8, FrontFacts
<1>11. PlacesRead(p, more)
  <2>1. DOMAIN more = DOMAIN put \cup {w}
    BY DEF WithPlace
  <2>2. /\ IsFiniteSet(DOMAIN put \cup {w})
        /\ Cardinality(DOMAIN put \cup {w}) = Cardinality(DOMAIN put) + 1
    BY <1>1, <1>7, FS_AddElement
  <2>3. Cardinality(DOMAIN more) - 1 = n + 1 /\ n + 1 \in 0..Len(p.wire)
    <3>1. Cardinality(DOMAIN more) = n + 1 + 1
      BY <1>4, <2>1, <2>2
    <3> QED
      BY <1>5, <3>1
  <2>4. {p.wire[j] : j \in 1..n + 1} = {p.wire[j] : j \in 1..n} \cup {p.wire[n + 1]}
    <3>1. ASSUME NEW j PROVE j \in 1..n + 1 <=> j \in 1..n \/ j = n + 1
      BY <1>5
    <3> QED
      BY <3>1
  <2> HIDE DEF more
  <2>5. DOMAIN more = {<<>>} \cup {p.wire[j] : j \in 1..n + 1}
    BY <1>1, <2>1, <2>4
  <2>6. IsFiniteSet(DOMAIN more)
    BY <2>1, <2>2
  <2> QED
    BY <2>3, <2>5, <2>6 DEF PlacesRead
<1> QED
  BY <1>2, <1>6, <1>7, <1>8, <1>9, <1>10, <1>11 DEF n

\* What a place is in was put where the place was.
LEMMA FrontPut ==
    ASSUME NEW p, NEW out, NEW put, LandedAsSaid(p, out, put),
           NEW q \in DOMAIN put, q \in Seq(Steps), q # <<>>, put[q] \in Seq(Steps)
    PROVE  /\ put[q] # <<>> /\ Front(q) \in DOMAIN put /\ put[Front(q)] = Front(put[q])
           /\ Alike(Last(put[q]), Last(q))
<1>1. /\ Len(q) \in Nat \ {0} /\ Len(q) - 1 \in 0..Len(q) /\ Front(q) = Upto(q, Len(q) - 1)
  BY FrontFacts
<1>2. /\ Len(put[q]) = Len(q) /\ Alike(Last(put[q]), Last(q))
      /\ Front(q) \in DOMAIN put /\ put[Front(q)] = Upto(put[q], Len(q) - 1)
  BY <1>1 DEF LandedAsSaid
<1>3. put[q] # <<>>
  BY <1>1, <1>2
<1>4. Front(put[q]) = Upto(put[q], Len(put[q]) - 1)
  BY <1>3, FrontFacts
<1> QED
  BY <1>2, <1>3, <1>4

\* Outside lists, steps to the same field are the same.
LEMMA AlikeSteps ==
    ASSUME NEW s \in Steps, NEW t \in Steps, Alike(s, t), s.element = 0
    PROVE  s = t
  BY DEF Alike, Steps

\* Reading the next place of a pin keeps the invariant, and what it is read into a message.
LEMMA MergeStep ==
    ASSUME NEW p, IsPin(p), NEW m, IsMessage(m, p.of), NEW out, IsMessage(out, p.of),
           ListsAreRuns(out), NEW put, MergeInv(p, m, out, put),
           Cardinality(DOMAIN put) - 1 # Len(p.wire)
    PROVE  LET w == p.wire[Cardinality(DOMAIN put) - 1 + 1]
               at == put[Front(w)]
               there == Landing(out, at, Last(w))
               new == Put(out, at, Last(w), p.message[w])
           IN  /\ IsMessage(new, p.of) /\ ListsAreRuns(new)
               /\ MergeInv(p, m, new, WithPlace(put, w, there))
<1> DEFINE w == p.wire[Cardinality(DOMAIN put) - 1 + 1]
           at == put[Front(w)]
           step == Last(w)
           value == p.message[w]
           there == Landing(out, at, step)
           gone == Displaced(out, at, step)
           new == Put(out, at, step, value)
           more == WithPlace(put, w, there)
<1>1. /\ PlacesRead(p, put) /\ LandedAsSaid(p, out, put) /\ LandedApart(put)
      /\ LandedPlainly(put) /\ PageStays(p, m, out, put) /\ TypesStay(m, out)
  BY DEF MergeInv
<1>2. /\ w \in DOMAIN p.message \ {<<>>} /\ w \in Seq(Steps) /\ w \notin DOMAIN put
      /\ Front(w) \in DOMAIN put /\ p.message[Front(w)] \in Types
      /\ Fits(p.message[Front(w)], step, value) /\ step \in Steps
      /\ Declares(p.message[Front(w)], step.field)
      /\ PlacesRead(p, more)
  BY <1>1, NextOfPin
<1> HIDE DEF w
<1>3. at \in DOMAIN out /\ out[at] = p.message[Front(w)] /\ Said(at) = Said(Front(w))
      /\ Len(at) = Len(Front(w))
  BY <1>1, <1>2 DEF LandedAsSaid
<1>4. CanPut(out, at, step, value)
  BY <1>2, <1>3 DEF CanPut
<1> HIDE DEF at, step, value
<1>5. /\ there \in Seq(Steps) /\ there # <<>> /\ Front(there) = at
      /\ Len(there) = Len(at) + 1 /\ at \in Seq(Steps) /\ IsPrefix(at, there)
      /\ Last(there) \in Steps /\ Alike(Last(there), step)
      /\ step.element = 0 => there = Append(at, step) /\ Last(there) = step
      /\ step.element # 0 => there \notin DOMAIN out
      /\ Len(at) \in Nat
  BY <1>4, LandingFacts
<1>6. /\ \A q : q \in DOMAIN new <=>
                    q = there \/ (q \in DOMAIN out /\ \A next \in gone : ~IsPrefix(next, q))
      /\ new[there] = value
      /\ \A q \in DOMAIN new : q # there => new[q] = out[q]
      /\ there \in DOMAIN out /\ out[there] \in Types => value = out[there]
      /\ there \in DOMAIN out => (out[there] \in Types <=> value \in Types)
      /\ at \in DOMAIN new /\ new[at] = out[at]
  BY <1>4, PutFacts
<1>7. IsMessage(new, p.of) /\ ListsAreRuns(new)
  BY <1>4, PutIsMessage, PutListsAreRuns
<1>8. ASSUME NEW next \in gone
      PROVE  /\ next \in DOMAIN out /\ next \in Seq(Steps) /\ next # <<>>
             /\ Front(next) = at /\ IsPrefix(at, next) /\ Len(next) = Len(at) + 1
             /\ SameOneof(out[at], step.field, Last(next).field)
             /\ Last(next).element = 0
  BY <1>3, DisplacedFacts
<1>9. Closed(out) /\ Closed(m) /\ IsMessage(p.message, p.of)
  BY MessageIsClosed DEF IsPin
<1> HIDE DEF there, gone, new
<1>10. /\ DOMAIN more = DOMAIN put \cup {w} /\ more[w] = there
       /\ \A q \in DOMAIN put : more[q] = put[q]
  BY <1>2 DEF WithPlace
<1> HIDE DEF more
<1>11. ASSUME NEW q \in DOMAIN put
       PROVE  /\ put[q] \in DOMAIN out /\ put[q] \in Seq(Steps) /\ out[put[q]] = p.message[q]
              /\ q \in Seq(Steps) /\ q \in DOMAIN p.message
  <2>1. put[q] \in DOMAIN out /\ out[put[q]] = p.message[q]
    BY <1>1 DEF LandedAsSaid
  <2>2. q \in DOMAIN p.message
    <3> DEFINE n == Cardinality(DOMAIN put) - 1
    <3>1. n \in 0..Len(p.wire) /\ Len(p.wire) \in Nat /\ DOMAIN put = {<<>>} \cup {p.wire[j] : j \in 1..n}
      BY <1>1 DEF PlacesRead, IsPin
    <3>2. p.wire \in Seq(DOMAIN p.message \ {<<>>}) /\ <<>> \in DOMAIN p.message
      BY <1>9 DEF IsPin, IsMessage
    <3> HIDE DEF n
    <3>3. ASSUME NEW j \in 1..n PROVE p.wire[j] \in DOMAIN p.message
      <4>1. j \in 1..Len(p.wire)
        BY <3>1
      <4> QED
        BY <3>2, <4>1
    <3> QED
      BY <3>1, <3>2, <3>3
  <2> QED
    BY <1>9, <2>1, <2>2 DEF Closed, IsMessage
\* Nothing was put there, and nothing that was put makes room.
<1>12. ASSUME NEW q \in DOMAIN put, put[q] = there PROVE FALSE
  <2>1. step.element = 0 /\ Last(there) = step
    BY <1>5, <1>11, <1>12
  <2>2. q # <<>> /\ q \in Seq(Steps)
    <3>1. Len(q) = Len(there)
      BY <1>1, <1>12 DEF LandedAsSaid
    <3> QED
      BY <1>5, <1>11, <3>1
  <2>3. Front(q) \in DOMAIN put /\ put[Front(q)] = at /\ Alike(step, Last(q))
    BY <1>1, <1>5, <1>11, <1>12, <2>1, <2>2, FrontPut
  <2>4. Front(q) = Front(w)
    BY <1>1, <1>2, <2>3 DEF LandedApart, at
  <2>5. Last(q) = Last(w)
    <3>1. Last(q) \in Steps
      BY <2>2, FrontFacts
    <3> QED
      BY <1>2, <2>1, <2>3, <3>1, AlikeSteps DEF step
  <2>6. q = w
    BY <1>2, <2>2, <2>4, <2>5, ByFrontAndLast
  <2> QED
    BY <1>2, <2>6
<1>13. ASSUME NEW q \in DOMAIN put, NEW next \in gone, IsPrefix(next, put[q]) PROVE FALSE
  <2> DEFINE r == Upto(q, Len(next))
  <2>1. /\ q \in Seq(Steps) /\ put[q] \in Seq(Steps) /\ Len(put[q]) = Len(q)
        /\ Len(next) \in Nat \ {0} /\ next \in Seq(Steps)
    BY <1>1, <1>5, <1>8, <1>11 DEF LandedAsSaid
  <2>2. Len(next) \in 0..Len(q) /\ Upto(put[q], Len(next)) = next
    BY <1>13, <2>1, PrefixFacts
  <2>3. r \in DOMAIN put /\ put[r] = next /\ r \in Seq(Steps) /\ Len(r) = Len(next)
    BY <1>1, <2>1, <2>2, UptoFacts DEF LandedAsSaid
  <2> HIDE DEF r
  <2>4. r # <<>>
    BY <2>1, <2>3
  <2>5. Front(r) \in DOMAIN put /\ put[Front(r)] = at /\ Alike(Last(next), Last(r))
    BY <1>1, <1>8, <2>1, <2>3, <2>4, FrontPut
  <2>6. Front(r) = Front(w)
    BY <1>1, <1>2, <2>5 DEF LandedApart, at
  <2>7. r \in DOMAIN p.message \ {<<>>}
    BY <1>11, <2>3, <2>4
  <2>8. ~SameOneof(p.message[Front(w)], step.field, Last(r).field)
    BY <1>2, <2>6, <2>7 DEF IsPin, step
  <2> QED
    BY <1>3, <1>8, <2>5, <2>8 DEF Alike
<1>14. ASSUME NEW q \in DOMAIN put PROVE put[q] \in DOMAIN new /\ new[put[q]] = out[put[q]]
  BY <1>6, <1>11, <1>12, <1>13
<1>15. LandedAsSaid(p, new, more)
  <2>1. ASSUME NEW q \in DOMAIN put
        PROVE  /\ more[q] \in DOMAIN new /\ new[more[q]] = p.message[q]
               /\ Said(more[q]) = Said(q) /\ Len(more[q]) = Len(q)
               /\ q # <<>> => Alike(Last(more[q]), Last(q))
               /\ \A k \in 0..Len(q) : Upto(q, k) \in DOMAIN more /\ more[Upto(q, k)] = Upto(more[q], k)
    BY <1>1, <1>10, <1>14 DEF LandedAsSaid
  <2>2. /\ Len(w) \in Nat \ {0} /\ Front(w) \in Seq(Steps) /\ Len(Front(w)) = Len(w) - 1
    BY <1>2, FrontFacts
  <2>3. Len(there) = Len(w)
    BY <1>3, <1>5, <2>2
  <2>4. Said(there) = Said(w)
    BY <1>2, <1>3, <1>5, <2>3, SaidAlike DEF step
  <2>5. ASSUME NEW k \in 0..Len(w) PROVE Upto(w, k) \in DOMAIN more /\ more[Upto(w, k)] = Upto(there, k)
    <3>1. CASE k = Len(w)
      BY <1>2, <1>5, <1>10, <2>3, <3>1, UptoOfFront
    <3>2. CASE k # Len(w)
      <4>1. k \in 0..Len(w) - 1 /\ k \in 0..Len(Front(w)) /\ k \in 0..Len(there) - 1
        BY <2>2, <2>3, <3>2
      <4>2. Upto(w, k) = Upto(Front(w), k)
        BY <1>2, <4>1, UptoOfFront
      <4>3. Upto(there, k) = Upto(at, k)
        BY <1>5, <4>1, UptoOfFront
      <4>4. Upto(Front(w), k) \in DOMAIN put /\ put[Upto(Front(w), k)] = Upto(at, k)
        BY <1>1, <1>2, <4>1 DEF LandedAsSaid, at
      <4> QED
        BY <1>10, <4>2, <4>3, <4>4
    <3> QED
      BY <3>1, <3>2
  <2>6. more[w] \in DOMAIN new /\ new[more[w]] = p.message[w] /\ Alike(Last(more[w]), Last(w))
    BY <1>5, <1>6, <1>10 DEF value, step
  <2>7. ASSUME NEW q \in DOMAIN more
        PROVE  /\ more[q] \in DOMAIN new /\ new[more[q]] = p.message[q]
               /\ Said(more[q]) = Said(q) /\ Len(more[q]) = Len(q)
               /\ q # <<>> => Alike(Last(more[q]), Last(q))
               /\ \A k \in 0..Len(q) : Upto(q, k) \in DOMAIN more /\ more[Upto(q, k)] = Upto(more[q], k)
    <3>1. CASE q \in DOMAIN put
      BY <2>1, <3>1
    <3>2. CASE q = w
      BY <1>10, <2>3, <2>4, <2>5, <2>6, <3>2
    <3> QED
      BY <1>10, <3>1, <3>2
  <2> QED
    BY <2>7 DEF LandedAsSaid
<1>16. LandedApart(more)
  <2>1. SUFFICES ASSUME NEW q \in DOMAIN more, NEW r \in DOMAIN more, more[q] = more[r]
                 PROVE  q = r
    BY DEF LandedApart
  <2>2. CASE q \in DOMAIN put /\ r \in DOMAIN put
    BY <1>1, <1>10, <2>1, <2>2 DEF LandedApart
  <2>3. CASE q = w \/ r = w
    BY <1>10, <1>12, <2>1, <2>3
  <2> QED
    BY <1>10, <2>1, <2>2, <2>3
<1>17. ASSUME NEW place
       PROVE  UnderElement(more, place) <=>
                  UnderElement(put, place) \/ (step.element # 0 /\ IsPrefix(there, place))
  <2>1. ASSUME NEW r \in DOMAIN more \ {<<>>}, Last(r).element # 0, IsPrefix(more[r], place)
        PROVE  UnderElement(put, place) \/ (step.element # 0 /\ IsPrefix(there, place))
    <3>1. CASE r = w
      BY <1>10, <2>1, <3>1 DEF step
    <3>2. CASE r \in DOMAIN put
      BY <1>10, <2>1, <3>2 DEF UnderElement
    <3> QED
      BY <1>10, <3>1, <3>2
  <2>2. ASSUME NEW r \in DOMAIN put \ {<<>>}, Last(r).element # 0, IsPrefix(put[r], place)
        PROVE  UnderElement(more, place)
    BY <1>10, <2>2 DEF UnderElement
  <2>3. ASSUME step.element # 0, IsPrefix(there, place) PROVE UnderElement(more, place)
    BY <1>2, <1>10, <2>3 DEF UnderElement, step
  <2> QED
    BY <2>1, <2>2, <2>3 DEF UnderElement
<1>18. ASSUME NEW a \in Seq(Steps), NEW b \in Seq(Steps), IsPrefix(a, b), UnderElement(put, a)
       PROVE  UnderElement(put, b)
  <2>1. PICK r \in DOMAIN put \ {<<>>} : Last(r).element # 0 /\ IsPrefix(put[r], a)
    BY <1>18 DEF UnderElement
  <2>2. IsPrefix(put[r], b)
    BY <1>11, <1>18, <2>1, PrefixOrder
  <2> QED
    BY <2>1, <2>2 DEF UnderElement
\* Either what is put is inside an element of the pin's, or where the pin has it.
<1>19. ~UnderElement(put, at) => at = Front(w) /\ Plain(at)
  BY <1>1, <1>2 DEF LandedPlainly, at
<1>20. ASSUME ~UnderElement(put, at), step.element = 0 PROVE there = w /\ Plain(w)
  <2>1. there = w
    BY <1>2, <1>5, <1>19, <1>20, ByFrontAndLast DEF step
  <2>2. /\ Len(w) \in Nat \ {0} /\ Last(w) = w[Len(w)] /\ Len(Front(w)) = Len(w) - 1
        /\ \A i \in 1..Len(w) - 1 : Front(w)[i] = w[i]
    BY <1>2, FrontFacts
  <2>3. \A i \in 1..Len(w) - 1 : Front(w)[i].element = 0
    BY <1>5, <1>19, <1>20, <2>2 DEF Plain
  <2>4. ASSUME NEW i \in 1..Len(w) PROVE w[i].element = 0
    <3>1. i \in 1..Len(w) - 1 \/ i = Len(w)
      BY <2>2
    <3> QED
      BY <1>20, <2>2, <2>3, <3>1 DEF step
  <2> QED
    BY <1>2, <2>1, <2>4 DEF Plain
<1>21. LandedPlainly(more)
  <2>1. ASSUME NEW q \in DOMAIN put
        PROVE  (more[q] = q /\ Plain(q)) \/ UnderElement(more, more[q])
    BY <1>1, <1>10, <1>17 DEF LandedPlainly
  <2>2. (there = w /\ Plain(w)) \/ UnderElement(more, there)
    <3>1. CASE step.element # 0
      BY <1>5, <1>17, <3>1, PrefixOrder
    <3>2. CASE step.element = 0 /\ UnderElement(put, at)
      BY <1>5, <1>17, <1>18, <3>2
    <3> QED
      BY <1>20, <3>1, <3>2
  <2> QED
    BY <1>10, <2>1, <2>2 DEF LandedPlainly
<1>22. TypesStay(m, new)
  <2>1. SUFFICES ASSUME NEW place \in DOMAIN m \cap DOMAIN new, m[place] \in Types
                 PROVE  new[place] = m[place]
    BY DEF TypesStay
  <2>2. CASE place # there
    BY <1>1, <1>6, <2>1, <2>2 DEF TypesStay
  <2>3. CASE place = there
    <3>1. /\ at \in DOMAIN m /\ m[at] \in Types /\ Fits(m[at], Last(there), m[there])
          /\ Declares(m[at], Last(there).field)
      BY <1>5, <2>1, <2>3, InsideMessages DEF DeclaredIn
    <3>2. out[at] = m[at]
      BY <1>1, <1>3, <3>1 DEF TypesStay
    <3>3. Fits(m[at], Last(there), value)
      BY <1>4, <1>5, <3>2, FitsAlike DEF CanPut
    <3>4. value = m[there]
      BY <2>1, <2>3, <3>1, <3>3 DEF Fits
    <3> QED
      BY <1>6, <2>3, <3>4
  <2> QED
    BY <2>2, <2>3
<1>23. PageStays(p, m, new, more)
  <2>1. SUFFICES ASSUME NEW place \in DOMAIN m, ~TakenBy(m, place, p.message)
                 PROVE  place \in DOMAIN new /\ new[place] = m[place] /\ ~UnderElement(more, place)
    BY DEF PageStays
  <2>2. place \in DOMAIN out /\ out[place] = m[place] /\ ~UnderElement(put, place)
    BY <1>1, <2>1 DEF PageStays
  <2>3. place \in Seq(Steps) /\ Len(place) \in Nat
    BY <1>9 DEF Closed
  <2>4. ASSUME IsPrefix(at, place) PROVE ~UnderElement(put, at)
    BY <1>5, <1>18, <2>2, <2>3, <2>4
  <2>5. place # there
    <3>1. SUFFICES ASSUME place = there PROVE FALSE
      OBVIOUS
    <3>2. step.element = 0 /\ ~UnderElement(put, at)
      BY <1>5, <2>2, <2>4, <3>1
    <3>3. there = w /\ Plain(w)
      BY <1>20, <3>2
    <3> QED
      BY <1>2, <2>1, <3>1, <3>3 DEF TakenBy, Plain
  <2>6. ASSUME NEW next \in gone, IsPrefix(next, place) PROVE FALSE
    <3> DEFINE i == Len(at) + 1
    <3>1. IsPrefix(at, place)
      BY <1>5, <1>8, <2>3, <2>6, PrefixOrder
    <3>2. at = Front(w) /\ Plain(at)
      BY <1>19, <2>4, <3>1
    <3>3. i \in 1..Len(place) /\ i - 1 = Len(at) /\ i = Len(next)
      <4>1. Len(next) <= Len(place)
        BY <1>8, <2>3, <2>6, PrefixOrder
      <4> QED
        BY <1>5, <1>8, <2>3, <4>1
    <3>4. Upto(place, i - 1) = at /\ \A j \in 1..Len(at) : at[j] = place[j]
      BY <1>5, <2>3, <3>1, <3>3, PrefixFacts
    <3>5. place[i] = Last(next)
      <4>1. \A j \in 1..Len(next) : next[j] = place[j]
        BY <1>8, <2>3, <2>6, PrefixFacts
      <4>2. next \in Seq(Steps) /\ next # <<>>
        BY <1>8
      <4>3. Last(next) = next[Len(next)] /\ Len(next) \in Nat \ {0}
        BY <4>2, FrontFacts
      <4>4. Len(next) \in 1..Len(next)
        BY <4>3
      <4> QED
        BY <3>3, <4>1, <4>3, <4>4
    <3>6. Len(w) = i
      <4>1. Len(w) \in Nat \ {0} /\ Len(Front(w)) = Len(w) - 1
        BY <1>2, FrontFacts
      <4> QED
        BY <1>3, <1>5, <4>1
    <3>7. \A j \in 1..i : place[j].element = 0
      <4>1. ASSUME NEW j \in 1..i PROVE place[j].element = 0
        <5>1. CASE j = i
          BY <1>8, <3>5, <5>1
        <5>2. CASE j # i
          <6>1. j \in 1..Len(at) /\ DOMAIN at = 1..Len(at)
            BY <1>5, <5>2
          <6> QED
            BY <3>2, <3>4, <6>1 DEF Plain
        <5> QED
          BY <5>1, <5>2
      <4> QED
        BY <4>1
    <3>8. m[at] = out[at]
      <4>1. at \in DOMAIN m
        <5>1. i - 1 \in 0..Len(place)
          BY <1>5, <3>3
        <5> QED
          BY <1>9, <3>4, <5>1 DEF Closed
      <4>2. at # place
        BY <1>5, <3>3
      <4>3. m[at] \in Types
        BY <3>1, <4>1, <4>2, OnTheWayIsMessage
      <4> QED
        BY <1>1, <1>3, <4>1, <4>3 DEF TypesStay
    <3>9. SameOneof(m[Upto(place, i - 1)], Last(w).field, place[i].field)
      BY <1>8, <3>4, <3>5, <3>8 DEF step
    <3>10. Front(w) = Upto(place, i - 1) /\ i \in DOMAIN place
      BY <2>3, <3>2, <3>3, <3>4
    <3> HIDE DEF i
    <3> QED
      BY <1>2, <2>1, <3>6, <3>7, <3>9, <3>10 DEF TakenBy
  <2>7. place \in DOMAIN new /\ new[place] = m[place]
    BY <1>6, <2>2, <2>5, <2>6
  <2>8. ASSUME step.element # 0, IsPrefix(there, place) PROVE FALSE
    <3>1. Len(there) \in 0..Len(place) /\ Upto(place, Len(there)) = there
      BY <1>5, <2>3, <2>8, PrefixFacts
    <3> QED
      BY <1>5, <1>9, <2>2, <2>8, <3>1 DEF Closed
  <2> QED
    BY <1>17, <2>2, <2>7, <2>8
<1>24. MergeInv(p, m, new, more)
  BY <1>2, <1>15, <1>16, <1>21, <1>22, <1>23 DEF MergeInv
<1> QED
  BY <1>7, <1>24 DEF w, at, step, value, there, new, more

----------------------------------------------------------------------------
(* The relayed method.                                                     *)

\* What is declared once, and stands when it is served.
DeclaredInv ==
    /\ stage \in {"declaring", "rendering", "relaying", "refused"}
    /\ rendering \in {"on", "done", "panicked"}
    /\ response \subseteq Masks /\ whole \in {"no", "yes"} /\ pin \subseteq Pins
    /\ \A a, b \in response : a = b
    /\ \A a, b \in pin : a = b
    /\ \A mask \in response : IsMask(mask)
    /\ stage \in {"rendering", "relaying"} => MessagesStand
    /\ stage # "relaying" => behavior = {}
    /\ \A paths \in behavior : \E mask \in response : paths = PathsOf(mask.paths)

\* The request, as far as the pin is read into it.
RequestInv ==
    /\ sent \subseteq Requests
    /\ stage # "relaying" => sent = {} /\ called = {}
    /\ \A out \in called : IsMessage(out, Input) /\ ListsAreRuns(out)
    /\ \A p \in pin, m \in sent, out \in called : MergeInv(p, m, out, landed)

\* The answer, as far as it is pruned.
AnswerInv ==
    /\ answered \subseteq Answers
    /\ stage # "relaying" => answered = {} /\ returned = {} /\ visits = {}
    /\ answered = {} => returned = {} /\ visits = {}
    /\ whole = "yes" => visits = {} /\ \A m \in answered, out \in returned : out = m
    /\ \A mask \in response, m \in answered, out \in returned : PruneInv(mask, m, out, visits)

RelayInv == DeclaredInv /\ RequestInv /\ AnswerInv

\* Nothing is declared yet.
LEMMA RelayInit == Init => RelayInv
  BY DEF Init, DescribingInit, RelayInv, DeclaredInv, RequestInv, AnswerInv

\* What is declared.
LEMMA DeclaringStep ==
    ASSUME RelayInv,
           (\E mask \in Masks : DeclareResponse(mask)) \/ DeclareWhole
               \/ (\E p \in Pins : DeclarePin(p)) \/ ResolvePassthrough
    PROVE  RelayInv'
<1>1. DeclaredInv /\ RequestInv /\ AnswerInv
  BY DEF RelayInv
<1>2. stage = "declaring" /\ behavior = {}
  BY <1>1 DEF DeclareResponse, DeclareWhole, DeclarePin, ResolvePassthrough, DeclaredInv
<1>3. /\ sent = {} /\ called = {} /\ answered = {} /\ returned = {} /\ visits = {}
      /\ UNCHANGED <<describing, behavior, call>>
  BY <1>1, <1>2 DEF DeclareResponse, DeclareWhole, DeclarePin, ResolvePassthrough, RequestInv, AnswerInv
<1>4. RequestInv' /\ AnswerInv'
  BY <1>3 DEF RequestInv, AnswerInv, call, request, answer
<1>5. UNCHANGED <<rendering, behavior>>
  BY <1>3 DEF describing
<1> SUFFICES DeclaredInv'
  BY <1>4 DEF RelayInv
<1>6. CASE \E mask \in Masks : DeclareResponse(mask)
  <2>1. PICK mask \in Masks : DeclareResponse(mask)
    BY <1>6
  <2>2. mask.paths \subseteq Seq(STRING)
    BY MessagesAssumption
  <2>3. /\ stage' \in {"declaring", "refused"} /\ UNCHANGED <<whole, pin>>
        /\ \/ response' = {mask} /\ \A path \in mask.paths : Resolves(mask.over, path)
           \/ response' = {}
    BY <1>2, <2>1 DEF DeclareResponse
  <2> QED
    BY <1>1, <1>2, <1>5, <2>2, <2>3 DEF DeclaredInv, IsMask
<1>7. CASE DeclareWhole
  BY <1>1, <1>2, <1>5, <1>7 DEF DeclaredInv, DeclareWhole
<1>8. CASE \E p \in Pins : DeclarePin(p)
  BY <1>1, <1>2, <1>5, <1>8 DEF DeclaredInv, DeclarePin
<1>9. CASE ResolvePassthrough
  <2>1. UNCHANGED <<response, whole, pin>> /\ stage' \in {"rendering", "refused"}
        /\ (stage' = "rendering" => MessagesStand)
    BY <1>9 DEF ResolvePassthrough, method
  <2>2. stage' = "rendering" => MessagesStand'
    BY <2>1 DEF MessagesStand
  <2> QED
    BY <1>1, <1>2, <1>5, <2>1, <2>2 DEF DeclaredInv
<1> QED
  BY <1>6, <1>7, <1>8, <1>9

\* What says what is returned.
LEMMA DocumentingStep ==
    ASSUME RelayInv,
           (stage = "rendering" /\ Describe /\ UNCHANGED <<stage, method, behavior, call>>)
               \/ Document
    PROVE  RelayInv'
<1>1. DeclaredInv /\ RequestInv /\ AnswerInv
  BY DEF RelayInv
<1>2. /\ stage = "rendering" /\ behavior = {} /\ UNCHANGED <<response, whole, pin, call>>
      /\ stage' \in {"rendering", "relaying"}
  BY <1>1 DEF Document, DeclaredInv, method
<1>3. sent = {} /\ called = {} /\ answered = {} /\ returned = {} /\ visits = {}
  BY <1>1, <1>2 DEF RequestInv, AnswerInv
<1>4. RequestInv' /\ AnswerInv'
  BY <1>2, <1>3 DEF RequestInv, AnswerInv, call, request, answer
<1>5. MessagesStand'
  BY <1>1, <1>2 DEF DeclaredInv, MessagesStand
<1>6. rendering' \in {"on", "done", "panicked"}
  BY <1>1 DEF Document, Describe, DescribeValue, DescribeMember, CloseShape, Rendered, Meet,
              DeclaredInv, describing
<1>7. /\ stage' # "relaying" => behavior' = {}
      /\ \A paths \in behavior' : \E mask \in response : paths = PathsOf(mask.paths)
  BY <1>2 DEF Document
<1>8. DeclaredInv'
  BY <1>1, <1>2, <1>5, <1>6, <1>7 DEF DeclaredInv
<1> QED
  BY <1>4, <1>8 DEF RelayInv

\* The request, sent and read into.
LEMMA RequestStep ==
    ASSUME RelayInv,
           (\E m \in Requests : Send(m)) \/ (\E p \in pin, m \in called : ApplyPin(p, m))
    PROVE  RelayInv'
<1>1. DeclaredInv /\ RequestInv /\ AnswerInv
  BY DEF RelayInv
<1>2. /\ stage = "relaying" /\ UNCHANGED <<describing, stage, method, behavior, answer>>
  BY DEF Send, ApplyPin
<1>3. DeclaredInv' /\ AnswerInv'
  <2>1. UNCHANGED <<stage, rendering, response, whole, pin, behavior, answered, returned, visits>>
    BY <1>2 DEF describing, method, answer
  <2> QED
    BY <1>1, <2>1 DEF DeclaredInv, AnswerInv, MessagesStand
<1>4. pin' = pin /\ stage' = stage
  BY <1>2 DEF method
<1>5. ASSUME NEW p \in pin PROVE IsPin(p) /\ p.of = Input
  <2>1. p \in Pins /\ MessagesStand
    BY <1>1, <1>2 DEF DeclaredInv
  <2> QED
    BY <2>1, MessagesAssumption DEF MessagesStand
<1>6. CASE \E m \in Requests : Send(m)
  <2>1. PICK m \in Requests : Send(m)
    BY <1>6
  <2>2. /\ sent' = {m} /\ called' = {m} /\ landed' = [place \in {<<>>} |-> <<>>]
        /\ IsMessage(m, Input) /\ ListsAreRuns(m)
    BY <2>1, MessagesAssumption DEF Send
  <2>3. \A p \in pin : MergeInv(p, m, m, [place \in {<<>>} |-> <<>>])
    BY <1>5, <2>2, MergeBegins
  <2>4. RequestInv'
    BY <1>2, <1>4, <2>1, <2>2, <2>3 DEF RequestInv
  <2> QED
    BY <1>3, <2>4 DEF RelayInv
<1>7. CASE \E p \in pin, m \in called : ApplyPin(p, m)
  <2>1. PICK p \in pin, out \in called : ApplyPin(p, out)
    BY <1>7
  <2> DEFINE w == p.wire[Cardinality(DOMAIN landed) - 1 + 1]
             at == landed[Front(w)]
             new == Put(out, at, Last(w), p.message[w])
             more == WithPlace(landed, w, Landing(out, at, Last(w)))
  <2>2. called' = {new} /\ landed' = more /\ sent' = sent
    BY <2>1 DEF ApplyPin, Read, WithPlace
  <2>3. Cardinality(DOMAIN landed) - 1 # Len(p.wire) /\ \A q \in pin : q = p
    <3>1. \A q \in pin : q = p
      BY <1>1 DEF DeclaredInv
    <3> QED
      BY <2>1, <3>1 DEF ApplyPin, Pinned, Read
  <2>4. IsMessage(out, p.of) /\ ListsAreRuns(out) /\ IsPin(p) /\ p.of = Input
    BY <1>1, <1>5 DEF RequestInv
  <2>5. ASSUME NEW m \in sent
        PROVE  IsMessage(new, Input) /\ ListsAreRuns(new) /\ MergeInv(p, m, new, more)
    <3>1. IsMessage(m, p.of) /\ MergeInv(p, m, out, landed)
      BY <1>1, <2>4, MessagesAssumption DEF RequestInv
    <3> QED
      BY <2>3, <2>4, <3>1, MergeStep
  <2>6. sent # {}
    BY <2>1 DEF ApplyPin
  <2> HIDE DEF new, more
  <2>7. RequestInv'
    BY <1>1, <1>2, <1>4, <2>2, <2>3, <2>5, <2>6 DEF RequestInv
  <2> QED
    BY <1>3, <2>7 DEF RelayInv
<1> QED
  BY <1>6, <1>7

\* The answer, returned and pruned: nothing panics.
LEMMA AnswerStep ==
    ASSUME RelayInv,
           (\E m \in Answers : Return(m))
               \/ (\E place \in visits, mask \in response, m \in returned : Prune(place, mask, m))
    PROVE  RelayInv'
<1>1. DeclaredInv /\ RequestInv /\ AnswerInv
  BY DEF RelayInv
<1>2. /\ stage = "relaying" /\ UNCHANGED <<describing, method, behavior, request>>
  BY DEF Return, Prune
<1>3. UNCHANGED <<rendering, response, whole, pin, behavior, sent, called, landed>>
  BY <1>2 DEF describing, method, request
<1>4. /\ \A a, b \in response : a = b
      /\ \A mask \in response : IsMask(mask) /\ mask.over = Output
      /\ response = {} <=> whole = "yes"
  BY <1>1, <1>2 DEF DeclaredInv, MessagesStand
<1>5. SUFFICES stage' = "relaying" /\ AnswerInv'
  <2>1. ASSUME stage' = "relaying" PROVE DeclaredInv' /\ RequestInv'
    BY <1>1, <1>2, <1>3, <2>1 DEF DeclaredInv, RequestInv, MessagesStand
  <2> QED
    BY <2>1 DEF RelayInv
<1>6. CASE \E m \in Answers : Return(m)
  <2>1. PICK m \in Answers : Return(m)
    BY <1>6
  <2>2. answered' = {m} /\ returned' = {m} /\ IsMessage(m, Output) /\ m[<<>>] = Output
    BY <2>1, MessagesAssumption DEF Return, IsMessage
  <2>3. CASE whole = "yes"
    <3>1. visits' = {} /\ stage' = stage
      BY <2>1, <2>3 DEF Return
    <3> QED
      BY <1>2, <1>3, <1>4, <2>2, <2>3, <3>1 DEF AnswerInv
  <2>4. CASE whole # "yes"
    <3>1. \E mask \in response : m[<<>>] = mask.over
      BY <1>4, <2>2, <2>4
    <3>2. visits' = {<<>>} /\ stage' = stage
      BY <2>1, <2>4, <3>1 DEF Return
    <3>3. \A mask \in response : PruneInv(mask, m, m, {<<>>})
      BY <1>4, <2>2, PruneBegins
    <3> QED
      BY <1>2, <1>3, <2>2, <2>4, <3>2, <3>3 DEF AnswerInv
  <2> QED
    BY <2>3, <2>4
<1>7. CASE \E place \in visits, mask \in response, m \in returned : Prune(place, mask, m)
  <2>1. PICK place \in visits, mask \in response, out \in returned : Prune(place, mask, out)
    BY <1>7
  <2> DEFINE deeper == Deeper(mask.paths, out, place)
             rest == Cleared(out, Disallowed(mask.paths, out, place))
  <2>2. /\ visits' = (visits \ {place}) \cup deeper /\ returned' = {rest} /\ answered' = answered
        /\ (\A next \in deeper : out[next] \in Types) => stage' = stage
    BY <2>1 DEF Prune
  <2>3. answered # {} /\ answered \subseteq Answers /\ whole # "yes"
    BY <1>1, <1>4 DEF AnswerInv
  <2>4. ASSUME NEW m \in answered
        PROVE  /\ \A next \in deeper : out[next] \in Types
               /\ PruneInv(mask, m, rest, (visits \ {place}) \cup deeper)
    <3>1. IsMessage(m, mask.over) /\ IsMask(mask) /\ PruneInv(mask, m, out, visits)
      BY <1>1, <1>4, <2>3, MessagesAssumption DEF AnswerInv
    <3> QED
      BY <3>1, PruneStep
  <2> HIDE DEF deeper, rest
  <2>5. stage' = stage
    BY <2>2, <2>3, <2>4
  <2> QED
    BY <1>2, <1>3, <1>4, <2>2, <2>3, <2>4, <2>5 DEF AnswerInv
<1> QED
  BY <1>6, <1>7

\* Every step keeps what is declared, the request and the answer as they should be.
LEMMA RelayStep == RelayInv /\ [Next]_vars => RelayInv'
<1> SUFFICES ASSUME RelayInv, [Next]_vars PROVE RelayInv'
  OBVIOUS
<1>1. DeclaredInv /\ RequestInv /\ AnswerInv
  BY DEF RelayInv
<1>2. CASE UNCHANGED vars
  BY <1>1, <1>2 DEF RelayInv, DeclaredInv, RequestInv, AnswerInv, MessagesStand, vars, describing,
                    method, call, request, answer
<1>3. CASE End
  <2>1. /\ stage = "relaying" /\ visits = {}
        /\ sent' = {} /\ called' = {} /\ answered' = {} /\ returned' = {}
        /\ UNCHANGED <<rendering, stage, response, whole, pin, behavior, visits>>
    BY <1>3 DEF End, describing, method
  <2> QED
    BY <1>1, <2>1 DEF RelayInv, DeclaredInv, RequestInv, AnswerInv, MessagesStand
<1>4. CASE Over
  BY <1>2, <1>4 DEF Over
<1> QED
  BY <1>2, <1>3, <1>4, DeclaringStep, DocumentingStep, RequestStep, AnswerStep DEF Next

\* The invariant of a relayed method's declaration, document, requests and answers.
THEOREM RelayingInvariant == Spec => []RelayInv
<1>1. Init => RelayInv
  BY RelayInit
<1>2. RelayInv /\ [Next]_vars => RelayInv'
  BY RelayStep
<1> QED
  BY <1>1, <1>2, PTL DEF Spec

\* TypeOK, whatever is pinned: the pin makes a message of its type of the request, and
\* a method that is served says once what it returns (resolvePassthrough, applyPin).
THEOREM MessagesKeepTheirTypes == Spec => []TypeOK
<1>1. RelayInv => TypeOK
  BY DEF RelayInv, DeclaredInv, RequestInv, AnswerInv, MessagesStand, TypeOK
<1> QED
  BY <1>1, RelayingInvariant, PTL

\* ReturnedIsAllowed: no mask that was declared fails over its message, and of what
\* its descriptor declares the page receives what the mask's paths allow, at any depth
\* (NewFieldMask, prune).
THEOREM OnlyTheAllowedReturns == Spec => []ReturnedIsAllowed
<1>1. RelayInv => ReturnedIsAllowed
  <2> SUFFICES ASSUME RelayInv PROVE ReturnedIsAllowed
    OBVIOUS
  <2>1. DeclaredInv /\ AnswerInv
    BY DEF RelayInv
  <2>2. stage # "panicked"
    BY <2>1 DEF DeclaredInv
  <2>3. ASSUME visits = {}, NEW m \in answered, NEW out \in returned
        PROVE  /\ PartOf(out, m)
               /\ \A place \in DOMAIN m \ {<<>>} : DeclaredIn(m, place) =>
                     (place \in DOMAIN out <=>
                         whole = "yes" \/ \E mask \in response : Within(place, mask.paths))
    <3>1. response = {} <=> whole = "yes"
      BY <2>1 DEF AnswerInv, DeclaredInv, MessagesStand
    <3>2. CASE whole = "yes"
      <4>1. out = m
        BY <2>1, <3>2 DEF AnswerInv
      <4> QED
        BY <3>2, <4>1 DEF PartOf
    <3>3. CASE whole # "yes"
      <4>1. PICK mask \in response : \A other \in response : other = mask
        BY <2>1, <3>1, <3>3 DEF DeclaredInv
      <4>2. PruneInv(mask, m, out, {})
        BY <2>1, <2>3 DEF AnswerInv
      <4>3. PartOf(out, m)
        BY <4>2 DEF PruneInv
      <4>4. ASSUME NEW place \in DOMAIN m \ {<<>>}, DeclaredIn(m, place)
            PROVE  place \in DOMAIN out <=> Within(place, mask.paths)
        BY <4>2, <4>4 DEF PruneInv, AllowedIsKept, RestIsVisited
      <4> QED
        BY <3>3, <4>1, <4>3, <4>4
    <3> QED
      BY <3>2, <3>3
  <2> QED
    BY <2>2, <2>3 DEF ReturnedIsAllowed, PartOf, DeclaredIn
<1> QED
  BY <1>1, RelayingInvariant, PTL

\* DocumentedIsReturned: the paths the document names allow what the mask allows, and
\* none of them repeats another (FieldMask.paths and PassthroughOperations).
THEOREM DocumentSaysWhatReturns == Spec => []DocumentedIsReturned
<1>1. RelayInv => DocumentedIsReturned
  <2> SUFFICES ASSUME RelayInv, NEW paths \in behavior, NEW mask \in response
               PROVE  /\ \A m \in Answers : \A place \in DOMAIN m :
                            Within(place, paths) <=> Within(place, mask.paths)
                      /\ \A p, q \in paths : IsPrefix(p, q) => p = q
    BY DEF DocumentedIsReturned
  <2>1. paths = PathsOf(mask.paths) /\ mask.paths \in SUBSET Seq(STRING)
    BY DEF RelayInv, DeclaredInv, IsMask
  <2>2. ASSUME NEW m \in Answers, NEW place \in DOMAIN m
        PROVE  Within(place, paths) <=> Within(place, mask.paths)
    <3>1. place \in Seq(Steps)
      BY MessagesAssumption DEF IsMessage
    <3> QED
      BY <2>1, <3>1, PathsSayTheSame
  <2>3. \A p, q \in paths : IsPrefix(p, q) => p = q
    BY <2>1, PathsAreApart
  <2> QED
    BY <2>2, <2>3
<1> QED
  BY <1>1, RelayingInvariant, PTL

\* PinStands: all the pin says reaches the module, and of what the page says only
\* what the pin takes the place of does not (applyPin).
THEOREM PinAlwaysStands == Spec => []PinStands
<1>1. RelayInv => PinStands
  <2> SUFFICES ASSUME RelayInv, Pinned, NEW m \in sent, NEW out \in called, NEW p \in pin
               PROVE  /\ \A q \in DOMAIN p.message :
                            \E place \in DOMAIN out :
                                Said(place) = Said(q) /\ out[place] = p.message[q]
                      /\ \A place \in DOMAIN m :
                            (place \in DOMAIN out /\ out[place] = m[place])
                                \/ TakenBy(m, place, p.message)
    BY DEF PinStands
  <2>1. /\ PlacesRead(p, landed) /\ LandedAsSaid(p, out, landed) /\ PageStays(p, m, out, landed)
        /\ IsPin(p)
    BY MessagesAssumption DEF RelayInv, DeclaredInv, RequestInv, MergeInv
  <2>2. DOMAIN landed = {<<>>} \cup {p.wire[j] : j \in 1..Len(p.wire)}
    BY <2>1 DEF PlacesRead, Pinned, Read
  <2>3. ASSUME NEW q \in DOMAIN p.message PROVE q \in DOMAIN landed
    <3>1. q # <<>> => \E i \in DOMAIN p.wire : p.wire[i] = q
      BY <2>1 DEF IsPin
    <3>2. DOMAIN p.wire = 1..Len(p.wire)
      BY <2>1 DEF IsPin
    <3> QED
      BY <2>2, <3>1, <3>2
  <2>4. ASSUME NEW q \in DOMAIN p.message
        PROVE  \E place \in DOMAIN out : Said(place) = Said(q) /\ out[place] = p.message[q]
    BY <2>1, <2>3 DEF LandedAsSaid
  <2> QED
    BY <2>1, <2>4 DEF PageStays
<1> QED
  BY <1>1, RelayingInvariant, PTL

\* What is relayed describes its messages as any document does: Messages implements
\* Definitions (PassthroughOperations has the schemas described).
THEOREM MessagesDescribe == Spec => Describes
<1>1. Init => DescribingInit
  BY DEF Init
<1>2. [Next]_vars => [Describe]_describing
  BY DEF Next, vars, DeclareResponse, DeclareWhole, DeclarePin, ResolvePassthrough, Document,
         Send, ApplyPin, Return, Prune, End, Over
<1> QED
  BY <1>1, <1>2, PTL DEF Spec, Describes

\* ReferencesResolve and ShapesEndInReferences, of the document a relayed method is in
\* (valueSchema and messageSchema).
THEOREM RelayedDocumentIsClosed == Spec => [](ReferencesResolve /\ ShapesEndInReferences)
  BY MessagesDescribe, ReferencesAlwaysResolve, SelfReferencesEnd, PTL
=============================================================================
