--------------------------- MODULE IssueOnceProofs ---------------------------
(***************************************************************************)
(* The cache of WorkContextCache implements the promise of IssueOnce, for  *)
(* any number of calls and asks: every step of resolve is one step of the  *)
(* promise, or none of it.  The locked sections are the steps; the issue,  *)
(* the clock and a caller's cancellation are invisible.                    *)
(***************************************************************************)
EXTENDS WorkContextCacheProofs

----------------------------------------------------------------------------
(* The promise's state, as the cache has it.                               *)

\* The calls whose issue, their own or another's, is still out.
Waits == {c \in Calls : joined[c] # None /\ pc[joined[c]] \in Leading}

\* The outcome a call that led or waited has coming.
Due == [c \in Calls |-> IF joined[c] # None /\ pc[joined[c]] \notin Leading
                        THEN outcome[joined[c]] ELSE None]

Given == [c \in Calls |-> IF pc[c] \in Finished THEN returned[c] ELSE None]

Flying == {k \in Keys : minting[k] # None}

KeptAsks == [k \in Keys |-> IF refused[k] # Nil THEN Failed(refused[k])
                            ELSE IF minted[k] # None THEN Issued(minted[k]) ELSE None]

\* A call that has not begun names no ask.
NewCallsAskNothing == \A c \in Calls : pc[c] = "new" => ask[c] = None

\* A call begins once, and names its ask then.
LEMMA NewCallsAskNothingHolds == Spec => []NewCallsAskNothing
<1>1. Init => NewCallsAskNothing
  BY DEF Init, NewCallsAskNothing
<1>2. IInv /\ NewCallsAskNothing /\ [Next]_vars => NewCallsAskNothing'
  <2> SUFFICES ASSUME IInv, NewCallsAskNothing, [Next]_vars PROVE NewCallsAskNothing'
    OBVIOUS
  <2> USE DEF NewCallsAskNothing, IInv, TypeOK
  <2>1. ASSUME NEW c \in Calls, NEW k \in Keys, Resolve(c, k) PROVE NewCallsAskNothing'
    BY <2>1 DEF Resolve, Goto
  <2>2. ASSUME NEW c \in Calls, Step(c) PROVE NewCallsAskNothing'
    BY <2>2 DEF Step, ReturnRefused, ReturnCached, Follow, Lead, IssueAnswered,
      IssueRefused, IssueUnasked, Remember, Settle, Close, Wake, GiveUp, Return, Goto
  <2>3. ASSUME NEW c \in Calls, Name(c) \/ Cancel(c) PROVE NewCallsAskNothing'
    BY <2>3 DEF Name, Cancel, Goto
  <2>4. CASE Tick \/ Done \/ UNCHANGED vars
    BY <2>4 DEF Tick, Done, vars
  <2> QED BY <2>1, <2>2, <2>3, <2>4 DEF Next
<1> QED BY <1>1, <1>2, Invariance, PTL DEF Spec

\* A call that leads nothing is joined by no call.
LEMMA LeadersAreJoined ==
    ASSUME IInv, NEW c \in Calls, joined[c] # c
    PROVE  \A d \in Calls : joined[d] # c
BY NoneAssumption DEF IInv, JoinedIsLed

\* What a leader's pendingMint comes to is of interest only once it has settled.
LEMMA JoinedUndisturbed ==
    ASSUME TypeOK, UNCHANGED joined,
           \A d \in Calls : joined[d] # None =>
              /\ pc'[joined[d]] \in Leading <=> pc[joined[d]] \in Leading
              /\ pc[joined[d]] \notin Leading => outcome'[joined[d]] = outcome[joined[d]]
    PROVE  Waits' = Waits /\ Due' = Due
BY DEF Waits, Due

----------------------------------------------------------------------------
(* The steps.                                                              *)

\* A call that begins asks.
LEMMA ResolveAsks ==
    ASSUME IInv, NewCallsAskNothing, NEW c \in Calls, NEW k \in Keys, Resolve(c, k)
    PROVE  Promise!Ask(c, k)
<1> USE DEF IInv, TypeOK, Resolve, Goto
<1>1. joined[c] = None /\ \A d \in Calls : joined[d] # c
  BY NoneAssumption, LeadersAreJoined DEF JoinedByPlace
<1>2. Waits' = Waits /\ Due' = Due
  BY <1>1, JoinedUndisturbed
<1>3. Given' = Given
  BY DEF Given, Finished
<1>4. Flying' = Flying /\ KeptAsks' = KeptAsks
  BY DEF Flying, KeptAsks, cache
<1>5. ask[c] = None /\ ask' = [ask EXCEPT ![c] = k]
  BY DEF NewCallsAskNothing
<1> QED BY <1>2, <1>3, <1>4, <1>5 DEF Promise!Ask, Waits, Due, Given, Flying, KeptAsks

\* Where a call that has begun and holds no pendingMint stands in the promise.
LEMMA ResolvingDecides ==
    ASSUME IInv, NEW c \in Calls, pc[c] = "resolving"
    PROVE  /\ ask[c] \in Keys
           /\ joined[c] = None
           /\ \A d \in Calls : joined[d] # c
           /\ Promise!Deciding(c)
<1>1. ask[c] \in Keys /\ joined[c] = None
  BY DEF IInv, BegunCallsAsk, JoinedByPlace
<1>2. \A d \in Calls : joined[d] # c
  BY <1>1, NoneAssumption, LeadersAreJoined
<1>3. Promise!Deciding(c)
  BY <1>1, NoneAssumption DEF Promise!Deciding, Finished
<1> QED BY <1>1, <1>2, <1>3

\* A call answered from the cache is given what is kept.
LEMMA ReturnGivesKept ==
    ASSUME IInv, NEW c \in Calls, ReturnRefused(c) \/ ReturnCached(c)
    PROVE  Promise!GiveKept(c)
<1> USE DEF IInv, TypeOK, Return, Goto
<1>1. pc[c] = "resolving"
  BY DEF ReturnRefused, ReturnCached
<1>2. /\ ask[c] \in Keys /\ joined[c] = None /\ Promise!Deciding(c)
      /\ \A d \in Calls : joined[d] # c
  BY <1>1, ResolvingDecides
<1>3. UNCHANGED <<ask, joined, outcome>>
  BY DEF ReturnRefused, ReturnCached
<1>4. \A d \in Calls : d # c => pc'[d] = pc[d] /\ returned'[d] = returned[d]
  BY DEF ReturnRefused, ReturnCached
<1>5. Waits' = Waits /\ Due' = Due
  BY <1>2, <1>3, <1>4, JoinedUndisturbed
<1>6. Flying' = Flying /\ KeptAsks' = KeptAsks
  BY DEF Flying, KeptAsks, cache, ReturnRefused, ReturnCached
<1>7. KeptAsks[ask[c]] # None /\ pc'[c] = "returned" /\ returned'[c] = KeptAsks[ask[c]]
  BY <1>2, OutcomeTypes, NoneIsNoOutcome DEF KeptAsks, ReturnRefused, ReturnCached, Usable
<1>8. Given' = [Given EXCEPT ![c] = KeptAsks[ask[c]]]
  BY <1>4, <1>7 DEF Given, Finished
<1> QED
  BY <1>2, <1>3, <1>5, <1>6, <1>7, <1>8
  DEF Promise!GiveKept, Waits, Due, Given, Flying, KeptAsks

\* What is cached but not a refusal is not final.
LEMMA UnrefusedIsNotFinal ==
    ASSUME IInv, NEW k \in Keys, refused[k] = Nil
    PROVE  KeptAsks[k] \notin {o \in Outcomes : o.err \in LastingStatuses}
BY NoneIsNoOutcome DEF KeptAsks, Issued, Nil, LastingStatuses

\* A call that leads or follows waits.
LEMMA JoiningWaits ==
    ASSUME IInv, NEW c \in Calls, Follow(c) \/ Lead(c)
    PROVE  Promise!Wait(c)
<1> USE DEF IInv, TypeOK, Goto
<1>1. pc[c] = "resolving" /\ refused[ask[c]] = Nil
  BY DEF Follow, Lead
<1>2. /\ ask[c] \in Keys /\ joined[c] = None /\ Promise!Deciding(c)
      /\ \A d \in Calls : joined[d] # c
  BY <1>1, ResolvingDecides
<1>3. UNCHANGED <<ask, outcome, returned, minted, refused>>
  BY DEF Follow, Lead, cache
<1>4. \A d \in Calls : d # c => pc'[d] = pc[d] /\ joined'[d] = joined[d]
  BY DEF Follow, Lead
<1>5. joined'[c] # None /\ pc'[joined'[c]] \in Leading
  <2>1. CASE Follow(c)
    BY <1>1, <1>2, <2>1 DEF Follow, MintingIsLed, Leading
  <2>2. CASE Lead(c)
    BY <2>2, NoneAssumption DEF Lead, Leading
  <2> QED BY <2>1, <2>2
<1>6. \A d \in Calls : d # c /\ joined[d] # None => pc'[joined'[d]] = pc[joined[d]]
  BY <1>2, <1>4
<1>7. Waits' = Waits \cup {c}
  BY <1>4, <1>5, <1>6 DEF Waits
<1>8. Due' = Due
  BY <1>2, <1>3, <1>4, <1>5, <1>6 DEF Due
<1>9. Given' = Given
  <2>1. pc'[c] \notin Finished /\ pc[c] \notin Finished
    BY <1>1 DEF Follow, Lead, Finished
  <2> QED BY <1>3, <1>4, <2>1 DEF Given
<1>10. Flying' = Flying \cup {ask[c]}
  BY <1>2, NoneAssumption DEF Flying, Follow, Lead, cache
<1>11. KeptAsks' = KeptAsks
  BY <1>3 DEF KeptAsks
<1>12. KeptAsks[ask[c]] \notin {o \in Outcomes : o.err \in LastingStatuses}
  BY <1>1, <1>2, UnrefusedIsNotFinal
<1> QED
  BY <1>2, <1>3, <1>7, <1>8, <1>9, <1>10, <1>11, <1>12
  DEF Promise!Wait, Waits, Due, Given, Flying, KeptAsks

\* The second locked section is the authority's answer to everyone who waits.
LEMMA SettleAnswers ==
    ASSUME IInv, NEW c \in Calls, Settle(c),
           NEW k \in Keys, NEW o \in Outcomes, k = ask[c], o = outcome[c]
    PROVE  Promise!Answer(k, o)
<1> USE DEF IInv, TypeOK, Goto, Settle
<1>1. /\ joined[c] = c /\ minting[k] = c /\ c # None /\ refused[k] = Nil
  BY NoneAssumption DEF BegunCallsAsk, JoinedByPlace, MintingIsLed, RefusalIsKept, Leading
<1>2. \A d \in Calls : joined[d] # None /\ pc[joined[d]] \in Leading /\ ask[d] = k => joined[d] = c
  BY <1>1 DEF JoinedIsLed, MintingIsLed
<1>3. \A d \in Calls : joined[d] = c => ask[d] = k /\ pc[joined[d]] \in Leading
  BY <1>1 DEF JoinedIsLed, Leading
<1>4. /\ pc'[c] = "closing" /\ UNCHANGED <<ask, joined, outcome, returned>>
      /\ \A d \in Calls : d # c => pc'[d] = pc[d]
  OBVIOUS
<1>5. Flying' = Flying \ {k} /\ k \in Flying
  BY <1>1 DEF Flying
<1>6. Waits' = {d \in Waits : ask[d] # k}
  BY <1>1, <1>2, <1>3, <1>4 DEF Waits, Leading
<1>7. Due' = [d \in Calls |-> IF d \in Waits /\ ask[d] = k THEN o ELSE Due[d]]
  BY <1>1, <1>2, <1>3, <1>4 DEF Waits, Due, Leading
<1>8. Given' = Given
  BY <1>4 DEF Given, Finished
<1>9. KeptAsks' = IF o \in {p \in Outcomes : p.err \in {Nil} \cup LastingStatuses}
                  THEN [KeptAsks EXCEPT ![k] = o] ELSE KeptAsks
  <2>1. o \in Outcomes /\ (o = Issued(c) \/ (o.token = None /\ o.err # Nil))
    BY <1>1 DEF OutcomeOfLeader
  <2>2. CASE o = Issued(c)
    <3>1. /\ o.err = Nil /\ o.token = c /\ o.err \notin LastingStatuses
      BY <2>2 DEF Issued, Nil, LastingStatuses
    <3> QED BY <1>1, <2>1, <2>2, <3>1 DEF KeptAsks
  <2>3. CASE o.err # Nil /\ o.err \in LastingStatuses
    <3>1. o = Failed(o.err)
      BY <2>1, <2>3 DEF Failed, Issued, Outcomes, Nil
    <3> QED BY <1>1, <2>1, <2>3, <3>1 DEF KeptAsks
  <2>4. CASE o.err # Nil /\ o.err \notin LastingStatuses
    BY <2>4 DEF KeptAsks
  <2>5. o = Issued(c) => o.err = Nil
    BY DEF Issued
  <2> QED BY <2>1, <2>2, <2>3, <2>4, <2>5
<1> QED
  BY <1>4, <1>5, <1>6, <1>7, <1>8, <1>9
  DEF Promise!Answer, Waits, Due, Given, Flying, KeptAsks

\* A call that returns after joining, and leaves everything else as it was.
LEMMA ReturnsAlone ==
    ASSUME IInv, NEW c \in Calls, NEW result, Return(c, result), pc[c] \in {"closing", "waiting"},
           UNCHANGED <<ask, live, joined, outcome, until, expires, cache, now>>
    PROVE  /\ Waits' = Waits /\ Due' = Due /\ Flying' = Flying /\ KeptAsks' = KeptAsks
           /\ Given[c] = None
           /\ Given' = [Given EXCEPT ![c] = result]
           /\ joined[c] # None /\ joined[c] \in Calls
<1> USE DEF IInv, TypeOK, Return, Goto
<1>1. pc'[c] = "returned" /\ \A d \in Calls : d # c => pc'[d] = pc[d]
  OBVIOUS
<1>2. pc[c] \notin Leading /\ pc'[c] \notin Leading
  BY <1>1 DEF Leading
<1>3. Waits' = Waits /\ Due' = Due
  BY <1>1, <1>2, JoinedUndisturbed
<1>4. Flying' = Flying /\ KeptAsks' = KeptAsks
  BY DEF Flying, KeptAsks, cache
<1>5. Given[c] = None /\ Given' = [Given EXCEPT ![c] = result]
  BY <1>1 DEF Given, Finished
<1>6. joined[c] # None /\ joined[c] \in Calls
  BY NoneAssumption DEF JoinedByPlace
<1> QED BY <1>3, <1>4, <1>5, <1>6

\* A leader that returns, and a follower that wakes, are given what is due.
LEMMA ReturnGivesDue ==
    ASSUME IInv, NEW c \in Calls, Close(c) \/ Wake(c)
    PROVE  Promise!GiveDue(c)
<1> DEFINE result == outcome[joined[c]]
<1>1. /\ Return(c, result) /\ pc[c] \in {"closing", "waiting"}
      /\ UNCHANGED <<ask, live, joined, outcome, until, expires, cache, now>>
      /\ pc[joined[c]] \notin Leading
  <2>1. CASE Close(c)
    BY <2>1 DEF Close, IInv, JoinedByPlace, Leading
  <2>2. CASE Wake(c)
    BY <2>2 DEF Wake, Leading, Finished
  <2> QED BY <2>1, <2>2
<1> HIDE DEF result
<1>2. /\ Waits' = Waits /\ Due' = Due /\ Flying' = Flying /\ KeptAsks' = KeptAsks
      /\ Given[c] = None
      /\ Given' = [Given EXCEPT ![c] = result]
      /\ joined[c] # None /\ joined[c] \in Calls
  BY <1>1, ReturnsAlone
<1>3. Due[c] = result /\ result # None
  BY <1>1, <1>2, NoneIsNoOutcome DEF Due, IInv, TypeOK, result
<1> QED
  BY <1>1, <1>2, <1>3 DEF Promise!GiveDue, Waits, Due, Given, Flying, KeptAsks

\* A follower whose own context ended abandons the answer.
LEMMA GiveUpAbandons ==
    ASSUME IInv, NEW c \in Calls, GiveUp(c)
    PROVE  Promise!Abandon(c)
<1>1. /\ Waits' = Waits /\ Due' = Due /\ Flying' = Flying /\ KeptAsks' = KeptAsks
      /\ Given[c] = None
      /\ Given' = [Given EXCEPT ![c] = Failed(ContextDone)]
      /\ joined[c] # None /\ joined[c] \in Calls
  BY ReturnsAlone DEF GiveUp
<1>2. c \in Waits \/ Due[c] # None
  BY <1>1, NoneIsNoOutcome DEF Waits, Due, IInv, TypeOK
<1>3. UNCHANGED ask
  BY DEF GiveUp
<1> QED
  BY <1>1, <1>2, <1>3 DEF Promise!Abandon, Waits, Due, Given, Flying, KeptAsks

\* The issue itself, and who reads, cancels or waits, are invisible.
LEMMA IssueIsInvisible ==
    ASSUME IInv, NEW c \in Calls,
           \/ IssueAnswered(c) \/ IssueRefused(c) \/ IssueUnasked(c) \/ Remember(c)
           \/ Name(c) \/ Cancel(c)
    PROVE  UNCHANGED <<ask, Waits, Due, Given, Flying, KeptAsks>>
<1> USE DEF IInv, TypeOK, Goto, cache
<1>1. UNCHANGED <<ask, joined, returned, minted, minting, refused>>
  BY DEF IssueAnswered, IssueRefused, IssueUnasked, Remember, Name, Cancel
<1>2. \A d \in Calls : d # c => pc'[d] = pc[d] /\ outcome'[d] = outcome[d]
  BY DEF IssueAnswered, IssueRefused, IssueUnasked, Remember, Name, Cancel
<1>3. /\ pc'[c] \in Leading <=> pc[c] \in Leading
      /\ pc[c] \notin Leading => outcome'[c] = outcome[c]
      /\ pc'[c] \in Finished <=> pc[c] \in Finished
  BY DEF IssueAnswered, IssueRefused, IssueUnasked, Remember, Name, Cancel, Leading, Finished
<1>4. Waits' = Waits /\ Due' = Due
  BY <1>1, <1>2, <1>3, JoinedUndisturbed
<1>5. Given' = Given /\ Flying' = Flying /\ KeptAsks' = KeptAsks
  BY <1>1, <1>2, <1>3 DEF Given, Flying, KeptAsks
<1> QED BY <1>1, <1>4, <1>5

----------------------------------------------------------------------------
(* The refinement.                                                         *)

\* An empty cache promises nothing yet.
LEMMA InitPromises == Init => Promise!Init
BY DEF Init, Promise!Init, Finished, Nil

\* The steps that change nothing of what the promise speaks of.
LEMMA InvisibleStutters ==
    ASSUME UNCHANGED <<ask, Waits, Due, Given, Flying, KeptAsks>>
    PROVE  UNCHANGED Promise!vars
BY DEF Promise!vars, Waits, Due, Given, Flying, KeptAsks

\* Every step of the cache is a step of the promise, or none of it.
LEMMA NextPromises ==
    ASSUME IInv, NewCallsAskNothing, [Next]_vars
    PROVE  [Promise!Next]_(Promise!vars)
<1>1. ASSUME NEW c \in Calls, NEW k \in Keys, Resolve(c, k) PROVE Promise!Next
  BY <1>1, ResolveAsks DEF Promise!Next
<1>2. ASSUME NEW c \in Calls, Step(c) PROVE [Promise!Next]_(Promise!vars)
  <2>1. CASE ReturnRefused(c) \/ ReturnCached(c)
    BY <2>1, ReturnGivesKept DEF Promise!Next
  <2>2. CASE Follow(c) \/ Lead(c)
    BY <2>2, JoiningWaits DEF Promise!Next
  <2>3. CASE IssueAnswered(c) \/ IssueRefused(c) \/ IssueUnasked(c) \/ Remember(c)
    BY <2>3, IssueIsInvisible, InvisibleStutters
  <2>4. CASE Settle(c)
    <3>1. PICK k \in Keys, result \in Outcomes : k = ask[c] /\ result = outcome[c]
      BY <2>4 DEF Settle, IInv, BegunCallsAsk, TypeOK
    <3>2. Promise!Answer(k, result)
      BY <2>4, <3>1, SettleAnswers
    <3> QED BY <3>2 DEF Promise!Next
  <2>5. CASE Close(c) \/ Wake(c)
    BY <2>5, ReturnGivesDue DEF Promise!Next
  <2>6. CASE GiveUp(c)
    BY <2>6, GiveUpAbandons DEF Promise!Next
  <2> QED BY <1>2, <2>1, <2>2, <2>3, <2>4, <2>5, <2>6 DEF Step
<1>3. ASSUME NEW c \in Calls, Name(c) \/ Cancel(c) PROVE UNCHANGED Promise!vars
  BY <1>3, IssueIsInvisible, InvisibleStutters
<1>4. CASE Tick \/ Done \/ UNCHANGED vars
  <2>1. UNCHANGED <<ask, Waits, Due, Given, Flying, KeptAsks>>
    BY <1>4 DEF Tick, Done, vars, cache, Waits, Due, Given, Flying, KeptAsks
  <2> QED BY <2>1, InvisibleStutters
<1> QED BY <1>1, <1>2, <1>3, <1>4 DEF Next

\* The cache implements its promise: for every caller, whatever the lock, the
\* flight it joined and the clock did, what it was given is what the first answer
\* to its ask allows.
THEOREM CacheImplementsIssueOnce == Spec => ImplementsIssueOnce
<1>1. Spec => [](IInv /\ NewCallsAskNothing)
  BY Invariance, NewCallsAskNothingHolds, PTL
<1> QED
  BY <1>1, InitPromises, NextPromises, PTL DEF Spec, ImplementsIssueOnce, Promise!Spec
=============================================================================
