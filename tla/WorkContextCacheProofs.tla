----------------------- MODULE WorkContextCacheProofs -----------------------
(***************************************************************************)
(* Proofs about WorkContextCache, for any number of calls and asks, any    *)
(* lifetimes and an unbounded clock.                                       *)
(***************************************************************************)
EXTENDS WorkContextCache, TLAPS

----------------------------------------------------------------------------
(* The inductive invariant, by the state each part relates.                *)

\* A call that has begun names an ask.
BegunCallsAsk == \A c \in Calls : pc[c] # "new" => ask[c] \in Keys

\* c.minting holds exactly the issues that are out.
MintingIsLed ==
    /\ \A k \in Keys : minting[k] # None =>
        pc[minting[k]] \in Leading /\ ask[minting[k]] = k
    /\ \A c \in Calls : pc[c] \in Leading => minting[ask[c]] = c

\* Which pendingMint a call holds, by where the call is.
JoinedByPlace ==
    \A c \in Calls :
        /\ pc[c] \in {"new", "resolving"} => joined[c] = None
        /\ pc[c] \in Leading \cup {"closing"} => joined[c] = c
        /\ pc[c] = "waiting" => joined[c] \notin {None, c}

\* A pendingMint a call holds was created by a leader of the same ask.
JoinedIsLed ==
    \A c \in Calls : joined[c] # None =>
        /\ joined[joined[c]] = joined[c]
        /\ ask[joined[c]] = ask[c]

\* The outcome of a leader, once the authority has answered; no other call
\* has one.
OutcomeOfLeader ==
    \A c \in Calls :
        IF joined[c] = c /\ pc[c] # "issuing"
        THEN \/ outcome[c] = Issued(c)
             \/ outcome[c].token = None /\ outcome[c].err \notin {Nil, ContextDone}
        ELSE outcome[c] = Failed(Nil)

\* A token goes through remember before anything else holds it.
RememberedFirst ==
    \A c \in Calls :
        /\ pc[c] = "remembering" => outcome[c] = Issued(c)
        /\ outcome[c].err = Nil /\ joined[c] = c /\ pc[c] \notin {"issuing", "remembering"}
            => c \in issuedFor
        /\ c \in issuedFor => outcome[c] = Issued(c)

\* A cached token is the outcome of a settled issue of its ask.
MintedIsSettled ==
    \A k \in Keys : minted[k] # None =>
        /\ ask[minted[k]] = k
        /\ joined[minted[k]] = minted[k]
        /\ pc[minted[k]] \in {"closing"} \cup Finished
        /\ outcome[minted[k]] = Issued(minted[k])

\* The reuse deadline of an issued token leaves the lead held takes.
LeadIsLeft ==
    \A c \in Calls : outcome[c].token = c =>
        \/ expires[c] - until[c] >= Renewal
        \/ expires[c] - until[c] >= MinimumLifetime \div 2

\* The authority's refusal of an ask is in the cache as soon as it is settled,
\* and from then on nothing is asked.
RefusalIsKept ==
    /\ \A c \in Calls : outcome[c].err \in LastingStatuses =>
        pc[c] = "settling" \/ refused[ask[c]] # Nil
    /\ \A k \in Keys : refused[k] # Nil => minting[k] = None

IInv ==
    /\ TypeOK
    /\ BegunCallsAsk
    /\ MintingIsLed
    /\ JoinedByPlace
    /\ JoinedIsLed
    /\ OutcomeOfLeader
    /\ RememberedFirst
    /\ MintedIsSettled
    /\ LeadIsLeft
    /\ RefusalIsKept
    /\ NoIssueWhileUsable
    /\ TokensAreForTheirAsk
    /\ HeldTokensAreNamed
    /\ CallersShareTheOutcome

----------------------------------------------------------------------------
(* Types.                                                                  *)

\* Every code the authority can answer has one of the statuses resolve knows.
LEMMA RefusalStatusType ==
    ASSUME NEW code \in Codes
    PROVE  RefusalStatus(code) \in AuthorityStatuses
BY DEF RefusalStatus, AuthorityStatuses, Codes

\* The lead never exceeds the lifetime, and leaves what LeadIsLeft says.
LEMMA LeadTimeBounds ==
    ASSUME NEW lifetime \in Nat
    PROVE  /\ LeadTime(lifetime) \in Nat
           /\ LeadTime(lifetime) <= lifetime
           /\ lifetime >= MinimumLifetime =>
                LeadTime(lifetime) >= Renewal \/ LeadTime(lifetime) >= MinimumLifetime \div 2
BY LeadAssumption DEF LeadTime

\* The outcomes the actions write.
LEMMA OutcomeTypes ==
    /\ \A err \in Errors : Failed(err) \in Outcomes
    /\ \A c \in Calls \cup {None} : Issued(c) \in Outcomes
    /\ \A o \in Outcomes : o.token \in Calls \cup {None} /\ o.err \in Errors
    /\ Nil \in Errors /\ Plain \in Errors /\ ContextDone \in Errors
    /\ AuthorityStatuses \subseteq Errors
BY DEF Failed, Issued, Outcomes, Errors, Nil, Plain, ContextDone

\* A step of one call keeps the types.
LEMMA StepKeepsTypes ==
    ASSUME TypeOK, BegunCallsAsk, JoinedByPlace, NEW c \in Calls, Step(c)
    PROVE  TypeOK'
<1> USE DEF TypeOK, Places, Leading, Finished, Return, Goto, cache
<1>0. pc[c] # "new" => ask[c] \in Keys
  BY DEF BegunCallsAsk
<1>1. CASE ReturnRefused(c)
  BY <1>0, <1>1, OutcomeTypes DEF ReturnRefused
<1>2. CASE ReturnCached(c)
  BY <1>0, <1>2, OutcomeTypes DEF ReturnCached
<1>3. CASE Follow(c)
  BY <1>0, <1>3 DEF Follow
<1>4. CASE Lead(c)
  BY <1>0, <1>4 DEF Lead
<1>5. CASE IssueAnswered(c)
  <2>1. PICK lifetime \in Lifetimes :
          IF lifetime < MinimumLifetime
          THEN /\ Goto(c, "settling")
               /\ outcome' = [outcome EXCEPT ![c] = Failed(Plain)]
               /\ UNCHANGED <<until, expires>>
          ELSE /\ Goto(c, "remembering")
               /\ outcome' = [outcome EXCEPT ![c] = Issued(c)]
               /\ expires' = [expires EXCEPT ![c] = now + lifetime]
               /\ until' = [until EXCEPT ![c] = now + lifetime - LeadTime(lifetime)]
    BY <1>0, <1>5 DEF IssueAnswered
  <2>2. lifetime \in Nat /\ now + lifetime \in Nat /\ now + lifetime - LeadTime(lifetime) \in Nat
    BY LifetimesAssumption, LeadTimeBounds
  <2>3. outcome' \in [Calls -> Outcomes] /\ until' \in [Calls -> Nat]
          /\ expires' \in [Calls -> Nat] /\ pc' \in [Calls -> Places]
    <3>1. CASE lifetime < MinimumLifetime
      BY <2>1, <3>1, OutcomeTypes
    <3>2. CASE ~(lifetime < MinimumLifetime)
      <4>1. outcome' = [outcome EXCEPT ![c] = Issued(c)] /\ Goto(c, "remembering")
              /\ expires' = [expires EXCEPT ![c] = now + lifetime]
              /\ until' = [until EXCEPT ![c] = now + lifetime - LeadTime(lifetime)]
        BY <2>1, <3>2
      <4>2. outcome' \in [Calls -> Outcomes]
        BY <4>1, OutcomeTypes
      <4> QED BY <2>2, <4>1, <4>2
    <3> QED BY <3>1, <3>2
  <2> QED BY <1>5, <2>3 DEF IssueAnswered
<1>6. CASE IssueRefused(c)
  BY <1>0, <1>6, OutcomeTypes, RefusalStatusType DEF IssueRefused
<1>7. CASE IssueUnasked(c)
  BY <1>0, <1>7, OutcomeTypes DEF IssueUnasked
<1>8. CASE Remember(c)
  BY <1>0, <1>8, OutcomeTypes DEF Remember
<1>9. CASE Settle(c)
  BY <1>0, <1>9, OutcomeTypes DEF Settle
<1>10. CASE Close(c)
  BY <1>0, <1>10 DEF Close
<1>11. CASE Wake(c)
  BY <1>11, OutcomeTypes DEF Wake, JoinedByPlace
<1>12. CASE GiveUp(c)
  BY <1>0, <1>12, OutcomeTypes DEF GiveUp
<1> QED
  BY <1>1, <1>2, <1>3, <1>4, <1>5, <1>6, <1>7, <1>8, <1>9, <1>10, <1>11, <1>12 DEF Step

----------------------------------------------------------------------------
(* The inductive step, one lemma per action.  The first step of each       *)
(* covers the conjuncts the action does not disturb.                       *)

\* A call answered with a kept refusal holds no token.
LEMMA ReturnRefusedKeeps ==
    ASSUME IInv, TypeOK', NEW c \in Calls, ReturnRefused(c)
    PROVE  IInv'
<1> USE DEF IInv, TypeOK, BegunCallsAsk, ReturnRefused, Return, Goto, cache,
    Leading, Finished
<1>1. BegunCallsAsk' /\ MintingIsLed' /\ JoinedByPlace' /\ JoinedIsLed' /\
       OutcomeOfLeader' /\ RememberedFirst' /\ MintedIsSettled' /\ LeadIsLeft'
       /\ RefusalIsKept' /\ NoIssueWhileUsable'
  BY DEF MintingIsLed, JoinedByPlace, JoinedIsLed, OutcomeOfLeader,
    RememberedFirst, MintedIsSettled, LeadIsLeft, RefusalIsKept,
    NoIssueWhileUsable, Usable
<1>2. TokensAreForTheirAsk'
  BY DEF TokensAreForTheirAsk, Failed
<1>3. HeldTokensAreNamed'
  BY DEF HeldTokensAreNamed, Failed
<1>4. CallersShareTheOutcome'
  BY DEF CallersShareTheOutcome, JoinedByPlace
<1> QED BY <1>1, <1>2, <1>3, <1>4

\* A call answered from the cache holds a token that is settled, and remembered.
LEMMA ReturnCachedKeeps ==
    ASSUME IInv, TypeOK', NEW c \in Calls, ReturnCached(c)
    PROVE  IInv'
<1> USE DEF IInv, TypeOK, BegunCallsAsk, ReturnCached, Return, Goto, cache,
    Leading, Finished
<1>1. BegunCallsAsk' /\ MintingIsLed' /\ JoinedByPlace' /\ JoinedIsLed' /\
       OutcomeOfLeader' /\ RememberedFirst' /\ MintedIsSettled' /\ LeadIsLeft'
       /\ RefusalIsKept' /\ NoIssueWhileUsable'
  BY DEF MintingIsLed, JoinedByPlace, JoinedIsLed, OutcomeOfLeader,
    RememberedFirst, MintedIsSettled, LeadIsLeft, RefusalIsKept,
    NoIssueWhileUsable, Usable
<1>2. TokensAreForTheirAsk'
  BY DEF TokensAreForTheirAsk, MintedIsSettled, Issued, Usable
<1>3. HeldTokensAreNamed'
  BY DEF HeldTokensAreNamed, Issued, Usable
<1>4. CallersShareTheOutcome'
  BY DEF CallersShareTheOutcome, JoinedByPlace
<1> QED BY <1>1, <1>2, <1>3, <1>4

\* A follower joins the leader that c.minting holds for its ask.
LEMMA FollowKeeps ==
    ASSUME IInv, TypeOK', NEW c \in Calls, Follow(c)
    PROVE  IInv'
<1> USE DEF IInv, TypeOK, BegunCallsAsk, Follow, Goto, cache, Leading,
    Finished
<1>1. BegunCallsAsk' /\ MintingIsLed' /\ MintedIsSettled' /\ LeadIsLeft' /\
       RefusalIsKept' /\ NoIssueWhileUsable' /\ TokensAreForTheirAsk' /\
       HeldTokensAreNamed' /\ CallersShareTheOutcome'
  BY DEF MintingIsLed, MintedIsSettled, LeadIsLeft, RefusalIsKept,
    NoIssueWhileUsable, TokensAreForTheirAsk, HeldTokensAreNamed,
    CallersShareTheOutcome, Usable
<1>2. JoinedByPlace'
  BY DEF JoinedByPlace, MintingIsLed
<1>3. JoinedIsLed'
  BY DEF JoinedIsLed, MintingIsLed, JoinedByPlace
<1>4. OutcomeOfLeader'
  BY NoneAssumption DEF OutcomeOfLeader, MintingIsLed, JoinedByPlace
<1>5. RememberedFirst'
  BY DEF RememberedFirst, MintingIsLed
<1> QED BY <1>1, <1>2, <1>3, <1>4, <1>5

\* A leader finds no leader, no usable context and no refusal of its ask.
LEMMA LeadKeeps ==
    ASSUME IInv, TypeOK', NEW c \in Calls, Lead(c)
    PROVE  IInv'
<1> USE DEF IInv, TypeOK, BegunCallsAsk, Lead, Goto, Leading, Finished
<1>1. BegunCallsAsk' /\ JoinedByPlace' /\ JoinedIsLed' /\ RememberedFirst' /\
       MintedIsSettled' /\ LeadIsLeft' /\ RefusalIsKept' /\
       NoIssueWhileUsable' /\ TokensAreForTheirAsk' /\ HeldTokensAreNamed' /\
       CallersShareTheOutcome'
  BY DEF JoinedByPlace, JoinedIsLed, RememberedFirst, MintedIsSettled,
    LeadIsLeft, RefusalIsKept, NoIssueWhileUsable, TokensAreForTheirAsk,
    HeldTokensAreNamed, CallersShareTheOutcome, Usable
<1>2. MintingIsLed'
  BY NoneAssumption DEF MintingIsLed
<1>3. OutcomeOfLeader'
  BY NoneAssumption DEF OutcomeOfLeader, JoinedByPlace
<1> QED BY <1>1, <1>2, <1>3

\* The authority's answer is the leader's outcome, not remembered yet.
LEMMA IssueAnsweredKeeps ==
    ASSUME IInv, TypeOK', NEW c \in Calls, IssueAnswered(c)
    PROVE  IInv'
<1> USE DEF IInv, TypeOK, BegunCallsAsk, IssueAnswered, Goto, cache, Leading,
    Finished
<1>1. BegunCallsAsk' /\ JoinedByPlace' /\ JoinedIsLed' /\ MintedIsSettled' /\
       TokensAreForTheirAsk' /\ HeldTokensAreNamed'
  BY DEF JoinedByPlace, JoinedIsLed, MintedIsSettled, TokensAreForTheirAsk,
    HeldTokensAreNamed
<1>2. MintingIsLed'
  BY DEF MintingIsLed, JoinedByPlace, JoinedIsLed
<1>3. OutcomeOfLeader'
  BY DEF OutcomeOfLeader, JoinedByPlace, Failed, Nil, Plain, ContextDone
<1>4. RememberedFirst'
  BY NoneAssumption DEF RememberedFirst, JoinedByPlace, OutcomeOfLeader,
    Issued, Failed, Nil, Plain
<1>5. LeadIsLeft'
  <2> USE DEF Nil, Issued, Failed, Plain
  <2>1. PICK lifetime \in Lifetimes :
          \/ lifetime < MinimumLifetime /\ outcome' = [outcome EXCEPT ![c] = Failed(Plain)]
               /\ UNCHANGED <<until, expires>>
          \/ /\ lifetime >= MinimumLifetime
             /\ outcome' = [outcome EXCEPT ![c] = Issued(c)]
             /\ expires' = [expires EXCEPT ![c] = now + lifetime]
             /\ until' = [until EXCEPT ![c] = now + lifetime - LeadTime(lifetime)]
    BY LifetimesAssumption, LeadAssumption
  <2>2. lifetime \in Nat /\ LeadTime(lifetime) \in Nat
    BY LifetimesAssumption, LeadTimeBounds
  <2>3. CASE /\ lifetime < MinimumLifetime
             /\ outcome' = [outcome EXCEPT ![c] = Failed(Plain)]
             /\ UNCHANGED <<until, expires>>
    BY <2>3, NoneAssumption DEF LeadIsLeft
  <2>4. CASE /\ lifetime >= MinimumLifetime
             /\ outcome' = [outcome EXCEPT ![c] = Issued(c)]
             /\ expires' = [expires EXCEPT ![c] = now + lifetime]
             /\ until' = [until EXCEPT ![c] = now + lifetime - LeadTime(lifetime)]
    <3>1. expires'[c] - until'[c] = LeadTime(lifetime)
      BY <2>2, <2>4
    <3>2. LeadTime(lifetime) >= Renewal \/ LeadTime(lifetime) >= MinimumLifetime \div 2
      BY <2>2, <2>4, LeadTimeBounds
    <3>3. \A d \in Calls \ {c} :
            outcome'[d] = outcome[d] /\ expires'[d] = expires[d] /\ until'[d] = until[d]
      BY <2>4
    <3> QED BY <3>1, <3>2, <3>3 DEF LeadIsLeft
  <2> QED BY <2>1, <2>3, <2>4
<1>6. RefusalIsKept'
  BY DEF RefusalIsKept, Issued, Nil, LastingStatuses
<1>7. NoIssueWhileUsable'
  BY DEF NoIssueWhileUsable, MintedIsSettled, Usable
<1>8. CallersShareTheOutcome'
  BY DEF CallersShareTheOutcome, OutcomeOfLeader
<1> QED BY <1>1, <1>2, <1>3, <1>4, <1>5, <1>6, <1>7, <1>8

\* The authority's refusal is the leader's outcome; the cache keeps it next.
LEMMA IssueRefusedKeeps ==
    ASSUME IInv, TypeOK', NEW c \in Calls, IssueRefused(c)
    PROVE  IInv'
<1> USE DEF IInv, TypeOK, BegunCallsAsk, IssueRefused, Goto, cache, Leading,
    Finished
<1>1. BegunCallsAsk' /\ MintingIsLed' /\ JoinedByPlace' /\ JoinedIsLed' /\
       MintedIsSettled' /\ RefusalIsKept' /\ NoIssueWhileUsable' /\
       TokensAreForTheirAsk' /\ HeldTokensAreNamed'
  BY DEF MintingIsLed, JoinedByPlace, JoinedIsLed, MintedIsSettled,
    RefusalIsKept, NoIssueWhileUsable, TokensAreForTheirAsk,
    HeldTokensAreNamed, Usable
<1>2. OutcomeOfLeader'
  BY RefusalStatusType DEF OutcomeOfLeader, JoinedByPlace, Failed, Nil,
    ContextDone, AuthorityStatuses
<1>3. RememberedFirst'
  BY NoneAssumption, RefusalStatusType DEF RememberedFirst, OutcomeOfLeader,
    Issued, Failed, Nil, AuthorityStatuses
<1>4. LeadIsLeft'
  BY NoneAssumption, RefusalStatusType DEF LeadIsLeft, Failed
<1>5. CallersShareTheOutcome'
  BY RefusalStatusType DEF CallersShareTheOutcome, OutcomeOfLeader
<1> QED BY <1>1, <1>2, <1>3, <1>4, <1>5

\* A failure before the authority is asked is the leader's outcome.
LEMMA IssueUnaskedKeeps ==
    ASSUME IInv, TypeOK', NEW c \in Calls, IssueUnasked(c)
    PROVE  IInv'
<1> USE DEF IInv, TypeOK, BegunCallsAsk, IssueUnasked, Goto, cache, Leading,
    Finished
<1>1. BegunCallsAsk' /\ MintingIsLed' /\ JoinedByPlace' /\ JoinedIsLed' /\
       MintedIsSettled' /\ RefusalIsKept' /\ NoIssueWhileUsable' /\
       TokensAreForTheirAsk' /\ HeldTokensAreNamed'
  BY DEF MintingIsLed, JoinedByPlace, JoinedIsLed, MintedIsSettled,
    RefusalIsKept, NoIssueWhileUsable, TokensAreForTheirAsk,
    HeldTokensAreNamed, Usable
<1>2. OutcomeOfLeader'
  BY DEF OutcomeOfLeader, JoinedByPlace, Failed, Nil, Plain, ContextDone
<1>3. RememberedFirst'
  BY NoneAssumption DEF RememberedFirst, OutcomeOfLeader, Issued, Failed,
    Nil, Plain
<1>4. LeadIsLeft'
  BY NoneAssumption DEF LeadIsLeft, Failed
<1>5. CallersShareTheOutcome'
  BY DEF CallersShareTheOutcome, OutcomeOfLeader
<1> QED BY <1>1, <1>2, <1>3, <1>4, <1>5

\* The token is remembered before it is settled.
LEMMA RememberKeeps ==
    ASSUME IInv, TypeOK', NEW c \in Calls, Remember(c)
    PROVE  IInv'
<1> USE DEF IInv, TypeOK, BegunCallsAsk, Remember, Goto, Leading, Finished
<1>1. BegunCallsAsk' /\ MintingIsLed' /\ JoinedByPlace' /\ JoinedIsLed' /\
       OutcomeOfLeader' /\ MintedIsSettled' /\ LeadIsLeft' /\ RefusalIsKept'
       /\ NoIssueWhileUsable' /\ TokensAreForTheirAsk' /\ HeldTokensAreNamed'
       /\ CallersShareTheOutcome'
  BY DEF MintingIsLed, JoinedByPlace, JoinedIsLed, OutcomeOfLeader,
    MintedIsSettled, LeadIsLeft, RefusalIsKept, NoIssueWhileUsable,
    TokensAreForTheirAsk, HeldTokensAreNamed, CallersShareTheOutcome, Usable
<1>2. RememberedFirst'
  BY DEF RememberedFirst, Issued
<1> QED BY <1>1, <1>2

\* What is settled is the leader's outcome; the ask is free again.
LEMMA SettleKeeps ==
    ASSUME IInv, TypeOK', NEW c \in Calls, Settle(c)
    PROVE  IInv'
<1> USE DEF IInv, TypeOK, BegunCallsAsk, Settle, Goto, Leading, Finished
<1>1. BegunCallsAsk' /\ MintingIsLed' /\ JoinedByPlace' /\ JoinedIsLed' /\
       OutcomeOfLeader' /\ RememberedFirst' /\ LeadIsLeft' /\
       NoIssueWhileUsable' /\ TokensAreForTheirAsk' /\ CallersShareTheOutcome'
  BY DEF MintingIsLed, JoinedByPlace, JoinedIsLed, OutcomeOfLeader,
    RememberedFirst, LeadIsLeft, NoIssueWhileUsable, TokensAreForTheirAsk,
    CallersShareTheOutcome, Usable
<1>2. MintedIsSettled'
  BY DEF MintedIsSettled, OutcomeOfLeader, Issued, Failed
<1>3. RefusalIsKept'
  BY DEF RefusalIsKept, Nil, LastingStatuses
<1>4. HeldTokensAreNamed'
  BY DEF HeldTokensAreNamed, OutcomeOfLeader, RememberedFirst, Issued,
    Failed
<1> QED BY <1>1, <1>2, <1>3, <1>4

\* The leader returns its own outcome.
LEMMA CloseKeeps ==
    ASSUME IInv, TypeOK', NEW c \in Calls, Close(c)
    PROVE  IInv'
<1> USE DEF IInv, TypeOK, BegunCallsAsk, Close, Return, Goto, cache, Leading,
    Finished
<1>1. BegunCallsAsk' /\ MintingIsLed' /\ JoinedByPlace' /\ JoinedIsLed' /\
       OutcomeOfLeader' /\ RememberedFirst' /\ MintedIsSettled' /\ LeadIsLeft'
       /\ RefusalIsKept' /\ NoIssueWhileUsable'
  BY DEF MintingIsLed, JoinedByPlace, JoinedIsLed, OutcomeOfLeader,
    RememberedFirst, MintedIsSettled, LeadIsLeft, RefusalIsKept,
    NoIssueWhileUsable, Usable
<1>2. TokensAreForTheirAsk'
  BY DEF TokensAreForTheirAsk, JoinedByPlace, RememberedFirst, Issued
<1>3. HeldTokensAreNamed'
  BY DEF HeldTokensAreNamed, JoinedByPlace, RememberedFirst, Issued
<1>4. CallersShareTheOutcome'
  BY DEF CallersShareTheOutcome, JoinedByPlace, RememberedFirst, Issued,
    Failed
<1> QED BY <1>1, <1>2, <1>3, <1>4

\* A follower returns its leader's outcome, which is complete.
LEMMA WakeKeeps ==
    ASSUME IInv, TypeOK', NEW c \in Calls, Wake(c)
    PROVE  IInv'
<1> USE DEF IInv, TypeOK, BegunCallsAsk, Wake, Return, Goto, cache, Leading,
    Finished
<1>1. BegunCallsAsk' /\ MintingIsLed' /\ JoinedByPlace' /\ JoinedIsLed' /\
       OutcomeOfLeader' /\ RememberedFirst' /\ MintedIsSettled' /\ LeadIsLeft'
       /\ RefusalIsKept' /\ NoIssueWhileUsable'
  BY DEF MintingIsLed, JoinedByPlace, JoinedIsLed, OutcomeOfLeader,
    RememberedFirst, MintedIsSettled, LeadIsLeft, RefusalIsKept,
    NoIssueWhileUsable, Usable
<1>2. TokensAreForTheirAsk'
  BY DEF TokensAreForTheirAsk, JoinedByPlace, JoinedIsLed,
    CallersShareTheOutcome
<1>3. HeldTokensAreNamed'
  BY DEF HeldTokensAreNamed, JoinedByPlace, JoinedIsLed,
    CallersShareTheOutcome
<1>4. CallersShareTheOutcome'
  BY DEF CallersShareTheOutcome, JoinedIsLed
<1> QED BY <1>1, <1>2, <1>3, <1>4

\* A follower whose context ended returns no token.
LEMMA GiveUpKeeps ==
    ASSUME IInv, TypeOK', NEW c \in Calls, GiveUp(c)
    PROVE  IInv'
<1> USE DEF IInv, TypeOK, BegunCallsAsk, GiveUp, Return, Goto, cache, Leading,
    Finished
<1>1. BegunCallsAsk' /\ MintingIsLed' /\ JoinedByPlace' /\ JoinedIsLed' /\
       OutcomeOfLeader' /\ RememberedFirst' /\ MintedIsSettled' /\ LeadIsLeft'
       /\ RefusalIsKept' /\ NoIssueWhileUsable'
  BY DEF MintingIsLed, JoinedByPlace, JoinedIsLed, OutcomeOfLeader,
    RememberedFirst, MintedIsSettled, LeadIsLeft, RefusalIsKept,
    NoIssueWhileUsable, Usable
<1>2. TokensAreForTheirAsk'
  BY DEF TokensAreForTheirAsk, Failed, Nil, ContextDone
<1>3. HeldTokensAreNamed'
  BY DEF HeldTokensAreNamed, Failed, Nil, ContextDone
<1>4. CallersShareTheOutcome'
  BY DEF CallersShareTheOutcome, JoinedByPlace, Failed
<1> QED BY <1>1, <1>2, <1>3, <1>4

\* A call that begins led nothing before, so no one has joined it.
LEMMA ResolveKeeps ==
    ASSUME IInv, TypeOK', NEW c \in Calls, NEW k \in Keys, Resolve(c, k)
    PROVE  IInv'
<1> USE DEF IInv, TypeOK, BegunCallsAsk, Resolve, Goto, cache, Leading,
    Finished
<1>1. BegunCallsAsk' /\ MintingIsLed' /\ JoinedByPlace' /\ OutcomeOfLeader' /\
       RememberedFirst' /\ MintedIsSettled' /\ LeadIsLeft' /\
       NoIssueWhileUsable' /\ HeldTokensAreNamed' /\ CallersShareTheOutcome'
  BY DEF MintingIsLed, JoinedByPlace, OutcomeOfLeader, RememberedFirst,
    MintedIsSettled, LeadIsLeft, NoIssueWhileUsable, HeldTokensAreNamed,
    CallersShareTheOutcome, Usable
<1>2. JoinedIsLed'
  BY DEF JoinedIsLed, JoinedByPlace
<1>3. RefusalIsKept'
  BY NoneAssumption DEF RefusalIsKept, JoinedByPlace, OutcomeOfLeader,
    Failed, Nil, LastingStatuses
<1>4. TokensAreForTheirAsk'
  BY NoneAssumption DEF TokensAreForTheirAsk, JoinedByPlace,
    OutcomeOfLeader, RememberedFirst, HeldTokensAreNamed, Issued, Failed
<1> QED BY <1>1, <1>2, <1>3, <1>4

\* Reading a principal moves nobody out of Finished.
LEMMA NameKeeps ==
    ASSUME IInv, TypeOK', NEW c \in Calls, Name(c)
    PROVE  IInv'
<1> USE DEF IInv, TypeOK, BegunCallsAsk, Name, Goto, cache, Leading, Finished
<1>1. BegunCallsAsk' /\ MintingIsLed' /\ JoinedByPlace' /\ JoinedIsLed' /\
       OutcomeOfLeader' /\ RememberedFirst' /\ MintedIsSettled' /\ LeadIsLeft'
       /\ RefusalIsKept' /\ NoIssueWhileUsable' /\ TokensAreForTheirAsk' /\
       HeldTokensAreNamed' /\ CallersShareTheOutcome'
  BY DEF MintingIsLed, JoinedByPlace, JoinedIsLed, OutcomeOfLeader,
    RememberedFirst, MintedIsSettled, LeadIsLeft, RefusalIsKept,
    NoIssueWhileUsable, TokensAreForTheirAsk, HeldTokensAreNamed,
    CallersShareTheOutcome, Usable
<1> QED BY <1>1

\* Only waiting calls look at their own context.
LEMMA CancelKeeps ==
    ASSUME IInv, TypeOK', NEW c \in Calls, Cancel(c)
    PROVE  IInv'
<1> USE DEF IInv, TypeOK, BegunCallsAsk, Cancel, cache, Leading, Finished
<1>1. BegunCallsAsk' /\ MintingIsLed' /\ JoinedByPlace' /\ JoinedIsLed' /\
       OutcomeOfLeader' /\ RememberedFirst' /\ MintedIsSettled' /\ LeadIsLeft'
       /\ RefusalIsKept' /\ NoIssueWhileUsable' /\ TokensAreForTheirAsk' /\
       HeldTokensAreNamed' /\ CallersShareTheOutcome'
  BY DEF MintingIsLed, JoinedByPlace, JoinedIsLed, OutcomeOfLeader,
    RememberedFirst, MintedIsSettled, LeadIsLeft, RefusalIsKept,
    NoIssueWhileUsable, TokensAreForTheirAsk, HeldTokensAreNamed,
    CallersShareTheOutcome, Usable
<1> QED BY <1>1

\* Time only ends usability.
LEMMA TickKeeps ==
    ASSUME IInv, TypeOK', Tick
    PROVE  IInv'
<1> USE DEF IInv, TypeOK, BegunCallsAsk, Tick, cache, Leading, Finished
<1>1. BegunCallsAsk' /\ MintingIsLed' /\ JoinedByPlace' /\ JoinedIsLed' /\
       OutcomeOfLeader' /\ RememberedFirst' /\ MintedIsSettled' /\ LeadIsLeft'
       /\ RefusalIsKept' /\ TokensAreForTheirAsk' /\ HeldTokensAreNamed' /\
       CallersShareTheOutcome'
  BY DEF MintingIsLed, JoinedByPlace, JoinedIsLed, OutcomeOfLeader,
    RememberedFirst, MintedIsSettled, LeadIsLeft, RefusalIsKept,
    TokensAreForTheirAsk, HeldTokensAreNamed, CallersShareTheOutcome
<1>2. NoIssueWhileUsable'
  BY DEF NoIssueWhileUsable, Usable
<1> QED BY <1>1, <1>2

----------------------------------------------------------------------------
(* The invariant holds from the start and at every step.                   *)

\* An empty cache.
LEMMA InitEstablishes == Init => IInv
<1> SUFFICES ASSUME Init PROVE IInv
  OBVIOUS
<1> USE DEF Init, Nil, Failed
<1>1. TypeOK
  BY DEF TypeOK, Places, Outcomes, Errors
<1>2. BegunCallsAsk /\ MintingIsLed /\ JoinedByPlace /\ JoinedIsLed
  BY NoneAssumption DEF BegunCallsAsk, MintingIsLed, JoinedByPlace, JoinedIsLed, Leading
<1>3. OutcomeOfLeader /\ RememberedFirst
  BY NoneAssumption DEF OutcomeOfLeader, RememberedFirst, Finished
<1>4. MintedIsSettled /\ NoIssueWhileUsable /\ HeldTokensAreNamed
  BY DEF MintedIsSettled, NoIssueWhileUsable, HeldTokensAreNamed, Usable, Finished
<1>5. LeadIsLeft
  BY NoneAssumption DEF LeadIsLeft
<1>6. RefusalIsKept
  BY DEF RefusalIsKept, LastingStatuses
<1>7. TokensAreForTheirAsk /\ CallersShareTheOutcome
  BY DEF TokensAreForTheirAsk, CallersShareTheOutcome, Finished
<1> QED BY <1>1, <1>2, <1>3, <1>4, <1>5, <1>6, <1>7 DEF IInv

\* The steps that are not a call's own work keep the types.
LEMMA OtherStepsKeepTypes ==
    ASSUME TypeOK, NEW c \in Calls, NEW k \in Keys,
           Resolve(c, k) \/ Name(c) \/ Cancel(c) \/ Tick
    PROVE  TypeOK'
<1> USE DEF TypeOK, Places, Leading, Finished, Goto, cache
<1>1. CASE Resolve(c, k)
  BY <1>1 DEF Resolve
<1>2. CASE Name(c)
  BY <1>2 DEF Name
<1>3. CASE Cancel(c)
  BY <1>3 DEF Cancel
<1>4. CASE Tick
  BY <1>4 DEF Tick
<1> QED BY <1>1, <1>2, <1>3, <1>4

\* Every step of the cache, of the callers and of the clock.
LEMMA StepKeeps ==
    ASSUME IInv, NEW c \in Calls, Step(c)
    PROVE  IInv'
<1>1. TypeOK'
  BY StepKeepsTypes DEF IInv
<1> QED
  BY <1>1, ReturnRefusedKeeps, ReturnCachedKeeps, FollowKeeps, LeadKeeps,
     IssueAnsweredKeeps, IssueRefusedKeeps, IssueUnaskedKeeps, RememberKeeps,
     SettleKeeps, CloseKeeps, WakeKeeps, GiveUpKeeps
     DEF Step

\* A step that changes nothing, Done included, keeps the invariant.
LEMMA StutterKeeps == IInv /\ UNCHANGED vars => IInv'
<1> SUFFICES ASSUME IInv, UNCHANGED vars PROVE IInv'
  OBVIOUS
<1> USE DEF IInv, vars, cache
<1>1. TypeOK'
  BY DEF TypeOK
<1>2. BegunCallsAsk' /\ MintingIsLed' /\ JoinedByPlace' /\ JoinedIsLed'
  BY DEF BegunCallsAsk, MintingIsLed, JoinedByPlace, JoinedIsLed
<1>3. OutcomeOfLeader' /\ RememberedFirst' /\ MintedIsSettled' /\ LeadIsLeft'
  BY DEF OutcomeOfLeader, RememberedFirst, MintedIsSettled, LeadIsLeft
<1>4. RefusalIsKept' /\ NoIssueWhileUsable' /\ TokensAreForTheirAsk'
  BY DEF RefusalIsKept, NoIssueWhileUsable, Usable, TokensAreForTheirAsk
<1>5. HeldTokensAreNamed' /\ CallersShareTheOutcome'
  BY DEF HeldTokensAreNamed, CallersShareTheOutcome
<1> QED BY <1>1, <1>2, <1>3, <1>4, <1>5

\* IInv is inductive, and so an invariant of resolve.
THEOREM Invariance == Spec => []IInv
<1>1. Init => IInv
  BY InitEstablishes
<1>2. IInv /\ [Next]_vars => IInv'
  <2> SUFFICES ASSUME IInv, [Next]_vars PROVE IInv'
    OBVIOUS
  <2>1. ASSUME NEW c \in Calls, NEW k \in Keys, Resolve(c, k) PROVE IInv'
    BY <2>1, OtherStepsKeepTypes, ResolveKeeps DEF IInv
  <2>2. ASSUME NEW c \in Calls, Step(c) PROVE IInv'
    BY <2>2, StepKeeps
  <2>3. ASSUME NEW c \in Calls, Name(c) PROVE IInv'
    <3>1. PICK k \in Keys : TRUE
      BY <2>3 DEF Name, IInv, BegunCallsAsk
    <3> QED BY <2>3, <3>1, OtherStepsKeepTypes, NameKeeps DEF IInv
  <2>4. ASSUME NEW c \in Calls, Cancel(c) PROVE IInv'
    <3>1. PICK k \in Keys : TRUE
      BY <2>4 DEF Cancel, IInv, BegunCallsAsk
    <3> QED BY <2>4, <3>1, OtherStepsKeepTypes, CancelKeeps DEF IInv
  <2>5. CASE Tick
    <3>1. TypeOK'
      BY <2>5 DEF Tick, TypeOK, IInv, cache
    <3> QED BY <2>5, <3>1, TickKeeps
  <2>6. CASE Done
    BY <2>6, StutterKeeps DEF Done
  <2>7. CASE UNCHANGED vars
    BY <2>7, StutterKeeps
  <2> QED BY <2>1, <2>2, <2>3, <2>4, <2>5, <2>6, <2>7 DEF Next
<1> QED BY <1>1, <1>2, PTL DEF Spec

----------------------------------------------------------------------------
(* What the cache promises, for every value of the constants.              *)

\* Every variable keeps its type.
THEOREM TypeCorrect == Spec => []TypeOK
<1>1. IInv => TypeOK
  BY DEF IInv
<1> QED BY <1>1, Invariance, PTL

\* However many goroutines ask, one issue per ask is out at a time: c.minting
\* holds one call, and every leader is the call it holds.
THEOREM AtMostOneIssuePerAsk == Spec => []SingleFlight
<1>1. IInv => SingleFlight
  BY DEF IInv, MintingIsLed, SingleFlight
<1> QED BY <1>1, Invariance, PTL

\* No issue is out while a usable context is cached: the part of IInv the
\* two locked sections of resolve keep between them.
THEOREM NothingIssuedWhileUsable == Spec => []NoIssueWhileUsable
<1>1. IInv => NoIssueWhileUsable
  BY DEF IInv
<1> QED BY <1>1, Invariance, PTL

\* After the authority refuses an ask, no other call asks it again.
THEOREM RefusedOnce == Spec => []NoReaskAfterRefusal
<1>1. IInv => NoReaskAfterRefusal
  <2> SUFFICES ASSUME IInv, NEW c \in Calls, NEW d \in Calls, c # d,
                      ask[c] = ask[d], outcome[c].err \in LastingStatuses,
                      pc[d] \in Leading
               PROVE  FALSE
    BY DEF NoReaskAfterRefusal
  <2>1. minting[ask[d]] = d /\ d # None /\ ask[d] \in Keys
    BY NoneAssumption DEF IInv, MintingIsLed, BegunCallsAsk, Leading
  <2>2. pc[c] = "settling"
    BY <2>1 DEF IInv, RefusalIsKept
  <2>3. minting[ask[c]] = c
    BY <2>2 DEF IInv, MintingIsLed, Leading
  <2> QED BY <2>1, <2>3
<1> QED BY <1>1, Invariance, PTL

\* A waiting call is given its leader's complete outcome, or its own
\* context's error.
THEOREM OneOutcome == Spec => []CallersShareTheOutcome
<1>1. IInv => CallersShareTheOutcome
  BY DEF IInv
<1> QED BY <1>1, Invariance, PTL

\* No call is handed a token issued for another ask.
THEOREM TokensMatchTheirAsk == Spec => []TokensAreForTheirAsk
<1>1. IInv => TokensAreForTheirAsk
  BY DEF IInv
<1> QED BY <1>1, Invariance, PTL

\* Every token a call can hold is one whose principals are remembered.
THEOREM PrincipalsAreKnown == Spec => []HeldTokensAreNamed
<1>1. IInv => HeldTokensAreNamed
  BY DEF IInv
<1> QED BY <1>1, Invariance, PTL

\* A kept refusal is never replaced: while one is kept nobody is asking, so no
\* later outcome of the same ask can be settled.
THEOREM RefusalsAreForGood == Spec => RefusalsPersist
<1>1. IInv /\ [Next]_vars =>
        [\A k \in Keys : refused[k] # Nil => refused'[k] = refused[k]]_vars
  <2> SUFFICES ASSUME IInv, Next, NEW k \in Keys, refused[k] # Nil
               PROVE  refused'[k] = refused[k]
    OBVIOUS
  <2>1. CASE \E c \in Calls : Settle(c)
    <3>1. PICK c \in Calls : Settle(c)
      BY <2>1
    <3>2. minting[ask[c]] = c /\ ask[c] \in Keys
      BY <3>1 DEF Settle, IInv, MintingIsLed, BegunCallsAsk, Leading
    <3>3. ask[c] # k
      BY <3>2, NoneAssumption DEF IInv, RefusalIsKept
    <3> QED BY <3>1, <3>2, <3>3 DEF Settle, IInv, TypeOK
  <2>2. CASE ~\E c \in Calls : Settle(c)
    <3>1. UNCHANGED refused
      BY <2>2 DEF Next, Step, Resolve, ReturnRefused, ReturnCached, Follow, Lead,
        IssueAnswered, IssueRefused, IssueUnasked, Remember, Close, Wake, GiveUp,
        Name, Cancel, Tick, Done, cache, vars
    <3> QED BY <3>1
  <2> QED BY <2>1, <2>2
<1> QED BY <1>1, Invariance, PTL DEF Spec, RefusalsPersist

\* A cached context is handed out only while the lead held took from its
\* lifetime is still ahead of its expiry.
THEOREM CachedContextsLast == Spec => CachedContextsOutliveTheCall
<1> DEFINE Outlives == \A c \in Calls :
        pc[c] = "resolving" /\ pc'[c] = "returned" /\ returned'[c].err = Nil =>
            expires[returned'[c].token] - now > MinimumLifetime \div 2
              \/ expires[returned'[c].token] - now > Renewal
<1>1. IInv /\ [Next]_vars => [Outlives]_vars
  <2> SUFFICES ASSUME IInv, Next, NEW c \in Calls, pc[c] = "resolving",
                      pc'[c] = "returned", returned'[c].err = Nil
               PROVE  expires[returned'[c].token] - now > MinimumLifetime \div 2
                        \/ expires[returned'[c].token] - now > Renewal
    BY DEF Outlives
  <2>1. ReturnCached(c) \/ ReturnRefused(c)
    BY DEF Next, Step, Resolve, Follow, Lead, IssueAnswered, IssueRefused,
      IssueUnasked, Remember, Settle, Close, Wake, GiveUp, Name, Cancel, Tick,
      Done, Return, Goto, vars, IInv, TypeOK, ReturnCached, ReturnRefused
  <2>2. CASE ReturnRefused(c)
    BY <2>2 DEF ReturnRefused, Return, Failed, IInv, TypeOK
  <2>3. CASE ReturnCached(c)
    <3> DEFINE token == minted[ask[c]]
    <3>1. ask[c] \in Keys /\ token # None /\ token \in Calls
      BY <2>3 DEF ReturnCached, Usable, IInv, BegunCallsAsk, TypeOK
    <3>2. returned'[c].token = token /\ now < until[token]
      BY <2>3 DEF ReturnCached, Usable, Return, Issued, IInv, TypeOK
    <3>3. outcome[token].token = token
      <4>1. outcome[token] = Issued(token)
        BY <3>1 DEF IInv, MintedIsSettled
      <4> QED BY <4>1 DEF Issued
    <3>4. expires[token] - until[token] >= Renewal
            \/ expires[token] - until[token] >= MinimumLifetime \div 2
      BY <3>1, <3>3 DEF IInv, LeadIsLeft
    <3>5. expires[token] \in Nat /\ until[token] \in Nat /\ now \in Nat
      BY <3>1 DEF IInv, TypeOK
    <3> QED BY <3>2, <3>4, <3>5, LeadAssumption
  <2> QED BY <2>1, <2>2, <2>3
<1> QED BY <1>1, Invariance, PTL DEF Spec, CachedContextsOutliveTheCall

----------------------------------------------------------------------------
(* Nobody waits for ever: what of it is not fairness.                      *)

\* A call that waits waits for one that is issuing, about to close done, or back:
\* never for another that waits, so there is no circle of goroutines (resolve).
WaitersAreLed ==
    \A c \in Calls : pc[c] = "waiting" =>
        pc[joined[c]] \in Leading \cup {"closing"} \cup Finished

\* How many steps a call has before it at most.
Ahead == [place \in Places |->
    CASE place = "new" -> 7
      [] place = "resolving" -> 6
      [] place = "issuing" -> 5
      [] place = "remembering" -> 4
      [] place = "settling" -> 3
      [] place \in {"waiting", "closing"} -> 2
      [] place = "returned" -> 1
      [] place \in {"named", "unnamed"} -> 0]

\* Nobody waits for a caller that waits: the invariant has a follower's pendingMint
\* made by a leader, and no leader joins another's (resolve).
THEOREM NobodyWaitsInACircle == Spec => []WaitersAreLed
<1>1. ASSUME IInv PROVE WaitersAreLed
  <2> SUFFICES ASSUME NEW c \in Calls, pc[c] = "waiting"
               PROVE  pc[joined[c]] \in Leading \cup {"closing"} \cup Finished
    BY DEF WaitersAreLed
  <2> DEFINE leader == joined[c]
  <2>1. leader \in Calls /\ joined[leader] = leader
    BY <1>1, NoneAssumption DEF IInv, TypeOK, JoinedByPlace, JoinedIsLed
  <2>2. pc[leader] \notin {"new", "resolving", "waiting"}
    BY <1>1, <2>1, NoneAssumption DEF IInv, JoinedByPlace
  <2>3. pc[leader] \in Places
    BY <1>1, <2>1 DEF IInv, TypeOK
  <2> QED
    BY <2>2, <2>3 DEF Places
<1> QED
  BY <1>1, Invariance, PTL

\* A call never goes back, and only the authority's answer, its leader's closing of
\* done or a turn at the lock is between it and its next step: no retry and no loop
\* is in resolve, so a call that keeps going on returns.
THEOREM CallsOnlyGoOn ==
    Spec => [][\A c \in Calls : pc'[c] # pc[c] => Ahead[pc'[c]] < Ahead[pc[c]]]_vars
<1> DEFINE GoesOn == \A c \in Calls : pc'[c] # pc[c] => Ahead[pc'[c]] < Ahead[pc[c]]
<1>1. /\ Ahead["new"] = 7 /\ Ahead["resolving"] = 6 /\ Ahead["issuing"] = 5
      /\ Ahead["remembering"] = 4 /\ Ahead["settling"] = 3
      /\ Ahead["waiting"] = 2 /\ Ahead["closing"] = 2 /\ Ahead["returned"] = 1
      /\ Ahead["named"] = 0 /\ Ahead["unnamed"] = 0
  BY DEF Ahead, Places, Leading, Finished
<1>2. IInv /\ [Next]_vars => [GoesOn]_vars
  <2> SUFFICES ASSUME IInv, Next, NEW c \in Calls, pc'[c] # pc[c]
               PROVE  Ahead[pc'[c]] < Ahead[pc[c]]
    BY DEF GoesOn
  <2>1. PICK d \in Calls : (\E k \in Keys : Resolve(d, k)) \/ Step(d) \/ Name(d)
    BY DEF Next, Cancel, Tick, Done, vars
  <2>2. pc \in [Calls -> Places]
    BY DEF IInv, TypeOK
  <2>3. ASSUME NEW place, Goto(d, place) PROVE c = d /\ pc'[c] = place
    BY <2>2, <2>3 DEF Goto
  <2>4. CASE \E k \in Keys : Resolve(d, k)
    BY <1>1, <2>3, <2>4 DEF Resolve
  <2>5. CASE ReturnRefused(d) \/ ReturnCached(d) \/ Follow(d) \/ Lead(d)
    BY <1>1, <2>3, <2>5 DEF ReturnRefused, ReturnCached, Follow, Lead, Return
  <2>6. CASE IssueAnswered(d) \/ IssueRefused(d) \/ IssueUnasked(d)
    BY <1>1, <2>3, <2>6 DEF IssueAnswered, IssueRefused, IssueUnasked
  <2>7. CASE Remember(d) \/ Settle(d) \/ Close(d)
    BY <1>1, <2>3, <2>7 DEF Remember, Settle, Close, Return
  <2>8. CASE Wake(d) \/ GiveUp(d)
    BY <1>1, <2>3, <2>8 DEF Wake, GiveUp, Return
  <2>9. CASE Name(d)
    BY <1>1, <2>3, <2>9 DEF Name
  <2> QED
    BY <2>1, <2>4, <2>5, <2>6, <2>7, <2>8, <2>9 DEF Step
<1> QED
  BY <1>2, Invariance, PTL DEF Spec
=============================================================================
