-------------------------- MODULE WorkContextCache --------------------------
(***************************************************************************)
(* The Work Context cache of one viewer request (solution.go,              *)
(* workContextCache, resolve and issue; authority.go, held).               *)
(*                                                                         *)
(* The gateway a handler is given and every gateway derived from it share  *)
(* one cache.  Goroutines of the handler ask it, concurrently, for the     *)
(* Work Context of an ask (its key).  The first to find nothing usable     *)
(* leads: it has the authority issue one, outside the lock; the others     *)
(* that ask meanwhile wait for its outcome or for their own context.       *)
(*                                                                         *)
(* A member of Calls is one invocation of resolve.  It also names the      *)
(* pendingMint that call creates if it leads and the token the authority   *)
(* issues for it, since a call leads at most once and the authority        *)
(* answers an issue with a context of its own.  A goroutine that resolves  *)
(* several times in a row is several calls, each begun after the previous  *)
(* one returned.                                                           *)
(***************************************************************************)
EXTENDS Integers, Refusals

CONSTANTS
    Calls,            \* the invocations of resolve one request makes
    Keys,             \* the asks they name: parent or module, binding, scopes
    Lifetimes,        \* validity an issued context may have left on arrival
    Renewal,          \* workContextRenewal
    MinimumLifetime,  \* workContextMinimumLifetime
    MaxTime,          \* bound on the clock, for model checking
    None              \* no call, no token, no pendingMint

ASSUME NoneAssumption == None \notin Calls /\ None \notin Keys
ASSUME LifetimesAssumption == Lifetimes \subseteq Nat
ASSUME LeadAssumption ==
    Renewal \in Nat \ {0} /\ MinimumLifetime \in Nat \ {0, 1} /\ MaxTime \in Nat

\* The errors of a call, by the status a page would be answered with: an
\* authority's refusal or failure (WorkContextRefusal.StatusCode), or one of
\* three that carry none.
Nil == 0          \* no error
Plain == 1        \* credential unreadable, or no usable Work Context issued
ContextDone == 2  \* the caller's own ctx.Err()
Errors == {Nil, Plain, ContextDone} \cup AuthorityStatuses

\* What resolve returns, and what a pendingMint holds: (token, err).
Outcomes == [token : Calls \cup {None}, err : Errors]
ASSUME NoneIsNoOutcome == None \notin Outcomes
Failed(err) == [token |-> None, err |-> err]
Issued(c) == [token |-> c, err |-> Nil]

VARIABLES
    pc,         \* where each call is
    ask,        \* the key each call names
    live,       \* whether each call's own context is still live
    joined,     \* inflight: the pendingMint a call leads or waits on
    outcome,    \* pendingMint.token, pendingMint.err
    until,      \* reuseUntil of the token a call's issue returned
    expires,    \* the expiry of that token
    returned,   \* what each call returned
    minted,     \* cache: key to token (with its reuseUntil)
    minting,    \* cache: key to pendingMint
    refused,    \* cache: key to error
    issuedFor,  \* cache: the tokens whose principals are remembered
    now         \* the clock

cache == <<minted, minting, refused, issuedFor>>
vars == <<pc, ask, live, joined, outcome, until, expires, returned,
          minted, minting, refused, issuedFor, now>>

\* A call between Lead and Settle, whose pendingMint is in c.minting.
Leading == {"issuing", "remembering", "settling"}
Finished == {"returned", "named", "unnamed"}
Places == {"new", "resolving", "waiting", "closing"} \cup Leading \cup Finished

Init ==
    /\ pc = [c \in Calls |-> "new"]
    /\ ask = [c \in Calls |-> None]
    /\ live = [c \in Calls |-> TRUE]
    /\ joined = [c \in Calls |-> None]
    /\ outcome = [c \in Calls |-> Failed(Nil)]
    /\ until = [c \in Calls |-> 0]
    /\ expires = [c \in Calls |-> 0]
    /\ returned = [c \in Calls |-> Failed(Nil)]
    /\ minted = [k \in Keys |-> None]
    /\ minting = [k \in Keys |-> None]
    /\ refused = [k \in Keys |-> Nil]
    /\ issuedFor = {}
    /\ now = 0

Goto(c, place) == pc' = [pc EXCEPT ![c] = place]

Return(c, result) ==
    /\ Goto(c, "returned")
    /\ returned' = [returned EXCEPT ![c] = result]

----------------------------------------------------------------------------
(* Entering resolve, and its first locked section.                         *)

\* ForParent, ForBinding, WorkContext or WorkContextPrincipals calls resolve.
Resolve(c, k) ==
    /\ pc[c] = "new"
    /\ Goto(c, "resolving")
    /\ ask' = [ask EXCEPT ![c] = k]
    /\ UNCHANGED <<live, joined, outcome, until, expires, returned, cache, now>>

\* time.Now().Before(issued.reuseUntil)
Usable(k) == minted[k] # None /\ now < until[minted[k]]

\* The ask was refused earlier in this request.
ReturnRefused(c) ==
    /\ pc[c] = "resolving"
    /\ refused[ask[c]] # Nil
    /\ Return(c, Failed(refused[ask[c]]))
    /\ UNCHANGED <<ask, live, joined, outcome, until, expires, cache, now>>

\* The cache holds a context that will outlive the call.
ReturnCached(c) ==
    /\ pc[c] = "resolving"
    /\ refused[ask[c]] = Nil
    /\ Usable(ask[c])
    /\ Return(c, Issued(minted[ask[c]]))
    /\ UNCHANGED <<ask, live, joined, outcome, until, expires, cache, now>>

\* Mutant of Follow: waits on any pendingMint, whatever it was asked for.
FollowAny(c) ==
    /\ pc[c] = "resolving"
    /\ refused[ask[c]] = Nil
    /\ ~Usable(ask[c])
    /\ \E k \in Keys :
        /\ minting[k] # None
        /\ joined' = [joined EXCEPT ![c] = minting[k]]
    /\ Goto(c, "waiting")
    /\ UNCHANGED <<ask, live, outcome, until, expires, returned, cache, now>>

\* Another call is already asking: wait on its pendingMint.
Follow(c) ==
    /\ pc[c] = "resolving"
    /\ refused[ask[c]] = Nil
    /\ ~Usable(ask[c])
    /\ minting[ask[c]] # None
    /\ Goto(c, "waiting")
    /\ joined' = [joined EXCEPT ![c] = minting[ask[c]]]
    /\ UNCHANGED <<ask, live, outcome, until, expires, returned, cache, now>>

\* Mutants of Lead: each drops one of the three checks before it.
LeadBesideAnother(c) ==
    /\ pc[c] = "resolving"
    /\ refused[ask[c]] = Nil
    /\ ~Usable(ask[c])
    /\ Goto(c, "issuing")
    /\ minting' = [minting EXCEPT ![ask[c]] = c]
    /\ joined' = [joined EXCEPT ![c] = c]
    /\ UNCHANGED <<ask, live, outcome, until, expires, returned,
                   minted, refused, issuedFor, now>>

LeadThoughCached(c) ==
    /\ pc[c] = "resolving"
    /\ refused[ask[c]] = Nil
    /\ minting[ask[c]] = None
    /\ Goto(c, "issuing")
    /\ minting' = [minting EXCEPT ![ask[c]] = c]
    /\ joined' = [joined EXCEPT ![c] = c]
    /\ UNCHANGED <<ask, live, outcome, until, expires, returned,
                   minted, refused, issuedFor, now>>

\* Nothing usable and nobody asking: create the pendingMint and ask.
Lead(c) ==
    /\ pc[c] = "resolving"
    /\ refused[ask[c]] = Nil
    /\ ~Usable(ask[c])
    /\ minting[ask[c]] = None
    /\ Goto(c, "issuing")
    /\ minting' = [minting EXCEPT ![ask[c]] = c]
    /\ joined' = [joined EXCEPT ![c] = c]
    /\ UNCHANGED <<ask, live, outcome, until, expires, returned,
                   minted, refused, issuedFor, now>>

----------------------------------------------------------------------------
(* The issue, outside the lock: the authority's answer as held takes it.   *)

\* Mutants of LeadTime: the lead is workContextRenewal whatever the lifetime;
\* one the lifetime cannot cover is dropped.
LeadTimeUncapped(lifetime) == Renewal

LeadTimeUnhalved(lifetime) == IF lifetime > Renewal THEN Renewal ELSE 0

\* The renewal lead held applies: half the lifetime, workContextRenewal at most.
LeadTime(lifetime) ==
    IF lifetime \div 2 < Renewal THEN lifetime \div 2 ELSE Renewal

\* Mutant of IssueAnswered: the token is handed on before it is remembered.
IssueAnsweredUnremembered(c) ==
    /\ pc[c] = "issuing"
    /\ \E lifetime \in Lifetimes :
        /\ lifetime >= MinimumLifetime
        /\ Goto(c, "settling")
        /\ outcome' = [outcome EXCEPT ![c] = Issued(c)]
        /\ expires' = [expires EXCEPT ![c] = now + lifetime]
        /\ until' = [until EXCEPT ![c] = now + lifetime - LeadTime(lifetime)]
    /\ UNCHANGED <<ask, live, joined, returned, cache, now>>

\* The authority issues a context with this much validity left.  One shorter
\* than workContextMinimumLifetime is an error and not a credential.
IssueAnswered(c) ==
    /\ pc[c] = "issuing"
    /\ \E lifetime \in Lifetimes :
        IF lifetime < MinimumLifetime
        THEN /\ Goto(c, "settling")
             /\ outcome' = [outcome EXCEPT ![c] = Failed(Plain)]
             /\ UNCHANGED <<until, expires>>
        ELSE /\ Goto(c, "remembering")
             /\ outcome' = [outcome EXCEPT ![c] = Issued(c)]
             /\ expires' = [expires EXCEPT ![c] = now + lifetime]
             /\ until' = [until EXCEPT ![c] = now + lifetime - LeadTime(lifetime)]
    /\ UNCHANGED <<ask, live, joined, returned, cache, now>>

\* The authority refuses, fails, or cannot be reached within
\* authorityCallTimeout or the leader's own context.
IssueRefused(c) ==
    /\ pc[c] = "issuing"
    /\ \E code \in Codes :
        outcome' = [outcome EXCEPT ![c] = Failed(RefusalStatus(code))]
    /\ Goto(c, "settling")
    /\ UNCHANGED <<ask, live, joined, until, expires, returned, cache, now>>

\* The workload's credential could not be read: no status of the authority's.
IssueUnasked(c) ==
    /\ pc[c] = "issuing"
    /\ outcome' = [outcome EXCEPT ![c] = Failed(Plain)]
    /\ Goto(c, "settling")
    /\ UNCHANGED <<ask, live, joined, until, expires, returned, cache, now>>

\* issue remembers whom the token acts for before it returns it.
Remember(c) ==
    /\ pc[c] = "remembering"
    /\ issuedFor' = issuedFor \cup {outcome[c].token}
    /\ Goto(c, "settling")
    /\ UNCHANGED <<ask, live, joined, outcome, until, expires, returned,
                   minted, minting, refused, now>>

\* Mutants of Settle: a refusal is not kept; every error is kept as a refusal.
SettleForgetting(c) ==
    /\ pc[c] = "settling"
    /\ minting' = [minting EXCEPT ![ask[c]] = None]
    /\ minted' = IF outcome[c].err = Nil
                 THEN [minted EXCEPT ![ask[c]] = outcome[c].token]
                 ELSE minted
    /\ Goto(c, "closing")
    /\ UNCHANGED <<ask, live, joined, outcome, until, expires, returned,
                   refused, issuedFor, now>>

SettleKeepingEveryError(c) ==
    /\ pc[c] = "settling"
    /\ minting' = [minting EXCEPT ![ask[c]] = None]
    /\ refused' = IF outcome[c].err # Nil
                  THEN [refused EXCEPT ![ask[c]] = outcome[c].err]
                  ELSE refused
    /\ minted' = IF outcome[c].err = Nil
                 THEN [minted EXCEPT ![ask[c]] = outcome[c].token]
                 ELSE minted
    /\ Goto(c, "closing")
    /\ UNCHANGED <<ask, live, joined, outcome, until, expires, returned,
                   issuedFor, now>>

\* resolve's second locked section.
Settle(c) ==
    /\ pc[c] = "settling"
    /\ minting' = [minting EXCEPT ![ask[c]] = None]
    /\ refused' = IF outcome[c].err \in LastingStatuses
                  THEN [refused EXCEPT ![ask[c]] = outcome[c].err]
                  ELSE refused
    /\ minted' = IF outcome[c].err = Nil
                 THEN [minted EXCEPT ![ask[c]] = outcome[c].token]
                 ELSE minted
    /\ Goto(c, "closing")
    /\ UNCHANGED <<ask, live, joined, outcome, until, expires, returned,
                   issuedFor, now>>

\* close(inflight.done), and the leader returns.
Close(c) ==
    /\ pc[c] = "closing"
    /\ Return(c, outcome[c])
    /\ UNCHANGED <<ask, live, joined, outcome, until, expires, cache, now>>

----------------------------------------------------------------------------
(* A follower's select, its context, and what the result is used for.      *)

\* Mutants of Wake: before done is closed; only when the leader succeeded.
WakeEarly(c) ==
    /\ pc[c] = "waiting"
    /\ Return(c, outcome[joined[c]])
    /\ UNCHANGED <<ask, live, joined, outcome, until, expires, cache, now>>

WakeOnSuccess(c) ==
    /\ pc[c] = "waiting"
    /\ pc[joined[c]] \in Finished
    /\ outcome[joined[c]].err = Nil
    /\ Return(c, outcome[joined[c]])
    /\ UNCHANGED <<ask, live, joined, outcome, until, expires, cache, now>>

\* <-inflight.done: the leader's outcome is this caller's outcome.
Wake(c) ==
    /\ pc[c] = "waiting"
    /\ pc[joined[c]] \in Finished
    /\ Return(c, outcome[joined[c]])
    /\ UNCHANGED <<ask, live, joined, outcome, until, expires, cache, now>>

\* <-ctx.Done()
GiveUp(c) ==
    /\ pc[c] = "waiting"
    /\ ~live[c]
    /\ Return(c, Failed(ContextDone))
    /\ UNCHANGED <<ask, live, joined, outcome, until, expires, cache, now>>

\* WorkContextPrincipals reads whom the returned token acts for.
Name(c) ==
    /\ pc[c] = "returned"
    /\ returned[c].err = Nil
    /\ Goto(c, IF returned[c].token \in issuedFor THEN "named" ELSE "unnamed")
    /\ UNCHANGED <<ask, live, joined, outcome, until, expires, returned, cache, now>>

\* The page goes away, or the caller's own deadline passes.
Cancel(c) ==
    /\ pc[c] \notin {"new"} \cup Finished
    /\ live[c]
    /\ live' = [live EXCEPT ![c] = FALSE]
    /\ UNCHANGED <<pc, ask, joined, outcome, until, expires, returned, cache, now>>

Tick ==
    /\ now < MaxTime
    /\ now' = now + 1
    /\ UNCHANGED <<pc, ask, live, joined, outcome, until, expires, returned, cache>>

\* Every call has returned and the clock has run out: the model stops.
Done ==
    /\ \A c \in Calls : pc[c] \in Finished
    /\ UNCHANGED vars

\* What a call does once begun, its turn at the lock included.
Step(c) ==
    \/ ReturnRefused(c) \/ ReturnCached(c) \/ Follow(c) \/ Lead(c)
    \/ IssueAnswered(c) \/ IssueRefused(c) \/ IssueUnasked(c)
    \/ Remember(c) \/ Settle(c) \/ Close(c)
    \/ Wake(c) \/ GiveUp(c)

Next ==
    \/ \E c \in Calls :
        \/ \E k \in Keys : Resolve(c, k)
        \/ Step(c)
        \/ Name(c)
        \/ Cancel(c)
    \/ Tick
    \/ Done

Spec == Init /\ [][Next]_vars

\* The runtime schedules every goroutine, a mutex is not held for ever, and
\* the authority's answer is bounded by authorityCallTimeout: a call that can
\* go on does.  No fairness for Resolve, Cancel, Name or the clock.
Fairness == \A c \in Calls : WF_vars(Step(c))
FairSpec == Spec /\ Fairness

----------------------------------------------------------------------------
(* What the cache promises.                                                *)

TypeOK ==
    /\ pc \in [Calls -> Places]
    /\ ask \in [Calls -> Keys \cup {None}]
    /\ live \in [Calls -> BOOLEAN]
    /\ joined \in [Calls -> Calls \cup {None}]
    /\ outcome \in [Calls -> Outcomes]
    /\ until \in [Calls -> Nat]
    /\ expires \in [Calls -> Nat]
    /\ returned \in [Calls -> Outcomes]
    /\ minted \in [Keys -> Calls \cup {None}]
    /\ minting \in [Keys -> Calls \cup {None}]
    /\ refused \in [Keys -> Errors]
    /\ issuedFor \subseteq Calls \cup {None}
    /\ now \in Nat

\* Two calls never have the authority asked for the same Work Context at once:
\* a handler that fans out spends one issue, not one per goroutine.
SingleFlight ==
    \A c, d \in Calls :
        c # d /\ pc[c] \in Leading /\ pc[d] \in Leading => ask[c] # ask[d]

\* While a context that will outlive the call is cached for an ask, nobody is
\* asking the authority for another.
NoIssueWhileUsable ==
    \A k \in Keys : Usable(k) => minting[k] = None

\* From the authority's refusal of an ask on, before the refusal reaches the
\* cache and after, no other call has that ask at the authority: one refusal
\* per request, not one per caller.
NoReaskAfterRefusal ==
    \A c, d \in Calls :
        /\ c # d
        /\ ask[c] = ask[d]
        /\ outcome[c].err \in LastingStatuses
        => pc[d] \notin Leading

\* A refusal the cache holds is kept, unchanged, for the life of the request.
RefusalsPersist ==
    [][\A k \in Keys : refused[k] # Nil => refused'[k] = refused[k]]_vars

\* A call that led or waited comes back with the outcome of that one issue,
\* complete, or, waiting, because its own context ended.
CallersShareTheOutcome ==
    \A c \in Calls :
        pc[c] \in Finished /\ joined[c] # None =>
            \/ /\ returned[c] = outcome[joined[c]]
               /\ returned[c] # Failed(Nil)
            \/ returned[c].err = ContextDone /\ ~live[c] /\ joined[c] # c

\* A token a call is handed was issued for the ask that call named, whichever
\* call had it issued.
TokensAreForTheirAsk ==
    \A c \in Calls :
        pc[c] \in Finished /\ returned[c].err = Nil =>
            /\ returned[c].token \in Calls
            /\ ask[returned[c].token] = ask[c]

\* Whom a token acts for is known before any call can hold the token, so
\* WorkContextPrincipals never answers that the issuance named nobody only
\* because it looked too early.
HeldTokensAreNamed ==
    /\ \A c \in Calls :
        pc[c] \in Finished /\ returned[c].err = Nil => returned[c].token \in issuedFor
    /\ \A k \in Keys : minted[k] # None => minted[k] \in issuedFor

\* A cached context handed to a call has, at that moment, more validity left
\* than the lead held takes from the shortest lifetime it accepts.
CachedContextsOutliveTheCall ==
    [][\A c \in Calls :
        pc[c] = "resolving" /\ pc'[c] = "returned" /\ returned'[c].err = Nil =>
            expires[returned'[c].token] - now > MinimumLifetime \div 2
              \/ expires[returned'[c].token] - now > Renewal]_vars

\* Every call comes back: a leader because the authority's answer is bounded,
\* a follower because its leader closes done whatever the outcome.
EveryCallReturns ==
    \A c \in Calls : pc[c] = "resolving" ~> pc[c] \in Finished

----------------------------------------------------------------------------
(* How the cache implements IssueOnce.                                     *)

Promise == INSTANCE IssueOnce WITH
    Results <- Outcomes,
    Kept <- {o \in Outcomes : o.err \in {Nil} \cup LastingStatuses},
    Final <- {o \in Outcomes : o.err \in LastingStatuses},
    Abandoned <- Failed(ContextDone),
    Nothing <- None,
    asked <- ask,
    waits <- {c \in Calls : joined[c] # None /\ pc[joined[c]] \in Leading},
    due <- [c \in Calls |-> IF joined[c] # None /\ pc[joined[c]] \notin Leading
                            THEN outcome[joined[c]] ELSE None],
    given <- [c \in Calls |-> IF pc[c] \in Finished THEN returned[c] ELSE None],
    flying <- {k \in Keys : minting[k] # None},
    kept <- [k \in Keys |-> IF refused[k] # Nil THEN Failed(refused[k])
                            ELSE IF minted[k] # None THEN Issued(minted[k]) ELSE None]

\* Every behaviour of the cache is one of IssueOnce.
ImplementsIssueOnce == Promise!Spec
=============================================================================
