------------------------------- MODULE Scopes -------------------------------
(***************************************************************************)
(* Scopes and ceilings: the pure part of contract.go and passthrough.go.   *)
(* A scope asks for actions on the resources of a kind; a ceiling is a     *)
(* slice of scopes.  The actions of a scope keep their slice, since a      *)
(* duplicate is refused; its resource ids are the set of them.             *)
(***************************************************************************)
EXTENDS Sequences, Functions

CONSTANTS
    Blank,  \* a kind or an action that is empty or padded with spaces
    Ids     \* the resources there are, named by a scope or not

\* A scope that could name an authority: a kind, and actions, none of them
\* blank or named twice.
NamesAuthority(scope) ==
    /\ scope.kind # Blank
    /\ scope.actions # <<>>
    /\ Blank \notin Range(scope.actions)
    /\ IsInjective(scope.actions)

\* checkScopes
CheckScopes(scopes) == \A scope \in Range(scopes) : NamesAuthority(scope)

\* Mutant of CoveredBy: an ask for the whole kind passes for one that names no
\* other resource.
CoveredByAnyIds(asked, allowed) ==
    /\ Range(asked.actions) \subseteq Range(allowed.actions)
    /\ allowed.ids = {} \/ asked.ids \subseteq allowed.ids

\* coveredBy: one entry of a ceiling covers an ask.  An entry with no ids covers
\* the whole kind; an ask with no ids is for the whole kind.
CoveredBy(asked, allowed) ==
    /\ Range(asked.actions) \subseteq Range(allowed.actions)
    /\ \/ allowed.ids = {}
       \/ asked.ids # {} /\ asked.ids \subseteq allowed.ids

\* withinCeiling: some one entry of the ask's kind covers it.
WithinCeiling(asked, ceiling) ==
    \E allowed \in Range(ceiling) :
        allowed.kind = asked.kind /\ CoveredBy(asked, allowed)

\* What a scope comes to: each action it allows on each resource.  Naming no
\* resource is naming the whole kind.
Rights(scope) ==
    {scope.kind} \X Range(scope.actions)
                 \X {id \in Ids : scope.ids = {} \/ id \in scope.ids}
=============================================================================
