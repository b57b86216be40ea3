----------------------------- MODULE IssueOnce ------------------------------
(***************************************************************************)
(* What resolve promises its callers, without the lock, the channel, the   *)
(* clock or the tokens.  Each ask is at the authority at most once at a    *)
(* time; the answer reaches everyone who waits for it in one step; a       *)
(* token or a refusal is kept, a refusal for good; a caller is given what  *)
(* was kept when it asked, the answer it waited for, or its own context's  *)
(* error.  The comments it states: "concurrent asks for the same one wait  *)
(* on it instead of each running their own" and "Refusals persist for this *)
(* viewer request; another caller must not re-ask" (workContextCache), and *)
(* "The leader's outcome is this caller's outcome" (resolve).              *)
(***************************************************************************)

CONSTANTS
    Calls,       \* invocations of resolve
    Keys,        \* what they ask for
    Results,     \* what the authority may answer an issue with
    Kept,        \* the results the cache keeps
    Final,       \* the kept results that are never replaced
    Abandoned,   \* a caller's own context ended
    Nothing      \* no ask, no result

\* The parameters are meant with Final \subseteq Kept \subseteq Results, and Nothing
\* in none of the sets.

VARIABLES
    asked,   \* the key of each call, once made
    waits,   \* the calls waiting for an answer that has not come
    due,     \* the answer a waiting call has coming
    given,   \* what each call was given
    flying,  \* the keys at the authority
    kept     \* what is kept of each key

vars == <<asked, waits, due, given, flying, kept>>

Init ==
    /\ asked = [c \in Calls |-> Nothing]
    /\ waits = {}
    /\ due = [c \in Calls |-> Nothing]
    /\ given = [c \in Calls |-> Nothing]
    /\ flying = {}
    /\ kept = [k \in Keys |-> Nothing]

Ask(c, k) ==
    /\ asked[c] = Nothing
    /\ asked' = [asked EXCEPT ![c] = k]
    /\ UNCHANGED <<waits, due, given, flying, kept>>

Deciding(c) ==
    /\ asked[c] # Nothing
    /\ c \notin waits
    /\ due[c] = Nothing
    /\ given[c] = Nothing

\* What is kept is given at once.  A kept result that is not final may have
\* lapsed, which this specification leaves open.
GiveKept(c) ==
    /\ Deciding(c)
    /\ kept[asked[c]] # Nothing
    /\ given' = [given EXCEPT ![c] = kept[asked[c]]]
    /\ UNCHANGED <<asked, waits, due, flying, kept>>

\* The call waits; the first to wait for a key takes it to the authority.
Wait(c) ==
    /\ Deciding(c)
    /\ kept[asked[c]] \notin Final
    /\ waits' = waits \cup {c}
    /\ flying' = flying \cup {asked[c]}
    /\ UNCHANGED <<asked, due, given, kept>>

\* The authority answers: everyone waiting has the answer coming.
Answer(k, result) ==
    /\ k \in flying
    /\ flying' = flying \ {k}
    /\ waits' = {c \in waits : asked[c] # k}
    /\ due' = [c \in Calls |-> IF c \in waits /\ asked[c] = k THEN result ELSE due[c]]
    /\ kept' = IF result \in Kept THEN [kept EXCEPT ![k] = result] ELSE kept
    /\ UNCHANGED <<asked, given>>

GiveDue(c) ==
    /\ due[c] # Nothing
    /\ given[c] = Nothing
    /\ given' = [given EXCEPT ![c] = due[c]]
    /\ UNCHANGED <<asked, waits, due, flying, kept>>

\* The caller's own context ends, with the answer still out or already due.
Abandon(c) ==
    /\ given[c] = Nothing
    /\ c \in waits \/ due[c] # Nothing
    /\ given' = [given EXCEPT ![c] = Abandoned]
    /\ UNCHANGED <<asked, waits, due, flying, kept>>

Next ==
    \/ \E c \in Calls :
        \/ \E k \in Keys : Ask(c, k)
        \/ GiveKept(c) \/ Wait(c) \/ GiveDue(c) \/ Abandon(c)
    \/ \E k \in Keys, result \in Results : Answer(k, result)

Spec == Init /\ [][Next]_vars
=============================================================================
