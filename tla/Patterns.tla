------------------------------ MODULE Patterns ------------------------------
(***************************************************************************)
(* The patterns operations are declared on, as net/http's mux matches them *)
(* against a request's escaped path, and the spelling of each under which  *)
(* its row is published and the authority is asked (operations.go).        *)
(*                                                                         *)
(* A pattern is a sequence of tokens, one for each segment; a token is a   *)
(* pair of its kind and its text.  A path is a sequence of segments as the *)
(* request escapes them, the last of them Empty if it ends in a slash.     *)
(***************************************************************************)
EXTENDS Naturals, Sequences

CONSTANT Paths      \* the request paths the mux may be asked about

Empty == "empty"    \* the empty string; as a segment, what follows a last slash

Lit(text) == <<"lit", text>>       \* text
One(name) == <<"one", name>>       \* {name}
Rest(name) == <<"rest", name>>     \* {name...}
Tree == <<"tree", Empty>>             \* nothing, after a last slash
End == <<"end", Empty>>               \* {$}
Bad(text) == <<"bad", text>>       \* a segment the mux cannot parse
Star(name) == <<"star", name>>     \* {name=**}, of a row

\* What a pattern given to the mux may hold.
PatternTokens == {"lit", "one", "rest", "tree", "end", "bad"} \X STRING

Names(pattern) == [i \in DOMAIN pattern |-> pattern[i][2]]
Final(pattern) == pattern[Len(pattern)]

----------------------------------------------------------------------------
(* http.ServeMux.                                                          *)

\* What registering a pattern panics on, but for conflicts.
WellFormed(pattern) ==
    \A i \in DOMAIN pattern :
        /\ pattern[i][1] # "bad"
        /\ pattern[i][1] \in {"rest", "tree", "end"} => i = Len(pattern)
        /\ \A j \in DOMAIN pattern :
              pattern[i] = pattern[j] /\ pattern[i][1] = "one" => i = j

Subtree(pattern) == Final(pattern)[1] \in {"tree", "rest"}

Accepts(token, segment) ==
    CASE token[1] = "lit" -> segment = token[2]
      [] token[1] = "one" -> segment # Empty
      [] token[1] = "end" -> segment = Empty
      [] OTHER -> TRUE

Matches(pattern, path) ==
    /\ \/ Len(path) = Len(pattern)
       \/ Subtree(pattern) /\ Len(path) > Len(pattern)
    /\ \A i \in DOMAIN pattern : Accepts(pattern[i], path[i])

\* No literal of the pattern is the segment.
Unspelled(segment, pattern) == \A i \in DOMAIN pattern : pattern[i] # Lit(segment)

\* A path the pattern matches: the segment wherever any will do.
Instance(pattern, segment) ==
    [i \in DOMAIN pattern |->
        CASE pattern[i][1] = "lit" -> pattern[i][2]
          [] pattern[i][1] = "end" -> Empty
          [] OTHER -> segment]

Covers(pattern) == {path \in Paths : Matches(pattern, path)}

\* Two patterns cannot both be registered if they match a common path and
\* neither is the more specific one.
Conflict(p, q) ==
    \/ p = q
    \/ /\ Covers(p) \cap Covers(q) # {}
       /\ Covers(p) \subseteq Covers(q) <=> Covers(q) \subseteq Covers(p)

\* The pattern of a request: the most specific of those that match it.
Picks(patterns, path, pattern) ==
    /\ pattern \in patterns
    /\ Matches(pattern, path)
    /\ \A other \in patterns : Matches(other, path) => Covers(pattern) \subseteq Covers(other)

\* Whether a match stands, or a path without its last slash may be redirected.
Exact(pattern, path) ==
    Subtree(pattern) => path[Len(path)] = Empty /\ Len(path) = Len(pattern)

\* The mux answers a path with a redirect to the same path and a slash.
Redirects(patterns, path) ==
    /\ path[Len(path)] # Empty
    /\ \A p \in patterns : Picks(patterns, path, p) => ~Exact(p, path)
    /\ \E p \in patterns : Picks(patterns, Append(path, Empty), p) /\ Exact(p, Append(path, Empty))

----------------------------------------------------------------------------
(* The spelling of a row.                                                  *)

RowToken(token) ==
    CASE token[1] = "end" -> Lit(Empty)
      [] token[1] = "tree" -> Star("path")
      [] token[1] = "rest" -> Star(token[2])
      [] OTHER -> token

\* servedRoute
ServedRoute(pattern) == [pattern EXCEPT ![Len(pattern)] = RowToken(Final(pattern))]

\* operationID: the method, and the segments with a wildcard by its name.  The
\* slashes a route ends in are trimmed.
OperationID(verb, route) ==
    <<verb, IF Final(route) = Lit(Empty) THEN SubSeq(Names(route), 1, Len(route) - 1)
            ELSE Names(route)>>
=============================================================================
