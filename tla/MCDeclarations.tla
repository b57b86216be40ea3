--------------------------- MODULE MCDeclarations ---------------------------
(***************************************************************************)
(* Slices of scopes for Declarations.                                      *)
(***************************************************************************)
EXTENDS Declarations, TLC

ArraySymmetry == Permutations(Arrays)

Doc(actions, ids) == [kind |-> "doc", actions |-> actions, ids |-> ids]

\* None, the whole kind, two resources in one entry, and two entries that only
\* together come to both resources, one of them with a further action.
Mixed ==
    {<<>>, <<Doc(<<"read">>, {})>>, <<Doc(<<"read">>, {1, 2})>>,
     <<Doc(<<"read", "write">>, {1}), Doc(<<"read">>, {2})>>}
=============================================================================
