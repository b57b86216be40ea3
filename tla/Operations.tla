----------------------------- MODULE Operations -----------------------------
(***************************************************************************)
(* The rules of operations.go over a declared operation and over a list of *)
(* them: what can be served, and what is published of it.                  *)
(*                                                                         *)
(* An operation is a record: its path, its method, whether it is           *)
(* documented, how many handlers it names, its policy, the tool it names   *)
(* itself, and whether it streams or is excluded from agents.  A policy is *)
(* a set: empty for nil, else with the one declaration.                    *)
(***************************************************************************)
EXTENDS Patterns

CONSTANT
    ToolNames,     \* the names a tool may have
    Derivable      \* the routes corerunnable.RouteMarker derives a marker for

ServedMethods == {"get", "head", "post", "put", "patch", "delete"}
Declare(requires, any) == {[requires |-> requires, any |-> any]}
AnyCheckedCaller == Declare({}, TRUE)

Verb(op) == IF op.method = Empty THEN "get" ELSE op.method

\* Policy.validate
PolicyStands(policy) ==
    \E declared \in policy :
        /\ declared.any <=> declared.requires = {}
        /\ \A r \in declared.requires :
              /\ r.kind # Empty /\ r.actions # <<>>
              /\ \A i \in DOMAIN r.actions : r.actions[i] # Empty

\* Policy.readOnly
ReadOnly(policy) ==
    \E declared \in policy :
        /\ ~declared.any /\ declared.requires # {}
        /\ \A r \in declared.requires : r.actions = <<"read">>

\* Operation.validate
OperationStands(op) ==
    /\ op.documented
    /\ op.handlers = 1
    /\ Verb(op) \in ServedMethods
    /\ op.tool # Empty =>
          op.tool \in ToolNames /\ ~op.exclude /\ ~op.streaming /\ ReadOnly(op.policy)
    /\ PolicyStands(op.policy)

SameEntry(op, other) == op.path = other.path /\ Verb(op) = Verb(other)

\* operationTable, when it refuses none.
TableStands(ops) ==
    /\ \A i \in DOMAIN ops : OperationStands(ops[i])
    /\ \A i, j \in DOMAIN ops : SameEntry(ops[i], ops[j]) => i = j

----------------------------------------------------------------------------
(* The interface document.                                                 *)

\* operationMarker: whether the operation is published as a tool.
Marked(op) ==
    ~op.exclude /\ ~op.streaming /\ ReadOnly(op.policy) /\ ServedRoute(op.path) \in Derivable

\* "<VERB> <template>": what a row is published as and the authority asked about.
RowName(op) == <<Verb(op), ServedRoute(op.path)>>
Id(op) == OperationID(Verb(op), ServedRoute(op.path))

\* The name a model calls it by: its own or its operationId, told apart by how
\* they are written.
ToolName(op) == IF op.tool # Empty THEN <<"tool", op.tool>> ELSE Id(op)

\* Mutant of DocumentStands: two routes may have one operationId.
DocumentStandsById(published) ==
    /\ \A p \in published : OperationStands(p.op)
    /\ \A p, q \in published :
          \/ RowName(p.op) = RowName(q.op)
          \/ p.op.tool # Empty /\ p.op.tool = q.op.tool
          => p = q

\* swaggerDocument, when it refuses none of the operations it is given, each
\* with where it is declared.
DocumentStands(published) ==
    /\ \A p \in published : OperationStands(p.op)
    /\ \A p, q \in published :
          \/ RowName(p.op) = RowName(q.op)
          \/ Id(p.op) = Id(q.op)
          \/ p.op.tool # Empty /\ p.op.tool = q.op.tool
          => p = q
=============================================================================
