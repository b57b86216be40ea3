-------------------------------- MODULE Boot --------------------------------
(***************************************************************************)
(* A solution's boot, from what its author declares to the requests it     *)
(* answers (solution.go, Serve, start, loadConfig and serve; operations.go,*)
(* mountOperations and byMethod; mcp.go, ServeMCP and mountMCP;            *)
(* passthrough.go, mountPassthrough; passthrough_authority.go, openRelays).*)
(*                                                                         *)
(* /v1/<id>, the route the edge forwards, is one segment, and so are a     *)
(* relayed method's service and name.  What resolveContract refuses is     *)
(* Declarations' subject, and what a viewer's check answers                *)
(* ViewerRequest's: here each is either of its outcomes.                   *)
(***************************************************************************)
EXTENDS Integers, FiniteSets, Operations

CONSTANTS
    Declarable,     \* the operations the author may declare
    Surfaces,       \* the MCP surfaces: [named, policy]
    Consumable,     \* the modules: [as, methods, stands]
    Environments,   \* what a process may find around it; an endpoint in it is
                    \* [scheme, host] as it is spelled, the scheme blank in host:port
    Methods,        \* the methods of requests
    Decoded,        \* a path with its escapes decoded, which may read as more segments
    Loopback,       \* the hosts of the loopback interface
    MaxOperations,  \* bounds on a declaration, for model checking
    MaxModules

ASSUME BoundsAssumption == MaxOperations \in Nat /\ MaxModules \in Nat

Unset == -1         \* a port not given, or one that is no number
TCPPorts == 1..65535
NoAddress == [scheme |-> Empty, host |-> Empty]

VARIABLES
    manifest,      \* whether its id and frontend stand: "sound" or "unsound"
    operations,    \* Server.operations
    mcp,           \* Server.mcp: none, or the last surface declared
    mcpRedeclared, \* Server.mcpRedeclared: "no" or "yes"
    consumed,      \* Server.consumed
    place,         \* where Serve is
    cause,         \* what a refusal names
    env,           \* the environment this process found, if it looked
    connections,   \* the hosts connections were opened to
    dialled,       \* config.dialled: endpoints as they are spelled
    relays,        \* Server.relays: [as, binding]
    listener,      \* the address it listens on, if it does: [host, port]
    mux,           \* what the mux serves: pairs of an owner and a pattern
    request,       \* the request being served, if any: [method, path]
    asked,         \* the row the authority is asked about, if it is
    ran,           \* the operation that ran
    answer         \* what the request is answered

declaration == <<manifest, operations, mcp, mcpRedeclared, consumed>>
process == <<env, connections, dialled, relays, listener, mux>>
serving == <<request, asked, ran, answer>>
vars == <<declaration, place, cause, process, serving>>

MCPRoute == <<Lit("v1"), Lit("mcp")>>
RelayPath(module, method) == <<Lit("v1"), Lit("modules"), Lit(module.as), Lit(method)>>

Init ==
    /\ manifest \in {"sound", "unsound"}
    /\ operations = <<>>
    /\ mcp = {}
    /\ mcpRedeclared = "no"
    /\ consumed = <<>>
    /\ place = "declaring"
    /\ cause = Empty
    /\ env = {}
    /\ connections = {}
    /\ dialled = {}
    /\ relays = {}
    /\ listener = {}
    /\ mux = {}
    /\ request = {}
    /\ asked = {}
    /\ ran = {}
    /\ answer = Empty

----------------------------------------------------------------------------
(* The author.                                                             *)

Declaring == place = "declaring" /\ UNCHANGED <<manifest, place, cause, process, serving>>

DeclareOperation(op) ==
    /\ Declaring
    /\ Len(operations) < MaxOperations
    /\ operations' = Append(operations, op)
    /\ UNCHANGED <<mcp, mcpRedeclared, consumed>>

\* ServeMCP: the last call stands, and that there were several is recorded.
ServeMCP(surface) ==
    /\ Declaring
    /\ mcp' = {surface}
    /\ mcpRedeclared' = IF mcp = {} THEN mcpRedeclared ELSE "yes"
    /\ UNCHANGED <<operations, consumed>>

Consumes(module) ==
    /\ Declaring
    /\ Len(consumed) < MaxModules
    /\ consumed' = Append(consumed, module)
    /\ UNCHANGED <<operations, mcp, mcpRedeclared>>

----------------------------------------------------------------------------
(* What the declaration publishes.                                         *)

\* An operation the runtime declares of its own: no tool for an agent.
OwnOperation(path, policy) ==
    [path |-> path, method |-> "post", documented |-> TRUE, handlers |-> 1, policy |-> policy,
     tool |-> Empty, exclude |-> TRUE, streaming |-> FALSE]

Relayed == UNION {{OwnOperation(RelayPath(consumed[i], method), AnyCheckedCaller)
                   : method \in consumed[i].methods} : i \in DOMAIN consumed}

MCPOperations == {OwnOperation(MCPRoute, surface.policy) : surface \in mcp}

\* What InterfaceArtifact publishes, each with the operation it is declared as,
\* 0 for the MCP route and -1 for a relayed one.
Published ==
    {[by |-> i, op |-> operations[i]] : i \in DOMAIN operations}
        \cup {[by |-> 0, op |-> op] : op \in MCPOperations}
        \cup {[by |-> -1, op |-> op] : op \in Relayed}

\* Mutant of MCPStands: an operation may be declared at the MCP route.
MCPStandsBeside ==
    mcp # {} =>
        /\ mcpRedeclared = "no"
        /\ \A surface \in mcp : surface.named /\ PolicyStands(surface.policy)

\* validateMCPDeclaration
MCPStands ==
    mcp # {} =>
        /\ mcpRedeclared = "no"
        /\ \A surface \in mcp : surface.named /\ PolicyStands(surface.policy)
        /\ \A i \in DOMAIN operations : operations[i].path # MCPRoute

\* resolvePassthrough
PassthroughStands ==
    /\ \A i \in DOMAIN consumed : consumed[i].stands
    /\ \A i, j \in DOMAIN consumed : consumed[i].as = consumed[j].as => i = j

\* InterfaceArtifact, when it renders.
ArtifactRenders ==
    /\ MCPStands
    /\ PassthroughStands
    /\ DocumentStands(Published)

----------------------------------------------------------------------------
(* start.                                                                  *)

Advance(from, to) == place = from /\ place' = to /\ UNCHANGED <<declaration, cause, serving>>

Refuse(from, why) ==
    /\ place = from
    /\ place' = "refused"
    /\ cause' = why
    /\ UNCHANGED <<declaration, serving>>

\* Mutant of Mistake: the MCP declaration is left to mountMCP.
MistakeButMCP ==
    IF manifest = "unsound" THEN "manifest"
    ELSE IF ~TableStands(operations) THEN "operations"
    ELSE Empty

\* The first mistake of the author's own that start checks for.
Mistake ==
    IF manifest = "unsound" THEN "manifest"
    ELSE IF ~TableStands(operations) THEN "operations"
    ELSE IF ~MCPStands THEN "mcp"
    ELSE Empty

CheckDeclaration ==
    /\ IF Mistake = Empty THEN Advance("declaring", "configuring")
       ELSE Refuse("declaring", Mistake)
    /\ UNCHANGED process

\* PORT overrides the port of this service's own endpoint, and only the port.
Port(e) ==
    IF e.override # Unset THEN e.override
    ELSE IF e.self # {} THEN (CHOOSE s \in e.self : TRUE).port ELSE Unset
Host(e) == IF e.self # {} THEN (CHOOSE s \in e.self : TRUE).host ELSE Empty

\* config.nativeListener
NativeListener(e) == e.run = "local" /\ e.runtime \notin {"container", "kubernetes"}

\* Mutant of Unresolved: a native run may listen on any host of its endpoint's.
UnresolvedButHost(e) ==
    IF e.init = "identity" THEN "identity"
    ELSE IF Port(e) \notin TCPPorts THEN "port"
    ELSE IF e.authority = NoAddress THEN IF e.init = "carriers" THEN "carriers" ELSE "authority"
    ELSE IF e.token = Empty THEN "token"
    ELSE IF e.profile = Empty THEN "profile"
    ELSE Empty

\* Mutant of Unresolved: any number is a port.
UnresolvedButRange(e) ==
    IF e.init = "identity" THEN "identity"
    ELSE IF Port(e) = Unset THEN "port"
    ELSE IF e.authority = NoAddress THEN IF e.init = "carriers" THEN "carriers" ELSE "authority"
    ELSE IF e.token = Empty THEN "token"
    ELSE IF e.profile = Empty THEN "profile"
    ELSE IF NativeListener(e) /\ Host(e) \notin Loopback THEN "loopback"
    ELSE Empty

\* config.validate: what it names, in the order it looks.
Unresolved(e) ==
    IF e.init = "identity" THEN "identity"
    ELSE IF Port(e) \notin TCPPorts THEN "port"
    ELSE IF e.authority = NoAddress THEN IF e.init = "carriers" THEN "carriers" ELSE "authority"
    ELSE IF e.token = Empty THEN "token"
    ELSE IF e.profile = Empty THEN "profile"
    ELSE IF NativeListener(e) /\ Host(e) \notin Loopback THEN "loopback"
    ELSE Empty

\* loadConfig, and its validate.
LoadConfig(e) ==
    /\ IF Unresolved(e) = Empty THEN Advance("configuring", "resolving")
       ELSE Refuse("configuring", Unresolved(e))
    /\ env' = {e}
    /\ dialled' = {e.authority} \ {NoAddress}
    /\ UNCHANGED <<connections, relays, listener, mux>>

\* dialAuthority takes these schemes off the authority's endpoint.
AuthorityTarget(endpoint) ==
    IF endpoint.scheme \in {"http", "tcp"} THEN [scheme |-> Empty, host |-> endpoint.host]
    ELSE endpoint

\* dialModule: the URL whose admission is asked, and whose host is connected to.
AsURL(endpoint) ==
    IF endpoint.scheme \in {Empty, "grpc"} THEN [scheme |-> "http", host |-> endpoint.host]
    ELSE endpoint

\* resolvePassthrough, then dialAuthority.
DialAuthority(e) ==
    LET target == AuthorityTarget(e.authority)
    IN  /\ IF ~PassthroughStands THEN Refuse("resolving", "passthrough")
           ELSE IF target = NoAddress \/ AsURL(target) \notin e.admitted
                THEN Refuse("resolving", "address")
           ELSE Advance("resolving", "opening")
        /\ connections' = IF place' = "opening" THEN {AsURL(target).host} ELSE {}
        /\ UNCHANGED <<env, dialled, relays, listener, mux>>

Opened == Cardinality(relays)

\* Mutant of Dialling: what was dialled before is forgotten.
DiallingOnly(endpoint) == {endpoint}

Dialling(endpoint) == dialled \cup {endpoint}

\* One turn of openRelays: the module's two slots and its connection.
OpenRelay(e) ==
    /\ Opened < Len(consumed)
    /\ LET module == consumed[Opened + 1]
           slot == e.slots[module.as]
       IN  /\ slot.endpoint # NoAddress /\ slot.binding # Empty
           /\ AsURL(slot.endpoint) \in e.admitted
           /\ relays' = relays \cup {[as |-> module.as, binding |-> slot.binding]}
           /\ connections' = connections \cup {AsURL(slot.endpoint).host}
           /\ dialled' = Dialling(slot.endpoint)
    /\ Advance("opening", "opening")
    /\ UNCHANGED <<env, listener, mux>>

\* A module's slot is blank or its address not admitted: no relay is kept.
OpenRelayFails(e) ==
    /\ Opened < Len(consumed)
    /\ LET slot == e.slots[consumed[Opened + 1].as]
       IN  \/ slot.endpoint = NoAddress \/ slot.binding = Empty
           \/ AsURL(slot.endpoint) \notin e.admitted
    /\ relays' = {}
    /\ Refuse("opening", "relay")
    /\ UNCHANGED <<env, connections, dialled, listener, mux>>

\* resolveContract: see Declarations.
ResolveContract(resolves) ==
    /\ Opened = Len(consumed)
    /\ IF resolves THEN Advance("opening", "listening") ELSE Refuse("opening", "contract")
    /\ UNCHANGED process

Listen(e) ==
    /\ Advance("listening", "mounting")
    /\ listener' = {[host |-> IF NativeListener(e) THEN Host(e) ELSE Empty, port |-> Port(e)]}
    /\ UNCHANGED <<env, connections, dialled, relays, mux>>

ListenFails ==
    /\ Refuse("listening", "listen")
    /\ UNCHANGED process

----------------------------------------------------------------------------
(* serve.                                                                  *)

OwnPatterns == {<<Lit("well-known"), Lit("solution.json")>>,
                <<Lit("well-known"), Lit("capabilities")>>,
                <<Lit("well-known"), Lit("module-contract")>>,
                <<Lit("health")>>,
                <<Lit("assets"), Tree>>}

PassthroughPattern == <<Lit("v1"), Lit("modules"), Tree>>

\* What is registered and requested.  An operation's pattern has no empty segment
\* but the last: net/http redirects a path with one.  All patterns spell finitely
\* many segments, so some segment of a request is none of them; and a request may
\* be the instance of any operation's pattern with it.
ASSUME PathsAssumption ==
    /\ \A path \in Paths : path \in Seq(STRING)
    /\ \A op \in Declarable : op.path \in Seq(PatternTokens) /\ op.path # <<>>
    /\ \E fresh \in UNION {{path[i] : i \in DOMAIN path} : path \in Paths} :
          /\ fresh # Empty
          /\ \A p \in OwnPatterns \cup {PassthroughPattern, MCPRoute} : Unspelled(fresh, p)
          /\ \A op \in Declarable :
                Unspelled(fresh, op.path) /\ Instance(op.path, fresh) \in Paths

\* A relayed subtree, as every one, is a path template: core derives no marker
\* for it (operationMarker's comment).
ASSUME DerivableAssumption ==
    \A route \in Derivable : \A i \in DOMAIN route : route[i][1] # "star"

\* Everything serve registers, with whose it is.
Registered ==
    {<<"runtime", p>> : p \in OwnPatterns}
        \cup {<<"operations", operations[i].path>> : i \in DOMAIN operations}
        \cup {<<"passthrough", PassthroughPattern>> : i \in DOMAIN consumed}
        \cup {<<"mcp", MCPRoute>> : surface \in mcp}

\* net/http panics: a pattern it cannot parse, or two that conflict.
Panics ==
    \/ \E r \in Registered : ~WellFormed(r[2])
    \/ \E r, s \in Registered : r # s /\ Conflict(r[2], s[2])

\* serve, up to the first request: mountOperations and mountMCP return what
\* they refuse, and the mux panics.
Mount ==
    /\ place = "mounting"
    /\ place' = IF ~TableStands(operations) \/ ~MCPStands THEN "failed"
                ELSE IF Panics THEN "panicked" ELSE "serving"
    /\ mux' = IF place' = "serving" THEN Registered ELSE {}
    /\ UNCHANGED <<declaration, cause, env, connections, dialled, relays, listener, serving>>

Picked(path) == {m \in mux : Picks({n[2] : n \in mux}, path, m[2])}

\* byMethod, for an operation's path and for the MCP route.
DeclaredFor(method, pattern, ops) == {op \in ops : op.path = pattern /\ Verb(op) = method}

\* passthroughHandler: the decoded path is a declared method's, and the inner
\* mux matches the path as it was escaped.
RelayedAt(method, path) ==
    {op \in Relayed : method = "post" /\ Names(op.path) = Decoded[path] /\ Matches(op.path, path)}

\* What an entry of the mux runs, if anything.
Runs(m, method, path) ==
    CASE m[1] = "operations" ->
             DeclaredFor(method, m[2], {operations[i] : i \in DOMAIN operations})
      [] m[1] = "mcp" -> DeclaredFor(method, m[2], MCPOperations)
      [] m[1] = "passthrough" -> RelayedAt(method, path)
      [] m[1] = "runtime" -> {}

Dispatched(method, path) == UNION {Runs(m, method, path) : m \in Picked(path)}

Owners(path) == {m[1] : m \in Picked(path)}

\* A request no operation runs for, answered before the authority is asked.
Unasked(method, path) ==
    IF Redirects({m[2] : m \in mux}, path) THEN "redirect"
    ELSE IF Owners(path) = {} THEN "not_found"
    ELSE IF "runtime" \in Owners(path) THEN "served"
    ELSE IF "operations" \in Owners(path) /\ method = "options" THEN "preflight"
    ELSE IF "passthrough" \in Owners(path) /\ RelayedAt("post", path) = {} THEN "not_found"
    ELSE "not_allowed"

\* Mutant of AskedAbout: the operation is named by its declared path.
AskedAboutDeclared(op) == <<Verb(op), op.path>>

\* The row the authority is asked about for an operation (mountOperations,
\* asTheViewer, mcpViewer).
AskedAbout(op) == RowName(op)

Arrive(method, path) ==
    /\ place = "serving"
    /\ request = {}
    /\ request' = {[method |-> method, path |-> path]}
    /\ asked' = IF Redirects({m[2] : m \in mux}, path) THEN {}
                ELSE {AskedAbout(op) : op \in Dispatched(method, path)}
    /\ answer' = IF asked' = {} THEN Unasked(method, path) ELSE Empty
    /\ UNCHANGED <<declaration, place, cause, process, ran>>

Admitted ==
    /\ asked # {} /\ answer = Empty
    /\ ran' = UNION {Dispatched(r.method, r.path) : r \in request}
    /\ answer' = "ran"
    /\ UNCHANGED <<declaration, place, cause, process, request, asked>>

Denied ==
    /\ asked # {} /\ answer = Empty
    /\ answer' = "refused"
    /\ UNCHANGED <<declaration, place, cause, process, request, asked, ran>>

\* The next request may come.
Done ==
    /\ answer # Empty
    /\ request' = {} /\ asked' = {} /\ ran' = {} /\ answer' = Empty
    /\ UNCHANGED <<declaration, place, cause, process>>

\* Serve returned, or the process is gone.
Over == place \in {"refused", "failed", "panicked"} /\ UNCHANGED vars

Next ==
    \/ \E op \in Declarable : DeclareOperation(op)
    \/ \E surface \in Surfaces : ServeMCP(surface)
    \/ \E module \in Consumable : Consumes(module)
    \/ CheckDeclaration
    \/ \E e \in Environments : LoadConfig(e)
    \/ \E e \in env : DialAuthority(e) \/ OpenRelay(e) \/ OpenRelayFails(e) \/ Listen(e)
    \/ \E resolves \in BOOLEAN : ResolveContract(resolves)
    \/ ListenFails
    \/ Mount
    \/ \E method \in Methods, path \in Paths : Arrive(method, path)
    \/ Admitted
    \/ Denied
    \/ Done
    \/ Over

Spec == Init /\ [][Next]_vars

----------------------------------------------------------------------------
(* What a boot promises.                                                   *)

Causes == {Empty, "manifest", "operations", "mcp", "identity", "port", "carriers", "authority",
           "token", "profile", "loopback", "passthrough", "address", "relay",
           "contract", "listen"}

TypeOK ==
    /\ manifest \in {"sound", "unsound"} /\ mcpRedeclared \in {"no", "yes"}
    /\ operations \in Seq(Declarable) /\ Len(operations) <= MaxOperations
    /\ consumed \in Seq(Consumable) /\ Len(consumed) <= MaxModules
    /\ mcp \subseteq Surfaces
    /\ place \in {"declaring", "configuring", "resolving", "opening", "listening", "mounting",
                  "serving", "refused", "failed", "panicked"}
    /\ cause \in Causes /\ (cause = Empty <=> place # "refused")
    /\ env \subseteq Environments
    /\ \A l \in listener : l.port \in TCPPorts
    /\ mux \subseteq Registered
    /\ request \subseteq [method : Methods, path : Paths]
    /\ answer \in {Empty, "served", "redirect", "not_found", "not_allowed", "preflight",
                   "refused", "ran"}
    /\ ran # {} => asked # {} /\ answer = "ran"

\* The operation the authority is asked about is the one that runs, whatever a
\* path's escapes decode to and however patterns overlap: it is declared for the
\* request's method, its pattern matches the path as sent, and where the artifact
\* renders the row asked about is its own, with its policy (wrapRequest's comment).
CheckedRowIsRun ==
    \A op \in ran, r \in request :
        /\ ran = {op} /\ asked = {RowName(op)}
        /\ r.method = Verb(op) /\ Matches(op.path, r.path)
        /\ ArtifactRenders => \E p \in Published :
                /\ p.op = op
                /\ \A q \in Published : RowName(q.op) = RowName(op) => q = p

\* A declaration the boot or the mount refuses never leaves a listener open; and
\* what the author got wrong of the manifest, the operations and the MCP endpoint
\* is named as that in every environment, never as an address it lacks (start).
RefusalsComeInOrder ==
    /\ place \in {"refused", "failed"} => listener = {}
    /\ cause \notin {Empty, "manifest", "operations", "mcp"} =>
          manifest = "sound" /\ TableStands(operations) /\ MCPStands

\* Two registrations for the MCP route are never what net/http panics on
\* (validateMCPDeclaration).
MCPRouteNeverPanics ==
    place = "panicked" /\ mcp # {} =>
        \A i \in DOMAIN operations : ~Conflict(operations[i].path, MCPRoute)

\* A native run listens on its own endpoint's loopback host or not at all,
\* whatever PORT says; PORT moves only the port.
ListensWhereResolved ==
    \A l \in listener, e \in env :
        /\ l.port = Port(e)
        /\ NativeListener(e) => l.host \in Loopback

\* The endpoints a boot reads, as the composition spells them.
Spellings(e) == {e.authority} \cup {e.slots[consumed[i].as].endpoint : i \in DOMAIN consumed}

\* withoutRuntimeAddresses finds a host named in a tool's error by an endpoint
\* spelled as that host alone: with a scheme before it, it is not in the text.
SearchedFor(host) == \E endpoint \in dialled : endpoint.scheme = Empty /\ endpoint.host = host

\* Every host a connection was opened to is one of an endpoint the runtime keeps to
\* search a tool's error for, so where the composition spells endpoints as
\* endpoint references resolve (host:port) each is searched for; and once the boot
\* is past its relays each consumed module has one, so no declared method is
\* unknown to the relay (openRelays).
ConnectionsAreKnown ==
    /\ \A host \in connections : \E endpoint \in dialled : endpoint.host = host
    /\ \A e \in env : (\A endpoint \in Spellings(e) : endpoint.scheme = Empty) =>
          \A host \in connections : SearchedFor(host)
    /\ place \in {"listening", "mounting", "serving"} =>
          {r.as : r \in relays} = {consumed[i].as : i \in DOMAIN consumed}

\* In a rendered artifact a tool's name is one operation's, and that operation is
\* a read a request reaches: none is hidden behind another route.
ToolsNameOneRead ==
    place = "serving" /\ request = {} /\ ArtifactRenders =>
        \A p \in Published : Marked(p.op) =>
            /\ ReadOnly(p.op.policy)
            /\ \A q \in Published : Marked(q.op) /\ ToolName(q.op) = ToolName(p.op) => q = p
            /\ \E path \in Paths : Dispatched(Verb(p.op), path) = {p.op}

\* InterfaceArtifact's comment: "a route cannot be served without a row, nor
\* published without being served".
PublishedRoutesAreServed ==
    place = "serving" /\ request = {} /\ ArtifactRenders =>
        \A p \in Published : \E path \in Paths : p.op \in Dispatched(Verb(p.op), path)
=============================================================================
