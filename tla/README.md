# A formal model of solution-runtime-go

TLA+ modules that model the solution runtime, TLC configurations that check them on small
instances, and TLAPS proofs of the properties that matter most. Everything is translated from
the Go source at the repository's root; `PROJECT.json` names, for every definition, the lines it
stands for.

To check: `tlc -config <run>.cfg <module>.tla` for the runs below, `tlapm <module>.tla` for the
eight `...Proofs` modules.

## 1. The system

A *solution* is a Go process that serves pages, REST and Connect operations and MCP tools for
people who are signed in elsewhere. Every request carries a *Work Context*, a credential an
*authority* issued; the runtime has the authority check it, and to call another module on the
viewer's behalf has the authority issue a child of it, narrowed to an audience and to scopes.

| Component | State it keeps | Operations | Interacts with | Modelled |
|---|---|---|---|---|
| Work Context cache (`solution.go`: `workContextCache`, `resolve`, `issue`; `authority.go`: `held`) | per request, under one mutex: `minted`, `minting`, `refused`, `issuedFor` | `resolve`, `issue`, `WorkContextPrincipals` | the handler's goroutines call it; it calls the authority outside its lock | `WorkContextCache`, `IssueOnce` |
| Relayed streams (`stream.go`) | a goroutine, a timer and its function's goroutine, an atomic flag, three nested contexts | `relayStream` | module's gRPC stream, page's connection | `RelayStream` |
| Contract and ceilings (`contract.go`; `passthrough.go`: `Consumes`, `resolvePassthrough`) | the declarations frozen at the boundary, the routes, the published bindings | `Contract`, `Consumes`, `start`, `ContractArtifact`, `handleContract` | the author's slices; the relayed calls that ask what was declared | `Declarations`, `Scopes` |
| Requests served as the viewer (`solution.go`: `wrapRequest`; `gateway_error.go`; `passthrough_authority.go`; `mcp.go`) | none beyond the request | check, derive, issue, call, answer | authority, modules, the author's handlers and tools | `ViewerRequest`, `Refusals` |
| Authority client (`authority.go`) | a connection | `viewer`, `issueChild`, `ForParent`, `ForBinding` | authority | partly, in `ViewerRequest`, `WorkContextCache`, `Declarations` |
| Passthrough (`passthrough.go`, `passthrough_authority.go`) | routes and relays, fixed at the boot | `mountPassthrough`, `openRelays`, `relay`, `relayStream`, `applyPin`, `answer` | Connect handlers, modules | `Declarations`, `Boot`, `ViewerRequest`, `RelayStream`, `Messages` |
| MCP endpoint (`mcp.go`) | the declared surface | `ServeMCP`, `mountMCP`, `mcpViewer` | SDK server | partly, in `Boot`, `ViewerRequest` (not the walk of a structured result) |
| Boot and serving (`solution.go`) | configuration, mux, listener | `start`, `loadConfig`, `serve`, `listen` | all of the above | `Boot` |
| Operation table and dispatch (`operations.go`) | the table, fixed at the boot | `operationTable`, `mountOperations`, `byMethod`, `servedRoute` | mux, authority's route check | `Patterns`, `Operations`, `Boot` |
| Policies and markers (`operations.go`) | none | `validate`, `readOnly`, `operationMarker` | interface document | `Operations` |
| Field masks and pins (`protowire.go`, `passthrough.go`) | none | `NewFieldMask`, `Apply`, `prune`, `paths`, `applyPin` | passthrough's calls and answers | `FieldMasks`, `Messages` |
| Interface document (`operations.go`) | the definitions, while it is rendered | `InterfaceArtifact`, `schemaFor`, `structSchema`, `messageSchema` | every operation's types | partly: rows in `Operations`, definitions in `Definitions`, response fields in `Messages` |
| Manifest and frontend, assets | none that changes | parsing, file serving | | no: formats and pure I/O |

What is hard here, and what each part must guarantee:

* **Cache.** Several goroutines of a handler ask at once, the issue runs outside the lock, and the
  clock runs through cached contexts. The authority is asked once per ask, a refusal is final for
  the request and a failure is not, everybody who waited gets the same outcome, nobody waits for
  ever, and a token is never handed out for another ask or about to lapse.
* **Streams.** A timer whose function may already be started when it is stopped, a duration, a
  page that leaves and a module that ends, all at once. A stream is told as complete only when it
  is, and it always ends.
* **Declarations.** Go slices alias. What the author writes into one after the boot must change
  neither the published contract nor an ask, and no ask may exceed what was published.
* **Requests.** One error passes through up to four mappings before it is answered, on four
  surfaces. A refusal and an outage stay apart, the authority's reason arrives, no call of the
  runtime's own is answered with an address, and nothing runs before the Check succeeds.
* **Boot.** What the author declared and what the environment supplies are checked in turns, by
  different functions, and a mux panics on what nobody checked. A refusal comes before the listener
  and names what is wrong; the authority is asked about the operation that runs, though the two are
  found from the request separately; every connection is of an endpoint a tool's answer is searched
  for.
* **Messages.** A mask and a pin are declared once and walked over every message: nested, repeated,
  in maps, in a oneof. What the page receives is what was declared, what the document says is what
  it receives, and a page cannot undo a pin. A document of types that refer to each other ends in
  references and is closed.

The hazards, each at its line and with the properties that would catch it, are in `PROJECT.json`.

## 2. The modules

### `Refusals`: the mappings of codes and statuses

One operator per mapping of the code: `RefusalStatus` (`refusalStatus`), `CheckError` (`viewer`),
`GatewayStatus` and `GatewayCode` (`wrapRequest`, `asTheViewer`), `CodeForStatus`,
`StatusForCode` and `RelayableStatus` (`handlerErrorResponse`), `RelayedRefusal` and
`ModuleRefusal`. All sixteen gRPC codes are there: the run of `ViewerRequest` tries each at each
place one can arise. The other modules use these operators rather than a choice of outcomes, so an
error in a mapping shows in their properties.

### `WorkContextCache`: one request's cache

A member of `Calls` is one invocation of `resolve`. `pc` is where it is:

| `pc` | code |
|---|---|
| `resolving` | about to take the mutex for the first time |
| `issuing` | the leader, inside `held`, no lock held |
| `remembering` | `issue`'s own locked write of `issuedFor` |
| `settling` | about to take the mutex again |
| `closing` | before `close(inflight.done)` |
| `waiting` | the follower's `select` |
| `returned`, `named`, `unnamed` | back in the handler; with its principals, or told there are none |

Each locked section is one action (`ReturnRefused`, `ReturnCached`, `Follow` and `Lead` are the
four ways through the first, `Settle` the second): between them every interleaving is possible.
`IssueAnswered`, `IssueRefused` and `IssueUnasked` are the outcomes of `held`, the last one the
credential the process could not read. `Cancel` ends a caller's own context, `Tick` moves the
clock. `minted`, `minting`, `refused` and `issuedFor` are the four maps; a `pendingMint` and a
token are named by the call that created them, for a call leads at most once.

Abstracted: token bytes, principals (a token is remembered or not), and the authority's own
context checks. The lifetimes are whole units of time, with `LeadTime` computed as in the code.

### `IssueOnce`: what the cache promises

The abstract specification, without lock, channel, clock or token: per ask at most one issue is
out (`flying`), everyone that waits when it is answered is due its result, a kept result may be
given or forgotten, a final one is never forgotten. `WorkContextCache` implements it under the
mapping at the end of that module (`ImplementsIssueOnce`): `Settle` is the answer to everyone who
waits, the ways through the first locked section are `GiveKept` and `Wait`, and the issue itself,
the clock and a caller's cancellation are stutters.

### `RelayStream`: one streamed call

`pc` walks `relayStream` line by line, since its races are between single lines: `Disarm` (`Stop`),
`Check` (`late.Load`), `Send`, the two cases of the closing `switch` that read different variables.
The timer is armed, stopped, or *started*, and its function then stores `late` and cancels in two
more steps (`Fire`, `StoreLate`, `CancelStream`). A context is live or ended with its reason; ending
`ctx` ends `streaming` in the same step. The module may send for ever, end with any status, or do
neither; gRPC's flow control holds it to `Window` messages that `RecvMsg` has not returned
(`buffered`), and `undelivered` counts those not yet written to the page. `Sever` is the gRPC
client's own goroutine, which ends a stream whose context has ended: without it a module that keeps
sending would keep the loop going past the end, for `RecvMsg` returns what is buffered first.

### `Declarations` and `Scopes`: authority declared, published and asked

A slice is a *reference*, to one of the author's arrays or to a copy; `Write` changes an array at
any time. `FrozenScopes` and `AskedScopesOf` are the copies the code makes, and any place the code
would keep the author's slice instead keeps a reference here. `Boot` is `start`'s
`resolvePassthrough` and `resolveContract` over the stored declaration, `RenderArtifact` the
document a build renders from it, `Relay` and `Derive`/`Issue` what a serving process asks the
authority for. `Scopes` has the comparison (`CoveredBy`, `WithinCeiling`) and the reference it is
held to: `Rights(scope)`, the pairs of action and resource a scope comes to, with no ids standing
for the whole kind.

### `ViewerRequest`: one request, to its answer

The four surfaces (REST, Connect, relayed call, MCP tool) share their first steps and differ in how
an error becomes an answer. An error is a record of its Go type, the status or code it carries,
whose words it has (the authority's `reason`, the author's `own`, a transport's, or `generic`) and where it arose. A
transport's words name an address as the runtime is configured with it (`address`) or as it was
dialled (`target`: without its scheme, resolved). `AuthorErrors` has every kind of error a handler's
own calls end in: a Connect call's, an HTTP call's, and a gRPC call's over the hop, which is of no
kind the runtime knows. `AnswerRest`, `AnswerConnect`, `AnswerRelay` and `AnswerTool` are the
surfaces' mappings; `WithoutRuntimeAddresses` finds `address` in a tool's result, and not `target`.

### `Patterns`, `Operations` and `Boot`: from a declaration to the mux

`Patterns` is net/http's mux over patterns of segments: `Matches`, precedence, `Conflict` (what it
panics on), and the spellings `servedRoute` and the published row give a pattern. A path is a
sequence of segments as the request escapes them; `Decoded` is what it reads as once decoded, which
may have more segments. `Operations` has what can be declared: `Policy.validate`, `readOnly`,
`Operation.validate`, `operationMarker`, the table and what the rendered artifact refuses. `Boot`
is one process: the author's calls in any order, then `start` in its order (`CheckDeclaration`, the
environment, the passthrough, the relays one at a time, the listener), then `serve` filling the mux,
then one request at a time. A boot is refused with a `cause`, or panics where the mux would. An
endpoint is a scheme and a host, as the environment spells it: `AuthorityTarget` and `AsURL` are what
is taken off and put before it on the way to a connection, `dialled` keeps it as it was spelled, and
`SearchedFor` says for which hosts that is enough to find them in a text.

### `Definitions`, `FieldMasks` and `Messages`: what is described, allowed and pinned

`Definitions` is the walk that describes a document's types, as an explicit stack: a shape met is
described where it stands, refused, referred to, or registered under its name and then described; a
pointer, slice, array or map (`Containers`) is described by its element and registered under no name.
`FieldMasks` has a message as a function from its *places*, the sequences of steps that lead to what
is in it, to what is there: a step is a field with its element in a list or its key in a map, what
is there a message's type or a scalar. On it are `Resolves` and `PathsOf` (`NewFieldMask`, `paths`),
what one call of `prune` clears and goes into (`Disallowed`, `Deeper`), and where reading one field
of a pin's wire form puts it and what makes room (`Landing`, `Displaced`, `Put`). `Messages` is one
method: its mask, pin and document declared, its calls sent under them and its answers returned.
`prune` and the merge of a pin recurse in the code; here each is a walk, one action for each call
of `prune` (`Prune`, with `visits` the calls still to be made) and for each place of the pin read
(`ApplyPin`, with `landed` where the earlier ones were put). `visits` is a set, so the calls are
taken in every order: that the order does not matter is part of what is shown. `Messages` also
implements `Definitions` (`Describes`): its document is described by the same walk.

Two facts about the code shape the properties. `prune` walks the fields the descriptor declares, so
`ReturnedIsAllowed` speaks of those only; what becomes of a field a newer module added is finding 4
(`NewFieldsAreDropped`). And two Go types of one name, or one named as the failures are, share a
definition (`operations.go:601`): `ReferencesResolve` says which shape a reference leads to only
where the name is one shape's.

## 3. What is checked

| Run | Shows | Size |
|---|---|---|
| `cache` | `SingleFlight`, `NoIssueWhileUsable`, `NoReaskAfterRefusal`, `CallersShareTheOutcome`, `TokensAreForTheirAsk`, `HeldTokensAreNamed`, `CachedContextsOutliveTheCall`; that the cache implements `IssueOnce` | 1.2 million states |
| `cache_returns` | every call of `resolve` comes back | one ask, no symmetry |
| `stream` | a stream told complete is; a stream the runtime cut is never told as one the module refused; a silent module is cut; an ended context ends the stream, though the module sends for ever | 31 thousand states |
| `stream_answered` | **violated**: finding 1 | |
| `stream_stalled` | **violated**: finding 2 | |
| `declarations` | asks narrow something, are within the published ceiling and among the published asks, and are what a gateway's key names; the document does not change; a declaration whose artifact was rendered is not refused for its contract | 376 thousand states |
| `request` | refusals and outages stay apart; reasons and codes reach the caller; only a call of the author's own is answered with an address; nothing runs unchecked; relayed calls and authority calls end | 10 thousand states, all codes |
| `boot` | the row the authority is asked about is the operation's that runs; refusals come before the listener, the author's mistakes before the environment's; the MCP route never panics; a process listens where it resolved, a native one on loopback; every connection is of an endpoint kept to be searched for, and is searched for where it is spelled `host:port`; a tool's name is one reachable read | 499 thousand states |
| `boot_published` | **violated**: finding 3 | |
| `messages` | the page receives what the mask allows and the document says; no declared mask panics; a pin stands; references resolve and self-references end in them | 54 thousand states |
| `messages_unknown` | **violated**: finding 4 | |
| `messages_recursive` | **violated**: finding 5 | |

Each property of a passing run has a mutant in `PROJECT.json`: a plausible error in one definition
(defined beside it, marked *Mutant of*) under which that run finds the property violated.

### Bounds

* `Calls` = 3, `Keys` = 2. Three calls on one ask are a leader, a follower and a call that arrives
  after the outcome; two asks are enough to confuse one with another. Calls and keys are
  interchangeable, so safety runs use symmetry; the liveness run does not, and has one key.
* `Lifetimes` {1, 2, 6} with `Renewal` 3, `MinimumLifetime` 2, `MaxTime` 3: one lifetime too short
  to accept, one whose lead is half of it, one whose lead is the cap; the reuse deadline of both
  accepted ones is passed before the clock stops.
* `Window` = 2: how far a module may be ahead of `RecvMsg`, not how much it sends, which has no bound.
  A stream can so have nothing buffered, one message, or one more behind the one in hand.
* Two arrays let a method override its module's scopes; four slices are nothing, a whole kind, two
  resources in one entry, and two entries that only together come to both, one with a further
  action. One module of one method, and two profiles, of which an artifact is held to both and
  a boot to one. The proofs have no such bounds.
* `MaxOperations` = 2, `MaxModules` = 2 over fifteen operations, two MCP surfaces, two modules,
  eighteen environments and twenty paths. Conflicts, shadowing and shared names are between two
  operations, or one and a route of the runtime's; the paths have one of every kind the patterns
  tell apart, one of them with an escaped slash; of the environments most lack one thing, two have a port one
  past a boundary, and three spell endpoints with schemes: ones taken off, one that leaves nothing,
  one only the authority's may have. `PathsAssumption`, which TLC evaluates, asks that the paths have an instance
  of every pattern with a segment no pattern spells (here `z`): without it a wildcard would seem to
  match nothing a literal beside it does not.
* Messages: every mask of at most two of twelve paths (a parent and its child, a list, a map, a
  path into what is no message, an unknown field) and one over another message, four answers, four requests, four pins, four
  lists of values to describe, over a message that contains itself and slices and maps of types that
  lead back to them; `messages_recursive` has a map of itself instead.
* `HandlerStatuses` has a status of every class the mappings treat apart.

### Fairness

* Cache: `WF(Step(c))` for each call. Goroutines are scheduled, the mutex is held for a few map
  operations only, and the authority's answer is bounded by `authorityCallTimeout`. Nothing is
  assumed of new calls, of cancellation, or of the clock.
* Stream: weak fairness of the goroutine, of the timer and of the gRPC client's goroutine that ends a
  stream whose context has ended (`Sever`); of `Send` in `ReadingSpec` (the page
  reads), of the duration elapsing in `StalledSpec`. Nothing is assumed of the module.
* Request: `WF(Runtime)`, which includes the two timeouts and not the answers: the authority, the
  module and the author may all be silent. A handler that never returns holds its request, which
  is why `RelayedCallsEnd` speaks of relayed calls only.

## 4. What the model says of the code

1. *A stream with a message is cut as one that did not start* (`stream.go:113`). The timer's
   function may have been started before `Stop` and store `late` after the loop read it.
   `passthrough.go:104` says the stream after the first message is bounded by `MaxStreamDuration`
   alone.
2. *A page that stops reading outlives the duration* (`stream.go:116`): `Send` blocks, and neither
   `ctx` nor a write timeout bounds it.
3. *A published route may not be served* (`passthrough.go:339`): an operation declared for another
   method at a relayed method's own path is the more specific pattern, and `byMethod` answers the
   relayed POST with 405. `passthrough.go:589` says a route is not published without being served.
4. *A field a newer module adds passes every mask* (`protowire.go:132`): `proto.Clone` keeps unknown
   fields and `prune` visits declared ones. `passthrough.go:85` and `protowire.go:52` say it is
   dropped. It reaches a page that takes binary protobuf; protojson drops it.
5. *A container of itself is described for ever* (`operations.go:607`): `type Tree map[string]Tree`
   registers nothing. `operations.go:576` says a self-referencing shape terminates in a `$ref`.

In four more places what a document says holds of part of the code only. The model has all of it, and
a property of a passing run says exactly which part:

* `README.md:96` says a transport failure never names its destination. A gRPC call of a handler's own,
  over the hop, fails with an error that is neither a `connect.Error` nor a `url.Error`, and returned
  as it is it is answered verbatim at 502 (`gateway_error.go:78`, whose comment leaves such errors to
  the author). `OnlyAuthorsCallsNameAddresses`: this and a tool's own result are the only ways.
* `mcp.go:334` says a result that names an address the runtime dialled is replaced. The list keeps an
  endpoint as it is spelled (`solution.go:340`, `passthrough_authority.go:89`), and the connection goes
  to what is left without `http://`, `tcp://` or `grpc://`, which is what an error names.
  `ConnectionsAreKnown`: every host connected to is in the list under some spelling, and is found where
  endpoints are spelled `host:port`, as endpoint references resolve.
* `gateway_error.go:88` says the code is the authority's own when the refusal is. A Check refused with
  NotFound, FailedPrecondition or OutOfRange reaches a Connect caller with a code made from its status.
  `RefusalsReachTheCaller`: an ask's code is kept, and every reason; and `RefusalsAndOutagesAreToldApart`: a refused
  Check still reads as a refusal.
* `contract.go:389` says a document that would refuse to boot cannot be published. The artifact is held
  to `checkContract`, the boot to `resolvePassthrough` as well, so a module that declares no scopes
  renders and does not boot. `RenderedContractsResolve`: for its contract it is never refused.

Two comments disagree about a streaming method's `Timeout`: `README.md:560` says it bounds the issue
only, `passthrough.go:104` the module's first message as well. The code, and so the model, does the
latter. A declaration the mux panics on at the boot (an operation on a route of the runtime's own,
two templates that differ in a wildcard's name) panics after the listener opened; only the MCP
route's collisions are refused before, and only of those does the code promise it.

## 5. What is proved

For any number of calls, asks, modules, methods, scopes and author's writes, and with no bound on
the clock but a natural number.

**`WorkContextCacheProofs`.** From `NoneAssumption`, `LifetimesAssumption` and `LeadAssumption`
(the minimum lifetime is at least two units, the renewal positive). The properties are not
inductive as stated: `SingleFlight` holds because `minting` names the one call between `Lead` and
`Settle`, and nothing in the property says so. The invariant `IInv` adds, as named parts, that a
call is leading exactly when `minting` of its ask names it; that a follower waits on a call that
led the same ask; that an outcome is set from the answer on and is a token of the call itself or
an error; that cached tokens are named, for their ask, and their reuse deadline precedes their
expiry by the lead; and that a refusal kept is some call's outcome. From `Invariance`
(`Spec => []IInv`): `TypeCorrect`, `AtMostOneIssuePerAsk`, `NothingIssuedWhileUsable`,
`RefusedOnce`, `OneOutcome`, `TokensMatchTheirAsk`, `PrincipalsAreKnown`, and the action properties
`RefusalsAreForGood` and `CachedContextsLast`.

Two more theorems are what `EveryCallReturns` rests on beside fairness: `NobodyWaitsInACircle` (who
waits, waits for a call that does not) and `CallsOnlyGoOn` (every step of a call leaves it fewer to
take, the other calls' steps none more).

**`IssueOnceProofs`.** `CacheImplementsIssueOnce`: the cache implements its abstract specification.
It rests on the same invariant, on `NoneIsNoOutcome` (the value for no outcome is none), and on the
fact that a call which has not begun names no ask. There is one lemma per step of the promise.
`SettleAnswers` is the heart of it: everyone who waits for an ask has joined the one leader of it,
so clearing `minting` of that ask is the answer to exactly those.

**`DeclarationsProofs`.** From the assumptions of `Declarations` and `Scopes`. The invariant says
that a stored slice is a copy, never a reference, so that `Read` of it does not depend on what the
author holds; and that a serving process's routes and bindings are those of its one stored
declaration, which passed the boot's checks. From it: `TypeCorrect`, `AuthorityIsWithinTheContract`
(with a lemma that `CoveredBy` implies inclusion of rights), `AsksAreAsPublished`,
`GatewaysAskTheirKey`, `ContractsAreFixed`; and `RenderedContractsBoot`, for which `ChecksAreKept` says
that a step which leaves the stored declaration alone leaves the outcome of its checks alone.

**`RelayStreamProofs`.** The invariant says how many messages have reached the page at each place
of the loop (what is undelivered is what is buffered and the one in hand), that the module's end is read only
after its last message, and why the stream ends: a context is cancelled only after `late` is set or
the page has gone, and what the last call returned has a cause, which past the reading of `late` is
not the timer. From it: `TypeCorrect`, `CompleteStreamsAreWhole`, and `CutsAreTold`, which holds
though the timer, the duration, the page and the module may each end the stream between any two of
the reads that decide what it is told. No part of it bounds how many messages come. Two more are what
`SilentStreamsAreCut` and `EndedContextsEndTheStream` rest on beside fairness: `SilenceIsAlwaysTimed` (a page that waits for
a first message has a timer set or running, and one that has run has cut the stream) and
`EndsAreForGood` (no step takes back an end, a mark or an answer).

**`ViewerRequestProofs`.** The properties speak of an answer and of what was heard of the authority;
the invariant puts the error between them. `FailureByOrigin` says what the error in hand can be, by
where it arose and what was heard there; `AnswerByFailure` says what it was answered with, by
surface. The lemmas about the mappings (`CheckMappings`, `IssueMappings`) then give `TypeCorrect`,
`ChecksComeFirst`, `OutagesAreNotRefusals`, `AsksKeepTheirCode`, `ReasonsArrive` (both in
`RefusalsArrive`) and `OwnCallsNameNoAddress`, for any statuses a handler's errors carry. `OwnCallsNameNoAddress` says exactly whose
error can carry an address to an answer: on REST and Connect a gRPC call of the handler's own, in a tool's result also one of an address spelled
otherwise than configured.

**`BootProofs`.** For any operations, surfaces, modules, environments and paths. The invariant: past
the check of the declaration it stands (`StandsPastTheCheck`), nothing listens before the last step
(`ListensLast`), there is one environment, requests come only to the mux `serve` filled
(`ServesWhatIsRegistered`), the row asked about and the operation run are both the dispatched one's
(`AskedIsDispatched`), and relays and connections follow the declaration's order (`RelaysInOrder`,
`DialledKnowsThem`, for which `TargetsKeepTheHost` says that what is taken off an endpoint before it is
dialled is never its host). From it: `TypeCorrect`, `RefusalsPrecedeTheListener`, `ListenerResolved`,
`ConnectionsKnown`, and `CheckedIsRun`. The last needs that a request has at most one most specific
pattern: of two that match it, neither of which precedes the other, the mux would have panicked, and
a serving mux has not.

The last two theorems are about the mux and not about the boot's steps. `ToolsAreReads` and
`MCPRoutePanicsOnNothing` need, beside the invariant, to know what a pattern matches that another
does not, for patterns of any length. `PathsAssumption` supplies the witness: some segment is spelled
by no literal, and a request may be any pattern with it in place of the wildcards (`Instance`).
`InstanceIsTypical` says that a pattern of literals, single wildcards and anchors is covered by every
pattern that matches this instance of it; so such an instance picks the pattern itself, on a mux that
did not panic. `OnlyTheMCPRouteConflicts` turns it around: a pattern that conflicts with the MCP
route covers its one path, so is covered by it, so its instance is that path, so it spells it. That
core derives a marker for no subtree is `DerivableAssumption` (`operations.go:147`); an operation's
name for itself is never an `operationId` because one has a capital and the other cannot
(`operations.go:488`, `operations.go:543`), which `ToolName` has as two kinds of name.

**`DefinitionsProofs`.** For any shapes, however they refer to one another. What is registered and not
whole is open (`BegunIsOpen`), and what is referred to is registered (`ReferredIsRegistered`): once
nothing is open, every reference leads to a whole definition (`ReferencesAlwaysResolve`). No two shapes
of one name are open (`NamesOpenOnce`), and each shape is open inside one it is a member of
(`OpenIsInside`): a run of open shapes that are all containers and leads back to its first would be a
set of containers each of which holds one of the set (`ContainersDoNotRepeat`), so where there is no
such set a shape met inside itself has a name in between (`SelfReferencesEnd`).

**`MessagesProofs`.** For any descriptors (recursive ones too), masks, pins, requests and answers of
the method's types, at any depth. The assumptions are about what protobuf makes: a field has one
cardinality and only a singular one is in a oneof (`DescriptorsAssumption`); a message is closed under
going up, each place of the type its descriptor says; a pin's wire has every place once, after the
message it is in, and no two members of a oneof (`IsPin`, in `MessagesAssumption`).

* `OnlyTheAllowedReturns`: `ReturnedIsAllowed` speaks of the end of a walk. `PruneInv` says what holds
  at each call: what is allowed is still there (`AllowedIsKept`); what is there and not allowed is
  inside a message `prune` is still to be called for (`RestIsVisited`); those are messages on the way
  to a path, of the type the path goes through there (`VisitsAreOnTheWay`, from which no call is made
  for a scalar). With no call left, the second is
  the property. `PruneStep` is one call.
* `PinAlwaysStands` and `MessagesKeepTheirTypes`: `MergeInv` says that what has been read is the start
  of the wire (`PlacesRead`), stands where it was put with the pin's value, in what its own message
  became (`LandedAsSaid`), no two in one place (`LandedApart`); that a place is put elsewhere than the
  pin has it only under an element of a list (`LandedPlainly`); and that the page's own places stand,
  outside those elements, but for those the pin takes the place of (`PageStays`). `MergeStep` is one
  place read. The delicate case is a oneof: what `Put` displaces must be the page's, never what the
  pin itself put before, and that uses that the pin has one member of each (`DisplacedFacts`). That
  lists stay runs (`PutListsAreRuns`) is why an element appended is a new place.
* `DocumentSaysWhatReturns`: every path of the mask has a shortest prefix that is one of its paths, so
  the document's paths allow the same places (`PathsSayTheSame`).
* `MessagesDescribe` is the refinement: a step of a method's is one of `Definitions` or leaves its
  variables as they are; `RelayedDocumentIsClosed` carries `DefinitionsProofs` over it.

Only model-checked: the four liveness properties and everything about fairness, out of the prover's
reach as is ENABLED (`EveryCallReturns`, `SilentStreamsAreCut`, `EndedContextsEndTheStream`,
`RelayedCallsEnd`), and the properties the code violates. Every safety property a passing run checks
is a theorem. Two things the theorems take from the model's shape and not from the code: that a
message is read from a pin's wire form as protobuf does (`Put`, external), and that the mux is
net/http's (`Patterns`, external). `PathsAssumption` also leaves out a pattern with an empty segment,
which net/http redirects away from: no request has such a path.

## 6. Not modelled

The walk of an MCP result that looks for an address in a structured document's strings (what it
decides is in `ViewerRequest`, where it looks in `Boot`'s `ConnectionsAreKnown`); `principalsOf` and
`selectedOwner`, which read a checked context's fields; parsing of the manifest and the frontend
file, the wording and layout of the interface document, assets and their headers, and what the SDK
looks up in the environment: no state changes after the boot, and their properties are about
formats. The authority's policy, module implementations, the MCP SDK and the gRPC and Connect
libraries are external: only what the runtime sees of them is there.

A method's pin is kept as the author's own pointer (`passthrough.go:97`), where scopes are copied.
`Messages` has the pin as a value: what `PinStands` says holds of the pin as it is at the call.

## 7. Plan

Done: `Refusals`, `WorkContextCache` with `IssueOnce`, `RelayStream`, `Scopes` and `Declarations`,
`ViewerRequest`, `Patterns`, `Operations` and `Boot`, `Definitions`, `FieldMasks` and `Messages`;
proofs of every safety property the passing runs check, of the cache's refinement and of that of
the document in `Messages`.

What is left:

1. `ViewerRequest` composed with the cache: several gateways of one handler over one cache, and
   that a derived gateway's issue in the composition asks what its key names.
2. `principalsOf` and `selectedOwner` over small checked contexts.
3. The walk of an MCP result for addresses, over small documents.
4. For a request, the facts the cache and the stream have behind their liveness: what it waits for
   can still happen, and what has happened is not undone.
