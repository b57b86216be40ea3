----------------------------- MODULE BootProofs -----------------------------
(***************************************************************************)
(* Proofs about Boot, for any declaration and any environment.             *)
(***************************************************************************)
EXTENDS Boot, FiniteSetTheorems, TLAPS

----------------------------------------------------------------------------
(* The inductive invariant.                                                *)

\* The declaration stands, as far as start checks it before the environment.
Stands == manifest = "sound" /\ TableStands(operations) /\ MCPStands

\* Past CheckDeclaration, the author made none of the mistakes it names.
StandsPastTheCheck ==
    /\ place \notin {"declaring", "refused"} => Stands
    /\ cause \notin {Empty, "manifest", "operations", "mcp"} => Stands
    /\ cause = Empty <=> place # "refused"
    /\ place # "failed"

\* Nothing listens before the last step of start, and nothing after a refusal.
ListensLast == place \notin {"mounting", "serving", "panicked"} => listener = {}

\* The environment is looked at once, and stands from then on.
OneEnvironment ==
    /\ \A e, f \in env : e = f
    /\ place = "declaring" \/ place = "configuring" => env = {}
    /\ place \in {"resolving", "opening", "listening", "mounting", "serving", "panicked"} =>
          \A e \in env : Unresolved(e) = Empty

\* Requests come once the mux is filled, with nothing it panics on.
ServesWhatIsRegistered ==
    /\ place # "serving" => mux = {} /\ request = {} /\ asked = {} /\ ran = {} /\ answer = Empty
    /\ place = "serving" => mux = Registered /\ ~Panics

\* The authority is asked about what the mux picks, and that is what runs.
AskedIsDispatched ==
    /\ \A r, s \in request : r = s
    /\ ran # {} => asked # {} /\ answer = "ran"
    /\ request = {} => asked = {} /\ ran = {} /\ answer = Empty
    /\ \A r \in request :
          /\ r.method \in Methods /\ r.path \in Paths
          /\ asked # {} => asked = {AskedAbout(op) : op \in Dispatched(r.method, r.path)}
          /\ ran # {} => ran = Dispatched(r.method, r.path)

\* Every connection is opened to the host of an endpoint dialled then knows, as the
\* composition spells it.
DialledKnowsThem ==
    /\ \A host \in connections : \E endpoint \in dialled : endpoint.host = host
    /\ \A e \in env : dialled \subseteq Spellings(e)
    /\ place = "declaring" \/ place = "configuring" => connections = {}
    /\ place = "resolving" => \A e \in env : dialled = {e.authority}

\* Relays are opened in the order their modules are declared.
RelaysInOrder ==
    /\ place \in {"declaring", "configuring", "resolving"} => relays = {}
    /\ place \in {"opening", "listening", "mounting", "serving"} =>
          /\ PassthroughStands
          /\ IsFiniteSet(relays)
          /\ Opened <= Len(consumed)
          /\ {r.as : r \in relays} = {consumed[i].as : i \in 1..Opened}
    /\ place \in {"listening", "mounting", "serving"} => Opened = Len(consumed)

\* The last ServeMCP stands alone.
OneSurface == \A s, t \in mcp : s = t

IInv ==
    /\ TypeOK
    /\ OneSurface
    /\ ListensWhereResolved
    /\ StandsPastTheCheck
    /\ ListensLast
    /\ OneEnvironment
    /\ ServesWhatIsRegistered
    /\ AskedIsDispatched
    /\ DialledKnowsThem
    /\ RelaysInOrder

USE DEF Empty

----------------------------------------------------------------------------
(* Steps.                                                                  *)

\* A declaration not yet begun satisfies the invariant.
LEMMA InitIInv == Init => IInv
<1> SUFFICES ASSUME Init PROVE IInv
  OBVIOUS
<1> USE DEF Init
<1>1. TypeOK
  <2>1. operations \in Seq(Declarable) /\ Len(operations) <= MaxOperations
    BY BoundsAssumption
  <2>2. consumed \in Seq(Consumable) /\ Len(consumed) <= MaxModules
    BY BoundsAssumption
  <2>3. cause \in Causes /\ (cause = Empty <=> place # "refused")
    BY DEF Causes
  <2>4. /\ manifest \in {"sound", "unsound"} /\ mcpRedeclared \in {"no", "yes"} /\ mcp \subseteq Surfaces
        /\ env \subseteq Environments /\ mux \subseteq Registered
        /\ \A l \in listener : l.port \in TCPPorts
        /\ request \subseteq [method : Methods, path : Paths]
    OBVIOUS
  <2> QED
    BY <2>1, <2>2, <2>3, <2>4 DEF TypeOK
<1>2. RelaysInOrder
  BY FS_EmptySet DEF RelaysInOrder
<1> QED
  BY <1>1, <1>2 DEF IInv, OneSurface, ListensWhereResolved, StandsPastTheCheck, ListensLast,
     OneEnvironment, ServesWhatIsRegistered, AskedIsDispatched, DialledKnowsThem

\* What the author made a mistake of is one of three things.
LEMMA MistakeType ==
    ASSUME manifest \in {"sound", "unsound"}
    PROVE
    /\ Mistake \in {Empty, "manifest", "operations", "mcp"}
    /\ Mistake = Empty => manifest = "sound" /\ TableStands(operations) /\ MCPStands
<1>1. TableStands(operations) \in BOOLEAN /\ MCPStands \in BOOLEAN
  BY DEF TableStands, MCPStands
<1> QED
  BY <1>1 DEF Mistake

\* What an environment is refused for is never nothing.
LEMMA UnresolvedType ==
    ASSUME NEW e
    PROVE  /\ Unresolved(e) \in {Empty, "identity", "port", "carriers", "authority", "token",
                                 "profile", "loopback"}
           /\ Unresolved(e) = Empty =>
                 /\ Port(e) \in TCPPorts
                 /\ e.authority # NoAddress
                 /\ NativeListener(e) => Host(e) \in Loopback
<1>1. CASE e.init = "identity"
  BY <1>1 DEF Unresolved
<1>2. CASE e.init # "identity" /\ Port(e) \notin TCPPorts
  BY <1>2 DEF Unresolved
<1>3. CASE e.init # "identity" /\ Port(e) \in TCPPorts /\ e.authority = NoAddress
  BY <1>3 DEF Unresolved
<1>4. CASE e.init # "identity" /\ Port(e) \in TCPPorts /\ e.authority # NoAddress
  <2> DEFINE rest == IF e.token = Empty THEN "token"
                     ELSE IF e.profile = Empty THEN "profile"
                     ELSE IF NativeListener(e) /\ Host(e) \notin Loopback THEN "loopback"
                     ELSE Empty
  <2>1. Unresolved(e) = rest
    BY <1>4 DEF Unresolved
  <2>2. /\ rest \in {Empty, "token", "profile", "loopback"}
        /\ rest = Empty => ~(NativeListener(e) /\ Host(e) \notin Loopback)
    OBVIOUS
  <2> HIDE DEF rest
  <2> QED
    BY <1>4, <2>1, <2>2
<1> QED
  BY <1>1, <1>2, <1>3, <1>4

\* Only CheckDeclaration ends the declaring, and it lets only one that stands by.
LEMMA StandsStep == IInv /\ [Next]_vars => StandsPastTheCheck'
<1> SUFFICES ASSUME IInv, [Next]_vars PROVE StandsPastTheCheck'
  OBVIOUS
<1> USE DEF IInv, StandsPastTheCheck, Stands
<1>1. CASE UNCHANGED declaration /\ place # "declaring"
  <2>1. (TableStands(operations) /\ MCPStands)' <=> TableStands(operations) /\ MCPStands
    BY <1>1 DEF declaration, TableStands, MCPStands, MCPRoute
  <2>2. manifest' = manifest
    BY <1>1 DEF declaration
  <2>3. ASSUME UNCHANGED <<place, cause>> PROVE StandsPastTheCheck'
    BY <2>1, <2>2, <2>3
  <2>4. CASE \E e \in Environments : LoadConfig(e)
    <3> PICK e \in Environments : LoadConfig(e)
      BY <2>4
    <3>1. CASE Unresolved(e) = Empty
      BY <3>1, <1>1, <2>1, <2>2 DEF LoadConfig, Advance
    <3>2. CASE Unresolved(e) # Empty
      <4>1. place = "configuring" /\ place' = "refused" /\ cause' = Unresolved(e)
        BY <3>2 DEF LoadConfig, Refuse
      <4> QED
        BY <4>1, <3>2, <1>1, <2>1, <2>2
    <3> QED
      BY <3>1, <3>2
  <2>5. CASE \E e \in env : DialAuthority(e) \/ OpenRelay(e) \/ OpenRelayFails(e) \/ Listen(e)
    BY <1>1, <2>1, <2>2, <2>5 DEF DialAuthority, OpenRelay, OpenRelayFails, Listen, Advance, Refuse
  <2>6. CASE (\E resolves \in BOOLEAN : ResolveContract(resolves)) \/ ListenFails
    BY <1>1, <2>1, <2>2, <2>6 DEF ResolveContract, ListenFails, Advance, Refuse
  <2>7. CASE Mount
    BY <1>1, <2>1, <2>2, <2>7 DEF Mount
  <2> QED
    BY <1>1, <2>3, <2>4, <2>5, <2>6, <2>7
       DEF Next, vars, DeclareOperation, ServeMCP, Consumes, Declaring, CheckDeclaration,
           Advance, Refuse, Arrive, Admitted, Denied, Done, Over
<1>2. CASE place = "declaring" /\ UNCHANGED <<place, cause>>
  BY <1>2
<1>3. CASE CheckDeclaration
  <2>1. UNCHANGED declaration
    BY <1>3 DEF CheckDeclaration, Advance, Refuse
  <2>2. (TableStands(operations) /\ MCPStands)' <=> TableStands(operations) /\ MCPStands
    BY <2>1 DEF declaration, TableStands, MCPStands, MCPRoute
  <2>3. manifest \in {"sound", "unsound"}
    BY DEF TypeOK
  <2>4. CASE Mistake = Empty
    BY <1>3, <2>1, <2>2, <2>3, <2>4, MistakeType DEF CheckDeclaration, Advance, declaration
  <2>5. CASE Mistake # Empty
    <3>1. place' = "refused" /\ cause' = Mistake
      BY <1>3, <2>5 DEF CheckDeclaration, Refuse
    <3> QED
      BY <3>1, <2>3, <2>5, MistakeType
  <2> QED
    BY <2>4, <2>5
<1> QED
  BY <1>1, <1>2, <1>3
     DEF Next, vars, DeclareOperation, ServeMCP, Consumes, Declaring, LoadConfig, DialAuthority,
         OpenRelay, OpenRelayFails, ResolveContract, Listen, ListenFails, Mount, Advance, Refuse,
         Arrive, Admitted, Denied, Done, Over

\* A listener is opened by Listen alone, and no step refuses after it.
LEMMA ListensStep == IInv /\ [Next]_vars => ListensLast'
<1> SUFFICES ASSUME IInv, [Next]_vars PROVE ListensLast'
  OBVIOUS
<1> USE DEF ListensLast
<1>1. ListensLast
  BY DEF IInv
<1>2. CASE UNCHANGED <<listener, place>>
  BY <1>1, <1>2
<1>3. CASE UNCHANGED listener /\ place \notin {"mounting", "serving", "panicked"}
  BY <1>1, <1>3
<1>4. CASE \E e \in env : Listen(e)
  BY <1>4 DEF Listen, Advance
<1>5. CASE Mount
  <2>1. place' \in {"panicked", "serving"}
    <3>1. TableStands(operations) /\ MCPStands
      BY <1>5 DEF Mount, IInv, StandsPastTheCheck, Stands
    <3> QED
      BY <1>5, <3>1 DEF Mount
  <2> QED
    BY <2>1
<1> QED
  BY <1>2, <1>3, <1>4, <1>5
     DEF Next, vars, process, DeclareOperation, ServeMCP, Consumes, Declaring, CheckDeclaration,
         LoadConfig, DialAuthority, OpenRelay, OpenRelayFails, ResolveContract, ListenFails,
         Advance, Refuse, Arrive, Admitted, Denied, Done, Over

\* LoadConfig alone looks at the environment, and goes on only with one that is
\* resolved.
LEMMA EnvironmentStep == IInv /\ [Next]_vars => OneEnvironment'
<1> SUFFICES ASSUME IInv, [Next]_vars PROVE OneEnvironment'
  OBVIOUS
<1> USE DEF OneEnvironment
<1>1. OneEnvironment
  BY DEF IInv
<1>2. CASE UNCHANGED <<env, place>>
  BY <1>1, <1>2
<1>3. CASE CheckDeclaration
  BY <1>1, <1>3 DEF CheckDeclaration, Advance, Refuse, process
<1>4. CASE \E e \in Environments : LoadConfig(e)
  BY <1>1, <1>4 DEF LoadConfig, Advance, Refuse
<1>5. CASE /\ UNCHANGED env
           /\ place \in {"resolving", "opening", "listening", "mounting"}
           /\ place' \in {"opening", "listening", "mounting", "serving", "panicked", "refused", "failed"}
  BY <1>1, <1>5
<1>6. CASE \E e \in env : DialAuthority(e) \/ OpenRelay(e) \/ OpenRelayFails(e) \/ Listen(e)
  BY <1>5, <1>6 DEF DialAuthority, OpenRelay, OpenRelayFails, Listen, Advance, Refuse
<1>7. CASE (\E resolves \in BOOLEAN : ResolveContract(resolves)) \/ ListenFails \/ Mount
  BY <1>5, <1>7 DEF ResolveContract, ListenFails, Mount, Advance, Refuse, process
<1> QED
  BY <1>2, <1>3, <1>4, <1>6, <1>7
     DEF Next, vars, process, DeclareOperation, ServeMCP, Consumes, Declaring,
         Arrive, Admitted, Denied, Done, Over

\* The mux is filled at once, with what does not panic, and is served as it is.
LEMMA ServesStep == IInv /\ [Next]_vars => ServesWhatIsRegistered'
<1> SUFFICES ASSUME IInv, [Next]_vars PROVE ServesWhatIsRegistered'
  OBVIOUS
<1>1. ServesWhatIsRegistered
  BY DEF IInv
<1>2. CASE place # "serving" /\ place' # "serving" /\ UNCHANGED <<mux, serving>>
  BY <1>1, <1>2 DEF ServesWhatIsRegistered, serving
<1>3. CASE place = "serving" /\ UNCHANGED <<place, declaration, mux>>
  <2>1. Registered' = Registered
    BY <1>3 DEF declaration, Registered, MCPRoute, PassthroughPattern, OwnPatterns
  <2>2. Panics' <=> Panics
    BY <2>1 DEF Panics
  <2> QED
    BY <1>1, <1>3, <2>1, <2>2 DEF ServesWhatIsRegistered
<1>4. CASE Mount
  <2>1. CASE place' = "serving"
    <3>1. Registered' = Registered
      BY <1>4 DEF Mount, declaration, Registered, MCPRoute, PassthroughPattern, OwnPatterns
    <3>2. Panics' <=> Panics
      BY <3>1 DEF Panics
    <3> QED
      BY <1>4, <2>1, <3>1, <3>2 DEF Mount, ServesWhatIsRegistered
  <2>2. CASE place' # "serving"
    BY <1>1, <1>4, <2>2 DEF Mount, ServesWhatIsRegistered, serving
  <2> QED
    BY <2>1, <2>2
<1>5. CASE UNCHANGED vars
  <2>1. CASE place = "serving"
    BY <1>3, <1>5, <2>1 DEF vars, process
  <2>2. CASE place # "serving"
    BY <1>2, <1>5, <2>2 DEF vars, process
  <2> QED
    BY <2>1, <2>2
<1>6. CASE \E method \in Methods, path \in Paths : Arrive(method, path)
  BY <1>1, <1>3, <1>6 DEF Arrive, process
<1>7. CASE Admitted \/ Denied \/ Done
  BY <1>1, <1>3, <1>7 DEF Admitted, Denied, Done, process, ServesWhatIsRegistered
<1> QED
  BY <1>2, <1>4, <1>5, <1>6, <1>7
     DEF Next, vars, process, DeclareOperation, ServeMCP, Consumes, Declaring, CheckDeclaration,
         LoadConfig, DialAuthority, OpenRelay, OpenRelayFails, ResolveContract, Listen, ListenFails,
         Advance, Refuse, Over

\* What a request runs depends on the declaration and the mux alone.
LEMMA DispatchedStands ==
    ASSUME UNCHANGED <<declaration, mux>>
    PROVE  /\ Relayed' = Relayed
           /\ MCPOperations' = MCPOperations
           /\ \A path : Picked(path)' = Picked(path)
           /\ \A method, path : Dispatched(method, path)' = Dispatched(method, path)
<1>1. UNCHANGED <<operations, mcp, consumed, mux>>
  BY DEF declaration
<1>2. Relayed' = Relayed /\ MCPOperations' = MCPOperations
  BY <1>1 DEF Relayed, MCPOperations, RelayPath, MCPRoute
<1>3. \A path : Picked(path)' = Picked(path)
  BY <1>1 DEF Picked
<1>4. \A method, path : RelayedAt(method, path)' = RelayedAt(method, path)
  BY <1>2 DEF RelayedAt
<1>5. \A m, method, path : Runs(m, method, path)' = Runs(m, method, path)
  BY <1>1, <1>2, <1>4 DEF Runs, DeclaredFor
<1>6. \A method, path : Dispatched(method, path)' = Dispatched(method, path)
  BY <1>3, <1>5 DEF Dispatched
<1> QED
  BY <1>2, <1>3, <1>6

\* Arrive asks about what the request would run, and Admitted runs it.
LEMMA AskedStep == IInv /\ [Next]_vars => AskedIsDispatched'
<1> SUFFICES ASSUME IInv, [Next]_vars PROVE AskedIsDispatched'
  OBVIOUS
<1>1. AskedIsDispatched
  BY DEF IInv
<1>2. CASE place' # "serving"
  <2>1. ServesWhatIsRegistered'
    BY ServesStep
  <2> QED
    BY <1>2, <2>1 DEF ServesWhatIsRegistered, AskedIsDispatched
<1>3. CASE UNCHANGED <<declaration, mux, request, asked, ran, answer>>
  BY <1>1, <1>3, DispatchedStands DEF AskedIsDispatched, AskedAbout, RowName
<1>4. CASE Mount /\ place' = "serving"
  <2>1. request = {} /\ asked = {} /\ ran = {} /\ answer = Empty
    BY <1>4 DEF Mount, IInv, ServesWhatIsRegistered
  <2> QED
    BY <2>1, <1>4 DEF Mount, serving, AskedIsDispatched
<1>5. CASE \E method \in Methods, path \in Paths : Arrive(method, path)
  <2> PICK method \in Methods, path \in Paths : Arrive(method, path)
    BY <1>5
  <2>1. UNCHANGED <<declaration, mux>> /\ ran' = ran /\ ran = {}
    BY <1>1 DEF Arrive, process, AskedIsDispatched
  <2>2. request' = {[method |-> method, path |-> path]}
    BY DEF Arrive
  <2>3. asked' # {} => asked' = {AskedAbout(op) : op \in Dispatched(method, path)}
    BY DEF Arrive
  <2>4. asked' # {} => asked' = {AskedAbout(op) : op \in Dispatched(method, path)'}
    BY <2>1, <2>3, DispatchedStands
  <2>5. asked' # {} => asked' = {AskedAbout(op)' : op \in Dispatched(method, path)'}
    BY <2>4 DEF AskedAbout, RowName
  <2>6. \A r \in request' : r.method = method /\ r.path = path
    BY <2>2
  <2> QED
    BY <2>1, <2>2, <2>5, <2>6 DEF AskedIsDispatched
<1>6. CASE Admitted
  <2>1. PICK r \in request : request = {r}
    <3>1. request # {}
      BY <1>1, <1>6 DEF Admitted, AskedIsDispatched
    <3> QED
      BY <1>1, <3>1 DEF AskedIsDispatched
  <2>2. ran' = Dispatched(r.method, r.path)
    BY <1>6, <2>1 DEF Admitted
  <2>3. UNCHANGED <<declaration, mux>>
    BY <1>6 DEF Admitted, process
  <2> QED
    BY <1>1, <1>6, <2>1, <2>2, <2>3, DispatchedStands
       DEF Admitted, AskedIsDispatched, AskedAbout, RowName
<1>7. CASE Denied
  <2>1. UNCHANGED <<declaration, mux>> /\ ran = {}
    BY <1>1, <1>7 DEF Denied, process, AskedIsDispatched
  <2> QED
    BY <1>1, <1>7, <2>1, DispatchedStands DEF Denied, AskedIsDispatched, AskedAbout, RowName
<1>8. CASE Done
  BY <1>8 DEF Done, AskedIsDispatched
<1> QED
  BY <1>2, <1>3, <1>4, <1>5, <1>6, <1>7, <1>8
     DEF Next, vars, process, serving, DeclareOperation, ServeMCP, Consumes, Declaring,
         CheckDeclaration, LoadConfig, DialAuthority, OpenRelay, OpenRelayFails, ResolveContract,
         Listen, ListenFails, Advance, Refuse, Over, IInv, TypeOK

\* Taking a scheme off an endpoint, or putting one on, leaves its host.
LEMMA TargetsKeepTheHost ==
    ASSUME NEW endpoint
    PROVE  AuthorityTarget(endpoint).host = endpoint.host /\ AsURL(endpoint).host = endpoint.host
<1>1. AuthorityTarget(endpoint).host = endpoint.host
  BY DEF AuthorityTarget
<1>2. AsURL(endpoint).host = endpoint.host
  BY DEF AsURL
<1> QED
  BY <1>1, <1>2

\* An endpoint is dialled once dialled holds it, and dialled loses none.
LEMMA DialledStep == IInv /\ [Next]_vars => DialledKnowsThem'
<1> SUFFICES ASSUME IInv, [Next]_vars PROVE DialledKnowsThem'
  OBVIOUS
<1>1. DialledKnowsThem
  BY DEF IInv
<1>2. UNCHANGED consumed => \A e : Spellings(e)' = Spellings(e)
  BY DEF Spellings
<1>3. CASE UNCHANGED <<connections, dialled, env, place, consumed>>
  BY <1>1, <1>2, <1>3 DEF DialledKnowsThem
<1>4. CASE env' = {} /\ connections' = {}
  BY <1>4 DEF DialledKnowsThem
<1>5. CASE \/ \E op \in Declarable : DeclareOperation(op)
           \/ \E surface \in Surfaces : ServeMCP(surface)
           \/ \E module \in Consumable : Consumes(module)
           \/ CheckDeclaration
  <2>1. place = "declaring" /\ UNCHANGED <<env, connections>>
    BY <1>5 DEF DeclareOperation, ServeMCP, Consumes, Declaring, CheckDeclaration, Advance,
       Refuse, process
  <2>2. env = {} /\ connections = {}
    BY <1>1, <2>1 DEF IInv, OneEnvironment, DialledKnowsThem
  <2> QED
    BY <1>4, <2>1, <2>2
<1>6. CASE \E e \in Environments : LoadConfig(e)
  <2> PICK e \in Environments : LoadConfig(e)
    BY <1>6
  <2>1. connections' = {} /\ env' = {e} /\ dialled' = {e.authority} \ {NoAddress}
    BY <1>1 DEF LoadConfig, Advance, Refuse, DialledKnowsThem
  <2>2. dialled' \subseteq Spellings(e)'
    BY <2>1 DEF Spellings
  <2>3. CASE Unresolved(e) = Empty
    <3>1. e.authority # NoAddress
      BY <2>3, UnresolvedType
    <3>2. place' = "resolving"
      BY <2>3 DEF LoadConfig, Advance
    <3> QED
      BY <2>1, <2>2, <3>1, <3>2 DEF DialledKnowsThem
  <2>4. CASE Unresolved(e) # Empty
    <3>1. place' = "refused"
      BY <2>4 DEF LoadConfig, Refuse
    <3> QED
      BY <2>1, <2>2, <3>1 DEF DialledKnowsThem
  <2> QED
    BY <2>3, <2>4
<1>7. CASE \E e \in env : DialAuthority(e)
  <2> PICK e \in env : DialAuthority(e)
    BY <1>7
  <2>1. /\ place = "resolving" /\ place' \in {"opening", "refused"}
        /\ UNCHANGED <<env, dialled, consumed>>
    BY DEF DialAuthority, Advance, Refuse, declaration
  <2>2. dialled = {e.authority}
    BY <1>1, <2>1 DEF DialledKnowsThem
  <2>3. connections' \subseteq {e.authority.host}
    BY TargetsKeepTheHost DEF DialAuthority
  <2> QED
    BY <1>1, <1>2, <2>1, <2>2, <2>3 DEF DialledKnowsThem
<1>8. CASE \E e \in env : OpenRelay(e)
  <2> PICK e \in env : OpenRelay(e)
    BY <1>8
  <2> DEFINE endpoint == e.slots[consumed[Opened + 1].as].endpoint
  <2>1. /\ place = "opening" /\ place' = "opening"
        /\ UNCHANGED <<env, consumed>> /\ Opened < Len(consumed)
    BY DEF OpenRelay, Advance, declaration
  <2>2. Opened + 1 \in DOMAIN consumed
    <3>1. Opened \in Nat
      BY <2>1, FS_CardinalityType DEF IInv, RelaysInOrder, Opened
    <3>2. consumed \in Seq(Consumable)
      BY DEF IInv, TypeOK
    <3> QED
      BY <2>1, <3>1, <3>2
  <2>3. connections' = connections \cup {endpoint.host} /\ dialled' = dialled \cup {endpoint}
    <3>1. connections' = connections \cup {AsURL(endpoint).host} /\ dialled' = dialled \cup {endpoint}
      BY DEF OpenRelay, Dialling
    <3> QED
      BY <3>1, TargetsKeepTheHost
  <2>4. endpoint \in Spellings(e)
    BY <2>2 DEF Spellings
  <2>5. \A f \in env : f = e
    BY DEF IInv, OneEnvironment
  <2> HIDE DEF endpoint
  <2> QED
    BY <1>1, <1>2, <2>1, <2>3, <2>4, <2>5 DEF DialledKnowsThem
<1>9. CASE /\ UNCHANGED <<connections, dialled, env, consumed>>
           /\ place \in {"opening", "listening", "mounting"}
           /\ place' \notin {"declaring", "configuring", "resolving"}
  BY <1>1, <1>2, <1>9 DEF DialledKnowsThem
<1>10. CASE \E e \in env : OpenRelayFails(e) \/ Listen(e)
  BY <1>9, <1>10 DEF OpenRelayFails, Listen, Advance, Refuse, declaration
<1>11. CASE (\E resolves \in BOOLEAN : ResolveContract(resolves)) \/ ListenFails \/ Mount
  BY <1>9, <1>11 DEF ResolveContract, ListenFails, Mount, Advance, Refuse, process, declaration
<1>12. CASE UNCHANGED vars \/ (\E method \in Methods, path \in Paths : Arrive(method, path))
              \/ Admitted \/ Denied \/ Done
  BY <1>3, <1>12 DEF vars, process, declaration, Arrive, Admitted, Denied, Done
<1> QED
  BY <1>5, <1>6, <1>7, <1>8, <1>10, <1>11, <1>12 DEF Next, Over

\* A relay is opened for the next module, whose name no module before it has.
LEMMA RelaysStep == IInv /\ [Next]_vars => RelaysInOrder'
<1> SUFFICES ASSUME IInv, [Next]_vars PROVE RelaysInOrder'
  OBVIOUS
<1>1. RelaysInOrder
  BY DEF IInv
<1>2. consumed \in Seq(Consumable)
  BY DEF IInv, TypeOK
<1>3. UNCHANGED declaration => (PassthroughStands' <=> PassthroughStands)
  BY DEF declaration, PassthroughStands
<1>4. CASE UNCHANGED <<relays, place>> /\ place \in {"declaring", "refused", "failed", "panicked"}
  BY <1>1, <1>4 DEF RelaysInOrder
<1>5. CASE UNCHANGED <<relays, place, declaration>>
  BY <1>1, <1>3, <1>5 DEF RelaysInOrder, Opened, declaration
<1>6. CASE place' \in {"refused", "failed", "panicked"}
  BY <1>6 DEF RelaysInOrder
<1>7. CASE CheckDeclaration \/ \E e \in Environments : LoadConfig(e)
  BY <1>1, <1>7 DEF RelaysInOrder, CheckDeclaration, LoadConfig, Advance, Refuse, process
<1>8. CASE \E e \in env : DialAuthority(e) /\ place' = "opening"
  <2>1. PassthroughStands /\ relays = {} /\ relays' = {} /\ UNCHANGED declaration
    BY <1>1, <1>8 DEF DialAuthority, Advance, Refuse, RelaysInOrder
  <2>2. IsFiniteSet(relays') /\ Opened' = 0
    BY <2>1, FS_EmptySet DEF Opened
  <2>3. Len(consumed') \in Nat
    BY <1>2, <2>1 DEF declaration
  <2> QED
    BY <1>3, <1>8, <2>1, <2>2, <2>3 DEF RelaysInOrder
<1>9. CASE \E e \in env : OpenRelay(e)
  <2> PICK e \in env : OpenRelay(e)
    BY <1>9
  <2> DEFINE module == consumed[Opened + 1]
             relay == [as |-> module.as, binding |-> e.slots[module.as].binding]
  <2>1. place = "opening" /\ place' = "opening" /\ UNCHANGED declaration
    BY DEF OpenRelay, Advance
  <2>2. relays' = relays \cup {relay} /\ Opened < Len(consumed)
    BY DEF OpenRelay
  <2>3. /\ IsFiniteSet(relays) /\ PassthroughStands
        /\ {r.as : r \in relays} = {consumed[i].as : i \in 1..Opened}
    BY <1>1, <2>1 DEF RelaysInOrder
  <2>4. Opened \in Nat /\ Len(consumed) \in Nat
    BY <1>2, <2>3, FS_CardinalityType DEF Opened
  <2>5. relay \notin relays
    <3>1. ASSUME relay \in relays PROVE FALSE
      <4>1. relay.as \in {consumed[i].as : i \in 1..Opened}
        BY <2>3, <3>1
      <4>2. PICK i \in 1..Opened : consumed[i].as = consumed[Opened + 1].as
        BY <4>1
      <4>3. i \in DOMAIN consumed /\ Opened + 1 \in DOMAIN consumed /\ i # Opened + 1
        BY <1>2, <2>2, <2>4
      <4> QED
        BY <2>3, <4>2, <4>3 DEF PassthroughStands
    <3> QED
      BY <3>1
  <2>6. IsFiniteSet(relays') /\ Opened' = Opened + 1
    BY <2>2, <2>3, <2>5, FS_AddElement DEF Opened
  <2>7. {r.as : r \in relays'} = {consumed[i].as : i \in 1..Opened + 1}
    <3>1. {r.as : r \in relays'} = {r.as : r \in relays} \cup {consumed[Opened + 1].as}
      <4>1. relay.as = consumed[Opened + 1].as
        OBVIOUS
      <4> HIDE DEF relay
      <4> QED
        BY <2>2, <4>1
    <3>2. \A i : i \in 1..Opened + 1 <=> i \in 1..Opened \/ i = Opened + 1
      BY <2>4
    <3> QED
      BY <2>3, <3>1, <3>2
  <2>8. consumed' = consumed
    BY <2>1 DEF declaration
  <2>9. Opened' <= Len(consumed') /\ {r.as : r \in relays'} = {consumed'[i].as : i \in 1..Opened'}
    <3>1. Opened' <= Len(consumed')
      BY <2>2, <2>4, <2>6, <2>8
    <3>2. {r.as : r \in relays'} = {consumed'[i].as : i \in 1..Opened'}
      BY <2>6, <2>7, <2>8
    <3> QED
      BY <3>1, <3>2
  <2> QED
    BY <1>3, <2>1, <2>3, <2>6, <2>9 DEF RelaysInOrder
<1>10. CASE UNCHANGED <<relays, declaration>> /\ \/ /\ place = "opening" /\ place' = "listening"
                                                    /\ Opened = Len(consumed)
                                                 \/ place = "listening" /\ place' = "mounting"
                                                 \/ place = "mounting" /\ place' = "serving"
  BY <1>1, <1>3, <1>10 DEF RelaysInOrder, Opened, declaration
<1>11. CASE \E e \in env : Listen(e)
  BY <1>10, <1>11 DEF Listen, Advance
<1>12. CASE (\E resolves \in BOOLEAN : ResolveContract(resolves)) \/ Mount
  BY <1>6, <1>10, <1>12 DEF ResolveContract, Mount, Advance, Refuse, process
<1> QED
  BY <1>4, <1>5, <1>6, <1>7, <1>8, <1>9, <1>11, <1>12
     DEF Next, vars, process, DeclareOperation, ServeMCP, Consumes, Declaring, DialAuthority,
         OpenRelayFails, ListenFails, Advance, Refuse, Arrive, Admitted, Denied, Done, Over

\* Listen takes the host and the port of a resolved environment.
LEMMA ListenerStep ==
    IInv /\ [Next]_vars =>
        ListensWhereResolved' /\ (\A l \in listener : l.port \in TCPPorts)'
<1> SUFFICES ASSUME IInv, [Next]_vars
             PROVE  ListensWhereResolved' /\ \A l \in listener' : l.port \in TCPPorts
  OBVIOUS
<1> USE DEF ListensWhereResolved
<1>1. ListensWhereResolved /\ \A l \in listener : l.port \in TCPPorts
  BY DEF IInv, TypeOK
<1>2. CASE UNCHANGED <<listener, env>>
  BY <1>1, <1>2
<1>3. CASE listener' = {}
  BY <1>3
<1>4. CASE \E e \in Environments : LoadConfig(e)
  <2>1. listener = {}
    BY <1>4 DEF LoadConfig, Advance, Refuse, IInv, ListensLast
  <2> QED
    BY <1>3, <1>4, <2>1 DEF LoadConfig
<1>5. CASE \E e \in env : Listen(e)
  <2> PICK e \in env : Listen(e)
    BY <1>5
  <2>1. place = "listening" /\ env' = env
    BY DEF Listen, Advance
  <2>2. Unresolved(e) = Empty /\ \A f \in env : f = e
    BY <2>1 DEF IInv, OneEnvironment
  <2>3. Port(e) \in TCPPorts /\ (NativeListener(e) => Host(e) \in Loopback)
    BY <2>2, UnresolvedType
  <2>4. listener' = {[host |-> IF NativeListener(e) THEN Host(e) ELSE Empty, port |-> Port(e)]}
    BY DEF Listen
  <2>5. \A l \in listener' : l.port = Port(e) /\ (NativeListener(e) => l.host = Host(e))
    BY <2>4
  <2> QED
    BY <2>1, <2>2, <2>3, <2>5
<1> QED
  BY <1>2, <1>4, <1>5
     DEF Next, vars, process, DeclareOperation, ServeMCP, Consumes, Declaring, CheckDeclaration,
         DialAuthority, OpenRelay, OpenRelayFails, ResolveContract, ListenFails, Mount,
         Arrive, Admitted, Denied, Done, Over

\* The author's calls, and nothing else, change what is declared.
LEMMA DeclarationStep ==
    IInv /\ [Next]_vars =>
        /\ (manifest \in {"sound", "unsound"} /\ mcpRedeclared \in {"no", "yes"})'
        /\ (operations \in Seq(Declarable) /\ Len(operations) <= MaxOperations)'
        /\ (consumed \in Seq(Consumable) /\ Len(consumed) <= MaxModules)'
        /\ (mcp \subseteq Surfaces /\ OneSurface)'
<1> SUFFICES ASSUME IInv, [Next]_vars
             PROVE  /\ manifest' \in {"sound", "unsound"} /\ mcpRedeclared' \in {"no", "yes"}
                    /\ operations' \in Seq(Declarable) /\ Len(operations') <= MaxOperations
                    /\ consumed' \in Seq(Consumable) /\ Len(consumed') <= MaxModules
                    /\ mcp' \subseteq Surfaces /\ \A s, t \in mcp' : s = t
  BY DEF OneSurface
<1>1. /\ manifest \in {"sound", "unsound"} /\ mcpRedeclared \in {"no", "yes"}
      /\ operations \in Seq(Declarable) /\ Len(operations) <= MaxOperations
      /\ consumed \in Seq(Consumable) /\ Len(consumed) <= MaxModules
      /\ mcp \subseteq Surfaces /\ \A s, t \in mcp : s = t
  BY DEF IInv, TypeOK, OneSurface
<1>2. CASE UNCHANGED declaration
  BY <1>1, <1>2 DEF declaration
<1>3. CASE \E op \in Declarable : DeclareOperation(op)
  <2> PICK op \in Declarable : DeclareOperation(op)
    BY <1>3
  <2>1. operations' = Append(operations, op) /\ Len(operations) < MaxOperations
    BY DEF DeclareOperation
  <2>2. operations' \in Seq(Declarable) /\ Len(operations') <= MaxOperations
    BY <1>1, <2>1, BoundsAssumption
  <2> QED
    BY <1>1, <2>2 DEF DeclareOperation, Declaring
<1>4. CASE \E surface \in Surfaces : ServeMCP(surface)
  BY <1>1, <1>4 DEF ServeMCP, Declaring
<1>5. CASE \E module \in Consumable : Consumes(module)
  <2> PICK module \in Consumable : Consumes(module)
    BY <1>5
  <2>1. consumed' = Append(consumed, module) /\ Len(consumed) < MaxModules
    BY DEF Consumes
  <2>2. consumed' \in Seq(Consumable) /\ Len(consumed') <= MaxModules
    BY <1>1, <2>1, BoundsAssumption
  <2> QED
    BY <1>1, <2>2 DEF Consumes, Declaring
<1> QED
  BY <1>2, <1>3, <1>4, <1>5
     DEF Next, vars, CheckDeclaration, LoadConfig, DialAuthority, OpenRelay, OpenRelayFails,
         ResolveContract, Listen, ListenFails, Mount, Advance, Refuse, Arrive, Admitted, Denied,
         Done, Over

\* Each step goes on to one of the places it names.
LEMMA PlaceStep ==
    IInv /\ [Next]_vars =>
        (place \in {"declaring", "configuring", "resolving", "opening", "listening", "mounting",
                    "serving", "refused", "failed", "panicked"})'
<1> SUFFICES ASSUME IInv, [Next]_vars
             PROVE  place' \in {"declaring", "configuring", "resolving", "opening", "listening",
                                "mounting", "serving", "refused", "failed", "panicked"}
  OBVIOUS
<1>1. place \in {"declaring", "configuring", "resolving", "opening", "listening", "mounting",
                 "serving", "refused", "failed", "panicked"}
  BY DEF IInv, TypeOK
<1> QED
  BY <1>1
     DEF Next, vars, DeclareOperation, ServeMCP, Consumes, Declaring, CheckDeclaration, LoadConfig,
         DialAuthority, OpenRelay, OpenRelayFails, ResolveContract, Listen, ListenFails, Mount,
         Advance, Refuse, Arrive, Admitted, Denied, Done, Over

\* A refusal names one of the causes.
LEMMA CauseStep == IInv /\ [Next]_vars => (cause \in Causes)'
<1> SUFFICES ASSUME IInv, [Next]_vars PROVE cause' \in Causes
  BY DEF Causes
<1> USE DEF Causes
<1>1. cause \in Causes
  BY DEF IInv, TypeOK
<1>2. CASE UNCHANGED cause
  BY <1>1, <1>2
<1>3. CASE CheckDeclaration
  <2>1. manifest \in {"sound", "unsound"}
    BY DEF IInv, TypeOK
  <2>2. cause' = cause \/ cause' = Mistake
    BY <1>3 DEF CheckDeclaration, Advance, Refuse
  <2> QED
    BY <1>1, <2>1, <2>2, MistakeType
<1>4. CASE \E e \in Environments : LoadConfig(e)
  <2> PICK e \in Environments : LoadConfig(e)
    BY <1>4
  <2>1. cause' = cause \/ cause' = Unresolved(e)
    BY DEF LoadConfig, Advance, Refuse
  <2> QED
    BY <1>1, <2>1, UnresolvedType
<1>5. CASE \E e \in env : DialAuthority(e) \/ OpenRelay(e) \/ OpenRelayFails(e) \/ Listen(e)
  BY <1>1, <1>5 DEF DialAuthority, OpenRelay, OpenRelayFails, Listen, Advance, Refuse
<1>6. CASE (\E resolves \in BOOLEAN : ResolveContract(resolves)) \/ ListenFails
  BY <1>1, <1>6 DEF ResolveContract, ListenFails, Advance, Refuse
<1> QED
  BY <1>2, <1>3, <1>4, <1>5, <1>6
     DEF Next, vars, DeclareOperation, ServeMCP, Consumes, Declaring, Mount, Arrive, Admitted,
         Denied, Done, Over

\* A request is one of those that may come, and every one is answered by name.
LEMMA ServingStep ==
    IInv /\ [Next]_vars =>
        /\ (env \subseteq Environments)'
        /\ (request \subseteq [method : Methods, path : Paths])'
        /\ (answer \in {Empty, "served", "redirect", "not_found", "not_allowed", "preflight",
                        "refused", "ran"})'
<1> SUFFICES ASSUME IInv, [Next]_vars
             PROVE  /\ env' \subseteq Environments
                    /\ request' \subseteq [method : Methods, path : Paths]
                    /\ answer' \in {Empty, "served", "redirect", "not_found", "not_allowed",
                                    "preflight", "refused", "ran"}
  OBVIOUS
<1>1. /\ env \subseteq Environments
      /\ request \subseteq [method : Methods, path : Paths]
      /\ answer \in {Empty, "served", "redirect", "not_found", "not_allowed", "preflight",
                     "refused", "ran"}
  BY DEF IInv, TypeOK
<1>2. CASE \E method \in Methods, path \in Paths : Arrive(method, path)
  <2> PICK method \in Methods, path \in Paths : Arrive(method, path)
    BY <1>2
  <2>1. env' = env /\ request' = {[method |-> method, path |-> path]}
    BY DEF Arrive, process
  <2>2. answer' = Empty \/ answer' = Unasked(method, path)
    BY DEF Arrive
  <2>3. Unasked(method, path) \in {"redirect", "not_found", "served", "preflight", "not_allowed"}
    BY DEF Unasked
  <2> QED
    BY <1>1, <2>1, <2>2, <2>3
<1> QED
  BY <1>1, <1>2
     DEF Next, vars, process, serving, DeclareOperation, ServeMCP, Consumes, Declaring,
         CheckDeclaration, LoadConfig, DialAuthority, OpenRelay, OpenRelayFails, ResolveContract,
         Listen, ListenFails, Mount, Advance, Refuse, Admitted, Denied, Done, Over

\* The invariant is inductive.
LEMMA IInvStep == IInv /\ [Next]_vars => IInv'
<1> SUFFICES ASSUME IInv, [Next]_vars PROVE IInv'
  OBVIOUS
<1>1. /\ StandsPastTheCheck' /\ ListensLast' /\ OneEnvironment' /\ ServesWhatIsRegistered'
      /\ AskedIsDispatched' /\ DialledKnowsThem' /\ RelaysInOrder' /\ OneSurface'
      /\ ListensWhereResolved'
  BY StandsStep, ListensStep, EnvironmentStep, ServesStep, AskedStep, DialledStep, RelaysStep,
     DeclarationStep, ListenerStep
<1>2. (mux \subseteq Registered)'
  <2>1. CASE place' # "serving"
    BY <1>1, <2>1 DEF ServesWhatIsRegistered
  <2>2. CASE place' = "serving"
    BY <1>1, <2>2 DEF ServesWhatIsRegistered
  <2> QED
    BY <2>1, <2>2
<1>3. (ran # {} => asked # {} /\ answer = "ran")'
  BY <1>1 DEF AskedIsDispatched
<1>4. (cause = Empty <=> place # "refused")'
  BY <1>1 DEF StandsPastTheCheck
<1>5. (\A l \in listener : l.port \in TCPPorts)'
  BY ListenerStep
<1>6. TypeOK'
  BY <1>2, <1>3, <1>4, <1>5, DeclarationStep, PlaceStep, CauseStep, ServingStep DEF TypeOK
<1> QED
  BY <1>1, <1>6 DEF IInv

\* Every state of a boot satisfies the invariant.
THEOREM Invariant == Spec => []IInv
<1> QED
  BY InitIInv, IInvStep, PTL DEF Spec

----------------------------------------------------------------------------
(* What a boot promises, of every declaration and every environment.       *)

\* Every variable keeps its type; in particular what listens listens on a port.
THEOREM TypeCorrect == Spec => []TypeOK
<1>1. IInv => TypeOK
  BY DEF IInv
<1> QED
  BY <1>1, Invariant, PTL

\* No refusal leaves a listener open, and nothing is refused once one is: what
\* mountOperations and mountMCP return has been checked before.  A mistake of the
\* author's own is named before anything of the environment.
THEOREM RefusalsPrecedeTheListener == Spec => []RefusalsComeInOrder
<1>1. ASSUME IInv PROVE RefusalsComeInOrder
  <2>1. place \in {"refused", "failed"} => listener = {}
    BY <1>1 DEF IInv, StandsPastTheCheck, ListensLast
  <2>2. cause \notin {Empty, "manifest", "operations", "mcp"} =>
            manifest = "sound" /\ TableStands(operations) /\ MCPStands
    BY <1>1 DEF IInv, StandsPastTheCheck, Stands
  <2> QED
    BY <2>1, <2>2 DEF RefusalsComeInOrder
<1> QED
  BY <1>1, Invariant, PTL

\* What listens is the resolved endpoint: its host if the run is native, and the
\* port PORT gives it.
THEOREM ListenerResolved == Spec => []ListensWhereResolved
<1>1. IInv => ListensWhereResolved
  BY DEF IInv
<1> QED
  BY <1>1, Invariant, PTL

\* Every connection's host is of an endpoint kept, as it is spelled; where none is
\* spelled with a scheme every host connected to is searched for in a tool's error;
\* and every consumed module has a relay.
THEOREM ConnectionsKnown == Spec => []ConnectionsAreKnown
<1>1. ASSUME IInv PROVE ConnectionsAreKnown
  <2>1. \A host \in connections : \E endpoint \in dialled : endpoint.host = host
    BY <1>1 DEF IInv, DialledKnowsThem
  <2>3. ASSUME NEW e \in env, \A endpoint \in Spellings(e) : endpoint.scheme = Empty,
               NEW host \in connections
        PROVE  SearchedFor(host)
    <3>1. dialled \subseteq Spellings(e)
      BY <1>1 DEF IInv, DialledKnowsThem
    <3> QED
      BY <2>1, <2>3, <3>1 DEF SearchedFor
  <2>2. ASSUME place \in {"listening", "mounting", "serving"}
        PROVE  {r.as : r \in relays} = {consumed[i].as : i \in DOMAIN consumed}
    <3>1. {r.as : r \in relays} = {consumed[i].as : i \in 1..Opened} /\ Opened = Len(consumed)
      BY <1>1, <2>2 DEF IInv, RelaysInOrder
    <3>2. DOMAIN consumed = 1..Len(consumed)
      BY <1>1 DEF IInv, TypeOK
    <3> QED
      BY <3>1, <3>2
  <2> QED
    BY <2>1, <2>2, <2>3 DEF ConnectionsAreKnown
<1> QED
  BY <1>1, Invariant, PTL

\* Of the patterns of a mux that did not panic, a request picks at most one.
LEMMA OnePick ==
    ASSUME ~Panics, mux = Registered, NEW path \in Paths
    PROVE  \A m, n \in Picked(path) : m = n
<1> SUFFICES ASSUME NEW m \in Picked(path), NEW n \in Picked(path), m # n
             PROVE  FALSE
  OBVIOUS
<1>1. /\ m \in Registered /\ n \in Registered
      /\ Matches(m[2], path) /\ Matches(n[2], path)
      /\ Covers(m[2]) \subseteq Covers(n[2]) /\ Covers(n[2]) \subseteq Covers(m[2])
  BY DEF Picked, Picks
<1>2. path \in Covers(m[2]) \cap Covers(n[2])
  BY <1>1 DEF Covers
<1>3. Conflict(m[2], n[2])
  BY <1>1, <1>2 DEF Conflict
<1> QED
  BY <1>1, <1>3 DEF Panics

\* A relayed path is one module's and one method's.
LEMMA RelayPathInjective ==
    ASSUME NEW module, NEW method, NEW other, NEW name,
           Names(RelayPath(module, method)) = Names(RelayPath(other, name))
    PROVE  RelayPath(module, method) = RelayPath(other, name)
<1>1. Names(RelayPath(module, method)) = <<"v1", "modules", module.as, method>>
  BY DEF Names, RelayPath, Lit
<1>2. Names(RelayPath(other, name)) = <<"v1", "modules", other.as, name>>
  BY DEF Names, RelayPath, Lit
<1>3. module.as = other.as /\ method = name
  <2> DEFINE s == <<"v1", "modules", module.as, method>>
             t == <<"v1", "modules", other.as, name>>
  <2>1. s = t
    BY <1>1, <1>2
  <2>2. s[3] = module.as /\ s[4] = method /\ t[3] = other.as /\ t[4] = name
    OBVIOUS
  <2> HIDE DEF s, t
  <2> QED
    BY <2>1, <2>2
<1> QED
  BY <1>3 DEF RelayPath

\* What an entry of the mux runs for a request is one operation at most, declared
\* and published, for the request's method and at its path.
LEMMA RunsOne ==
    ASSUME TableStands(operations), OneSurface, mux = Registered,
           NEW path, NEW method, NEW m \in Picked(path)
    PROVE  \A op \in Runs(m, method, path) :
               /\ Runs(m, method, path) = {op}
               /\ method = Verb(op) /\ Matches(op.path, path)
               /\ \E p \in Published : p.op = op
<1> SUFFICES ASSUME NEW op \in Runs(m, method, path)
             PROVE  /\ Runs(m, method, path) = {op}
                    /\ method = Verb(op) /\ Matches(op.path, path)
                    /\ \E p \in Published : p.op = op
  OBVIOUS
<1>1. Matches(m[2], path) /\ m \in Registered
  BY DEF Picked, Picks
<1>2. m[1] \in {"runtime", "operations", "passthrough", "mcp"}
  BY <1>1 DEF Registered
<1>3. CASE m[1] = "operations"
  <2>1. Runs(m, method, path) = {o \in {operations[i] : i \in DOMAIN operations} :
                                    o.path = m[2] /\ Verb(o) = method}
    BY <1>3 DEF Runs, DeclaredFor
  <2>2. \A o \in Runs(m, method, path) : o = op
    <3>1. \A i, j \in DOMAIN operations : SameEntry(operations[i], operations[j]) => i = j
      BY DEF TableStands
    <3> QED
      BY <2>1, <3>1 DEF SameEntry
  <2>3. PICK i \in DOMAIN operations : op = operations[i]
    BY <2>1
  <2>4. [by |-> i, op |-> op] \in Published
    BY <2>3 DEF Published
  <2> QED
    BY <1>1, <2>1, <2>2, <2>4
<1>4. CASE m[1] = "mcp"
  <2>1. Runs(m, method, path) = {o \in MCPOperations : o.path = m[2] /\ Verb(o) = method}
    BY <1>4 DEF Runs, DeclaredFor
  <2>2. \A o \in MCPOperations : \A q \in MCPOperations : o = q
    BY DEF MCPOperations, OneSurface
  <2>3. [by |-> 0, op |-> op] \in Published
    BY <2>1 DEF Published
  <2> QED
    BY <1>1, <2>1, <2>2, <2>3
<1>5. CASE m[1] = "passthrough"
  <2>1. Runs(m, method, path) = RelayedAt(method, path)
    BY <1>5 DEF Runs
  <2>2. /\ op \in Relayed /\ method = "post" /\ Matches(op.path, path)
        /\ \A o \in Runs(m, method, path) : o \in Relayed /\ Names(o.path) = Names(op.path)
    BY <2>1 DEF RelayedAt
  <2>3. \A p : \A policy : /\ OwnOperation(p, policy).path = p
                           /\ OwnOperation(p, policy).method = "post"
    BY DEF OwnOperation
  <2>4. \A o \in Relayed : \E module, name :
           o = OwnOperation(RelayPath(module, name), AnyCheckedCaller)
    BY DEF Relayed
  <2>5. \A o \in Runs(m, method, path) : o = op
    <3> SUFFICES ASSUME NEW o \in Runs(m, method, path) PROVE o = op
      OBVIOUS
    <3>1. PICK module, name : o = OwnOperation(RelayPath(module, name), AnyCheckedCaller)
      BY <2>2, <2>4
    <3>2. PICK other, another : op = OwnOperation(RelayPath(other, another), AnyCheckedCaller)
      BY <2>2, <2>4
    <3>3. Names(RelayPath(module, name)) = Names(RelayPath(other, another))
      BY <2>2, <2>3, <3>1, <3>2
    <3>4. RelayPath(module, name) = RelayPath(other, another)
      BY <3>3, RelayPathInjective
    <3> QED
      BY <3>1, <3>2, <3>4
  <2>6. op.method = "post"
    BY <2>2, <2>3, <2>4
  <2>7. [by |-> -1, op |-> op] \in Published
    BY <2>2 DEF Published
  <2> QED
    BY <2>2, <2>5, <2>6, <2>7 DEF Verb
<1>6. CASE m[1] = "runtime"
  BY <1>6 DEF Runs
<1> QED
  BY <1>2, <1>3, <1>4, <1>5, <1>6

\* The operation a request runs is the one the authority was asked about, and in
\* a rendered artifact its row is its own.
THEOREM CheckedIsRun == Spec => []CheckedRowIsRun
<1>1. ASSUME IInv PROVE CheckedRowIsRun
  <2> SUFFICES ASSUME NEW op \in ran, NEW r \in request
               PROVE  /\ ran = {op} /\ asked = {RowName(op)}
                      /\ r.method = Verb(op) /\ Matches(op.path, r.path)
                      /\ ArtifactRenders => \E p \in Published :
                            /\ p.op = op
                            /\ \A q \in Published : RowName(q.op) = RowName(op) => q = p
    BY DEF CheckedRowIsRun
  <2>1. place = "serving" /\ mux = Registered /\ ~Panics
    BY <1>1 DEF IInv, ServesWhatIsRegistered
  <2>2. TableStands(operations) /\ OneSurface
    BY <1>1, <2>1 DEF IInv, StandsPastTheCheck, Stands
  <2>3. /\ r.method \in Methods /\ r.path \in Paths
        /\ ran = Dispatched(r.method, r.path)
        /\ asked = {AskedAbout(o) : o \in Dispatched(r.method, r.path)}
    BY <1>1 DEF IInv, AskedIsDispatched
  <2>4. PICK m \in Picked(r.path) : op \in Runs(m, r.method, r.path)
    BY <2>3 DEF Dispatched
  <2>5. /\ Runs(m, r.method, r.path) = {op}
        /\ r.method = Verb(op) /\ Matches(op.path, r.path)
        /\ \E p \in Published : p.op = op
    BY <2>1, <2>2, <2>4, RunsOne
  <2>6. Picked(r.path) = {m}
    BY <2>1, <2>3, <2>4, OnePick
  <2>7. Dispatched(r.method, r.path) = {op}
    BY <2>5, <2>6 DEF Dispatched
  <2>8. asked = {RowName(op)}
    BY <2>3, <2>7 DEF AskedAbout
  <2>9. ASSUME ArtifactRenders
        PROVE  \E p \in Published :
                  /\ p.op = op
                  /\ \A q \in Published : RowName(q.op) = RowName(op) => q = p
    <3>1. PICK p \in Published : p.op = op
      BY <2>5
    <3>2. \A q \in Published : RowName(q.op) = RowName(p.op) => q = p
      BY <2>9 DEF ArtifactRenders, DocumentStands
    <3> QED
      BY <3>1, <3>2
  <2> QED
    BY <2>3, <2>5, <2>7, <2>8, <2>9
<1> QED
  BY <1>1, Invariant, PTL

----------------------------------------------------------------------------
(* Instances of patterns.                                                  *)

\* A pattern matches each of its instances.
LEMMA InstanceMatches ==
    ASSUME NEW p \in Seq(PatternTokens), NEW fresh, fresh # Empty
    PROVE  Matches(p, Instance(p, fresh)) /\ Len(Instance(p, fresh)) = Len(p)
<1> DEFINE x == Instance(p, fresh)
<1>1. DOMAIN x = 1..Len(p) /\ DOMAIN p = 1..Len(p) /\ Len(p) \in Nat
  BY DEF Instance
<1>2. Len(x) = Len(p)
  <2>1. x = [i \in 1..Len(p) |-> x[i]]
    BY DEF Instance
  <2>2. x \in Seq({x[i] : i \in 1..Len(p)})
    BY <1>1, <2>1
  <2> QED
    BY <1>1, <2>2
<1>3. ASSUME NEW i \in DOMAIN p PROVE Accepts(p[i], x[i])
  BY DEF Accepts, Instance
<1> QED
  BY <1>2, <1>3 DEF Matches

\* A sequence of pairs, as every pattern registered is.
Tokens(q) ==
    /\ Len(q) \in Nat /\ DOMAIN q = 1..Len(q)
    /\ \A i \in DOMAIN q : q[i] = <<q[i][1], q[i][2]>>

\* A pattern of literals, wildcards of a segment and anchors is covered by every
\* pattern that matches an instance of it with a segment that one does not spell.
LEMMA InstanceIsTypical ==
    ASSUME NEW p \in Seq(PatternTokens), p # <<>>, NEW q, Tokens(q), NEW fresh,
           fresh # Empty, Unspelled(fresh, q), Matches(q, Instance(p, fresh)),
           \A i \in DOMAIN p : p[i][1] \in {"lit", "one", "end"}
    PROVE  Covers(p) \subseteq Covers(q)
<1> DEFINE y == Instance(p, fresh)
<1> SUFFICES ASSUME NEW x \in Paths, Matches(p, x) PROVE Matches(q, x)
  BY DEF Covers
<1>1. /\ Len(p) \in Nat /\ DOMAIN p = 1..Len(p) /\ Len(q) \in Nat /\ DOMAIN q = 1..Len(q)
      /\ Len(p) # 0
  BY DEF Tokens
<1>2. Len(y) = Len(p)
  BY InstanceMatches
<1>3. ~Subtree(p)
  <2>1. Len(p) \in DOMAIN p
    BY <1>1
  <2> QED
    BY <2>1 DEF Subtree, Final
<1>4. Len(x) = Len(p)
  BY <1>3 DEF Matches
<1>5. Len(q) <= Len(p)
  <2>1. Len(y) = Len(q) \/ Len(y) > Len(q)
    BY DEF Matches
  <2>2. CASE Len(y) = Len(q)
    BY <1>1, <1>2, <2>2
  <2>3. CASE Len(y) > Len(q)
    <3>1. Len(p) > Len(q)
      BY <1>2, <2>3
    <3> QED
      BY <1>1, <3>1
  <2> QED
    BY <2>1, <2>2, <2>3
<1>6. ASSUME NEW i \in DOMAIN q PROVE Accepts(q[i], x[i])
  <2>1. i \in DOMAIN p
    BY <1>1, <1>5
  <2>2. Accepts(q[i], y[i])
    BY DEF Matches
  <2>3. Accepts(p[i], x[i])
    BY <2>1 DEF Matches
  <2>4. y[i] = CASE p[i][1] = "lit" -> p[i][2] [] p[i][1] = "end" -> Empty [] OTHER -> fresh
    BY <2>1 DEF Instance
  <2>5. q[i] = <<q[i][1], q[i][2]>> /\ q[i] # <<"lit", fresh>>
    BY DEF Tokens, Unspelled, Lit
  <2>6. p[i][1] \in {"lit", "one", "end"}
    BY <2>1
  <2>7. CASE p[i][1] = "lit"
    <3>1. x[i] = y[i]
      BY <2>3, <2>4, <2>7 DEF Accepts
    <3> QED
      BY <2>2, <3>1
  <2>8. CASE p[i][1] = "end"
    <3>1. x[i] = y[i]
      BY <2>3, <2>4, <2>8 DEF Accepts
    <3> QED
      BY <2>2, <3>1
  <2>9. CASE p[i][1] = "one"
    <3>1. x[i] # Empty /\ y[i] = fresh
      BY <2>3, <2>4, <2>9 DEF Accepts
    <3>2. q[i][1] # "lit" /\ q[i][1] # "end"
      BY <2>2, <2>5, <3>1 DEF Accepts
    <3> QED
      BY <3>1, <3>2 DEF Accepts
  <2> QED
    BY <2>6, <2>7, <2>8, <2>9
<1> QED
  BY <1>2, <1>4, <1>5, <1>6 DEF Matches

----------------------------------------------------------------------------
(* What the mux panics on, and what it hides.                              *)

\* The only path the MCP route matches is its own.
LEMMA MCPRouteIsOnePath ==
    ASSUME NEW x \in Paths, NEW y \in Paths, Matches(MCPRoute, x), Matches(MCPRoute, y)
    PROVE  /\ x = y
           /\ Len(x) = 2 /\ x[1] = "v1" /\ x[2] = "mcp"
<1>1. /\ Len(MCPRoute) = 2 /\ 1 \in DOMAIN MCPRoute /\ 2 \in DOMAIN MCPRoute
      /\ MCPRoute[1] = <<"lit", "v1">> /\ MCPRoute[2] = <<"lit", "mcp">>
  BY DEF MCPRoute, Lit
<1>2. ~Subtree(MCPRoute)
  BY <1>1 DEF Subtree, Final
<1>3. \A z : Matches(MCPRoute, z) => Len(z) = 2 /\ z[1] = "v1" /\ z[2] = "mcp"
  <2> SUFFICES ASSUME NEW z, Matches(MCPRoute, z)
               PROVE  Len(z) = 2 /\ z[1] = "v1" /\ z[2] = "mcp"
    OBVIOUS
  <2>1. Len(z) = 2
    BY <1>1, <1>2 DEF Matches
  <2>2. Accepts(MCPRoute[1], z[1]) /\ Accepts(MCPRoute[2], z[2])
    BY <1>1 DEF Matches
  <2>3. z[1] = "v1" /\ z[2] = "mcp"
    BY <1>1, <2>2 DEF Accepts
  <2> QED
    BY <2>1, <2>3
<1>4. x \in Seq(STRING) /\ y \in Seq(STRING)
  BY PathsAssumption
<1>5. Len(x) = 2 /\ x[1] = "v1" /\ x[2] = "mcp" /\ Len(y) = 2 /\ y[1] = "v1" /\ y[2] = "mcp"
  BY <1>3
<1>6. x = y
  <2>1. \A i \in 1..2 : x[i] = y[i]
    BY <1>5
  <2>2. x = [i \in 1..2 |-> x[i]] /\ y = [i \in 1..2 |-> y[i]]
    BY <1>4, <1>5
  <2> QED
    BY <2>1, <2>2
<1> QED
  BY <1>5, <1>6

\* A pattern that conflicts with the MCP route is the MCP route: any other one
\* that matches it matches an instance it does not.
LEMMA OnlyTheMCPRouteConflicts ==
    ASSUME NEW p \in Seq(PatternTokens), NEW fresh, fresh # Empty,
           Unspelled(fresh, MCPRoute), Instance(p, fresh) \in Paths,
           Conflict(p, MCPRoute)
    PROVE  p = MCPRoute
<1> SUFFICES ASSUME p # MCPRoute PROVE FALSE
  OBVIOUS
<1> DEFINE y == Instance(p, fresh)
<1>1. /\ Covers(p) \cap Covers(MCPRoute) # {}
      /\ Covers(p) \subseteq Covers(MCPRoute) <=> Covers(MCPRoute) \subseteq Covers(p)
  BY DEF Conflict
<1>2. PICK x \in Paths : Matches(p, x) /\ Matches(MCPRoute, x)
  BY <1>1 DEF Covers
<1>3. Covers(MCPRoute) \subseteq Covers(p)
  <2> SUFFICES ASSUME NEW z \in Paths, Matches(MCPRoute, z) PROVE Matches(p, z)
    BY DEF Covers
  <2>1. z = x
    BY <1>2, MCPRouteIsOnePath
  <2> QED
    BY <1>2, <2>1
<1>4. Matches(MCPRoute, y)
  <2>1. y \in Covers(p)
    BY InstanceMatches DEF Covers
  <2> QED
    BY <1>1, <1>3, <2>1 DEF Covers
<1>5. Len(y) = 2 /\ y[1] = "v1" /\ y[2] = "mcp"
  BY <1>4, MCPRouteIsOnePath
<1>6. Len(p) = 2
  BY <1>5, InstanceMatches
<1>7. fresh # "v1" /\ fresh # "mcp"
  BY DEF Unspelled, MCPRoute, Lit
<1>8. ASSUME NEW i \in 1..2 PROVE p[i] = <<"lit", y[i]>>
  <2>1. i \in DOMAIN p /\ p[i] = <<p[i][1], p[i][2]>>
    <3>1. i \in DOMAIN p
      BY <1>6
    <3>2. p[i] \in PatternTokens
      BY <3>1
    <3> QED
      BY <3>1, <3>2 DEF PatternTokens
  <2>2. y[i] # Empty /\ y[i] # fresh
    BY <1>5, <1>7
  <2>3. y[i] = CASE p[i][1] = "lit" -> p[i][2] [] p[i][1] = "end" -> Empty [] OTHER -> fresh
    BY <2>1 DEF Instance
  <2> HIDE DEF y
  <2>4. p[i][1] = "lit" /\ p[i][2] = y[i]
    BY <2>2, <2>3
  <2> QED
    BY <2>1, <2>4
<1>9. p[1] = <<"lit", "v1">> /\ p[2] = <<"lit", "mcp">>
  BY <1>5, <1>8
<1>10. p = <<p[1], p[2]>>
  BY <1>6
<1> QED
  BY <1>9, <1>10 DEF MCPRoute, Lit

\* What the mux panics on is never the MCP route: start refuses an operation
\* declared at it, and no other pattern conflicts with it.
THEOREM MCPRoutePanicsOnNothing == Spec => []MCPRouteNeverPanics
<1>1. ASSUME IInv PROVE MCPRouteNeverPanics
  <2> SUFFICES ASSUME place = "panicked", mcp # {}, NEW i \in DOMAIN operations,
                      Conflict(operations[i].path, MCPRoute)
               PROVE  FALSE
    BY DEF MCPRouteNeverPanics
  <2>1. operations[i].path # MCPRoute
    BY <1>1 DEF IInv, StandsPastTheCheck, Stands, MCPStands
  <2>2. operations[i] \in Declarable
    BY <1>1 DEF IInv, TypeOK
  <2>3. PICK fresh : /\ fresh # Empty /\ Unspelled(fresh, MCPRoute)
                     /\ Instance(operations[i].path, fresh) \in Paths
    BY <2>2, PathsAssumption
  <2>4. operations[i].path \in Seq(PatternTokens)
    BY <2>2, PathsAssumption
  <2> QED
    BY <2>1, <2>3, <2>4, OnlyTheMCPRouteConflicts
<1> QED
  BY <1>1, Invariant, PTL

\* A pattern core derives a marker for, on a mux that did not panic, is literals,
\* wildcards of one segment and anchors.
LEMMA DerivablePattern ==
    ASSUME NEW p \in Seq(PatternTokens), p # <<>>, WellFormed(p), ServedRoute(p) \in Derivable
    PROVE  \A i \in DOMAIN p : p[i][1] \in {"lit", "one", "end"}
<1> SUFFICES ASSUME NEW i \in DOMAIN p, p[i][1] \notin {"lit", "one", "end"} PROVE FALSE
  OBVIOUS
<1>1. p[i][1] \in {"lit", "one", "rest", "tree", "end", "bad"}
  BY DEF PatternTokens
<1>2. p[i][1] # "bad" /\ (p[i][1] \in {"rest", "tree"} => i = Len(p))
  BY DEF WellFormed
<1>3. i = Len(p) /\ p[i][1] \in {"rest", "tree"}
  BY <1>1, <1>2
<1>4. i \in DOMAIN ServedRoute(p) /\ ServedRoute(p)[i] = RowToken(p[i])
  BY <1>3 DEF ServedRoute, Final
<1>5. RowToken(p[i])[1] = "star"
  BY <1>3 DEF RowToken, Star
<1> QED
  BY <1>4, <1>5, DerivableAssumption

\* A published tool is an operation of the author's.
LEMMA ToolsAreDeclared ==
    ASSUME NEW p \in Published, Marked(p.op)
    PROVE  \E i \in DOMAIN operations : p.op = operations[i]
<1>1. \A path, policy : OwnOperation(path, policy).exclude
  BY DEF OwnOperation
<1>2. \A op \in MCPOperations : op.exclude
  BY <1>1 DEF MCPOperations
<1>3. \A op \in Relayed : op.exclude
  BY <1>1 DEF Relayed
<1>4. ~p.op.exclude
  BY DEF Marked
<1>5. \/ \E i \in DOMAIN operations : p = [by |-> i, op |-> operations[i]]
      \/ \E op \in MCPOperations : p = [by |-> 0, op |-> op]
      \/ \E op \in Relayed : p = [by |-> -1, op |-> op]
  BY DEF Published
<1>6. CASE \E i \in DOMAIN operations : p = [by |-> i, op |-> operations[i]]
  BY <1>6
<1>7. CASE \E op \in MCPOperations : p = [by |-> 0, op |-> op]
  BY <1>2, <1>4, <1>7
<1>8. CASE \E op \in Relayed : p = [by |-> -1, op |-> op]
  BY <1>3, <1>4, <1>8
<1> QED
  BY <1>5, <1>6, <1>7, <1>8

\* Of a mux that did not panic, every pattern registered is one net/http parses,
\* and spells no segment the operations and the runtime leave unspelled.
LEMMA RegisteredPatterns ==
    ASSUME IInv, ~Panics, NEW m \in Registered, NEW fresh,
           \A p \in OwnPatterns \cup {PassthroughPattern, MCPRoute} : Unspelled(fresh, p),
           \A op \in Declarable : Unspelled(fresh, op.path)
    PROVE  Tokens(m[2]) /\ WellFormed(m[2]) /\ Unspelled(fresh, m[2])
<1>1. WellFormed(m[2])
  BY DEF Panics
<1>2. \A p \in OwnPatterns \cup {PassthroughPattern, MCPRoute} : Tokens(p)
  <2>1. \A p \in OwnPatterns : Tokens(p)
    BY DEF OwnPatterns, Lit, Tree, Tokens
  <2>2. Tokens(PassthroughPattern)
    BY DEF PassthroughPattern, Lit, Tree, Tokens
  <2>3. Tokens(MCPRoute)
    BY DEF MCPRoute, Lit, Tokens
  <2> QED
    BY <2>1, <2>2, <2>3
<1>3. \A i \in DOMAIN operations : operations[i] \in Declarable
  BY DEF IInv, TypeOK
<1>4. \/ m[2] \in OwnPatterns \cup {PassthroughPattern, MCPRoute}
      \/ \E i \in DOMAIN operations : m[2] = operations[i].path
  BY DEF Registered
<1>5. CASE m[2] \in OwnPatterns \cup {PassthroughPattern, MCPRoute}
  BY <1>1, <1>2, <1>5
<1>6. CASE \E i \in DOMAIN operations : m[2] = operations[i].path
  <2>1. PICK i \in DOMAIN operations : m[2] = operations[i].path
    BY <1>6
  <2>2. m[2] \in Seq(PatternTokens) /\ Unspelled(fresh, m[2])
    BY <1>3, <2>1, PathsAssumption
  <2>3. Tokens(m[2])
    BY <2>2 DEF Tokens, PatternTokens
  <2> QED
    BY <1>1, <2>2, <2>3
<1> QED
  BY <1>4, <1>5, <1>6

\* Some request runs an operation core derives a marker for, and nothing else.
LEMMA DerivableIsReached ==
    ASSUME IInv, place = "serving", NEW i \in DOMAIN operations,
           ServedRoute(operations[i].path) \in Derivable
    PROVE  \E path \in Paths : Dispatched(Verb(operations[i]), path) = {operations[i]}
<1> DEFINE op == operations[i]
           entry == <<"operations", op.path>>
<1>1. mux = Registered /\ ~Panics /\ TableStands(operations)
  BY DEF IInv, ServesWhatIsRegistered, StandsPastTheCheck, Stands
<1>2. op \in Declarable
  BY DEF IInv, TypeOK
<1>3. op.path \in Seq(PatternTokens) /\ op.path # <<>>
  BY <1>2, PathsAssumption
<1>4. PICK fresh :
          /\ fresh # Empty
          /\ \A p \in OwnPatterns \cup {PassthroughPattern, MCPRoute} : Unspelled(fresh, p)
          /\ \A o \in Declarable : Unspelled(fresh, o.path) /\ Instance(o.path, fresh) \in Paths
  BY PathsAssumption
<1> DEFINE path == Instance(op.path, fresh)
<1>5. entry \in mux /\ entry[2] = op.path
  BY <1>1 DEF Registered
<1>6. \A j \in DOMAIN op.path : op.path[j][1] \in {"lit", "one", "end"}
  <2>1. WellFormed(op.path)
    BY <1>1, <1>5 DEF Panics
  <2> QED
    BY <1>3, <2>1, DerivablePattern
<1>7. path \in Paths /\ Matches(op.path, path)
  BY <1>2, <1>3, <1>4, InstanceMatches
<1>8. \A m \in mux : Matches(m[2], path) => Covers(op.path) \subseteq Covers(m[2])
  <2> SUFFICES ASSUME NEW m \in mux, Matches(m[2], path)
               PROVE  Covers(op.path) \subseteq Covers(m[2])
    OBVIOUS
  <2>1. Tokens(m[2]) /\ Unspelled(fresh, m[2])
    BY <1>1, <1>4, RegisteredPatterns
  <2> HIDE DEF op
  <2> QED
    BY <1>3, <1>4, <1>6, <2>1, InstanceIsTypical
<1>9. entry \in Picked(path)
  BY <1>5, <1>7, <1>8 DEF Picked, Picks
<1>10. Picked(path) = {entry}
  BY <1>1, <1>7, <1>9, OnePick
<1>11. Runs(entry, Verb(op), path) = {op}
  <2>1. Runs(entry, Verb(op), path)
            = {o \in {operations[j] : j \in DOMAIN operations} :
                  o.path = op.path /\ Verb(o) = Verb(op)}
    BY DEF Runs, DeclaredFor
  <2>2. \A j \in DOMAIN operations :
           operations[j].path = op.path /\ Verb(operations[j]) = Verb(op) => j = i
    BY <1>1 DEF TableStands, SameEntry
  <2> QED
    BY <2>1, <2>2
<1>12. Dispatched(Verb(op), path) = {op}
  BY <1>10, <1>11 DEF Dispatched
<1> QED
  BY <1>7, <1>12

\* A tool of a rendered document names one operation: one that names itself is
\* unlike every operationId, and no two of either are alike.
LEMMA ToolNamesOne ==
    ASSUME DocumentStands(Published), NEW p \in Published, NEW q \in Published,
           ToolName(q.op) = ToolName(p.op)
    PROVE  q = p
<1>1. Verb(p.op) # "tool" /\ Verb(q.op) # "tool"
  BY DEF DocumentStands, OperationStands, ServedMethods
<1>2. \A op : \E names : Id(op) = <<Verb(op), names>>
  BY DEF Id, OperationID
<1>3. CASE p.op.tool # Empty /\ q.op.tool # Empty
  <2>1. p.op.tool = q.op.tool
    BY <1>3 DEF ToolName
  <2> QED
    BY <1>3, <2>1 DEF DocumentStands
<1>4. CASE p.op.tool = Empty /\ q.op.tool = Empty
  BY <1>4 DEF ToolName, DocumentStands
<1>5. CASE p.op.tool # Empty /\ q.op.tool = Empty
  <2>1. PICK names : Id(q.op) = <<Verb(q.op), names>>
    BY <1>2
  <2>2. <<"tool", p.op.tool>> = <<Verb(q.op), names>>
    BY <1>5, <2>1 DEF ToolName
  <2> QED
    BY <1>1, <2>2
<1>6. CASE p.op.tool = Empty /\ q.op.tool # Empty
  <2>1. PICK names : Id(p.op) = <<Verb(p.op), names>>
    BY <1>2
  <2>2. <<"tool", q.op.tool>> = <<Verb(p.op), names>>
    BY <1>6, <2>1 DEF ToolName
  <2> QED
    BY <1>1, <2>2
<1> QED
  BY <1>3, <1>4, <1>5, <1>6

\* In a rendered artifact a tool's name is one operation's, a read, and some
\* request runs that operation and no other.
THEOREM ToolsAreReads == Spec => []ToolsNameOneRead
<1>1. ASSUME IInv PROVE ToolsNameOneRead
  <2> SUFFICES ASSUME place = "serving", ArtifactRenders, NEW p \in Published, Marked(p.op)
               PROVE  /\ ReadOnly(p.op.policy)
                      /\ \A q \in Published :
                            Marked(q.op) /\ ToolName(q.op) = ToolName(p.op) => q = p
                      /\ \E path \in Paths : Dispatched(Verb(p.op), path) = {p.op}
    BY DEF ToolsNameOneRead
  <2>1. ReadOnly(p.op.policy)
    BY DEF Marked
  <2>2. \A q \in Published : ToolName(q.op) = ToolName(p.op) => q = p
    BY ToolNamesOne DEF ArtifactRenders
  <2>3. \E path \in Paths : Dispatched(Verb(p.op), path) = {p.op}
    <3>1. PICK i \in DOMAIN operations : p.op = operations[i]
      BY ToolsAreDeclared
    <3>2. ServedRoute(operations[i].path) \in Derivable
      BY <3>1 DEF Marked
    <3> QED
      BY <1>1, <3>1, <3>2, DerivableIsReached
  <2> QED
    BY <2>1, <2>2, <2>3
<1> QED
  BY <1>1, Invariant, PTL
=============================================================================
