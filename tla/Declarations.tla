---------------------------- MODULE Declarations ----------------------------
(***************************************************************************)
(* A solution's declaration of authority, from the author's own slices to  *)
(* the asks made of the authority (contract.go; passthrough.go, Consumes   *)
(* and resolvePassthrough; solution.go, start and askedScopesOf).          *)
(*                                                                         *)
(* The author declares a ceiling per profile and audience (Contract) and   *)
(* the modules the page may call with the scopes asked for each            *)
(* (Consumes).  The boot holds the second to the first and publishes both; *)
(* from then on each relayed call asks its route's scopes, and a handler   *)
(* asks scopes of its own through gateways it derives.  The author keeps   *)
(* the slices a declaration or an ask was written with and may write into  *)
(* them at any time.                                                       *)
(*                                                                         *)
(* A slice is a reference: to one of the author's backing arrays, or to a  *)
(* copy nobody else holds.                                                 *)
(***************************************************************************)
EXTENDS Integers, Scopes

CONSTANTS
    Arrays,      \* the backing arrays of scopes the author keeps
    Slices,      \* what an array may hold: sequences of scopes
    Audiences,   \* the `as` of modules
    Methods,     \* the methods of a module
    Profiles,    \* configuration profiles
    Profile,     \* the one this process runs under
    Flags,       \* outcomes of the checks a module's other fields must pass
    MaxModules,  \* bounds on a declaration, for model checking
    MaxMethods,
    None

ASSUME NoArrayAssumption == None \notin Arrays
ASSUME EmptySliceAssumption == <<>> \in Slices
ASSUME BoundsAssumption == MaxModules \in Nat /\ MaxMethods \in Nat

VARIABLES
    held,      \* what the author's arrays hold
    declared,  \* Server.declaredContract: profile to audience to ceiling
    consumed,  \* Server.consumed
    phase,     \* where Serve is: "declaring", "refused" or "serving"
    routes,    \* Server.passthrough
    contract,  \* Server.contract: its bindings
    asks,      \* the asks relayed calls have made
    gateway,   \* a gateway a handler derived: its cache key and its ask
    issued,    \* the asks that gateway's issues have made, under its key
    artifact   \* what ContractArtifact answered for this declaration

authored == <<declared, consumed, artifact>>
running == <<phase, routes, contract>>
asking == <<asks, gateway, issued>>
vars == <<held, authored, running, asking>>

Shared(array) == [array |-> array, scopes |-> <<>>]
Copy(scopes) == [array |-> None, scopes |-> scopes]
Refs == {Shared(array) : array \in Arrays} \cup {Copy(scopes) : scopes \in Slices}

\* The scopes a slice reads as, now.
Read(ref) == IF ref.array = None THEN ref.scopes ELSE held[ref.array]

\* Mutant of FrozenScopes: stores the caller's slice.
SharedScopes(ref) == ref

\* frozenScopes: a deep copy.
FrozenScopes(ref) == Copy(Read(ref))

\* Mutant of AskedScopesOf: converts the slice and keeps its arrays.
ConvertedScopesOf(ref) == ref

\* askedScopesOf: a deep copy.
AskedScopesOf(ref) == Copy(Read(ref))

Tables == UNION {[audiences -> Arrays] : audiences \in SUBSET Audiences}
Contracts == UNION {[profiles -> Tables] : profiles \in SUBSET Profiles}

SeqsUpTo(S, n) == UNION {[1..len -> S] : len \in 0..n}

\* slots: the module's authority relay names all three of its slots.  fits: the
\* method's descriptor, stream bounds, response mask and pin agree.
ConsumedModules ==
    [as : Audiences, slots : Flags, scopes : Arrays,
     methods : SeqsUpTo([name : Methods, fits : Flags, scopes : Arrays], MaxMethods)]

Init ==
    /\ held \in [Arrays -> Slices]
    /\ declared = <<>>
    /\ consumed = <<>>
    /\ phase = "declaring"
    /\ routes = {}
    /\ contract = {}
    /\ asks = {}
    /\ gateway = None
    /\ issued = {}
    /\ artifact = "unrendered"

----------------------------------------------------------------------------
(* The author.                                                             *)

\* The author writes into an array of theirs, at any time.
Write(array, scopes) ==
    /\ held' = [held EXCEPT ![array] = scopes]
    /\ UNCHANGED <<authored, running, asking>>

\* Contract: frozen at the declaration boundary; the last call stands.
Contract(ceilings) ==
    /\ phase = "declaring"
    /\ declared' = [p \in DOMAIN ceilings |-> [a \in DOMAIN ceilings[p] |->
                        FrozenScopes(Shared(ceilings[p][a]))]]
    /\ artifact' = "unrendered"
    /\ UNCHANGED <<held, consumed, running, asking>>

\* Mutant of Frozen: the module's scopes are copied, its methods' are not.
FrozenButMethods(module) ==
    [module EXCEPT
        !.scopes = FrozenScopes(Shared(module.scopes)),
        !.methods = [i \in DOMAIN module.methods |->
            [module.methods[i] EXCEPT !.scopes = Shared(@)]]]

\* A module as Consumes stores it.
Frozen(module) ==
    [module EXCEPT
        !.scopes = FrozenScopes(Shared(module.scopes)),
        !.methods = [i \in DOMAIN module.methods |->
            [module.methods[i] EXCEPT !.scopes = FrozenScopes(Shared(@))]]]

\* Consumes: frozen at the declaration boundary; calls add up.
Consumes(module) ==
    /\ phase = "declaring"
    /\ Len(consumed) < MaxModules
    /\ consumed' = Append(consumed, Frozen(module))
    /\ artifact' = "unrendered"
    /\ UNCHANGED <<held, declared, running, asking>>

----------------------------------------------------------------------------
(* The boot.                                                               *)

\* The module declares no scopes and the method none either.
Unasking(module, method) ==
    Read(module.scopes) = <<>> /\ Read(method.scopes) = <<>>

\* resolvePassthrough refuses none of the declaration.
Resolves(modules) ==
    /\ \A i, j \in DOMAIN modules : modules[i].as = modules[j].as => i = j
    /\ \A module \in Range(modules) :
        /\ module.slots
        /\ module.methods # <<>>
        /\ CheckScopes(Read(module.scopes))
        /\ \A i, j \in DOMAIN module.methods :
            module.methods[i].name = module.methods[j].name => i = j
        /\ \A method \in Range(module.methods) :
            /\ method.fits
            /\ ~Unasking(module, method)
            /\ CheckScopes(Read(method.scopes))

Routes(modules) ==
    UNION {{[as |-> module.as, method |-> method.name,
             scopes |-> method.scopes, moduleScopes |-> module.scopes]
            : method \in Range(module.methods)} : module \in Range(modules)}

\* Mutant of AskedOf: the methods' overrides are left out.
AskedOfTheModule(module) == {module.scopes}

\* askedScopes, as the slices it is read from: the module's own and each
\* method's override.
AskedOf(module) == {module.scopes} \cup {method.scopes : method \in Range(module.methods)}

Asked(slices) == UNION {Range(Read(slice)) : slice \in slices}

\* The ceilings of a profile; none when it is not declared.
TableOf(ceilings, profile) ==
    IF profile \in DOMAIN ceilings THEN ceilings[profile] ELSE <<>>

\* checkContract refuses nothing for this profile.
CheckContract(modules, ceilings, profile) ==
    LET table == TableOf(ceilings, profile) IN
    /\ profile \in DOMAIN ceilings \/ modules = <<>>
    /\ \A module \in Range(modules) :
        /\ module.as \in DOMAIN table
        /\ CheckScopes(Read(table[module.as]))
        /\ \A scope \in Asked(AskedOf(module)) :
            WithinCeiling(scope, Read(table[module.as]))
    /\ \A audience \in DOMAIN table :
        \E module \in Range(modules) : module.as = audience

Bindings(modules, table) ==
    {[audience |-> module.as, ceiling |-> table[module.as], asked |-> AskedOf(module)]
     : module \in Range(modules)}

\* resolveContract: a solution that declares no ceiling publishes no binding.
ContractResolves ==
    DOMAIN declared = {} \/ CheckContract(consumed, declared, Profile)

\* start, as far as the declaration decides it.
Boot ==
    /\ phase = "declaring"
    /\ Resolves(consumed)
    /\ ContractResolves
    /\ phase' = "serving"
    /\ routes' = Routes(consumed)
    /\ contract' = IF DOMAIN declared = {} THEN {}
                   ELSE Bindings(consumed, TableOf(declared, Profile))
    /\ UNCHANGED <<held, authored, asking>>

BootRefused ==
    /\ phase = "declaring"
    /\ ~(Resolves(consumed) /\ ContractResolves)
    /\ phase' = "refused"
    /\ UNCHANGED <<held, authored, routes, contract, asking>>

\* Mutant of RenderArtifact: one profile that stands is enough.
RenderArtifactForOne ==
    /\ phase = "declaring"
    /\ artifact' = IF \/ consumed = <<>>
                      \/ \E profile \in DOMAIN declared :
                            CheckContract(consumed, declared, profile)
                   THEN "rendered" ELSE "refused"
    /\ UNCHANGED <<held, declared, consumed, running, asking>>

\* ContractArtifact, rendered from the declaration the boot is given.  (The
\* profile names of the model are usable ones.)
RenderArtifact ==
    /\ phase = "declaring"
    /\ artifact' = IF /\ \A profile \in DOMAIN declared :
                            CheckContract(consumed, declared, profile)
                      /\ consumed = <<>> \/ DOMAIN declared # {}
                   THEN "rendered" ELSE "refused"
    /\ UNCHANGED <<held, declared, consumed, running, asking>>

----------------------------------------------------------------------------
(* What a serving process asks for.                                        *)

\* Mutant of RouteScopes: the method's scopes add to the module's.
RouteScopesUnion(route) == Read(route.moduleScopes) \o Read(route.scopes)

\* passthroughRoute.scopes: the method's own, else the module's.
RouteScopes(route) ==
    IF Read(route.scopes) # <<>> THEN Read(route.scopes) ELSE Read(route.moduleScopes)

\* A relayed call asks its route's scopes (asTheViewer).
Relay(route) ==
    /\ phase = "serving"
    /\ asks' = asks \cup {[as |-> route.as, scopes |-> RouteScopes(route)]}
    /\ UNCHANGED <<held, authored, running, gateway, issued>>

\* A handler derives a gateway with scopes from an array of its own
\* (ForParent): the key and the ask are taken from it then.
Derive(array) ==
    /\ phase = "serving"
    /\ gateway' = [key |-> held[array], ask |-> AskedScopesOf(Shared(array))]
    /\ UNCHANGED <<held, authored, running, asks, issued>>

\* That gateway's context lapsed, or there was none: it asks again.
Issue ==
    /\ gateway # None
    /\ issued' = issued \cup {[key |-> gateway.key, scopes |-> Read(gateway.ask)]}
    /\ UNCHANGED <<held, authored, running, asks, gateway>>

Next ==
    \/ \E array \in Arrays, scopes \in Slices : Write(array, scopes)
    \/ \E ceilings \in Contracts : Contract(ceilings)
    \/ \E module \in ConsumedModules : Consumes(module)
    \/ Boot
    \/ BootRefused
    \/ RenderArtifact
    \/ \E route \in routes : Relay(route)
    \/ \E array \in Arrays : Derive(array)
    \/ Issue

Spec == Init /\ [][Next]_vars

----------------------------------------------------------------------------
(* What the declaration promises.                                          *)

\* The document handleContract answers with.
Document ==
    {[audience |-> b.audience, ceiling |-> Read(b.ceiling), asked |-> Asked(b.asked)]
     : b \in contract}

ModuleTypes ==
    [as : Audiences, slots : Flags, scopes : Refs,
     methods : SeqsUpTo([name : Methods, fits : Flags, scopes : Refs], MaxMethods)]

TypeOK ==
    /\ held \in [Arrays -> Slices]
    /\ DOMAIN declared \subseteq Profiles
    /\ \A p \in DOMAIN declared :
        declared[p] \in UNION {[audiences -> Refs] : audiences \in SUBSET Audiences}
    /\ consumed \in SeqsUpTo(ModuleTypes, MaxModules)
    /\ phase \in {"declaring", "refused", "serving"}
    /\ routes \subseteq [as : Audiences, method : Methods, scopes : Refs, moduleScopes : Refs]
    /\ contract \subseteq [audience : Audiences, ceiling : Refs, asked : SUBSET Refs]
    /\ asks \subseteq [as : Audiences, scopes : Slices]
    /\ gateway \in [key : Slices, ask : Refs] \cup {None}
    /\ issued \subseteq [key : Slices, scopes : Slices]
    /\ artifact \in {"unrendered", "rendered", "refused"}

\* Every relayed ask narrows the binding: it names at least one scope, where none
\* would be the whole of it, and every scope it names could name an authority.
EveryAskNarrows ==
    \A ask \in asks : ask.scopes # <<>> /\ CheckScopes(ask.scopes)

\* No relayed call asks for a binding whole; and when a contract is published,
\* none ever asks an audience for a right beyond the ceiling the contract
\* publishes for it, whatever the author does with the slices they declared
\* either with: all of what a scope comes to is within one entry, never pieced
\* together from several.
AsksWithinPublishedCeiling ==
    /\ EveryAskNarrows
    /\ contract # {} =>
        \A ask \in asks : \E b \in Document :
            /\ b.audience = ask.as
            /\ \A scope \in Range(ask.scopes) :
                \E entry \in Range(b.ceiling) : Rights(scope) \subseteq Rights(entry)

\* What the contract says is asked of an audience is all a relayed call ever
\* asks of it.
AsksArePublished ==
    contract # {} =>
        \A ask \in asks : \E b \in Document :
            b.audience = ask.as /\ Range(ask.scopes) \subseteq b.asked

\* The contract a process publishes never changes under a reader.
PublishedContractIsFixed == [][phase = "serving" => Document' = Document]_vars

\* A derived gateway asks for what its cache key names each time it asks, so a
\* context cached under one ask is never one issued for another.
IssuesAskTheirKey == \A i \in issued : i.scopes = i.key

\* "Every rule the boot holds a running process to" of a contract is held to where
\* its artifact is rendered (ContractArtifact's comment): a declaration whose
\* artifact was rendered is refused by the boot only for what resolvePassthrough
\* checks of it, whatever the author wrote into its slices in between.
RenderedContractsResolve ==
    artifact = "rendered" /\ Profile \in DOMAIN declared /\ phase = "refused" =>
        ~Resolves(consumed)
=============================================================================
