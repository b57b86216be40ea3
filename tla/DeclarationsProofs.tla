------------------------- MODULE DeclarationsProofs -------------------------
(***************************************************************************)
(* Proofs about Declarations, for any slices, audiences, methods and       *)
(* profiles, and declarations of any size.                                 *)
(***************************************************************************)
EXTENDS Declarations, SequenceTheorems, TLAPS

----------------------------------------------------------------------------
(* The inductive invariant.                                                *)

Own(ref) == ref.array = None

\* Nothing the server stores refers to an array of the author's.
EverythingIsFrozen ==
    /\ \A p \in DOMAIN declared : \A a \in DOMAIN declared[p] : Own(declared[p][a])
    /\ \A i \in DOMAIN consumed :
        /\ Own(consumed[i].scopes)
        /\ \A j \in DOMAIN consumed[i].methods : Own(consumed[i].methods[j].scopes)
    /\ \A r \in routes : Own(r.scopes) /\ Own(r.moduleScopes)
    /\ \A b \in contract : Own(b.ceiling) /\ \A ref \in b.asked : Own(ref)
    /\ gateway # None => Own(gateway.ask)

\* What the boot checked of each route and each binding.
RoutesAreChecked ==
    \A r \in routes :
        /\ CheckScopes(r.scopes.scopes)
        /\ CheckScopes(r.moduleScopes.scopes)
        /\ ~(r.scopes.scopes = <<>> /\ r.moduleScopes.scopes = <<>>)

BindingsAreChecked ==
    \A b \in contract : \A ref \in b.asked :
        \A scope \in Range(ref.scopes) : WithinCeiling(scope, b.ceiling.scopes)

\* A published contract has a binding for every route, which names what the
\* route asks.
RoutesAreBound ==
    contract # {} =>
        \A r \in routes : \E b \in contract :
            b.audience = r.as /\ r.scopes \in b.asked /\ r.moduleScopes \in b.asked

\* Every ask so far was a route's, and routes only exist in a serving process.
AsksAreRoutes ==
    \A ask \in asks : \E r \in routes :
        /\ ask.as = r.as
        /\ ask.scopes = IF r.scopes.scopes # <<>> THEN r.scopes.scopes
                        ELSE r.moduleScopes.scopes

NothingBeforeServing ==
    phase # "serving" => routes = {} /\ contract = {}

KeyIsTheAsk ==
    gateway # None => gateway.ask.scopes = gateway.key

IInv ==
    /\ TypeOK
    /\ EverythingIsFrozen
    /\ RoutesAreChecked
    /\ BindingsAreChecked
    /\ RoutesAreBound
    /\ AsksAreRoutes
    /\ NothingBeforeServing
    /\ KeyIsTheAsk
    /\ IssuesAskTheirKey

----------------------------------------------------------------------------
(* Slices and scopes.                                                      *)

\* A slice nobody else holds reads as the scopes it was copied with, before a
\* step and after it.
LEMMA OwnReads ==
    ASSUME NEW ref, Own(ref)
    PROVE  Read(ref) = ref.scopes /\ Read(ref)' = ref.scopes
BY DEF Own, Read

\* A copy is the server's own and reads as the original did.
LEMMA CopyIsOwn ==
    ASSUME NEW scopes
    PROVE  Own(Copy(scopes)) /\ Copy(scopes).scopes = scopes
BY DEF Own, Copy

\* One entry that covers an ask allows every right the ask comes to.
LEMMA CoverageIsSound ==
    ASSUME NEW asked, NEW allowed,
           allowed.kind = asked.kind,
           CoveredBy(asked, allowed)
    PROVE  Rights(asked) \subseteq Rights(allowed)
BY DEF CoveredBy, Rights

----------------------------------------------------------------------------
(* Types.                                                                  *)

\* A slice reads as a sequence of scopes.
LEMMA ReadType ==
    ASSUME TypeOK, NEW ref \in Refs
    PROVE  Read(ref) \in Slices
BY EmptySliceAssumption DEF TypeOK, Refs, Read, Shared, Copy

\* One more module keeps a declaration within its bound.
LEMMA AppendType ==
    ASSUME NEW S, NEW n \in Nat, NEW s \in SeqsUpTo(S, n), Len(s) < n, NEW e \in S
    PROVE  /\ Append(s, e) \in SeqsUpTo(S, n)
           /\ DOMAIN Append(s, e) = 1..(Len(s) + 1)
           /\ DOMAIN s = 1..Len(s)
           /\ \A i \in DOMAIN s : Append(s, e)[i] = s[i]
           /\ Append(s, e)[Len(s) + 1] = e
<1>1. PICK len \in 0..n : s \in [1..len -> S]
  BY DEF SeqsUpTo
<1>2. s \in Seq(S) /\ Len(s) = len
  BY <1>1
<1>3. Append(s, e) \in [1..(len + 1) -> S] /\ len + 1 \in 0..n
  <2>1. Append(s, e) \in Seq(S) /\ Len(Append(s, e)) = len + 1
    BY <1>2, AppendProperties
  <2>2. Append(s, e) \in [1..Len(Append(s, e)) -> S]
    BY <2>1, LenProperties
  <2>3. len + 1 \in 0..n
    BY <1>2
  <2> QED
    BY <2>1, <2>2, <2>3
<1>4. Append(s, e) \in SeqsUpTo(S, n)
  BY <1>3 DEF SeqsUpTo
<1> QED
  BY <1>1, <1>2, <1>3, <1>4, AppendProperties

\* What Consumes stores of a module is a module of slices.
LEMMA FrozenType ==
    ASSUME TypeOK, NEW module \in ConsumedModules
    PROVE  /\ Frozen(module) \in ModuleTypes
           /\ Own(Frozen(module).scopes)
           /\ \A j \in DOMAIN Frozen(module).methods : Own(Frozen(module).methods[j].scopes)
<1> DEFINE Raw == [name : Methods, fits : Flags, scopes : Arrays]
           Stored == [name : Methods, fits : Flags, scopes : Refs]
<1>1. \A array \in Arrays : FrozenScopes(Shared(array)) \in Refs /\ Own(FrozenScopes(Shared(array)))
  BY ReadType, CopyIsOwn DEF FrozenScopes, Refs
<1>2. PICK len \in 0..MaxMethods : module.methods \in [1..len -> Raw]
  BY DEF ConsumedModules, SeqsUpTo
<1> DEFINE methods == [i \in DOMAIN module.methods |->
              [module.methods[i] EXCEPT !.scopes = FrozenScopes(Shared(@))]]
<1>3. \A i \in 1..len : /\ methods[i] \in Stored
                        /\ Own(methods[i].scopes)
  BY <1>1, <1>2
<1>4. methods \in [1..len -> Stored]
  BY <1>2, <1>3
<1>5. methods \in SeqsUpTo(Stored, MaxMethods)
  BY <1>4 DEF SeqsUpTo
<1>6. Frozen(module).methods = methods /\ Frozen(module).scopes = FrozenScopes(Shared(module.scopes))
  BY DEF Frozen, ConsumedModules
<1>7. Frozen(module) \in ModuleTypes
  BY <1>1, <1>5 DEF Frozen, ModuleTypes, ConsumedModules
<1> QED
  BY <1>1, <1>2, <1>3, <1>6, <1>7 DEF ConsumedModules

\* What the boot stores refers to slices of the declaration.
LEMMA BootTypes ==
    ASSUME TypeOK, ContractResolves
    PROVE  /\ Routes(consumed) \subseteq
                [as : Audiences, method : Methods, scopes : Refs, moduleScopes : Refs]
           /\ DOMAIN declared # {} => Bindings(consumed, TableOf(declared, Profile))
                \subseteq [audience : Audiences, ceiling : Refs, asked : SUBSET Refs]
<1>1. PICK len \in 0..MaxModules : consumed \in [1..len -> ModuleTypes]
  BY DEF TypeOK, SeqsUpTo
<1>2. \A module \in Range(consumed) :
        /\ module.as \in Audiences
        /\ module.scopes \in Refs
        /\ \A method \in Range(module.methods) : method.name \in Methods /\ method.scopes \in Refs
  <2> SUFFICES ASSUME NEW module \in Range(consumed)
               PROVE  /\ module.as \in Audiences
                      /\ module.scopes \in Refs
                      /\ \A method \in Range(module.methods) :
                            method.name \in Methods /\ method.scopes \in Refs
    OBVIOUS
  <2>1. module \in ModuleTypes
    BY <1>1 DEF Range
  <2>2. PICK n \in 0..MaxMethods :
          module.methods \in [1..n -> [name : Methods, fits : Flags, scopes : Refs]]
    BY <2>1 DEF ModuleTypes, SeqsUpTo
  <2> QED
    BY <2>1, <2>2 DEF ModuleTypes, Range
<1>3. Routes(consumed) \subseteq
        [as : Audiences, method : Methods, scopes : Refs, moduleScopes : Refs]
  BY <1>2 DEF Routes
<1>4. \A module \in Range(consumed) : AskedOf(module) \subseteq Refs
  BY <1>2 DEF AskedOf
<1>5. ASSUME DOMAIN declared # {}
      PROVE  \A module \in Range(consumed) : TableOf(declared, Profile)[module.as] \in Refs
  <2> SUFFICES ASSUME NEW module \in Range(consumed)
               PROVE  TableOf(declared, Profile)[module.as] \in Refs
    OBVIOUS
  <2>1. CheckContract(consumed, declared, Profile)
    BY <1>5 DEF ContractResolves
  <2>2. Profile \in DOMAIN declared
    BY <2>1 DEF CheckContract, Range
  <2>3. TableOf(declared, Profile) = declared[Profile]
    BY <2>2 DEF TableOf
  <2>4. module.as \in DOMAIN declared[Profile]
    BY <2>1, <2>3 DEF CheckContract
  <2> QED
    BY <2>2, <2>3, <2>4 DEF TypeOK
<1>6. DOMAIN declared # {} => Bindings(consumed, TableOf(declared, Profile))
        \subseteq [audience : Audiences, ceiling : Refs, asked : SUBSET Refs]
  BY <1>2, <1>4, <1>5 DEF Bindings
<1> QED
  BY <1>3, <1>6

\* Nothing declared yet.
LEMMA InitTypes == Init => TypeOK
<1> SUFFICES ASSUME Init PROVE TypeOK
  OBVIOUS
<1>1. <<>> \in [1..0 -> ModuleTypes] /\ 0 \in 0..MaxModules
  BY BoundsAssumption
<1>2. consumed \in SeqsUpTo(ModuleTypes, MaxModules)
  BY <1>1 DEF Init, SeqsUpTo
<1> QED
  BY <1>2 DEF Init, TypeOK

\* Every step keeps the types.
LEMMA StepKeepsTypes ==
    ASSUME TypeOK, [Next]_vars
    PROVE  TypeOK'
<1> USE DEF TypeOK, authored, running, asking
<1>1. ASSUME NEW array \in Arrays, NEW scopes \in Slices, Write(array, scopes)
      PROVE  TypeOK'
  BY <1>1 DEF Write
<1>2. ASSUME NEW ceilings \in Contracts, Contract(ceilings)
      PROVE  TypeOK'
  <2>1. \A array \in Arrays : FrozenScopes(Shared(array)) \in Refs
    BY ReadType DEF FrozenScopes, Refs
  <2>2. PICK profiles \in SUBSET Profiles : ceilings \in [profiles -> Tables]
    BY DEF Contracts
  <2>3. \A p \in profiles : \E audiences \in SUBSET Audiences :
          ceilings[p] \in [audiences -> Arrays]
    BY <2>2 DEF Tables
  <2>4. DOMAIN declared' = profiles
    BY <1>2, <2>2 DEF Contract
  <2>5. \A p \in profiles : \E audiences \in SUBSET Audiences :
          declared'[p] \in [audiences -> Refs]
    BY <1>2, <2>1, <2>2, <2>3 DEF Contract
  <2> QED
    BY <1>2, <2>4, <2>5 DEF Contract
<1>3. ASSUME NEW module \in ConsumedModules, Consumes(module)
      PROVE  TypeOK'
  BY <1>3, BoundsAssumption, FrozenType, AppendType DEF Consumes
<1>4. ASSUME Boot PROVE TypeOK'
  BY <1>4, BootTypes DEF Boot
<1>5. ASSUME BootRefused PROVE TypeOK'
  BY <1>5 DEF BootRefused
<1>6. ASSUME RenderArtifact PROVE TypeOK'
  BY <1>6 DEF RenderArtifact
<1>7. ASSUME NEW route \in routes, Relay(route)
      PROVE  TypeOK'
  BY <1>7, ReadType DEF Relay, RouteScopes
<1>8. ASSUME NEW array \in Arrays, Derive(array)
      PROVE  TypeOK'
  BY <1>8, ReadType DEF Derive, AskedScopesOf, Refs
<1>9. ASSUME Issue PROVE TypeOK'
  BY <1>9, ReadType DEF Issue
<1>10. CASE UNCHANGED vars
  BY <1>10 DEF vars
<1> QED
  BY <1>1, <1>2, <1>3, <1>4, <1>5, <1>6, <1>7, <1>8, <1>9, <1>10 DEF Next

----------------------------------------------------------------------------
(* The invariant is inductive.                                             *)

\* Nothing declared yet: nothing to be aliased.
LEMMA InitEstablishes == Init => IInv
BY InitTypes
   DEF Init, IInv, EverythingIsFrozen, RoutesAreChecked, BindingsAreChecked,
       RoutesAreBound, AsksAreRoutes, NothingBeforeServing, KeyIsTheAsk,
       IssuesAskTheirKey

\* Only the boot stores routes and bindings; what holds of them is kept by every
\* step that leaves them alone, and so is what holds of the asks made so far.
LEMMA RunningKept ==
    ASSUME IInv, UNCHANGED running
    PROVE  /\ RoutesAreChecked' /\ BindingsAreChecked' /\ RoutesAreBound'
           /\ NothingBeforeServing'
           /\ asks' = asks => AsksAreRoutes'
BY DEF IInv, running, RoutesAreChecked, BindingsAreChecked, RoutesAreBound,
       NothingBeforeServing, AsksAreRoutes

\* A step that leaves the running process alone and keeps the declaration frozen.
LEMMA AuthorKeeps ==
    ASSUME IInv, TypeOK', UNCHANGED <<running, asking>>,
           EverythingIsFrozen'
    PROVE  IInv'
BY RunningKept DEF asking, IInv, KeyIsTheAsk, IssuesAskTheirKey

\* The author writes into an array: no stored slice refers to one.
LEMMA WriteKeeps ==
    ASSUME IInv, TypeOK', NEW array \in Arrays, NEW scopes \in Slices, Write(array, scopes)
    PROVE  IInv'
<1>1. EverythingIsFrozen'
  BY DEF Write, authored, running, asking, IInv, EverythingIsFrozen, Own
<1> QED
  BY <1>1, AuthorKeeps DEF Write

\* Contract stores copies.
LEMMA ContractKeeps ==
    ASSUME IInv, TypeOK', NEW ceilings \in Contracts, Contract(ceilings)
    PROVE  IInv'
<1>1. EverythingIsFrozen'
  BY CopyIsOwn DEF Contract, FrozenScopes, running, asking, IInv, EverythingIsFrozen, Own
<1> QED
  BY <1>1, AuthorKeeps DEF Contract

\* Consumes stores copies, of the methods as well.
LEMMA ConsumesKeeps ==
    ASSUME IInv, TypeOK', NEW module \in ConsumedModules, Consumes(module)
    PROVE  IInv'
<1>1. \A i \in DOMAIN consumed' :
        /\ Own(consumed'[i].scopes)
        /\ \A j \in DOMAIN consumed'[i].methods : Own(consumed'[i].methods[j].scopes)
  <2>1. /\ consumed \in SeqsUpTo(ModuleTypes, MaxModules)
        /\ consumed' = Append(consumed, Frozen(module))
        /\ Len(consumed) < MaxModules
    BY DEF IInv, TypeOK, Consumes
  <2>2. Frozen(module) \in ModuleTypes
    BY FrozenType DEF IInv
  <2>3. /\ DOMAIN consumed' = 1..(Len(consumed) + 1)
        /\ DOMAIN consumed = 1..Len(consumed)
        /\ \A i \in DOMAIN consumed : consumed'[i] = consumed[i]
        /\ consumed'[Len(consumed) + 1] = Frozen(module)
    BY <2>1, <2>2, AppendType, BoundsAssumption
  <2>4. \A i \in DOMAIN consumed' : i \in DOMAIN consumed \/ consumed'[i] = Frozen(module)
    BY <2>1, <2>3 DEF SeqsUpTo
  <2> QED
    BY <2>3, <2>4, FrozenType DEF IInv, EverythingIsFrozen
<1>2. EverythingIsFrozen'
  BY <1>1 DEF Consumes, running, asking, IInv, EverythingIsFrozen, Own
<1> QED
  BY <1>2, AuthorKeeps DEF Consumes

\* The boot serves only a declaration that passed its checks.
LEMMA BootKeeps ==
    ASSUME IInv, TypeOK', Boot
    PROVE  IInv'
<1> DEFINE table == TableOf(declared, Profile)
<1>1. \A module \in Range(consumed) :
        /\ Own(module.scopes)
        /\ \A method \in Range(module.methods) : Own(method.scopes)
  BY DEF IInv, EverythingIsFrozen, Range
<1>2. ASSUME DOMAIN declared # {}, NEW module \in Range(consumed)
      PROVE  /\ Own(table[module.as])
             /\ \A scope \in Asked(AskedOf(module)) : WithinCeiling(scope, Read(table[module.as]))
  <2>1. CheckContract(consumed, declared, Profile)
    BY <1>2 DEF Boot, ContractResolves
  <2>2. Profile \in DOMAIN declared
    BY <1>2, <2>1 DEF CheckContract, Range
  <2>3. table = declared[Profile]
    BY <2>2 DEF TableOf
  <2> QED
    BY <1>2, <2>1, <2>2, <2>3 DEF CheckContract, IInv, EverythingIsFrozen
<1>3. \A r \in routes' : Own(r.scopes) /\ Own(r.moduleScopes)
  BY <1>1 DEF Boot, Routes
<1>4. \A b \in contract' :
        /\ DOMAIN declared # {}
        /\ \E module \in Range(consumed) :
            b = [audience |-> module.as, ceiling |-> table[module.as], asked |-> AskedOf(module)]
  BY DEF Boot, Bindings
<1>5. \A module \in Range(consumed) : \A ref \in AskedOf(module) : Own(ref)
  BY <1>1 DEF AskedOf
<1>6. \A b \in contract' : Own(b.ceiling) /\ \A ref \in b.asked : Own(ref)
  BY <1>2, <1>4, <1>5
<1>7. EverythingIsFrozen'
  BY <1>3, <1>6 DEF Boot, authored, asking, IInv, EverythingIsFrozen, Own
<1>8. RoutesAreChecked'
  BY <1>1, OwnReads DEF Boot, Resolves, Routes, Unasking, RoutesAreChecked
<1>9. BindingsAreChecked'
  <2> SUFFICES ASSUME NEW b \in contract', NEW ref \in b.asked, NEW scope \in Range(ref.scopes)
               PROVE  WithinCeiling(scope, b.ceiling.scopes)
    BY DEF BindingsAreChecked
  <2>1. DOMAIN declared # {}
    BY <1>4
  <2>2. PICK module \in Range(consumed) :
          b = [audience |-> module.as, ceiling |-> table[module.as], asked |-> AskedOf(module)]
    BY <1>4
  <2>3. scope \in Asked(AskedOf(module))
    BY <2>2, <1>5, OwnReads DEF Asked
  <2>4. WithinCeiling(scope, Read(table[module.as])) /\ Own(table[module.as])
    BY <1>2, <2>1, <2>3
  <2> QED
    BY <2>2, <2>4, OwnReads
<1>10. RoutesAreBound'
  <2> SUFFICES ASSUME contract' # {}, NEW r \in routes'
               PROVE  \E b \in contract' :
                        b.audience = r.as /\ r.scopes \in b.asked /\ r.moduleScopes \in b.asked
    BY DEF RoutesAreBound
  <2>1. contract' = Bindings(consumed, table)
    BY DEF Boot
  <2>2. PICK module \in Range(consumed) : \E method \in Range(module.methods) :
          r = [as |-> module.as, method |-> method.name,
               scopes |-> method.scopes, moduleScopes |-> module.scopes]
    BY DEF Boot, Routes
  <2> DEFINE b == [audience |-> module.as, ceiling |-> table[module.as], asked |-> AskedOf(module)]
  <2>3. b \in contract'
    BY <2>1 DEF Bindings
  <2>4. b.audience = r.as /\ r.scopes \in b.asked /\ r.moduleScopes \in b.asked
    BY <2>2 DEF AskedOf
  <2> QED
    BY <2>3, <2>4
<1>11. asks = {}
  BY DEF Boot, IInv, NothingBeforeServing, AsksAreRoutes
<1>12. AsksAreRoutes' /\ NothingBeforeServing' /\ KeyIsTheAsk' /\ IssuesAskTheirKey'
  BY <1>11 DEF Boot, asking, IInv, AsksAreRoutes, NothingBeforeServing, KeyIsTheAsk,
              IssuesAskTheirKey
<1> QED
  BY <1>7, <1>8, <1>9, <1>10, <1>12 DEF IInv

\* A refused boot serves nothing.
LEMMA BootRefusedKeeps ==
    ASSUME IInv, TypeOK', BootRefused
    PROVE  IInv'
BY DEF BootRefused, authored, asking, IInv, EverythingIsFrozen, RoutesAreChecked,
       BindingsAreChecked, RoutesAreBound, AsksAreRoutes, NothingBeforeServing,
       KeyIsTheAsk, IssuesAskTheirKey, Own

\* Rendering an artifact changes no declaration.
LEMMA RenderArtifactKeeps ==
    ASSUME IInv, TypeOK', RenderArtifact
    PROVE  IInv'
<1>1. EverythingIsFrozen'
  BY DEF RenderArtifact, running, asking, IInv, EverythingIsFrozen, Own
<1> QED
  BY <1>1, AuthorKeeps DEF RenderArtifact

\* A relayed call asks the scopes of its route.
LEMMA RelayKeeps ==
    ASSUME IInv, TypeOK', NEW route \in routes, Relay(route)
    PROVE  IInv'
<1>1. EverythingIsFrozen' /\ KeyIsTheAsk' /\ IssuesAskTheirKey'
  BY DEF Relay, authored, running, IInv, EverythingIsFrozen, KeyIsTheAsk,
         IssuesAskTheirKey, Own
<1>2. AsksAreRoutes'
  <2>1. RouteScopes(route) = IF route.scopes.scopes # <<>> THEN route.scopes.scopes
                             ELSE route.moduleScopes.scopes
    BY OwnReads DEF RouteScopes, IInv, EverythingIsFrozen
  <2> QED
    BY <2>1 DEF Relay, running, IInv, AsksAreRoutes
<1> QED
  BY <1>1, <1>2, RunningKept DEF Relay, IInv

\* A derived gateway keeps a copy of its ask, which its key is taken from.
LEMMA DeriveKeeps ==
    ASSUME IInv, TypeOK', NEW array \in Arrays, Derive(array)
    PROVE  IInv'
<1>1. gateway' = [key |-> held[array], ask |-> Copy(held[array])]
  BY NoArrayAssumption DEF Derive, AskedScopesOf, Read, Shared
<1>2. EverythingIsFrozen' /\ KeyIsTheAsk'
  BY <1>1, CopyIsOwn DEF Derive, authored, running, IInv, EverythingIsFrozen, KeyIsTheAsk, Own
<1>3. IssuesAskTheirKey'
  BY DEF Derive, IInv, IssuesAskTheirKey
<1> QED
  BY <1>2, <1>3, RunningKept DEF Derive, IInv

\* A gateway asks what it kept.
LEMMA IssueKeeps ==
    ASSUME IInv, TypeOK', Issue
    PROVE  IInv'
<1>1. Read(gateway.ask) = gateway.key
  BY OwnReads DEF Issue, IInv, EverythingIsFrozen, KeyIsTheAsk
<1>2. IssuesAskTheirKey'
  BY <1>1 DEF Issue, IInv, IssuesAskTheirKey
<1>3. EverythingIsFrozen' /\ KeyIsTheAsk'
  BY DEF Issue, authored, running, IInv, EverythingIsFrozen, KeyIsTheAsk, Own
<1> QED
  BY <1>2, <1>3, RunningKept DEF Issue, IInv

\* Every step keeps the invariant.
LEMMA StepKeeps == IInv /\ [Next]_vars => IInv'
<1> SUFFICES ASSUME IInv, [Next]_vars
             PROVE  IInv'
  OBVIOUS
<1>1. TypeOK'
  BY StepKeepsTypes DEF IInv
<1>2. CASE UNCHANGED vars
  BY <1>1, <1>2
     DEF vars, authored, running, asking, IInv, EverythingIsFrozen, RoutesAreChecked,
         BindingsAreChecked, RoutesAreBound, AsksAreRoutes, NothingBeforeServing,
         KeyIsTheAsk, IssuesAskTheirKey, Own
<1> QED
  BY <1>1, <1>2, WriteKeeps, ContractKeeps, ConsumesKeeps, BootKeeps, BootRefusedKeeps,
     RenderArtifactKeeps, RelayKeeps, DeriveKeeps, IssueKeeps DEF Next

\* The invariant holds for any declaration, whatever the author writes into the
\* slices it was written with, and whenever.
THEOREM Invariance == Spec => []IInv
BY InitEstablishes, StepKeeps, PTL DEF Spec

----------------------------------------------------------------------------
(* What follows.                                                           *)

\* Every state of Declarations is well typed.
THEOREM TypeCorrect == Spec => []TypeOK
<1>1. IInv => TypeOK
  BY DEF IInv
<1> QED
  BY <1>1, Invariance, PTL

\* A route whose method and module declare no scopes does not boot.
LEMMA RelayedAsksNarrow == IInv => EveryAskNarrows
BY DEF IInv, EveryAskNarrows, AsksAreRoutes, RoutesAreChecked

\* No relayed call asks for a binding whole, and none of a process that publishes a contract asks for a right
\* beyond what it publishes (passthroughRoute.scopes, held at boot to the
\* ceiling by checkContract, both frozen).
THEOREM AuthorityIsWithinTheContract == Spec => []AsksWithinPublishedCeiling
<1>1. IInv => AsksWithinPublishedCeiling
  <2> SUFFICES ASSUME IInv, contract # {}, NEW ask \in asks
               PROVE  \E b \in Document :
                        /\ b.audience = ask.as
                        /\ \A scope \in Range(ask.scopes) :
                            \E entry \in Range(b.ceiling) : Rights(scope) \subseteq Rights(entry)
    BY RelayedAsksNarrow DEF AsksWithinPublishedCeiling
  <2>1. PICK r \in routes :
          /\ ask.as = r.as
          /\ ask.scopes = r.scopes.scopes \/ ask.scopes = r.moduleScopes.scopes
    BY DEF IInv, AsksAreRoutes
  <2>2. PICK b \in contract :
          b.audience = r.as /\ r.scopes \in b.asked /\ r.moduleScopes \in b.asked
    BY DEF IInv, RoutesAreBound
  <2>3. \A scope \in Range(ask.scopes) : WithinCeiling(scope, b.ceiling.scopes)
    BY <2>1, <2>2 DEF IInv, BindingsAreChecked
  <2>4. \A scope \in Range(ask.scopes) :
          \E entry \in Range(b.ceiling.scopes) : Rights(scope) \subseteq Rights(entry)
    BY <2>3, CoverageIsSound DEF WithinCeiling
  <2>5. Read(b.ceiling) = b.ceiling.scopes
    BY OwnReads DEF IInv, EverythingIsFrozen
  <2> DEFINE d == [audience |-> b.audience, ceiling |-> Read(b.ceiling), asked |-> Asked(b.asked)]
  <2>6. d \in Document
    BY DEF Document
  <2>7. d.audience = ask.as /\ d.ceiling = b.ceiling.scopes
    BY <2>1, <2>2, <2>5
  <2> QED
    BY <2>4, <2>6, <2>7
<1> QED
  BY <1>1, Invariance, PTL

\* What the contract publishes as asked is all that is ever asked.
THEOREM AsksAreAsPublished == Spec => []AsksArePublished
<1>1. IInv => AsksArePublished
  <2> SUFFICES ASSUME IInv, contract # {}, NEW ask \in asks
               PROVE  \E b \in Document :
                        b.audience = ask.as /\ Range(ask.scopes) \subseteq b.asked
    BY DEF AsksArePublished
  <2>1. PICK r \in routes :
          /\ ask.as = r.as
          /\ ask.scopes = r.scopes.scopes \/ ask.scopes = r.moduleScopes.scopes
    BY DEF IInv, AsksAreRoutes
  <2>2. PICK b \in contract :
          b.audience = r.as /\ r.scopes \in b.asked /\ r.moduleScopes \in b.asked
    BY DEF IInv, RoutesAreBound
  <2>3. Read(r.scopes) = r.scopes.scopes /\ Read(r.moduleScopes) = r.moduleScopes.scopes
    BY OwnReads DEF IInv, EverythingIsFrozen
  <2>4. Range(ask.scopes) \subseteq Asked(b.asked)
    BY <2>1, <2>2, <2>3 DEF Asked
  <2> DEFINE d == [audience |-> b.audience, ceiling |-> Read(b.ceiling), asked |-> Asked(b.asked)]
  <2>5. d \in Document
    BY DEF Document
  <2>6. d.audience = ask.as /\ d.asked = Asked(b.asked)
    BY <2>1, <2>2
  <2> QED
    BY <2>4, <2>5, <2>6
<1> QED
  BY <1>1, Invariance, PTL

\* A derived gateway always asks for what its cache key names (askedScopesOf).
THEOREM GatewaysAskTheirKey == Spec => []IssuesAskTheirKey
<1>1. IInv => IssuesAskTheirKey
  BY DEF IInv
<1> QED
  BY <1>1, Invariance, PTL

\* A contract, once published, is not changed by any step.
THEOREM ContractsAreFixed == Spec => PublishedContractIsFixed
<1>1. IInv /\ [Next]_vars => [phase = "serving" => Document' = Document]_vars
  <2> SUFFICES ASSUME IInv, [Next]_vars, phase = "serving"
               PROVE  Document' = Document
    OBVIOUS
  <2>1. contract' = contract
    BY DEF Next, vars, running, Write, Contract, Consumes, Boot, BootRefused,
           RenderArtifact, Relay, Derive, Issue
  <2>2. \A b \in contract :
          /\ Read(b.ceiling)' = Read(b.ceiling)
          /\ \A ref \in b.asked : Read(ref)' = Read(ref)
    BY OwnReads DEF IInv, EverythingIsFrozen
  <2> QED
    BY <2>1, <2>2 DEF Document, Asked
<1> QED
  BY <1>1, Invariance, PTL DEF Spec, PublishedContractIsFixed

----------------------------------------------------------------------------
(* What an artifact was rendered from.                                     *)

\* A declaration whose artifact stands passed checkContract under each profile.
RenderedIsChecked ==
    artifact = "rendered" =>
        \A profile \in DOMAIN declared : CheckContract(consumed, declared, profile)

\* A boot is refused for something of the declaration that still holds of it.
RefusedForCause ==
    phase = "refused" => ~(Resolves(consumed) /\ ContractResolves)

\* What is stored reads the same after a step that leaves it alone, so the checks
\* of it come out the same.
LEMMA ChecksAreKept ==
    ASSUME IInv, UNCHANGED <<declared, consumed>>
    PROVE  /\ Resolves(consumed)' = Resolves(consumed)
           /\ ContractResolves' = ContractResolves
           /\ \A profile \in DOMAIN declared :
                CheckContract(consumed, declared, profile)' = CheckContract(consumed, declared, profile)
<1>1. \A module \in Range(consumed) :
        /\ Read(module.scopes)' = Read(module.scopes)
        /\ \A method \in Range(module.methods) : Read(method.scopes)' = Read(method.scopes)
  BY OwnReads DEF IInv, EverythingIsFrozen, Range
<1>2. \A p \in DOMAIN declared : \A a \in DOMAIN declared[p] :
        Read(declared[p][a])' = Read(declared[p][a])
  BY OwnReads DEF IInv, EverythingIsFrozen
<1>3. \A module \in Range(consumed) : Asked(AskedOf(module))' = Asked(AskedOf(module))
  BY <1>1 DEF Asked, AskedOf
<1>4. Resolves(consumed)' = Resolves(consumed)
  BY <1>1 DEF Resolves, Unasking
<1>5. ASSUME NEW profile \in DOMAIN declared
      PROVE  CheckContract(consumed, declared, profile)' = CheckContract(consumed, declared, profile)
  BY <1>2, <1>3 DEF CheckContract, TableOf
<1>6. ASSUME Profile \notin DOMAIN declared
      PROVE  CheckContract(consumed, declared, Profile)' = CheckContract(consumed, declared, Profile)
  BY <1>6, <1>3 DEF CheckContract, TableOf
<1> QED
  BY <1>4, <1>5, <1>6 DEF ContractResolves

\* Only the author's own calls change the declaration, and they withdraw the
\* artifact; every other step leaves its checks as they came out.
LEMMA RenderedStepKeeps ==
    IInv /\ RenderedIsChecked /\ RefusedForCause /\ [Next]_vars
        => RenderedIsChecked' /\ RefusedForCause'
<1> SUFFICES ASSUME IInv, RenderedIsChecked, RefusedForCause, [Next]_vars
             PROVE  RenderedIsChecked' /\ RefusedForCause'
  OBVIOUS
<1>1. CASE \E ceilings \in Contracts : Contract(ceilings)
  BY <1>1 DEF Contract, running, RenderedIsChecked, RefusedForCause
<1>2. CASE \E module \in ConsumedModules : Consumes(module)
  BY <1>2 DEF Consumes, running, RenderedIsChecked, RefusedForCause
<1>3. CASE RenderArtifact
  <2>1. UNCHANGED <<declared, consumed>> /\ phase' = "declaring"
    BY <1>3 DEF RenderArtifact, running
  <2>2. artifact' = "rendered" =>
          \A profile \in DOMAIN declared : CheckContract(consumed, declared, profile)
    BY <1>3 DEF RenderArtifact
  <2> QED
    BY <2>1, <2>2, ChecksAreKept DEF RenderedIsChecked, RefusedForCause
<1>4. CASE BootRefused
  <2>1. UNCHANGED <<declared, consumed, artifact>> /\ ~(Resolves(consumed) /\ ContractResolves)
    BY <1>4 DEF BootRefused, authored
  <2> QED
    BY <2>1, ChecksAreKept DEF RenderedIsChecked, RefusedForCause
<1>5. CASE Boot
  <2>1. UNCHANGED <<declared, consumed, artifact>> /\ phase' = "serving"
    BY <1>5 DEF Boot, authored
  <2> QED
    BY <2>1, ChecksAreKept DEF RenderedIsChecked, RefusedForCause
<1>6. CASE \/ \E array \in Arrays, scopes \in Slices : Write(array, scopes)
           \/ \E route \in routes : Relay(route)
           \/ \E array \in Arrays : Derive(array)
           \/ Issue
           \/ UNCHANGED vars
  <2>1. UNCHANGED <<declared, consumed, artifact, phase>>
    BY <1>6 DEF Write, Relay, Derive, Issue, vars, authored, running
  <2> QED
    BY <2>1, ChecksAreKept DEF RenderedIsChecked, RefusedForCause
<1> QED
  BY <1>1, <1>2, <1>3, <1>4, <1>5, <1>6 DEF Next

\* A declaration whose artifact was rendered is not refused for its contract,
\* whatever the author writes between the rendering and the boot (frozenScopes).
THEOREM RenderedContractsBoot == Spec => []RenderedContractsResolve
<1>1. Init => RenderedIsChecked /\ RefusedForCause
  BY DEF Init, RenderedIsChecked, RefusedForCause
<1>2. RenderedIsChecked /\ RefusedForCause => RenderedContractsResolve
  BY DEF RenderedIsChecked, RefusedForCause, RenderedContractsResolve, ContractResolves
<1> QED
  BY <1>1, <1>2, Invariance, RenderedStepKeeps, PTL DEF Spec
=============================================================================
