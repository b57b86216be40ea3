------------------------------- MODULE MCBoot -------------------------------
(* Instances of Boot for TLC. *)
EXTENDS Boot

A(rest) == <<Lit("a")>> \o rest
Read == Declare({[kind |-> "k", actions |-> <<"read">>]}, FALSE)
ReadAndWrite == Declare({[kind |-> "k", actions |-> <<"read">>],
                         [kind |-> "k2", actions |-> <<"write">>]}, FALSE)

Op(path, method, policy) ==
    [path |-> path, method |-> method, documented |-> TRUE, handlers |-> 1, policy |-> policy,
     tool |-> Empty, exclude |-> FALSE, streaming |-> FALSE]
Tool(op, name) == [op EXCEPT !.tool = name]

MCDeclarable == {
    Op(A(<<One("x")>>), Empty, Read),
    Tool(Op(A(<<One("x")>>), "get", Read), "t"),
    Op(A(<<One("x")>>), "post", ReadAndWrite),
    Op(A(<<One("y")>>), "post", AnyCheckedCaller),
    Op(A(<<Rest("x")>>), "get", Read),
    Op(A(<<Tree>>), "get", AnyCheckedCaller),
    Op(A(<<Bad("{")>>), "get", Read),
    Op(<<Lit("b")>>, "get", Read),
    Op(<<Lit("b"), End>>, "get", Read),
    Tool(Op(<<Lit("b")>>, "put", ReadAndWrite), "t"),
    Op(<<Tree>>, "get", Read),
    Op(<<Lit("health")>>, "get", AnyCheckedCaller),
    Tool(Op(MCPRoute, "get", Read), "t"),
    Op(<<Lit("v1"), One("x")>>, "post", Read),
    Op(<<Lit("v1"), Lit("modules"), Lit("m"), Lit("M")>>, "get", Read)}

MCSurfaces == {[named |-> TRUE, policy |-> AnyCheckedCaller],
               [named |-> FALSE, policy |-> AnyCheckedCaller]}

MCConsumable == {[as |-> "m", methods |-> {"M"}, stands |-> TRUE],
                 [as |-> "n", methods |-> {"M"}, stands |-> TRUE]}

MCPaths == {<<Empty>>, <<"z">>, <<"a">>, <<"a", Empty>>, <<"a", "z">>, <<"a", "z", "2">>, <<"b">>, <<"b", Empty>>,
            <<"health">>, <<"assets", "f">>,
            <<"well-known", "solution.json">>, <<"well-known", "capabilities">>,
            <<"well-known", "module-contract">>,
            <<"v1", "mcp">>, <<"v1", "z">>, <<"v1", "modules">>, <<"v1", "modules", Empty>>,
            <<"v1", "modules", "m", "M">>, <<"v1", "modules", "m/M">>,
            <<"v1", "modules", "n", "M">>}

MCDecoded == [path \in MCPaths |->
                IF path = <<"v1", "modules", "m/M">> THEN <<"v1", "modules", "m", "M">> ELSE path]

\* What a process in a cell and one on a developer's machine find, and what may
\* be wrong with either.
At(scheme, host) == [scheme |-> scheme, host |-> host]
Cell == [init |-> "ok", override |-> Unset, self |-> {[host |-> "0.0.0.0", port |-> 8080]},
         authority |-> At(Empty, "authority"), token |-> "file", profile |-> "cell",
         run |-> "cell", runtime |-> "kubernetes",
         admitted |-> {At("http", "authority"), At("http", "hop")},
         slots |-> [as \in {"m", "n"} |-> [endpoint |-> At(Empty, "hop"), binding |-> as]]]
Native == [Cell EXCEPT !.self = {[host |-> "localhost", port |-> 8080]}, !.override = 65535,
                       !.run = "local", !.runtime = "native"]

\* Endpoints with a scheme: some taken off, one that leaves nothing, one of a scheme
\* only the authority's endpoint may have.
Spelled == {
    [Cell EXCEPT !.authority = At("http", "authority"), !.slots["m"].endpoint = At("grpc", "hop")],
    [Cell EXCEPT !.authority = At("tcp", Empty)],
    [Cell EXCEPT !.authority = At("tcp", "authority"), !.slots["n"].endpoint = At("tcp", "hop")]}

MCEnvironments == {
    Cell, Native,
    [Native EXCEPT !.self = {}],
    [Native EXCEPT !.self = {[host |-> "0.0.0.0", port |-> 8080]}],
    [Cell EXCEPT !.override = 0], [Native EXCEPT !.override = 65536], [Cell EXCEPT !.self = {}],
    [Cell EXCEPT !.init = "identity"], [Cell EXCEPT !.init = "carriers", !.authority = NoAddress],
    [Cell EXCEPT !.authority = NoAddress], [Cell EXCEPT !.token = Empty], [Cell EXCEPT !.profile = Empty],
    [Cell EXCEPT !.admitted = {At("http", "hop")}], [Cell EXCEPT !.admitted = {At("http", "authority")}],
    [Cell EXCEPT !.slots["n"].endpoint = NoAddress]}
        \cup Spelled

MCEnvironment == {Cell}

MCDerivable == {ServedRoute(op.path) : op \in {o \in MCDeclarable :
                    \A i \in DOMAIN ServedRoute(o.path) : ServedRoute(o.path)[i][1] # "star"}}
=============================================================================
