---------------------------- MODULE ViewerRequest ----------------------------
(***************************************************************************)
(* One request served as the viewer, on each surface of the runtime: a     *)
(* handler's operation, REST or Connect (solution.go, wrapRequest;         *)
(* gateway_error.go), a unary call relayed to a consumed module            *)
(* (passthrough_authority.go), and an MCP tool call (mcp.go).  Every one   *)
(* is first the authority's Check of the Work Context it carries; a relay  *)
(* always, a handler or a tool when it chooses, then has a child issued    *)
(* and calls a module.  What fails on the way is an error value that the   *)
(* surface turns into the answer.                                          *)
(***************************************************************************)
EXTENDS Integers, Refusals

CONSTANTS
    HandlerStatuses    \* statuses a handler's own errors carry

ASSUME HandlerStatusesAssumption == HandlerStatuses \subseteq Int

Surfaces == {"rest", "connect", "relay", "tool"}
Handlers == {"rest", "connect", "tool"}  \* the author's code serves the request

\* What an answer or an error says, by whose words they are: the authority's
\* reason, the author's own, those of a transport, or neither.  A transport's words
\* name an address this runtime dialled, as it is configured ("address") or in
\* another spelling, as it was dialled ("target": without its scheme, resolved).
Addresses == {"address", "target"}
Texts == {"reason", "own", "generic"} \cup Addresses

Unasked == "unasked"
Asking == "asking"
OK == "OK"
Unusable == "unusable"     \* a failure without a code of the authority's
Heard == {Unasked, Asking, OK, Unusable} \cup Codes

\* Errors, by the Go type errors.As would find: the four of viewerGateway, a
\* WorkContextRefusal, a ClientError, a GatewayError, a connect.Error, a
\* url.Error, any other; a relay's module answers with a gRPC status, "rpc" as well.
\* at is where it arose.
CheckErrors == {"ErrNoViewer", "ErrRequestInvalid", "ErrRequestRefused",
                "ErrAuthorityUnavailable"}
Kinds == CheckErrors \cup {"refusal", "client", "gateway", "rpc", "transport", "plain"}
Origins == {"check", "issue", "module", "author", "pin"}
NoCode == "none"
Errors == [kind : Kinds, status : HandlerStatuses \cup AuthorityStatuses \cup {0},
           code : Codes \cup {NoCode}, text : Texts, at : Origins]
NoError == [kind |-> "plain", status |-> 0, code |-> NoCode, text |-> "generic",
            at |-> "author"]
Plain(text, at) == [NoError EXCEPT !.text = text, !.at = at]

VARIABLES
    surface,    \* the surface the request came in on
    carried,    \* whether it carries a Work Context
    place,      \* where it is
    checked,    \* what was heard of the Check
    issued,     \* what was heard of the last issue
    ran,        \* what ran for the request: its handler or tool, its module
    failure,    \* the error in hand
    answer      \* [status, code, text], once answered

vars == <<surface, carried, place, checked, issued, ran, failure, answer>>

Places == {"arrived", "checking", "working", "issuing", "calling", "failed", "answered"}
NoAnswer == [status |-> 0, code |-> NoCode, text |-> "generic"]
Success == [status |-> 200, code |-> OK, text |-> "own"]

Init ==
    /\ surface \in Surfaces
    /\ carried \in BOOLEAN
    /\ place = "arrived"
    /\ checked = Unasked
    /\ issued = Unasked
    /\ ran = {}
    /\ failure = NoError
    /\ answer = NoAnswer

Fail(err) ==
    /\ place' = "failed"
    /\ failure' = err

----------------------------------------------------------------------------
(* Who the viewer is.                                                      *)

\* requireWorkContext: an MCP request without a Work Context.
RefuseMisrouted ==
    /\ place = "arrived"
    /\ surface = "tool"
    /\ ~carried
    /\ place' = "answered"
    /\ answer' = [status |-> 401, code |-> NoCode, text |-> "generic"]
    /\ UNCHANGED <<surface, carried, checked, issued, ran, failure>>

\* viewerGateway, called without one: an error of no kind of its own.
RefuseUncarried ==
    /\ place = "arrived"
    /\ surface # "tool"
    /\ ~carried
    /\ Fail(Plain("generic", "check"))
    /\ UNCHANGED <<surface, carried, checked, issued, ran, answer>>

\* viewer: the Check of the context, addressed to this module, for the route.
Check ==
    /\ place = "arrived"
    /\ carried
    /\ place' = "checking"
    /\ checked' = Asking
    /\ UNCHANGED <<surface, carried, issued, ran, failure, answer>>

\* The authority admits the context for the route, or advises against it on a
\* run that only warns.  A relay goes on to its child, a handler or tool runs.
Admit ==
    /\ place = "checking"
    /\ checked' = OK
    /\ IF surface = "relay"
       THEN /\ place' = "issuing"
            /\ issued' = Asking
            /\ ran' = ran
       ELSE /\ place' = "working"
            /\ issued' = issued
            /\ ran' = {"handler"}
    /\ UNCHANGED <<surface, carried, failure, answer>>

\* The authority checks it and names no organization.
AdmitNobody ==
    /\ place = "checking"
    /\ checked' = Unusable
    /\ Fail([NoError EXCEPT !.kind = "ErrNoViewer", !.at = "check"])
    /\ UNCHANGED <<surface, carried, issued, ran, answer>>

\* Mutant of CheckFails: a Check that cannot be had lets the request through.
CheckFailsOpen(code) ==
    /\ checked' = code
    /\ place' = "working"
    /\ ran' = {"handler"}
    /\ UNCHANGED <<surface, carried, issued, failure, answer>>

CheckFails(code) ==
    /\ checked' = code
    /\ Fail([kind |-> CheckError(code), status |-> 0, code |-> code, at |-> "check",
             text |-> IF Refuses(code) THEN "reason" ELSE "generic"])
    /\ UNCHANGED <<surface, carried, issued, ran, answer>>

\* The authority refuses, fails or cannot be reached.
RefuseCheck == place = "checking" /\ \E code \in Codes : CheckFails(code)

\* authorityCallTimeout.
CheckTimesOut == place = "checking" /\ CheckFails("DeadlineExceeded")

----------------------------------------------------------------------------
(* A child of the viewer's Work Context.                                   *)

\* handlerErrorResponse: the status and the words of an error a handler, or a
\* tool, returned.
HandlerStatus(err) ==
    CASE err.kind = "client" /\ err.status \in 400 .. 499 -> err.status
      [] err.kind \in {"refusal", "gateway"} -> RelayableStatus(err.status)
      [] err.kind = "rpc" -> StatusForCode(err.code)
      [] OTHER -> 502

\* Mutant of HandlerText: a refusal is worded by its status alone.
HandlerTextUnreasoned(err) ==
    IF err.kind \in {"refusal", "gateway", "rpc", "transport"} THEN "generic" ELSE err.text

\* The author's own words and the authority's reason pass; a call's do not.
HandlerText(err) ==
    IF \/ err.kind = "refusal" /\ err.text # "reason"
       \/ err.kind \in {"gateway", "rpc", "transport"}
    THEN "generic" ELSE err.text

\* held: the authority's refusal keeps its reason; a failure to reach it, whose
\* words can name an address, does not.
Held(code) ==
    [kind |-> "refusal", status |-> RefusalStatus(code), code |-> code,
     text |-> IF Refuses(code) THEN "reason" ELSE "generic", at |-> "issue"]

\* surfaced: what ForParent, ForBinding and WorkContextPrincipals return of an
\* error; a tool's gateway hands back the words alone.
Surfaced(err) ==
    IF surface = "tool" THEN Plain(HandlerText(err), err.at) ELSE err

\* A handler or a tool derives a gateway.
Derive ==
    /\ place = "working"
    /\ issued = Unasked
    /\ place' = "issuing"
    /\ issued' = Asking
    /\ UNCHANGED <<surface, carried, checked, ran, failure, answer>>

\* The authority issues a child.
Issue ==
    /\ place = "issuing"
    /\ issued' = OK
    /\ place' = IF surface = "relay" THEN "calling" ELSE "working"
    /\ ran' = IF surface = "relay" THEN {"module"} ELSE ran
    /\ UNCHANGED <<surface, carried, checked, failure, answer>>

\* It does not.  A relay fails; a handler or a tool has the error in hand, as it
\* is when the ask was made again by WorkContext, which does not go through
\* surfaced.
IssueFails(heard, err) ==
    /\ issued' = heard
    /\ IF surface = "relay"
       THEN Fail(err)
       ELSE /\ place' = "working"
            /\ failure' \in {Surfaced(err), err}
    /\ UNCHANGED <<surface, carried, checked, ran, answer>>

RefuseIssue ==
    /\ place = "issuing"
    /\ \/ \E code \in Codes : IssueFails(code, Held(code))
       \/ IssueFails(Unusable, Plain("generic", "issue"))

\* authorityCallTimeout again; on a relay the method's Timeout, when shorter.
IssueTimesOut ==
    /\ place = "issuing"
    /\ IssueFails("DeadlineExceeded", Held("DeadlineExceeded"))

\* applyPin fails, before the module is called.
RefusePin ==
    /\ place = "issuing"
    /\ surface = "relay"
    /\ issued' = OK
    /\ Fail([NoError EXCEPT !.kind = "rpc", !.code = "Internal", !.at = "pin"])
    /\ UNCHANGED <<surface, carried, checked, ran, answer>>

----------------------------------------------------------------------------
(* The work.                                                               *)

\* The errors of the author's own making or of calls the author made: a Connect
\* call's, an HTTP request's, and a gRPC call's (the hop a WorkContext is carried
\* on), whose status error is of no kind the runtime knows.
AuthorErrors ==
    [kind : {"client", "gateway"}, status : HandlerStatuses, code : {NoCode},
     text : {"own"}, at : {"author"}]
    \cup [kind : {"rpc"}, status : {0}, code : Codes, text : {"own"} \cup Addresses,
          at : {"module"}]
    \cup [kind : {"transport"}, status : {0}, code : {NoCode}, text : Addresses,
          at : {"module"}]
    \cup {Plain(text, "module") : text \in {"own"} \cup Addresses}
    \cup {Plain("own", "author")}

\* A handler or a tool returns a result, the error in hand, or one of its own.
Succeed ==
    /\ place = "working"
    /\ place' = "answered"
    /\ answer' = Success
    /\ UNCHANGED <<surface, carried, checked, issued, ran, failure>>

ReturnIssueError ==
    /\ place = "working"
    /\ failure # NoError
    /\ Fail(failure)
    /\ UNCHANGED <<surface, carried, checked, issued, ran, answer>>

ReturnError ==
    /\ place = "working"
    /\ \E err \in AuthorErrors : Fail(err)
    /\ UNCHANGED <<surface, carried, checked, issued, ran, answer>>

\* relay: the module answers, or not before the method's Timeout.
ModuleAnswers ==
    /\ place = "calling"
    /\ place' = "answered"
    /\ answer' = Success
    /\ UNCHANGED <<surface, carried, checked, issued, ran, failure>>

\* A transport failure is worded by the gRPC client, with the address it dialled;
\* any other code's words may be the module's own.
ModuleFails(code) ==
    /\ \E text \in (IF code = "Unavailable" THEN Addresses ELSE {"own"}) :
          Fail([NoError EXCEPT !.kind = "rpc", !.code = code, !.at = "module",
                               !.text = text])
    /\ UNCHANGED <<surface, carried, checked, issued, ran, answer>>

RefuseModule == place = "calling" /\ \E code \in Codes : ModuleFails(code)

\* Mutant of ModuleTimesOut: the module is called without the Timeout.
ModuleTimesOutNever == place = "calling" /\ issued # OK /\ ModuleFails("DeadlineExceeded")

ModuleTimesOut == place = "calling" /\ ModuleFails("DeadlineExceeded")

----------------------------------------------------------------------------
(* The answer to a failure, by surface.                                    *)

Answered(status, code, text) ==
    /\ place' = "answered"
    /\ answer' = [status |-> status, code |-> code, text |-> text]
    /\ UNCHANGED <<surface, carried, checked, issued, ran, failure>>

\* wrapRequest: the status of a failed gateway, or of a handler's error.
OperationStatus(err) ==
    IF err.at = "check" THEN GatewayStatus(err.kind) ELSE HandlerStatus(err)

OperationText(err) ==
    IF err.at = "check" THEN err.text ELSE HandlerText(err)

\* writeRefusal, to a plain REST caller.
AnswerRest ==
    /\ place = "failed"
    /\ surface = "rest"
    /\ Answered(OperationStatus(failure), NoCode, OperationText(failure))

\* writeRefusal, to a Connect or gRPC caller: the code of the authority's
\* refusal of an ask or of a module, else the one the status maps to.
AnswerConnect ==
    /\ place = "failed"
    /\ surface = "connect"
    /\ LET status == OperationStatus(failure)
           code == IF failure.kind \in {"refusal", "rpc"} THEN failure.code
                   ELSE CodeForStatus(status)
       IN  Answered(status, code, OperationText(failure))

\* relay: asTheViewer's refusals, relayedError and moduleRefusal.
RelayCode(err) ==
    CASE err.at = "check" -> GatewayCode(err.kind)
      [] err.at = "issue" /\ err.kind = "refusal" -> RelayedRefusal(err.code)
      [] err.at = "module" -> ModuleRefusal(err.code)
      [] err.at = "pin" -> err.code
      [] OTHER -> "Unavailable"

\* Mutant of RelayText: every answer of the module's is passed on.
RelayTextInFull(err) == err.text

\* The words that go with it: the authority's reason, or the module's when its
\* code is kept and is not a timeout or a cancellation.
RelayText(err) ==
    IF err.at = "module"
          /\ (ModuleRefusal(err.code) # err.code
                \/ err.code \in {"DeadlineExceeded", "Canceled", "Unavailable"})
    THEN "generic" ELSE err.text

AnswerRelay ==
    /\ place = "failed"
    /\ surface = "relay"
    /\ Answered(0, RelayCode(failure), RelayText(failure))

\* Mutant of WithoutRuntimeAddresses: a tool's error result is its own affair.
WithRuntimeAddresses(text) == text

\* withoutRuntimeAddresses: a result is replaced when an address can be found in it,
\* which is one spelled as the process is configured with it (cfg.dialled).
WithoutRuntimeAddresses(text) == IF text = "address" THEN "generic" ELSE text

\* mcpViewer: a refused gateway or a protocol error, through
\* handlerErrorResponse; or a tool's error, which the SDK made a result.
AnswerTool ==
    /\ place = "failed"
    /\ surface = "tool"
    /\ \/ Answered(0, NoCode, HandlerText(failure))
       \/ /\ failure.at # "check"
          /\ Answered(0, NoCode, WithoutRuntimeAddresses(failure.text))

----------------------------------------------------------------------------
Runtime ==
    \/ RefuseMisrouted \/ RefuseUncarried \/ Check
    \/ CheckTimesOut \/ IssueTimesOut \/ ModuleTimesOut
    \/ AnswerRest \/ AnswerConnect \/ AnswerRelay \/ AnswerTool

Authority == Admit \/ AdmitNobody \/ RefuseCheck \/ Issue \/ RefuseIssue \/ RefusePin
Author == Derive \/ Succeed \/ ReturnIssueError \/ ReturnError
Module == ModuleAnswers \/ RefuseModule

\* The request is answered: the model stops.
Done == place = "answered" /\ UNCHANGED vars

Next == Runtime \/ Authority \/ Author \/ Module \/ Done

Spec == Init /\ [][Next]_vars

\* The runtime goes on when it can, timeouts included.  Nobody promises that
\* the authority or a module answers, or that a handler returns.
FairSpec == Spec /\ WF_vars(Runtime)

----------------------------------------------------------------------------
(* What a request is promised.                                             *)

TypeOK ==
    /\ surface \in Surfaces
    /\ carried \in BOOLEAN
    /\ place \in Places
    /\ checked \in Heard
    /\ issued \in Heard
    /\ ran \subseteq {"handler", "module"}
    /\ failure \in Errors
    /\ answer \in [status : (400 .. 599) \cup {0, 200}, code : Codes \cup {NoCode, OK},
                   text : Texts]

Failed == place = "answered" /\ failure # NoError /\ answer # Success

\* A caller reads an answer as a refusal of what it asked, as opposed to a
\* failure it may retry: by its code where it has one, else by its status.
ReadsAsRefusal ==
    IF answer.code # NoCode THEN Refuses(answer.code) ELSE answer.status \in 400 .. 499

\* What the authority did is what the page is told: a refused Check or issue
\* reaches the page as a refusal, and an authority that failed or was not
\* reached in time never as one, on any surface that has statuses or codes.
RefusalsAndOutagesAreToldApart ==
    Failed /\ surface # "tool" /\ failure.at \in {"check", "issue"}
        /\ failure.code # NoCode =>
            (ReadsAsRefusal <=> Refuses(failure.code))

\* The authority's refusal of an ask reaches a Connect caller, of an operation
\* or of a relayed method, with the authority's own code.
IssueRefusalsKeepTheirCode ==
    Failed /\ surface \in {"connect", "relay"} /\ failure.at = "issue"
        /\ failure.code # NoCode /\ Refuses(failure.code) =>
            answer.code = failure.code

\* The reason the authority gave for a refusal, of a Check or of an ask, is
\* what every surface answers with; no other answer claims one.
ReasonsReachTheCaller ==
    place = "answered" =>
        (answer.text = "reason" <=>
            \/ /\ failure # NoError /\ answer # Success /\ failure.at = "check"
               /\ checked \in Codes /\ Refuses(checked)
            \/ /\ failure # NoError /\ answer # Success /\ failure.at = "issue"
               /\ issued \in Codes /\ Refuses(issued))

\* What the authority says of a refusal reaches whoever asked, through every wrapping
\* and mapping on the way: its reason on every surface, and of an ask its own code
\* where there are codes.
RefusalsReachTheCaller == ReasonsReachTheCaller /\ IssueRefusalsKeepTheirCode

\* No failure of a call the runtime itself makes (Check, issue, relayed call) is
\* answered with the address it dialled.  Of the calls the author's code makes, a
\* gRPC call's is, being of no kind the runtime knows; a Connect or HTTP call's only
\* in a tool's result, and there only in a spelling the result is not searched for.
OnlyAuthorsCallsNameAddresses ==
    answer.text \in Addresses =>
        /\ surface # "relay"
        /\ failure.at = "module"
        /\ failure.kind = "plain" \/ (surface = "tool" /\ answer.text = "target")

\* Nothing runs for a viewer the authority did not check: no handler, no tool;
\* and no module is called but under a child the authority issued.
NothingRunsUnchecked ==
    /\ ran # {} => checked = OK
    /\ "module" \in ran => issued = OK

\* A relayed call comes back though the authority and the module be silent; and
\* on every surface the Check comes back, and so does each issue.
RelayedCallsEnd ==
    /\ surface = "relay" ~> place = "answered"
    /\ place \in {"arrived", "checking", "issuing"}
         ~> place \notin {"arrived", "checking", "issuing"}
=============================================================================
