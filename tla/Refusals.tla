------------------------------ MODULE Refusals ------------------------------
(***************************************************************************)
(* How an answer of the authority or of a module becomes what a page is    *)
(* answered with: the pure mappings of authority.go, solution.go,          *)
(* gateway_error.go and passthrough.go.  Codes are gRPC status codes (the  *)
(* codes of Connect are the same numbers); statuses are HTTP statuses.     *)
(***************************************************************************)
EXTENDS Naturals

\* Every gRPC status code but OK.
Codes ==
    {"Canceled", "Unknown", "InvalidArgument", "DeadlineExceeded", "NotFound",
     "AlreadyExists", "PermissionDenied", "ResourceExhausted",
     "FailedPrecondition", "Aborted", "OutOfRange", "Unimplemented",
     "Internal", "Unavailable", "DataLoss", "Unauthenticated"}

\* refusalStatus: the HTTP status an authority refusal answers a page with.
RefusalStatus(code) ==
    CASE code = "Unauthenticated" -> 401
      [] code \in {"InvalidArgument", "OutOfRange"} -> 400
      [] code \in {"PermissionDenied", "NotFound", "FailedPrecondition"} -> 403
      [] code \in {"Unavailable", "DeadlineExceeded"} -> 503
      [] OTHER -> 502

\* The statuses an authority's answer can be given.
AuthorityStatuses == {400, 401, 403, 502, 503}

\* The statuses resolve keeps for the life of the request: the authority's own
\* refusals, as opposed to a failure to reach it or a malformed ask.
LastingStatuses == {401, 403}

\* The codes that are the authority's refusal; the rest are its failure.
Refuses(code) == RefusalStatus(code) < 500

----------------------------------------------------------------------------
(* A failed Check.                                                         *)

\* Mutant of CheckError: a failed Check is a viewer who is not signed in.
CheckErrorUnsorted(code) ==
    CASE RefusalStatus(code) = 400 -> "ErrRequestInvalid"
      [] RefusalStatus(code) = 403 -> "ErrRequestRefused"
      [] OTHER -> "ErrNoViewer"

\* viewer: the error of a Check that answered code.
CheckError(code) ==
    CASE RefusalStatus(code) = 401 -> "ErrNoViewer"
      [] RefusalStatus(code) = 400 -> "ErrRequestInvalid"
      [] RefusalStatus(code) = 403 -> "ErrRequestRefused"
      [] OTHER -> "ErrAuthorityUnavailable"

\* wrapRequest: the status a request whose gateway failed is answered with.
GatewayStatus(kind) ==
    CASE kind = "ErrRequestRefused" -> 403
      [] kind = "ErrRequestInvalid" -> 400
      [] kind = "ErrAuthorityUnavailable" -> 503
      [] OTHER -> 401

\* asTheViewer: the same for a relayed call.
GatewayCode(kind) ==
    CASE kind = "ErrRequestRefused" -> "PermissionDenied"
      [] kind = "ErrRequestInvalid" -> "InvalidArgument"
      [] kind = "ErrAuthorityUnavailable" -> "Unavailable"
      [] OTHER -> "Unauthenticated"

----------------------------------------------------------------------------
(* Codes from statuses and statuses from codes.                            *)

CodeForStatus(status) ==
    CASE status = 400 -> "InvalidArgument"
      [] status = 401 -> "Unauthenticated"
      [] status = 403 -> "PermissionDenied"
      [] status \in {404, 410} -> "NotFound"
      [] status = 409 -> "Aborted"
      [] status \in {413, 429} -> "ResourceExhausted"
      [] status = 499 -> "Canceled"
      [] status = 501 -> "Unimplemented"
      [] status = 504 -> "DeadlineExceeded"
      [] status = 500 -> "Internal"
      [] status \in (400 .. 499) \ {400, 401, 403, 404, 409, 410, 413, 429, 499} ->
            "FailedPrecondition"
      [] OTHER -> "Unavailable"

\* handlerErrorResponse: the status of a module's code a handler returned.
StatusForCode(code) ==
    CASE code \in {"InvalidArgument", "OutOfRange"} -> 400
      [] code = "Unauthenticated" -> 401
      [] code = "PermissionDenied" -> 403
      [] code = "NotFound" -> 404
      [] code \in {"AlreadyExists", "Aborted"} -> 409
      [] code = "FailedPrecondition" -> 412
      [] code = "ResourceExhausted" -> 429
      [] code = "DeadlineExceeded" -> 504
      [] code = "Unavailable" -> 503
      [] OTHER -> 502

\* Mutant of RelayableStatus: a status goes to the page as it came.
RelayableStatusAsIs(status) == status

\* handlerErrorResponse: the status of a GatewayError a handler returned.
RelayableStatus(status) ==
    IF status \in (400 .. 499) \cup {503, 504} THEN status ELSE 502

----------------------------------------------------------------------------
(* A relayed call.                                                         *)

\* Mutant of RelayedRefusal: a code derived again from the status.
RelayedRefusalByStatus(code) ==
    IF Refuses(code) THEN CodeForStatus(RefusalStatus(code)) ELSE "Unavailable"

\* relayedError, of a Work Context the authority refused or failed to issue.
RelayedRefusal(code) == IF Refuses(code) THEN code ELSE "Unavailable"

\* moduleRefusal: a refusal of the page's own request keeps its code; a timeout
\* and a cancellation keep theirs through relayedError; the rest are one kind.
ModuleRefusal(code) ==
    IF code \in {"InvalidArgument", "NotFound", "AlreadyExists", "PermissionDenied",
                 "Unauthenticated", "FailedPrecondition", "Aborted", "OutOfRange",
                 "ResourceExhausted", "Unimplemented", "DeadlineExceeded", "Canceled"}
    THEN code ELSE "Unavailable"

\* The codes asTheViewer refuses a call with: no Work Context and the Check's,
\* those of a refused or failed issue, and a pin that cannot be applied.
PrepareCodes ==
    {"Unauthenticated", "Unavailable", "Internal"}
        \cup {GatewayCode(CheckError(code)) : code \in Codes}
        \cup {RelayedRefusal(code) : code \in Codes}
=============================================================================
