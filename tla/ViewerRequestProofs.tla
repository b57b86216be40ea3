------------------------ MODULE ViewerRequestProofs -------------------------
(***************************************************************************)
(* Proofs about ViewerRequest, for any statuses a handler's errors carry.  *)
(***************************************************************************)
EXTENDS ViewerRequest, TLAPS

----------------------------------------------------------------------------
(* The inductive invariant.                                                *)

\* Past the Check, the authority admitted the context; a module is called only
\* under an issued child.
AdmittedFirst ==
    /\ place \in {"working", "issuing", "calling"} \/ ran # {} \/ issued # Unasked => checked = OK
    /\ place = "calling" \/ "module" \in ran => issued = OK
    /\ place = "issuing" => issued = Asking
    /\ place = "arrived" => checked = Unasked
    /\ place = "checking" => checked = Asking

\* An error of a failed Check, as it was heard.
FromCheck(err) ==
    \/ /\ checked \in Codes
       /\ err = [kind |-> CheckError(checked), status |-> 0, code |-> checked, at |-> "check",
                 text |-> IF Refuses(checked) THEN "reason" ELSE "generic"]
    \/ /\ checked \notin Codes
       /\ err.kind \in {"ErrNoViewer", "plain"} /\ err.code = NoCode
       /\ err.text = "generic" /\ err.at = "check"

\* An error of a failed issue, as it was heard or as surfaced left it.
FromIssue(err) ==
    \/ /\ issued \in Codes
       /\ err = Held(issued) \/ (surface = "tool" /\ err = Plain(HandlerText(Held(issued)), "issue"))
    \/ issued \notin Codes /\ err = Plain("generic", "issue")

\* An error of the author's, of a module, or of the pin: it claims no reason.
FromElsewhere(err) ==
    /\ err.at \in {"module", "author", "pin"}
    /\ err.text # "reason"
    /\ err.kind \in {"client", "gateway", "rpc", "transport", "plain"}
    /\ err.text \in Addresses => err.kind \in {"rpc", "transport", "plain"} /\ err.at = "module"
    /\ err.text \in Addresses /\ surface = "relay" => err.code = "Unavailable"
    /\ err.kind = "rpc" => err.code \in Codes

\* Whose the error in hand is.
FailureByOrigin ==
    \/ FromCheck(failure) /\ place \in {"failed", "answered"}
    \/ FromIssue(failure)
    \/ FromElsewhere(failure)

\* What a failure was answered with, on its surface.
AnswerToFailure ==
    \/ /\ surface = "rest"
       /\ answer = [status |-> OperationStatus(failure), code |-> NoCode,
                    text |-> OperationText(failure)]
    \/ /\ surface = "connect"
       /\ answer = [status |-> OperationStatus(failure),
                    code |-> IF failure.kind \in {"refusal", "rpc"} THEN failure.code
                             ELSE CodeForStatus(OperationStatus(failure)),
                    text |-> OperationText(failure)]
    \/ /\ surface = "relay"
       /\ answer = [status |-> 0, code |-> RelayCode(failure), text |-> RelayText(failure)]
    \/ /\ surface = "tool"
       /\ \/ answer = [status |-> 0, code |-> NoCode, text |-> HandlerText(failure)]
          \/ /\ failure.at # "check"
             /\ answer = [status |-> 0, code |-> NoCode,
                          text |-> WithoutRuntimeAddresses(failure.text)]

AnswerByFailure ==
    IF place = "answered"
    THEN \/ answer = Success
         \/ failure = NoError /\ answer = [status |-> 401, code |-> NoCode, text |-> "generic"]
         \/ failure # NoError /\ AnswerToFailure
    ELSE answer = NoAnswer

\* A failed request has an error in hand; no author's code runs on a relay.
FailedWithError ==
    /\ place = "failed" => failure # NoError
    /\ place \in {"arrived", "checking"} => failure = NoError
    /\ surface = "relay" => place # "working" /\ (failure.at = "author" => failure = NoError)

\* The types of everything but the answer, whose type follows.
Shape ==
    /\ surface \in Surfaces
    /\ carried \in BOOLEAN
    /\ place \in Places
    /\ ran \subseteq {"handler", "module"}
    /\ checked \in Heard
    /\ issued \in Heard
    /\ failure \in [kind : Kinds, status : HandlerStatuses \cup AuthorityStatuses \cup {0},
                    code : Codes \cup {NoCode}, text : Texts, at : Origins]

IInv ==
    /\ Shape
    /\ AdmittedFirst
    /\ FailureByOrigin
    /\ AnswerByFailure
    /\ FailedWithError

----------------------------------------------------------------------------
(* The mappings.                                                           *)

\* Nothing else that is heard of the authority is a code.
LEMMA CodesAreNot ==
    NoCode \notin Codes /\ OK \notin Codes /\ Asking \notin Codes /\ Unasked \notin Codes
        /\ Unusable \notin Codes
BY DEF Codes, NoCode, OK, Asking, Unasked, Unusable

\* Every code has one of five statuses.
LEMMA StatusOfCode == \A code \in Codes : RefusalStatus(code) \in AuthorityStatuses
BY DEF Codes, RefusalStatus, AuthorityStatuses

\* An error of the Check is one of four.
LEMMA CheckErrorType == \A code \in Codes : CheckError(code) \in CheckErrors
BY DEF CheckError, CheckErrors

\* An error of no kind, field by field.
LEMMA PlainFields ==
    \A text, at : /\ Plain(text, at).kind = "plain" /\ Plain(text, at).code = NoCode
                  /\ Plain(text, at).text = text /\ Plain(text, at).at = at
BY DEF Plain, NoError

\* An error of the authority's answer to an ask, field by field.
LEMMA HeldFields ==
    \A code : /\ Held(code).kind = "refusal" /\ Held(code).code = code
              /\ Held(code).status = RefusalStatus(code) /\ Held(code).at = "issue"
              /\ Held(code).text = IF Refuses(code) THEN "reason" ELSE "generic"
BY DEF Held

\* The author's errors are errors, none of them that of no failure.
LEMMA AuthorErrorsType == \A err \in AuthorErrors : err \in Errors /\ err # NoError
<1> SUFFICES ASSUME NEW err \in AuthorErrors PROVE err \in Errors /\ err # NoError
  OBVIOUS
<1> USE DEF Errors, Kinds, Texts, Addresses, Origins, NoError
<1>1. CASE err = Plain("own", "author")
  BY <1>1 DEF Plain
<1>2. CASE \E text \in {"own"} \cup Addresses : err = Plain(text, "module")
  <2>1. PICK text \in {"own"} \cup Addresses : err = Plain(text, "module")
    BY <1>2
  <2>2. err = [kind |-> "plain", status |-> 0, code |-> NoCode, text |-> text, at |-> "module"]
    BY <2>1 DEF Plain
  <2> QED BY <2>2 DEF Addresses
<1>3. CASE err # Plain("own", "author") /\ \A text : err # Plain(text, "module")
  BY <1>3 DEF AuthorErrors, Addresses
<1> QED BY <1>1, <1>2, <1>3 DEF AuthorErrors

\* What a refused or failed issue becomes is an error.
LEMMA HeldType == \A code \in Codes : Held(code) \in Errors
BY StatusOfCode DEF Held, Errors, Kinds, Origins, Texts, Addresses

\* The words an error is answered with are among those it may have.
LEMMA HandlerTextType == \A err \in Errors : HandlerText(err) \in Texts
BY DEF HandlerText, Errors, Texts, Addresses

----------------------------------------------------------------------------
(* The inductive step.                                                     *)

\* Before anything happened.
LEMMA InitEstablishes == Init => IInv
<1> SUFFICES ASSUME Init PROVE IInv
  OBVIOUS
<1> USE DEF Init, NoError, Places
<1>1. Shape
  BY DEF Shape, Heard, Unasked, Kinds, Texts, Addresses, Origins, Surfaces
<1>2. AdmittedFirst /\ AnswerByFailure /\ FailedWithError
  BY DEF AdmittedFirst, AnswerByFailure, FailedWithError
<1>3. FailureByOrigin
  BY DEF FailureByOrigin, FromElsewhere, Addresses
<1> QED BY <1>1, <1>2, <1>3 DEF IInv

\* Until the authority has answered the Check, and when it refuses it.
LEMMA CheckKeeps ==
    ASSUME IInv, RefuseMisrouted \/ RefuseUncarried \/ Check \/ Admit \/ AdmitNobody
                   \/ RefuseCheck \/ CheckTimesOut
    PROVE  IInv'
<1> USE CodesAreNot DEF IInv, Heard, OK, Asking, Unasked, Unusable, Places
<1>1. CASE RefuseMisrouted
  BY <1>1 DEF RefuseMisrouted, Shape, AdmittedFirst, FailureByOrigin, FromCheck, FromIssue,
    FromElsewhere, AnswerByFailure, FailedWithError
<1>2. CASE RefuseUncarried
  BY <1>2 DEF RefuseUncarried, Fail, Plain, NoError, Shape, Kinds, Texts, Addresses, Origins,
    AdmittedFirst, FailureByOrigin, FromCheck, AnswerByFailure, FailedWithError
<1>3. CASE Check
  BY <1>3 DEF Check, Shape, AdmittedFirst, FailureByOrigin, FromCheck, FromIssue,
    FromElsewhere, AnswerByFailure, FailedWithError, NoError
<1>4. CASE Admit
  BY <1>4 DEF Admit, Shape, AdmittedFirst, FailureByOrigin, FromCheck, FromIssue,
    FromElsewhere, AnswerByFailure, FailedWithError, NoError
<1>5. CASE AdmitNobody
  BY <1>5 DEF AdmitNobody, Fail, NoError, Shape, Kinds, CheckErrors, Texts, Addresses, Origins,
    AdmittedFirst, FailureByOrigin, FromCheck, AnswerByFailure, FailedWithError
<1>6. ASSUME NEW code \in Codes, place = "checking", CheckFails(code)
      PROVE  IInv'
  <2> USE <1>6 DEF CheckFails, Fail
  <2>1. Shape'
    BY CheckErrorType DEF Shape, Kinds, Texts, Addresses, Origins
  <2>2. FailureByOrigin'
    BY DEF FailureByOrigin, FromCheck
  <2>3. failure'.at = "check" /\ failure' # NoError
    BY DEF NoError
  <2>4. AdmittedFirst' /\ AnswerByFailure' /\ FailedWithError'
    BY <2>3 DEF AdmittedFirst, AnswerByFailure, FailedWithError
  <2> QED BY <2>1, <2>2, <2>4
<1>7. CASE RefuseCheck \/ CheckTimesOut
  BY <1>6, <1>7 DEF RefuseCheck, CheckTimesOut, Codes
<1> QED BY <1>1, <1>2, <1>3, <1>4, <1>5, <1>7
\* Deriving a gateway, and the issue the authority answers.
LEMMA IssueKeeps ==
    ASSUME IInv, Derive \/ Issue \/ RefusePin
    PROVE  IInv'
<1> USE CodesAreNot DEF IInv, Heard, OK, Asking, Unasked, Unusable, Places
<1>1. CASE Derive
  BY <1>1 DEF Derive, Shape, AdmittedFirst, FailureByOrigin, FromCheck, FromIssue,
    FromElsewhere, AnswerByFailure, FailedWithError, NoError, Plain
<1>2. CASE Issue
  BY <1>2 DEF Issue, Shape, AdmittedFirst, FailureByOrigin, FromCheck, FromIssue,
    FromElsewhere, AnswerByFailure, FailedWithError, NoError, Plain
<1>3. CASE RefusePin
  BY <1>3 DEF RefusePin, Fail, NoError, Shape, Kinds, Codes, Texts, Addresses, Origins, AdmittedFirst,
    FailureByOrigin, FromElsewhere, AnswerByFailure, FailedWithError
<1> QED BY <1>1, <1>2, <1>3

\* An issue the authority does not make.
LEMMA IssueFailsKeeps ==
    ASSUME IInv, place = "issuing",
           NEW heard, NEW err, IssueFails(heard, err),
           \/ heard \in Codes /\ err = Held(heard)
           \/ heard = Unusable /\ err = Plain("generic", "issue")
    PROVE  IInv'
<1> USE CodesAreNot DEF IInv, Heard, OK, Asking, Unasked, Unusable, Places
<1>1. err \in Errors /\ err.at = "issue"
  <2>1. CASE heard \in Codes /\ err = Held(heard)
    BY <2>1, HeldType DEF Held
  <2>2. CASE heard = Unusable /\ err = Plain("generic", "issue")
    <3>1. err = [NoError EXCEPT !.text = "generic", !.at = "issue"]
      BY <2>2 DEF Plain
    <3> QED BY <3>1 DEF NoError, Errors, Kinds, Texts, Addresses, Origins
  <2> QED BY <2>1, <2>2
<1>2. Surfaced(err) \in Errors /\ Surfaced(err).at = "issue"
  BY <1>1, HandlerTextType DEF Surfaced, Plain, NoError, Errors, Kinds, Texts, Addresses, Origins
<1>3. failure' \in {Surfaced(err), err} /\ failure' # NoError /\ issued' = heard
  BY <1>1, <1>2 DEF IssueFails, Fail, NoError, Surfaced
<1>4. Shape'
  BY <1>1, <1>2, <1>3 DEF Shape, Errors, IssueFails, Fail
<1>5. AdmittedFirst' /\ AnswerByFailure' /\ FailedWithError'
  BY <1>1, <1>2, <1>3 DEF IssueFails, Fail, AdmittedFirst, AnswerByFailure, FailedWithError
<1>6. FromIssue(failure)'
  <2>1. CASE heard \in Codes /\ err = Held(heard)
    BY <1>3, <2>1 DEF FromIssue, Surfaced, Held, IssueFails
  <2>2. CASE heard = Unusable /\ err = Plain("generic", "issue")
    BY <1>3, <2>2 DEF FromIssue, Surfaced, Plain, NoError, HandlerText, IssueFails
  <2> QED BY <2>1, <2>2
<1> QED BY <1>4, <1>5, <1>6 DEF FailureByOrigin

\* Refused, failed, unusable, or out of time.
LEMMA RefuseIssueKeeps ==
    ASSUME IInv, RefuseIssue \/ IssueTimesOut
    PROVE  IInv'
<1>1. "DeadlineExceeded" \in Codes
  BY DEF Codes
<1> QED BY <1>1, IssueFailsKeeps DEF RefuseIssue, IssueTimesOut

\* What the author's code returns, and what a module answers.
LEMMA WorkKeeps ==
    ASSUME IInv, Succeed \/ ReturnIssueError \/ ReturnError \/ ModuleAnswers \/ RefuseModule
                   \/ ModuleTimesOut
    PROVE  IInv'
<1> USE CodesAreNot DEF IInv, Places
<1>1. CASE Succeed
  BY <1>1 DEF Succeed, Shape, AdmittedFirst, FailureByOrigin, FromCheck, FromIssue,
    FromElsewhere, AnswerByFailure, FailedWithError, NoError
<1>2. CASE ReturnIssueError
  BY <1>2 DEF ReturnIssueError, Fail, Shape, AdmittedFirst, FailureByOrigin, FromCheck,
    FromIssue, FromElsewhere, AnswerByFailure, FailedWithError
<1>3. CASE ReturnError
  <2>1. PICK err \in AuthorErrors : Fail(err)
    BY <1>3 DEF ReturnError
  <2>2. err \in Errors /\ err # NoError
    BY AuthorErrorsType
  <2>3. FromElsewhere(err)
    BY <1>3, PlainFields DEF AuthorErrors, FromElsewhere, ReturnError, FailedWithError, Addresses
  <2>4. Shape' /\ AdmittedFirst' /\ AnswerByFailure' /\ FailedWithError'
    BY <1>3, <2>1, <2>2 DEF ReturnError, Fail, Shape, Errors, AdmittedFirst,
      AnswerByFailure, FailedWithError
  <2>5. FailureByOrigin'
    BY <1>3, <2>1, <2>3 DEF ReturnError, Fail, FailureByOrigin, FromElsewhere, FailedWithError
  <2> QED BY <2>4, <2>5
<1>4. CASE ModuleAnswers
  BY <1>4 DEF ModuleAnswers, Shape, AdmittedFirst, FailureByOrigin, FromCheck, FromIssue,
    FromElsewhere, AnswerByFailure, FailedWithError, NoError
<1>5. ASSUME NEW code \in Codes, place = "calling", ModuleFails(code)
      PROVE  IInv'
  <2>1. PICK text \in (IF code = "Unavailable" THEN Addresses ELSE {"own"}) :
          Fail([NoError EXCEPT !.kind = "rpc", !.code = code, !.at = "module", !.text = text])
    BY <1>5 DEF ModuleFails
  <2>2. failure' = [kind |-> "rpc", status |-> 0, code |-> code, text |-> text, at |-> "module"]
          /\ place' = "failed" /\ UNCHANGED <<surface, carried, checked, issued, ran, answer>>
    BY <1>5, <2>1 DEF ModuleFails, Fail, NoError
  <2>3. FromElsewhere(failure)'
    BY <2>1, <2>2 DEF FromElsewhere, Addresses
  <2>4. Shape'
    BY <2>1, <2>2 DEF Shape, Kinds, Texts, Addresses, Origins
  <2> QED
    BY <1>5, <2>2, <2>3, <2>4
    DEF NoError, AdmittedFirst, FailureByOrigin, AnswerByFailure, FailedWithError
<1>6. CASE RefuseModule \/ ModuleTimesOut
  BY <1>5, <1>6 DEF RefuseModule, ModuleTimesOut, Codes
<1> QED BY <1>1, <1>2, <1>3, <1>4, <1>6

\* An error becomes its surface's answer.
LEMMA AnswerKeeps ==
    ASSUME IInv, AnswerRest \/ AnswerConnect \/ AnswerRelay \/ AnswerTool
    PROVE  IInv'
<1>1. place = "failed" /\ place' = "answered"
        /\ UNCHANGED <<surface, carried, checked, issued, ran, failure>>
  BY DEF AnswerRest, AnswerConnect, AnswerRelay, AnswerTool, Answered
<1>2. AnswerToFailure'
  <2>1. CASE AnswerRest
    BY <1>1, <2>1 DEF AnswerRest, Answered, AnswerToFailure
  <2>2. CASE AnswerConnect
    BY <1>1, <2>2 DEF AnswerConnect, Answered, AnswerToFailure
  <2>3. CASE AnswerRelay
    BY <1>1, <2>3 DEF AnswerRelay, Answered, AnswerToFailure
  <2>4. CASE AnswerTool
    BY <1>1, <2>4 DEF AnswerTool, Answered, AnswerToFailure
  <2> QED BY <2>1, <2>2, <2>3, <2>4
<1>3. Shape' /\ AdmittedFirst' /\ FailedWithError' /\ FailureByOrigin'
  BY <1>1 DEF IInv, Shape, Places, AdmittedFirst, FailedWithError, FailureByOrigin, FromCheck,
    FromIssue, FromElsewhere
<1>4. AnswerByFailure'
  BY <1>1, <1>2 DEF IInv, AnswerByFailure, FailedWithError
<1> QED BY <1>3, <1>4 DEF IInv

\* Nothing happens.
LEMMA StutterKeeps == ASSUME IInv, UNCHANGED vars PROVE IInv'
BY DEF vars, IInv, Shape, AdmittedFirst, FailureByOrigin, FromCheck, FromIssue, FromElsewhere,
    AnswerByFailure, AnswerToFailure, FailedWithError

\* The invariant that ties an error to what was heard, and an answer to the
\* error, holds on every surface.
THEOREM Invariance == Spec => []IInv
<1>1. IInv /\ [Next]_vars => IInv'
  BY CheckKeeps, IssueKeeps, RefuseIssueKeeps, WorkKeeps, AnswerKeeps, StutterKeeps
    DEF Next, Runtime, Authority, Author, Module, Done
<1> QED BY <1>1, InitEstablishes, PTL DEF Spec

----------------------------------------------------------------------------
(* What follows from it.                                                   *)

\* A failed Check keeps its side of refusal and outage through each mapping.
LEMMA CheckMappings ==
    ASSUME NEW code \in Codes
    PROVE  /\ GatewayStatus(CheckError(code)) \in {400, 401, 403, 503}
           /\ GatewayStatus(CheckError(code)) \in 400 .. 499 <=> Refuses(code)
           /\ Refuses(CodeForStatus(GatewayStatus(CheckError(code)))) <=> Refuses(code)
           /\ Refuses(GatewayCode(CheckError(code))) <=> Refuses(code)
<1>1. RefusalStatus(code) \in {400, 401, 403, 502, 503}
  BY StatusOfCode DEF AuthorityStatuses
<1>2. CASE RefusalStatus(code) = 400
  <2>1. CheckError(code) = "ErrRequestInvalid"
    BY <1>2 DEF CheckError
  <2>2. GatewayStatus("ErrRequestInvalid") = 400
          /\ GatewayCode("ErrRequestInvalid") = "InvalidArgument"
    BY DEF GatewayStatus, GatewayCode
  <2>3. CodeForStatus(400) = "InvalidArgument"
    BY DEF CodeForStatus
  <2>4. Refuses("InvalidArgument") /\ Refuses(code)
    BY <1>2 DEF Refuses, RefusalStatus
  <2> QED BY <2>1, <2>2, <2>3, <2>4
<1>3. CASE RefusalStatus(code) = 401
  <2>1. CheckError(code) = "ErrNoViewer"
    BY <1>3 DEF CheckError
  <2>2. GatewayStatus("ErrNoViewer") = 401 /\ GatewayCode("ErrNoViewer") = "Unauthenticated"
    BY DEF GatewayStatus, GatewayCode
  <2>3. CodeForStatus(401) = "Unauthenticated"
    BY DEF CodeForStatus
  <2>4. Refuses("Unauthenticated") /\ Refuses(code)
    BY <1>3 DEF Refuses, RefusalStatus
  <2> QED BY <2>1, <2>2, <2>3, <2>4
<1>4. CASE RefusalStatus(code) = 403
  <2>1. CheckError(code) = "ErrRequestRefused"
    BY <1>4 DEF CheckError
  <2>2. GatewayStatus("ErrRequestRefused") = 403
          /\ GatewayCode("ErrRequestRefused") = "PermissionDenied"
    BY DEF GatewayStatus, GatewayCode
  <2>3. CodeForStatus(403) = "PermissionDenied"
    BY DEF CodeForStatus
  <2>4. Refuses("PermissionDenied") /\ Refuses(code)
    BY <1>4 DEF Refuses, RefusalStatus
  <2> QED BY <2>1, <2>2, <2>3, <2>4
<1>5. CASE RefusalStatus(code) \in {502, 503}
  <2>1. CheckError(code) = "ErrAuthorityUnavailable"
    BY <1>5 DEF CheckError
  <2>2. GatewayStatus("ErrAuthorityUnavailable") = 503
          /\ GatewayCode("ErrAuthorityUnavailable") = "Unavailable"
    BY DEF GatewayStatus, GatewayCode
  <2>3. CodeForStatus(503) = "Unavailable"
    BY DEF CodeForStatus
  <2>4. ~Refuses("Unavailable") /\ ~Refuses(code)
    BY <1>5 DEF Refuses, RefusalStatus
  <2> QED BY <2>1, <2>2, <2>3, <2>4
<1> QED BY <1>1, <1>2, <1>3, <1>4, <1>5

\* So does a refused or failed issue.
LEMMA IssueMappings ==
    ASSUME NEW code \in Codes
    PROVE  /\ RelayableStatus(RefusalStatus(code)) \in 400 .. 499 <=> Refuses(code)
           /\ Refuses(RelayedRefusal(code)) <=> Refuses(code)
<1>1. RefusalStatus(code) \in {400, 401, 403, 502, 503}
  BY StatusOfCode DEF AuthorityStatuses
<1>2. RelayableStatus(RefusalStatus(code)) \in 400 .. 499 <=> Refuses(code)
  BY <1>1 DEF RelayableStatus, Refuses
<1>3. ~Refuses("Unavailable")
  BY DEF Refuses, RefusalStatus
<1> QED BY <1>2, <1>3 DEF RelayedRefusal

\* Every variable keeps its type; an answer in particular has a status a page
\* can be answered an error with, or a code.
THEOREM TypeCorrect == Spec => []TypeOK
<1>1. ASSUME IInv PROVE OperationStatus(failure) \in 400 .. 599
  <2>1. GatewayStatus(failure.kind) \in 400 .. 599
    BY DEF GatewayStatus
  <2>2. StatusForCode(failure.code) \in 400 .. 599
    BY DEF StatusForCode
  <2>3. RelayableStatus(failure.status) \in 400 .. 599
    BY DEF RelayableStatus
  <2> QED BY <2>1, <2>2, <2>3 DEF OperationStatus, HandlerStatus
<1>2. \A status : CodeForStatus(status) \in Codes
  BY DEF CodeForStatus, Codes
<1>3. ASSUME IInv PROVE RelayCode(failure) \in Codes \cup {NoCode}
  <2>1. GatewayCode(failure.kind) \in Codes /\ ModuleRefusal(failure.code) \in Codes
          /\ "Unavailable" \in Codes
    BY DEF GatewayCode, ModuleRefusal, Codes
  <2>2. RelayedRefusal(failure.code) \in Codes \cup {NoCode}
    BY <1>3, <2>1 DEF RelayedRefusal, IInv, Shape
  <2> QED BY <1>3, <2>1, <2>2 DEF RelayCode, IInv, Shape
<1>4. ASSUME IInv
      PROVE  /\ HandlerText(failure) \in Texts /\ OperationText(failure) \in Texts
             /\ RelayText(failure) \in Texts /\ WithoutRuntimeAddresses(failure.text) \in Texts
  BY <1>4 DEF IInv, Shape, HandlerText, OperationText, RelayText, WithoutRuntimeAddresses, Texts,
      Addresses
<1>5. ASSUME IInv, AnswerToFailure
      PROVE  answer \in [status : (400 .. 599) \cup {0, 200}, code : Codes \cup {NoCode, OK},
                         text : Texts]
  <2>1. failure.code \in Codes \cup {NoCode}
    BY <1>5 DEF IInv, Shape
  <2> QED BY <1>1, <1>2, <1>3, <1>4, <1>5, <2>1 DEF AnswerToFailure
<1>6. ASSUME IInv
      PROVE  answer \in [status : (400 .. 599) \cup {0, 200}, code : Codes \cup {NoCode, OK},
                         text : Texts]
  BY <1>5, <1>6 DEF IInv, AnswerByFailure, NoAnswer, Success, Texts
<1>7. IInv => TypeOK
  BY <1>6 DEF IInv, Shape, TypeOK, Errors
<1> QED BY <1>7, Invariance, PTL

\* Nothing runs for a viewer the authority did not check, and no module is
\* called but under a child it issued.
THEOREM ChecksComeFirst == Spec => []NothingRunsUnchecked
<1>1. IInv => NothingRunsUnchecked
  BY DEF IInv, AdmittedFirst, NothingRunsUnchecked
<1> QED BY <1>1, Invariance, PTL

\* An operation's page and a relayed method's page are told a refusal exactly
\* when the authority refused.
THEOREM OutagesAreNotRefusals == Spec => []RefusalsAndOutagesAreToldApart
<1>1. ASSUME IInv, Failed, surface # "tool", failure.at \in {"check", "issue"},
             failure.code # NoCode
      PROVE  ReadsAsRefusal <=> Refuses(failure.code)
  <2> USE <1>1, CodesAreNot
  <2>1. AnswerToFailure
    <3>1. answer # [status |-> 401, code |-> NoCode, text |-> "generic"] \/ failure # NoError
      BY DEF Failed
    <3> QED BY <3>1 DEF IInv, AnswerByFailure, Failed
  <2>2. CASE failure.at = "check"
    <3>1. checked \in Codes /\ failure.kind = CheckError(checked) /\ failure.code = checked
      BY <2>2, HeldFields, PlainFields DEF IInv, FailureByOrigin, FromCheck, FromIssue,
        FromElsewhere
    <3>2. failure.kind \notin {"refusal", "rpc"}
      BY <3>1, CheckErrorType DEF CheckErrors
    <3> DEFINE s == GatewayStatus(failure.kind)
    <3>3. CASE surface = "rest"
      <4>1. answer.status = s /\ answer.code = NoCode
        BY <2>1, <2>2, <3>3 DEF AnswerToFailure, OperationStatus
      <4> QED BY <3>1, <4>1, CheckMappings DEF ReadsAsRefusal
    <3>4. CASE surface = "connect"
      <4>1. answer.code = CodeForStatus(s)
        BY <2>1, <2>2, <3>2, <3>4 DEF AnswerToFailure, OperationStatus
      <4>2. CodeForStatus(s) # NoCode
        BY <3>1, CheckMappings DEF CodeForStatus, NoCode
      <4> QED BY <3>1, <4>1, <4>2, CheckMappings DEF ReadsAsRefusal
    <3>5. CASE surface = "relay"
      <4>1. answer.code = GatewayCode(failure.kind)
        BY <2>1, <2>2, <3>2, <3>5 DEF AnswerToFailure, RelayCode
      <4>2. answer.code # NoCode
        BY <4>1 DEF GatewayCode, NoCode
      <4> QED BY <3>1, <4>1, <4>2, CheckMappings DEF ReadsAsRefusal
    <3> QED BY <3>3, <3>4, <3>5 DEF IInv, Shape, Surfaces
  <2>3. CASE failure.at = "issue"
    <3>1. issued \in Codes /\ failure = Held(issued)
      BY <2>3, PlainFields DEF IInv, FailureByOrigin, FromCheck, FromIssue, FromElsewhere
    <3>2. failure.kind = "refusal" /\ failure.code = issued
            /\ failure.status = RefusalStatus(issued)
      BY <3>1 DEF Held
    <3>3. CASE surface = "rest"
      <4>1. answer.status = RelayableStatus(failure.status) /\ answer.code = NoCode
        BY <2>1, <2>3, <3>2, <3>3 DEF AnswerToFailure, OperationStatus, HandlerStatus
      <4> QED BY <3>1, <3>2, <4>1, IssueMappings DEF ReadsAsRefusal
    <3>4. CASE surface = "connect"
      BY <2>1, <3>1, <3>2, <3>4 DEF AnswerToFailure, ReadsAsRefusal
    <3>5. CASE surface = "relay"
      <4>1. answer.code = RelayedRefusal(issued)
        BY <2>1, <2>3, <3>2, <3>5 DEF AnswerToFailure, RelayCode
      <4>2. answer.code # NoCode
        BY <3>1, <4>1 DEF RelayedRefusal, NoCode
      <4> QED BY <3>1, <3>2, <4>1, <4>2, IssueMappings DEF ReadsAsRefusal
    <3> QED BY <3>3, <3>4, <3>5 DEF IInv, Shape, Surfaces
  <2> QED BY <2>2, <2>3
<1>2. IInv => RefusalsAndOutagesAreToldApart
  BY <1>1 DEF RefusalsAndOutagesAreToldApart
<1> QED BY <1>2, Invariance, PTL

\* A Connect caller is answered a refused ask with the authority's own code.
THEOREM AsksKeepTheirCode == Spec => []IssueRefusalsKeepTheirCode
<1>1. ASSUME IInv, Failed, surface \in {"connect", "relay"}, failure.at = "issue",
             failure.code # NoCode, Refuses(failure.code)
      PROVE  answer.code = failure.code
  <2> USE <1>1, CodesAreNot
  <2>1. AnswerToFailure
    BY DEF IInv, AnswerByFailure, Failed
  <2>2. issued \in Codes /\ failure = Held(issued)
    BY PlainFields DEF IInv, FailureByOrigin, FromCheck, FromIssue, FromElsewhere
  <2>3. failure.kind = "refusal" /\ failure.code = issued
    BY <2>2 DEF Held
  <2> QED BY <2>1, <2>3 DEF AnswerToFailure, RelayCode, RelayedRefusal
<1>2. IInv => IssueRefusalsKeepTheirCode
  BY <1>1 DEF IssueRefusalsKeepTheirCode
<1> QED BY <1>2, Invariance, PTL

\* Only the failures of a call the author's code made are answered with an address:
\* of those a gRPC call's, whose error the runtime does not know, and in a tool's
\* result one in a spelling it is not searched for.
THEOREM OwnCallsNameNoAddress == Spec => []OnlyAuthorsCallsNameAddresses
<1>1. ASSUME IInv, place = "answered", failure # NoError, AnswerToFailure,
             answer.text \in Addresses
      PROVE  /\ surface # "relay"
             /\ failure.at = "module"
             /\ failure.kind = "plain" \/ (surface = "tool" /\ answer.text = "target")
  <2> USE <1>1, CodesAreNot
  <2>1. failure.text \in Addresses
    BY DEF AnswerToFailure, OperationText, HandlerText, RelayText, WithoutRuntimeAddresses,
      Addresses
  <2>2. FromElsewhere(failure)
    <3>1. ~FromCheck(failure)
      BY <2>1 DEF FromCheck, Addresses
    <3>2. ~FromIssue(failure)
      BY <2>1, HeldFields, PlainFields DEF FromIssue, HandlerText, Addresses
    <3> QED BY <3>1, <3>2 DEF IInv, FailureByOrigin
  <2>3. failure.at = "module" /\ failure.kind \in {"rpc", "transport", "plain"}
    BY <2>1, <2>2 DEF FromElsewhere
  <2>4. surface # "relay"
    <3>1. ASSUME surface = "relay" PROVE RelayText(failure) = "generic"
      BY <2>1, <2>2, <2>3, <3>1 DEF FromElsewhere, RelayText
    <3> QED BY <3>1 DEF AnswerToFailure, Addresses
  <2>5. failure.kind = "plain" \/ HandlerText(failure) \notin Addresses
    BY <2>3 DEF HandlerText, Addresses
  <2>6. WithoutRuntimeAddresses(failure.text) # "address"
    BY DEF WithoutRuntimeAddresses
  <2>7. failure.kind = "plain" \/ surface = "tool"
    BY <2>3, <2>4, <2>5 DEF AnswerToFailure, OperationText
  <2>8. failure.kind = "plain" \/ answer.text = "target"
    BY <2>3, <2>5, <2>6, <2>7 DEF AnswerToFailure, Addresses
  <2> QED BY <2>3, <2>4, <2>7, <2>8
<1>2. IInv => OnlyAuthorsCallsNameAddresses
  BY <1>1 DEF IInv, AnswerByFailure, OnlyAuthorsCallsNameAddresses, Success, NoAnswer, Addresses
<1> QED BY <1>2, Invariance, PTL

\* The reason the authority gave is what every surface answers with, and no
\* other answer claims one.
THEOREM ReasonsArrive == Spec => []ReasonsReachTheCaller
<1>1. ASSUME IInv, place = "answered", failure # NoError, AnswerToFailure
      PROVE  answer.text = "reason" <=>
               \/ failure.at = "check" /\ checked \in Codes /\ Refuses(checked)
               \/ failure.at = "issue" /\ issued \in Codes /\ Refuses(issued)
  <2> USE <1>1, CodesAreNot
  <2>1. failure.text = "reason" <=>
               \/ failure.at = "check" /\ checked \in Codes /\ Refuses(checked)
               \/ failure.at = "issue" /\ issued \in Codes /\ Refuses(issued)
    <3>1. CASE FromCheck(failure)
      BY <3>1 DEF FromCheck
    <3>2. CASE FromIssue(failure)
      BY <3>2, HeldFields, PlainFields DEF FromIssue, HandlerText
    <3>3. CASE FromElsewhere(failure)
      BY <3>3 DEF FromElsewhere
    <3> QED BY <3>1, <3>2, <3>3 DEF IInv, FailureByOrigin
  <2>2. HandlerText(failure) = "reason" <=> failure.text = "reason"
    <3>1. CASE FromCheck(failure)
      <4>1. failure.kind \notin {"refusal", "gateway", "rpc", "transport"}
        BY <3>1, CheckErrorType DEF FromCheck, CheckErrors
      <4> QED BY <4>1 DEF HandlerText
    <3>2. CASE FromIssue(failure)
      BY <3>2, HeldFields, PlainFields DEF FromIssue, HandlerText
    <3>3. CASE FromElsewhere(failure)
      BY <3>3 DEF FromElsewhere, HandlerText
    <3> QED BY <3>1, <3>2, <3>3 DEF IInv, FailureByOrigin
  <2>3. OperationText(failure) = "reason" <=> failure.text = "reason"
    BY <2>2 DEF OperationText
  <2>4. failure.at = "module" => failure.text # "reason"
    BY <2>1
  <2>5. RelayText(failure) = "reason" <=> failure.text = "reason"
    BY <2>4 DEF RelayText
  <2>6. WithoutRuntimeAddresses(failure.text) = "reason" <=> failure.text = "reason"
    BY DEF WithoutRuntimeAddresses
  <2>7. answer.text = "reason" <=> failure.text = "reason"
    BY <2>2, <2>3, <2>5, <2>6 DEF AnswerToFailure
  <2> QED BY <2>1, <2>7
<1>2. ASSUME IInv, place = "answered", failure # NoError, AnswerToFailure,
             failure.text = "reason"
      PROVE  answer # Success
  <2> USE <1>2, CodesAreNot
  <2>1. CASE surface \in {"rest", "tool"}
    BY <2>1 DEF AnswerToFailure, Success, NoCode, OK
  <2>2. CASE surface = "relay"
    BY <2>2 DEF AnswerToFailure, Success
  <2>3. CASE surface = "connect"
    <3>1. failure.code # OK
      BY DEF IInv, Shape, NoCode, OK
    <3>2. CodeForStatus(OperationStatus(failure)) # OK
      BY DEF CodeForStatus, OK
    <3> QED BY <2>3, <3>1, <3>2 DEF AnswerToFailure, Success
  <2> QED BY <2>1, <2>2, <2>3 DEF IInv, Shape, Surfaces
<1>3. ASSUME IInv, place = "answered", failure # NoError, AnswerToFailure
      PROVE  answer = Success => failure.text # "reason"
  BY <1>2, <1>3
<1>4. IInv => ReasonsReachTheCaller
  <2> SUFFICES ASSUME IInv, place = "answered"
               PROVE  answer.text = "reason" <=>
                        /\ failure # NoError /\ answer # Success
                        /\ \/ failure.at = "check" /\ checked \in Codes /\ Refuses(checked)
                           \/ failure.at = "issue" /\ issued \in Codes /\ Refuses(issued)
    BY DEF ReasonsReachTheCaller
  <2>1. CASE answer = Success
    BY <2>1 DEF Success
  <2>2. CASE answer # Success /\ failure = NoError
    BY <2>2 DEF IInv, AnswerByFailure
  <2>3. CASE answer # Success /\ failure # NoError
    BY <1>1, <2>3 DEF IInv, AnswerByFailure
  <2> QED BY <2>1, <2>2, <2>3
<1> QED BY <1>4, Invariance, PTL

\* What the authority said of a refusal, of a Check or of an ask, is what is answered:
\* its reason on every surface, and an ask's code with it on those that have codes.
THEOREM RefusalsArrive == Spec => []RefusalsReachTheCaller
<1>1. ReasonsReachTheCaller /\ IssueRefusalsKeepTheirCode => RefusalsReachTheCaller
  BY DEF RefusalsReachTheCaller
<1> QED BY <1>1, ReasonsArrive, AsksKeepTheirCode, PTL
=============================================================================
