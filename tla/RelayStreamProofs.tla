------------------------- MODULE RelayStreamProofs --------------------------
(***************************************************************************)
(* Proofs about RelayStream, for any window and however long the module     *)
(* sends.                                                                  *)
(***************************************************************************)
EXTENDS RelayStream, TLAPS

----------------------------------------------------------------------------
(* The inductive invariant.                                                *)

\* Of what the module sent and RecvMsg has returned, only the message in hand has
\* not reached the page.
MessagesInOrder ==
    /\ pc \in {"preparing", "arming", "opening"} => module = "idle" /\ undelivered = 0
    /\ undelivered \in {buffered, buffered + 1}
    /\ IF pc = "sending" \/ (pc \in {"disarming", "checking"} /\ err = "nil")
       THEN received /\ undelivered = buffered + 1
       ELSE pc = "receiving" \/ err = "EOF" => undelivered = buffered

\* The loop is entered, and left, with the error it goes by.
ErrByPlace ==
    /\ pc \in {"preparing", "arming", "opening", "receiving", "sending"} => err = "nil"
    /\ pc = "closing" /\ err = "nil" => late

\* The module's end is read after every message, and nothing follows it.
EndIsReadLast == err = "EOF" => module = "EOF" /\ buffered = 0

\* A context the timer cancelled is cancelled after late is set; any other ended
\* with the page or the duration.
ContextsAreExplained ==
    /\ timer \in {"stored", "spent"} => late
    /\ pc # "ended" /\ ctx = "Canceled" => page = "gone"
    /\ pc # "ended" /\ streaming = "Canceled" => page = "gone" \/ late
    /\ streaming = "DeadlineExceeded" => ctx = "DeadlineExceeded"

\* What the last call returned has a cause; past the switch's reading of late,
\* one that is not the timer's.
ErrIsExplained ==
    pc \in {"disarming", "checking", "closing", "judging"} =>
        \/ err = "nil" /\ pc # "judging"
        \/ err = module
        \/ err \in TransportCodes
        \/ err = "Canceled" /\ (page = "gone" \/ (late /\ pc # "judging"))
        \/ err = "DeadlineExceeded" /\ ctx = "DeadlineExceeded"

\* A stream that has been told why has ended.
ToldAtEnd == answer.reason # "none" => pc = "ended"

\* A stream told complete ended with the module's own end.
CompleteAtEnd == answer.code = "OK" => pc = "ended" /\ err = "EOF"

\* What has been relayed.
Delivery ==
    /\ TypeOK
    /\ MessagesInOrder
    /\ ErrByPlace
    /\ EndIsReadLast
    /\ CompleteAtEnd

\* Why the stream ends.
Causes ==
    /\ ContextsAreExplained
    /\ ErrIsExplained
    /\ ToldAtEnd
    /\ CutsAreToldAsSuch

IInv == Delivery /\ Causes

----------------------------------------------------------------------------
(* Codes.                                                                  *)

\* A module's answer is told as a code, never as success.
LEMMA ModuleRefusalType == \A code : ModuleRefusal(code) \in Codes
BY DEF ModuleRefusal, Codes

\* So is every refusal to act as the viewer.
LEMMA PrepareCodesType == PrepareCodes \subseteq Codes
<1>1. \A kind : GatewayCode(kind) \in Codes
  BY DEF GatewayCode, Codes
<1>2. \A code \in Codes : RelayedRefusal(code) \in Codes
  BY DEF RelayedRefusal, Codes
<1> QED BY <1>1, <1>2 DEF PrepareCodes, Codes

\* Success is not one of the codes of a failure.
LEMMA CodesFail == 
    /\ Codes \cap {"OK", "EOF", "nil", "open", "idle", "severed"} = {}
    /\ TransportCodes \subseteq Codes
    /\ TransportCodes \cap {"Canceled", "DeadlineExceeded"} = {}
BY DEF Codes, TransportCodes

\* The reasons a context ends are codes as well.
LEMMA EndedAreCodes ==
    {"Canceled", "DeadlineExceeded", "ResourceExhausted"} \subseteq Codes
BY DEF Codes

----------------------------------------------------------------------------
(* The inductive step.                                                     *)

\* Returning a failure keeps the invariant: everything stops, nothing is told
\* as complete.
LEMMA FinishKeeps ==
    ASSUME Delivery, pc # "ended", NEW code \in Codes, NEW reason \in Reasons,
           Finish(code, reason), pc = "sending" => err # "EOF"
    PROVE  Delivery'
<1> USE CodesFail DEF Delivery, TypeOK, Finish, Answer, moduleVars, Places, Ended
<1>1. TypeOK'
  BY DEF Reasons
<1>2. MessagesInOrder'
  BY DEF MessagesInOrder, ErrByPlace
<1>3. ErrByPlace' /\ EndIsReadLast' /\ CompleteAtEnd'
  BY DEF ErrByPlace, EndIsReadLast, CompleteAtEnd
<1> QED BY <1>1, <1>2, <1>3

\* Up to the module's stream.
LEMMA OpeningKeeps ==
    ASSUME Delivery, PrepareFails \/ Prepare \/ Arm \/ Open \/ OpenFails
    PROVE  Delivery'
<1> USE DEF Delivery
<1>1. CASE PrepareFails
  <2>1. PICK code \in PrepareCodes : Finish(code, "prepare")
    BY <1>1 DEF PrepareFails
  <2> QED BY <1>1, <2>1, PrepareCodesType, FinishKeeps DEF PrepareFails, Reasons
<1>2. CASE Prepare
  BY <1>2 DEF Prepare, TypeOK, MessagesInOrder, ErrByPlace, EndIsReadLast,
    CompleteAtEnd, Places, timerVars, contexts, moduleVars
<1>3. CASE Arm
  BY <1>3 DEF Arm, TypeOK, MessagesInOrder, ErrByPlace, EndIsReadLast,
    CompleteAtEnd, Places, timerVars, contexts, moduleVars
<1>4. CASE Open
  BY <1>4, CodesFail DEF Open, TypeOK, MessagesInOrder, ErrByPlace, EndIsReadLast,
    CompleteAtEnd, Places, timerVars, contexts, moduleVars
<1>5. CASE OpenFails
  BY <1>5, CodesFail, EndedAreCodes DEF OpenFails, TypeOK, MessagesInOrder, ErrByPlace,
    EndIsReadLast, CompleteAtEnd, Places, Ended, timerVars, contexts,
    moduleVars
<1> QED BY <1>1, <1>2, <1>3, <1>4, <1>5

\* The loop: what RecvMsg returns, the timer stopped, late read, a message sent.
LEMMA LoopKeeps ==
    ASSUME Delivery, RecvMessage \/ RecvTooLarge \/ RecvEnd \/ RecvCanceled \/ Disarm
                   \/ Check \/ Send \/ SendFails
    PROVE  Delivery'
<1> USE CodesFail, WindowAssumption
    DEF WindowAssumption, Delivery, TypeOK, MessagesInOrder, ErrByPlace, EndIsReadLast,
    CompleteAtEnd, Places, timerVars, contexts, moduleVars
<1>1. CASE RecvMessage
  BY <1>1 DEF RecvMessage
<1>2. CASE RecvTooLarge
  BY <1>2, EndedAreCodes DEF RecvTooLarge
<1>3. CASE RecvEnd
  BY <1>3 DEF RecvEnd
<1>4. CASE RecvCanceled
  BY <1>4, EndedAreCodes DEF RecvCanceled, Ended
<1>5. CASE Disarm
  BY <1>5 DEF Disarm
<1>6. CASE Check
  BY <1>6 DEF Check
<1>7. CASE Send
  BY <1>7 DEF Send
<1>8. CASE SendFails
  BY <1>8, EndedAreCodes, FinishKeeps DEF SendFails, Reasons
<1> QED BY <1>1, <1>2, <1>3, <1>4, <1>5, <1>6, <1>7, <1>8

\* The switch: only the module's own end is told as complete.
LEMMA ClosingKeeps ==
    ASSUME Delivery, EndLate \/ EndComplete \/ NeitherLateNorComplete \/ EndDuration
                   \/ EndRefused
    PROVE  Delivery'
<1>1. CASE EndLate
  BY <1>1, EndedAreCodes, FinishKeeps DEF EndLate, Reasons
<1>2. CASE EndComplete
  BY <1>2, CodesFail DEF EndComplete, Finish, Answer, Delivery, TypeOK, MessagesInOrder,
    ErrByPlace, EndIsReadLast, CompleteAtEnd, Places, Ended, Reasons,
    moduleVars
<1>3. CASE NeitherLateNorComplete
  BY <1>3 DEF NeitherLateNorComplete, Delivery, TypeOK, MessagesInOrder, ErrByPlace,
    EndIsReadLast, CompleteAtEnd, Places, timerVars, contexts, moduleVars
<1>4. CASE EndDuration
  BY <1>4, EndedAreCodes, FinishKeeps DEF EndDuration, Reasons
<1>5. CASE EndRefused
  BY <1>5, ModuleRefusalType, FinishKeeps DEF EndRefused, Reasons
<1> QED BY <1>1, <1>2, <1>3, <1>4, <1>5

\* The timer's goroutine, the contexts and the module.
LEMMA OthersKeep ==
    ASSUME Delivery, TimerStep \/ Elapse \/ Leave \/ ModuleSends \/ ModuleEnds \/ Sever
    PROVE  Delivery'
<1> USE CodesFail, WindowAssumption
    DEF WindowAssumption, Delivery, TypeOK, MessagesInOrder, ErrByPlace, EndIsReadLast,
    CompleteAtEnd, Places, Ended, timerVars, contexts, moduleVars,
    relayVars
<1>1. CASE TimerStep
  <2>1. CASE Fire
    BY <2>1 DEF Fire
  <2>2. CASE StoreLate
    BY <2>2 DEF StoreLate
  <2>3. CASE CancelStream
    BY <2>3 DEF CancelStream
  <2> QED BY <1>1, <2>1, <2>2, <2>3 DEF TimerStep
<1>2. CASE Elapse \/ Leave
  BY <1>2 DEF Elapse, Leave, EndContext
<1>3. CASE ModuleSends
  BY <1>3 DEF ModuleSends
<1>4. CASE ModuleEnds
  BY <1>4 DEF ModuleEnds
<1>5. CASE Sever
  BY <1>5 DEF Sever
<1> QED BY <1>1, <1>2, <1>3, <1>4, <1>5

\* Nothing happens.
LEMMA StutterKeeps == ASSUME Delivery, UNCHANGED vars PROVE Delivery'
BY DEF vars, Delivery, TypeOK, MessagesInOrder, ErrByPlace, EndIsReadLast,
    CompleteAtEnd

----------------------------------------------------------------------------
(* Causes.                                                                 *)

\* Returning leaves what was read as it was: the reason told is the cause found.
LEMMA FinishExplains ==
    ASSUME IInv, pc # "ended", NEW code, NEW reason, Finish(code, reason), reason # "none",
           reason = "module" => CutsAreToldAsSuch'
    PROVE  Causes'
BY DEF IInv, Causes, ContextsAreExplained, ErrIsExplained, ToldAtEnd, CutsAreToldAsSuch,
    Finish, Answer, Delivery, TypeOK, Ended, moduleVars

\* The goroutine's steps before the switch.
LEMMA RelayExplains ==
    ASSUME IInv, PrepareFails \/ Prepare \/ Arm \/ Open \/ OpenFails \/ RecvMessage
                   \/ RecvTooLarge \/ RecvEnd \/ RecvCanceled \/ Disarm \/ Check \/ Send
                   \/ SendFails
    PROVE  Causes'
<1>1. CASE PrepareFails \/ SendFails
  BY <1>1, FinishExplains DEF PrepareFails, SendFails
<1> USE CodesFail DEF IInv, Causes, ContextsAreExplained, ErrIsExplained, ToldAtEnd,
    CutsAreToldAsSuch, Delivery, TypeOK, ErrByPlace, Ended, timerVars, contexts, moduleVars
<1>2. CASE Prepare \/ Arm \/ Open
  BY <1>2 DEF Prepare, Arm, Open
<1>3. CASE OpenFails
  BY <1>3 DEF OpenFails
<1>4. CASE RecvMessage \/ RecvTooLarge
  BY <1>4 DEF RecvMessage, RecvTooLarge, TransportCodes
<1>5. CASE RecvEnd
  BY <1>5 DEF RecvEnd
<1>6. CASE RecvCanceled
  BY <1>6 DEF RecvCanceled
<1>7. CASE Disarm \/ Check \/ Send
  BY <1>7 DEF Disarm, Check, Send
<1> QED BY <1>1, <1>2, <1>3, <1>4, <1>5, <1>6, <1>7

\* The switch: past the reading of late and of ctx, what is left is the
\* module's, the transport's or the page's.
LEMMA SwitchExplains ==
    ASSUME IInv, EndLate \/ EndComplete \/ NeitherLateNorComplete \/ EndDuration
                   \/ EndRefused
    PROVE  Causes'
<1>1. CASE EndLate \/ EndComplete \/ EndDuration
  BY <1>1, FinishExplains DEF EndLate, EndComplete, EndDuration
<1>2. CASE NeitherLateNorComplete
  BY <1>2 DEF NeitherLateNorComplete, IInv, Causes, ContextsAreExplained, ErrIsExplained,
    ToldAtEnd, CutsAreToldAsSuch, Delivery, TypeOK, ErrByPlace, timerVars, contexts,
    moduleVars
<1>3. CASE EndRefused
  <2>1. CutsAreToldAsSuch'
    BY <1>3 DEF EndRefused, Finish, IInv, Causes, ErrIsExplained, CutsAreToldAsSuch,
      moduleVars
  <2> QED BY <1>3, <2>1, FinishExplains DEF EndRefused
<1> QED BY <1>1, <1>2, <1>3

\* The timer's goroutine, the contexts and the module.
LEMMA OthersExplain ==
    ASSUME IInv, TimerStep \/ Elapse \/ Leave \/ ModuleSends \/ ModuleEnds \/ Sever
    PROVE  Causes'
<1> USE CodesFail DEF IInv, Causes, ContextsAreExplained, ErrIsExplained, ToldAtEnd,
    CutsAreToldAsSuch, Delivery, TypeOK, Ended, timerVars, contexts, moduleVars, relayVars
<1>1. CASE TimerStep
  BY <1>1 DEF TimerStep, Fire, StoreLate, CancelStream
<1>2. CASE Elapse \/ Leave
  BY <1>2 DEF Elapse, Leave, EndContext
<1>3. CASE ModuleSends \/ ModuleEnds \/ Sever
  BY <1>3 DEF ModuleSends, ModuleEnds, Sever
<1> QED BY <1>1, <1>2, <1>3

\* The invariant holds however many messages the module sends, and whatever ends first.
THEOREM Invariance == Spec => []IInv
<1>1. Init => IInv
  <2> SUFFICES ASSUME Init PROVE IInv
    OBVIOUS
  <2> USE DEF Init, Answer
  <2>1. TypeOK
    <3>1. buffered \in 0 .. Window /\ undelivered \in 0 .. Window + 1
      BY WindowAssumption DEF WindowAssumption
    <3> QED
      BY <3>1 DEF TypeOK, Places, Ended, Reasons
  <2>2. MessagesInOrder /\ ErrByPlace /\ EndIsReadLast /\ CompleteAtEnd
    BY DEF MessagesInOrder, ErrByPlace, EndIsReadLast, CompleteAtEnd
  <2>3. Causes
    BY DEF Causes, ContextsAreExplained, ErrIsExplained, ToldAtEnd, CutsAreToldAsSuch
  <2> QED BY <2>1, <2>2, <2>3 DEF IInv, Delivery
<1>2. IInv /\ [Next]_vars => IInv'
  <2> SUFFICES ASSUME IInv, [Next]_vars PROVE IInv'
    OBVIOUS
  <2>1. Delivery'
    BY OpeningKeeps, LoopKeeps, ClosingKeeps, OthersKeep, StutterKeeps
    DEF IInv, Next, Relay, Done
  <2>2. CASE UNCHANGED vars
    BY <2>1, <2>2 DEF vars, IInv, Causes, ContextsAreExplained, ErrIsExplained, ToldAtEnd,
      CutsAreToldAsSuch
  <2>3. CASE Next
    BY <2>1, <2>2, <2>3, RelayExplains, SwitchExplains, OthersExplain
    DEF IInv, Next, Relay, Done
  <2> QED BY <2>1, <2>2, <2>3 DEF IInv
<1> QED BY <1>1, <1>2, PTL DEF Spec

----------------------------------------------------------------------------
(* What follows from it.                                                   *)

\* Every variable of the relay keeps its type: a stream's answer is a code.
THEOREM TypeCorrect == Spec => []TypeOK
<1>1. IInv => TypeOK
  BY DEF IInv, Delivery, Causes
<1> QED BY <1>1, Invariance, PTL

\* A stream is told as complete only after the module ended it so, and after
\* every message the module sent had been written to the page.
THEOREM CompleteStreamsAreWhole == Spec => []CompleteMeansEverything
<1>1. IInv => CompleteMeansEverything
  BY DEF IInv, Delivery, CompleteAtEnd, EndIsReadLast, MessagesInOrder, CompleteMeansEverything
<1> QED BY <1>1, Invariance, PTL

\* A stream the runtime cut is never told as one the module refused, however the
\* timer, the duration, the page and the module's own end follow one another.
THEOREM CutsAreTold == Spec => []CutsAreToldAsSuch
<1>1. IInv => CutsAreToldAsSuch
  BY DEF IInv, Delivery, Causes
<1> QED BY <1>1, Invariance, PTL

----------------------------------------------------------------------------
(* A silent module is cut: what of it is not fairness.                     *)

\* While the page waits for the first message, the timer is set or its function has
\* begun, and it has run only with the module's stream cancelled; a stream inside a
\* context that ended has ended.  So a stream that waits for a module that says
\* nothing always has a cancellation coming, or come (relayStream).
SilenceIsTimed ==
    /\ ctx # "live" => streaming # "live"
    /\ timer = "spent" => streaming # "live"
    /\ pc \in {"opening", "receiving"} /\ ~received =>
          timer \in {"armed", "started", "stored", "spent"}

\* Only a message received stops the timer of a stream that goes on.
THEOREM SilenceIsAlwaysTimed == Spec => []SilenceIsTimed
<1>1. Init => SilenceIsTimed
  BY DEF Init, SilenceIsTimed
<1>2. IInv /\ SilenceIsTimed /\ [Next]_vars => SilenceIsTimed'
  <2> SUFFICES ASSUME IInv, SilenceIsTimed, [Next]_vars PROVE SilenceIsTimed'
    OBVIOUS
  <2> USE DEF SilenceIsTimed
  <2>1. ASSUME NEW code, NEW reason, Finish(code, reason) PROVE SilenceIsTimed'
    BY <2>1 DEF Finish
  <2>2. CASE PrepareFails \/ SendFails \/ EndLate \/ EndComplete \/ EndDuration \/ EndRefused
    BY <2>1, <2>2 DEF PrepareFails, SendFails, EndLate, EndComplete, EndDuration, EndRefused
  <2>3. CASE Prepare \/ Arm \/ Open \/ OpenFails
    BY <2>3 DEF Prepare, Arm, Open, OpenFails, timerVars, contexts, moduleVars
  <2>4. CASE RecvMessage \/ RecvTooLarge \/ RecvEnd \/ RecvCanceled \/ Disarm
    BY <2>4 DEF RecvMessage, RecvTooLarge, RecvEnd, RecvCanceled, Disarm, timerVars, contexts,
       moduleVars
  <2>5. CASE Check \/ NeitherLateNorComplete
    BY <2>5 DEF Check, NeitherLateNorComplete, timerVars, contexts, moduleVars
  <2>6. CASE Send
    <3>1. received
      BY <2>6 DEF Send, IInv, Delivery, MessagesInOrder, TypeOK
    <3> QED
      BY <2>6, <3>1 DEF Send, timerVars, contexts, moduleVars
  <2>7. CASE TimerStep
    BY <2>7 DEF TimerStep, Fire, StoreLate, CancelStream, contexts, relayVars
  <2>8. CASE Elapse \/ Leave
    BY <2>8 DEF Elapse, Leave, EndContext, timerVars, relayVars
  <2>9. CASE ModuleSends \/ ModuleEnds \/ Sever \/ Done \/ UNCHANGED vars
    BY <2>9 DEF ModuleSends, ModuleEnds, Sever, Done, vars, timerVars, contexts, relayVars
  <2> QED
    BY <2>2, <2>3, <2>4, <2>5, <2>6, <2>7, <2>8, <2>9 DEF Next, Relay
<1> QED
  BY <1>1, <1>2, Invariance, PTL DEF Spec

\* A context that ended has ended for the reason it ended first, the timer's mark is
\* never taken back, and a stream told something is told nothing else: of two ends
\* that race, the first is the one the switch of relayStream finds.
THEOREM EndsAreForGood ==
    Spec => [][/\ ctx # "live" => ctx' = ctx
               /\ streaming # "live" => streaming' = streaming
               /\ late => late'
               /\ pc = "ended" => answer' = answer]_vars
<1>1. [Next]_vars => [/\ ctx # "live" => ctx' = ctx
                      /\ streaming # "live" => streaming' = streaming
                      /\ late => late'
                      /\ pc = "ended" => answer' = answer]_vars
  <2> SUFFICES ASSUME Next
               PROVE  /\ ctx # "live" => ctx' = ctx
                      /\ streaming # "live" => streaming' = streaming
                      /\ late => late'
                      /\ pc = "ended" => answer' = answer
    OBVIOUS
  <2> USE DEF timerVars, contexts, moduleVars, relayVars
  <2>1. CASE PrepareFails \/ SendFails \/ EndLate \/ EndComplete \/ EndDuration \/ EndRefused
    BY <2>1 DEF PrepareFails, SendFails, EndLate, EndComplete, EndDuration, EndRefused, Finish
  <2>2. CASE Prepare \/ Arm \/ Open \/ OpenFails \/ Send
    BY <2>2 DEF Prepare, Arm, Open, OpenFails, Send
  <2>3. CASE RecvMessage \/ RecvTooLarge \/ RecvEnd \/ RecvCanceled \/ Disarm \/ Check
             \/ NeitherLateNorComplete
    BY <2>3 DEF RecvMessage, RecvTooLarge, RecvEnd, RecvCanceled, Disarm, Check,
       NeitherLateNorComplete
  <2>4. CASE TimerStep
    BY <2>4 DEF TimerStep, Fire, StoreLate, CancelStream
  <2>5. CASE Elapse \/ Leave
    BY <2>5 DEF Elapse, Leave, EndContext
  <2>6. CASE ModuleSends \/ ModuleEnds \/ Sever \/ Done
    BY <2>6 DEF ModuleSends, ModuleEnds, Sever, Done, vars
  <2> QED
    BY <2>1, <2>2, <2>3, <2>4, <2>5, <2>6 DEF Next, Relay
<1> QED
  BY <1>1, PTL DEF Spec
=============================================================================
