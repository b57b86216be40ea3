---------------------------- MODULE RelayStream -----------------------------
(***************************************************************************)
(* One streamed call of the passthrough (stream.go, relayStream): the      *)
(* handler's goroutine, the timer that bounds the module's first message,  *)
(* the contexts that bound the whole stream, the module and the page.      *)
(*                                                                         *)
(* Three contexts nest: the page's request, ctx (the page's, bounded by    *)
(* MaxStreamDuration) and streaming (ctx's, which the timer also cancels). *)
(* Cancelling one cancels those inside it in the same step, as a Go        *)
(* context does.  The timer's function runs on a goroutine of its own, so  *)
(* it can have been started and not yet have run when Stop is called.      *)
(***************************************************************************)
EXTENDS Integers, Refusals

\* How many messages the module may be ahead of RecvMsg: the flow control of the
\* gRPC stream.  A module may go on sending for ever.
CONSTANT Window

ASSUME WindowAssumption == Window \in Nat \ {0}

\* What the page is told at the end: a code, and which line told it.
Reasons == {"none", "prepare", "late", "complete", "duration", "module", "page"}
Answer(code, reason) == [code |-> code, reason |-> reason]

VARIABLES
    pc,         \* the handler's goroutine
    timer,      \* firstAnswer, and its function once started
    late,       \* the atomic flag the timer's function sets
    ctx,        \* ctx.Err(): "live", "Canceled" or "DeadlineExceeded"
    streaming,  \* streaming.Err()
    page,       \* "connected" or "gone"
    module,     \* "idle", "open", "EOF", the status it ended with, or "severed"
    buffered,   \* messages sent that RecvMsg has not returned
    undelivered,  \* messages sent that have not been written to the page
    received,   \* whether RecvMsg has returned a message
    delivered,  \* whether a message has been written to the page
    err,        \* what the last call on the module's stream returned
    answer      \* what relayStream returned

relayVars == <<pc, received, delivered, err, answer>>
timerVars == <<timer, late>>
contexts == <<ctx, streaming, page>>
moduleVars == <<module, buffered, undelivered>>
vars == <<pc, timer, late, ctx, streaming, page, module, buffered, undelivered, received,
          delivered, err, answer>>

\* Where the goroutine is: before asTheViewer returns, before NewStream, in
\* RecvMsg, before Stop, at the late.Load of the loop, in stream.Send, at the
\* late.Load of the switch, at its ctx.Err(), and returned.
Places == {"preparing", "arming", "opening", "receiving", "disarming",
           "checking", "sending", "closing", "judging", "ended"}

Ended == {"live", "Canceled", "DeadlineExceeded"}

\* What a call on the module's stream returns when neither the module nor a
\* context ended it.
TransportCodes == {"Unavailable", "Internal", "ResourceExhausted"}

Init ==
    /\ pc = "preparing"
    /\ timer = "unarmed"
    /\ late = FALSE
    /\ ctx = "live"
    /\ streaming = "live"
    /\ page = "connected"
    /\ module = "idle"
    /\ buffered = 0
    /\ undelivered = 0
    /\ received = FALSE
    /\ delivered = FALSE
    /\ err = "nil"
    /\ answer = Answer("none", "none")

\* The deferred Stop, cancelStream and cancel run when relayStream returns.
Finish(code, reason) ==
    /\ pc' = "ended"
    /\ answer' = Answer(code, reason)
    /\ timer' = IF timer = "armed" THEN "stopped" ELSE timer
    /\ ctx' = IF ctx = "live" THEN "Canceled" ELSE ctx
    /\ streaming' = IF streaming = "live" THEN "Canceled" ELSE streaming
    /\ UNCHANGED <<page, late, moduleVars, received, delivered, err>>

----------------------------------------------------------------------------
(* Acting as the viewer, and opening the module's stream.                  *)

\* asTheViewer refuses: no viewer, a refused or malformed request, an
\* unreachable authority, a refused issue (PrepareCodes).
PrepareFails ==
    /\ pc = "preparing"
    /\ \E code \in PrepareCodes : Finish(code, "prepare")

Prepare ==
    /\ pc = "preparing"
    /\ ctx = "live"
    /\ pc' = "arming"
    /\ UNCHANGED <<timerVars, contexts, moduleVars, received, delivered, err, answer>>

\* time.AfterFunc(route.timeout(), ...)
Arm ==
    /\ pc = "arming"
    /\ pc' = "opening"
    /\ timer' = "armed"
    /\ UNCHANGED <<late, contexts, moduleVars, received, delivered, err, answer>>

\* NewStream, SendMsg and CloseSend succeed.
Open ==
    /\ pc = "opening"
    /\ streaming = "live"
    /\ pc' = "receiving"
    /\ module' = "open"
    /\ UNCHANGED <<timerVars, contexts, buffered, undelivered, received, delivered, err, answer>>

\* One of them fails: the context ended, or the transport or message did.
OpenFails ==
    /\ pc = "opening"
    /\ pc' = "closing"
    /\ err' \in (IF streaming = "live" THEN TransportCodes ELSE {streaming})
    /\ UNCHANGED <<timerVars, contexts, moduleVars, received, delivered, answer>>

----------------------------------------------------------------------------
(* The loop: RecvMsg, Stop, late.Load, Send.                               *)

RecvMessage ==
    /\ pc = "receiving"
    /\ buffered > 0
    /\ buffered' = buffered - 1
    /\ received' = TRUE
    /\ err' = "nil"
    /\ pc' = "disarming"
    /\ UNCHANGED <<timerVars, contexts, module, undelivered, delivered, answer>>

\* A message over MaxStreamMessageBytes.
RecvTooLarge ==
    /\ pc = "receiving"
    /\ buffered > 0
    /\ err' = "ResourceExhausted"
    /\ pc' = "disarming"
    /\ UNCHANGED <<timerVars, contexts, moduleVars, received, delivered, answer>>

\* The module's own end, after every message it sent.
RecvEnd ==
    /\ pc = "receiving"
    /\ buffered = 0
    /\ module \notin {"idle", "open", "severed"}
    /\ err' = module
    /\ pc' = "disarming"
    /\ UNCHANGED <<timerVars, contexts, moduleVars, received, delivered, answer>>

\* Mutant of RecvCanceled: the wrong context is asked why.
RecvCanceledByCtx ==
    /\ pc = "receiving"
    /\ streaming # "live"
    /\ err' = ctx
    /\ pc' = "disarming"
    /\ UNCHANGED <<timerVars, contexts, moduleVars, received, delivered, answer>>

\* streaming ended; messages already buffered may be dropped.
RecvCanceled ==
    /\ pc = "receiving"
    /\ streaming # "live"
    /\ err' = streaming
    /\ pc' = "disarming"
    /\ UNCHANGED <<timerVars, contexts, moduleVars, received, delivered, answer>>

\* firstAnswer.Stop(): a function already started is not stopped.
Disarm ==
    /\ pc = "disarming"
    /\ pc' = "checking"
    /\ timer' = IF timer = "armed" THEN "stopped" ELSE timer
    /\ UNCHANGED <<late, contexts, moduleVars, received, delivered, err, answer>>

Check ==
    /\ pc = "checking"
    /\ pc' = IF err # "nil" \/ late THEN "closing" ELSE "sending"
    /\ UNCHANGED <<timerVars, contexts, moduleVars, received, delivered, err, answer>>

Send ==
    /\ pc = "sending"
    /\ pc' = "receiving"
    /\ undelivered' = undelivered - 1
    /\ delivered' = TRUE
    /\ UNCHANGED <<timerVars, contexts, module, buffered, received, err, answer>>

\* The page went away: there is nobody to tell.
SendFails ==
    /\ pc = "sending"
    /\ page = "gone"
    /\ Finish("Canceled", "page")

----------------------------------------------------------------------------
(* The switch.                                                             *)

EndLate ==
    /\ pc = "closing"
    /\ late
    /\ Finish("DeadlineExceeded", "late")

\* Mutant of EndComplete: a cancelled stream is taken for a finished one.
EndCompleteOrCanceled ==
    /\ pc = "closing"
    /\ ~late
    /\ err \in {"EOF", "Canceled"}
    /\ Finish("OK", "complete")

EndComplete ==
    /\ pc = "closing"
    /\ ~late
    /\ err = "EOF"
    /\ Finish("OK", "complete")

NeitherLateNorComplete ==
    /\ pc = "closing"
    /\ ~late
    /\ err # "EOF"
    /\ pc' = "judging"
    /\ UNCHANGED <<timerVars, contexts, moduleVars, received, delivered, err, answer>>

EndDuration ==
    /\ pc = "judging"
    /\ ctx = "DeadlineExceeded"
    /\ Finish("DeadlineExceeded", "duration")

EndRefused ==
    /\ pc = "judging"
    /\ ctx # "DeadlineExceeded"
    /\ Finish(ModuleRefusal(err), "module")

----------------------------------------------------------------------------
(* The timer's goroutine, the contexts, the module.                        *)

\* The timer expires and its function is started.
Fire ==
    /\ timer = "armed"
    /\ timer' = "started"
    /\ UNCHANGED <<late, contexts, moduleVars, relayVars>>

\* Mutant of StoreLate: the function cancels and does not record why.
CancelUnrecorded ==
    /\ timer = "started"
    /\ timer' = "stored"
    /\ streaming' = IF streaming = "live" THEN "Canceled" ELSE streaming
    /\ UNCHANGED <<late, ctx, page, moduleVars, relayVars>>

\* late.Store(true)
StoreLate ==
    /\ timer = "started"
    /\ timer' = "stored"
    /\ late' = TRUE
    /\ UNCHANGED <<contexts, moduleVars, relayVars>>

\* Mutant of CancelStream: the function records and does not cancel.
CancelNothing ==
    /\ timer = "stored"
    /\ timer' = "spent"
    /\ UNCHANGED <<late, contexts, moduleVars, relayVars>>

\* cancelStream()
CancelStream ==
    /\ timer = "stored"
    /\ timer' = "spent"
    /\ streaming' = IF streaming = "live" THEN "Canceled" ELSE streaming
    /\ UNCHANGED <<late, ctx, page, moduleVars, relayVars>>

\* Mutant of EndContext: the module's stream is not under ctx.
EndContextAlone(reason) ==
    /\ ctx' = IF ctx = "live" THEN reason ELSE ctx
    /\ UNCHANGED streaming

\* ctx ends for a reason, unless it has ended; so does streaming, inside it.
EndContext(reason) ==
    /\ ctx' = IF ctx = "live" THEN reason ELSE ctx
    /\ streaming' = IF streaming = "live" THEN reason ELSE streaming

\* MaxStreamDuration elapses.
Elapse ==
    /\ pc # "ended"
    /\ ctx = "live"
    /\ EndContext("DeadlineExceeded")
    /\ UNCHANGED <<page, timerVars, moduleVars, relayVars>>

\* The page disconnects.
Leave ==
    /\ pc # "ended"
    /\ page = "connected"
    /\ page' = "gone"
    /\ EndContext("Canceled")
    /\ UNCHANGED <<timerVars, moduleVars, relayVars>>

\* The module sends, for as long as it likes: only the window holds it back.
ModuleSends ==
    /\ module = "open"
    /\ buffered < Window
    /\ buffered' = buffered + 1
    /\ undelivered' = undelivered + 1
    /\ UNCHANGED <<timerVars, contexts, module, relayVars>>

ModuleEnds ==
    /\ module = "open"
    /\ module' \in {"EOF"} \cup Codes
    /\ UNCHANGED <<timerVars, contexts, buffered, undelivered, relayVars>>

\* The gRPC client, on a goroutine of its own, ends a stream whose context has
\* ended: nothing the module sends after that is received.
Sever ==
    /\ module = "open"
    /\ streaming # "live"
    /\ module' = "severed"
    /\ UNCHANGED <<timerVars, contexts, buffered, undelivered, relayVars>>

----------------------------------------------------------------------------

\* The goroutine's own steps, writing to the page apart.
Relay ==
    \/ PrepareFails \/ Prepare \/ Arm \/ Open \/ OpenFails
    \/ RecvMessage \/ RecvTooLarge \/ RecvEnd \/ RecvCanceled
    \/ Disarm \/ Check \/ SendFails
    \/ EndLate \/ EndComplete \/ NeitherLateNorComplete \/ EndDuration \/ EndRefused

TimerStep == Fire \/ StoreLate \/ CancelStream

\* relayStream has returned and its timer's function, if started, has run.
Done == pc = "ended" /\ UNCHANGED vars

Next ==
    \/ Relay \/ Send \/ TimerStep \/ Elapse \/ Leave
    \/ ModuleSends \/ ModuleEnds \/ Sever \/ Done

Spec == Init /\ [][Next]_vars

\* The goroutines of the handler, the timer and the gRPC client are scheduled.
\* Nothing is asked of the module, and nothing of the page here: whether it reads
\* is its own doing.
Scheduling == WF_vars(Relay) /\ WF_vars(TimerStep) /\ WF_vars(Sever)

\* The page reads what is written to it.  The duration need not elapse.
ReadingSpec == Spec /\ Scheduling /\ WF_vars(Send)

\* A page that stays connected and may stop reading.
StalledSpec == Spec /\ Scheduling /\ WF_vars(Elapse)

----------------------------------------------------------------------------
(* What the relay promises.                                                *)

TypeOK ==
    /\ pc \in Places
    /\ timer \in {"unarmed", "armed", "stopped", "started", "stored", "spent"}
    /\ late \in BOOLEAN
    /\ ctx \in Ended
    /\ streaming \in Ended
    /\ page \in {"connected", "gone"}
    /\ module \in {"idle", "open", "EOF", "severed"} \cup Codes
    /\ buffered \in 0 .. Window
    /\ undelivered \in 0 .. Window + 1
    /\ received \in BOOLEAN
    /\ delivered \in BOOLEAN
    /\ err \in {"nil", "EOF"} \cup Codes
    /\ answer \in [code : {"none", "OK"} \cup Codes, reason : Reasons]

\* The page is told its stream completed only when the module ended it so and
\* every message the module sent had reached the page.
CompleteMeansEverything ==
    answer.code = "OK" => module = "EOF" /\ undelivered = 0

\* A stream the runtime cut, at the first answer's bound or at the duration, is
\* never told as one the module refused: that reason is left to the module's own
\* end, a failed transport, and a page that has gone.  What ended the stream is
\* told from err, late and ctx, read one after another while they change.
CutsAreToldAsSuch ==
    answer.reason = "module" =>
        \/ err = module
        \/ err \in TransportCodes
        \/ err = "Canceled" /\ page = "gone"

\* Once the declared duration has elapsed, or the page has left, the stream ends
\* if the page reads, whatever the module does: one that never ends the stream, and
\* one that sends for as long as it is allowed to, which keeps the loop supplied
\* with messages past the end of ctx until the gRPC client cuts it off (Sever).
\* The duration elapses by itself, so every stream ends.
EndedContextsEndTheStream == ctx # "live" ~> pc = "ended"

\* A module that accepts the stream and sends nothing is cut off by the
\* first-answer bound alone, before the duration.
SilentStreamsAreCut ==
    (pc = "receiving" /\ ~received) ~> (received \/ pc = "ended")

\* passthrough.go says of Timeout that it "bounds the issue, and then the
\* module's first message; the stream after that is bounded by
\* MaxStreamDuration": a stream the page has had a message of is not ended as
\* one that did not start.
AnsweredStreamsAreNotCutAsSilent ==
    answer.reason = "late" => ~delivered

\* stream.go says every stream's duration is bounded by MaxStreamDuration:
\* when it elapses, the stream ends.
DurationBoundsTheStream ==
    ctx = "DeadlineExceeded" ~> pc = "ended"
=============================================================================
