------------------------------ MODULE Messages ------------------------------
(***************************************************************************)
(* A relayed method's messages: its mask and its pin declared, what the    *)
(* interface document says of them, and the calls relayed under them       *)
(* (passthrough.go, resolvePassthrough, PassthroughOperations, answer and  *)
(* applyPin; protowire.go).  The document's definitions are Definitions';  *)
(* how a call is issued and sent is ViewerRequest's and RelayStream's.     *)
(***************************************************************************)
EXTENDS Definitions, FieldMasks

CONSTANTS
    Output,      \* the message the method answers with
    Input,       \* the message it takes
    Masks,       \* what an author may allow: [over, paths]
    Pins,        \* what an author may pin: [of, message, wire]
    Requests,    \* what a page may send
    Answers      \* what the module may answer, or send on its stream

ASSUME MessagesAssumption ==
    /\ \A mask \in Masks : mask.paths \subseteq Seq(STRING)
    /\ \A pin \in Pins : IsPin(pin)
    /\ \A m \in Requests : IsMessage(m, Input) /\ ListsAreRuns(m)
    /\ \A m \in Answers : IsMessage(m, Output)

VARIABLES
    stage,       \* where the solution is
    response,    \* PassthroughMethod.Response, if one is declared
    whole,       \* PassthroughMethod.WholeResponse: "no" or "yes"
    pin,         \* PassthroughMethod.Pin, if one is declared
    behavior,    \* the paths the document says are returned, if it says so
    sent,        \* the request the page sent, if any
    called,      \* that request as the module is called with it
    landed,      \* where in it what is read of the pin was put: place -> place
    answered,    \* the module's last message
    returned,    \* what of it the page receives
    visits       \* the places of its messages prune is still to be called for

method == <<response, whole, pin>>
request == <<sent, called, landed>>
answer == <<answered, returned, visits>>
call == <<request, answer>>
vars == <<describing, stage, method, behavior, call>>

Init ==
    /\ DescribingInit
    /\ stage = "declaring"
    /\ response = {} /\ whole = "no" /\ pin = {}
    /\ behavior = {}
    /\ sent = {} /\ called = {} /\ landed = <<>>
    /\ answered = {} /\ returned = {} /\ visits = {}

\* MustFieldMask: a path that does not resolve ends the process.
DeclareResponse(mask) ==
    /\ stage = "declaring" /\ response = {}
    /\ IF \A path \in mask.paths : Resolves(mask.over, path)
       THEN response' = {mask} /\ stage' = stage
       ELSE response' = {} /\ stage' = "refused"
    /\ UNCHANGED <<describing, whole, pin, behavior, call>>

DeclareWhole ==
    /\ stage = "declaring"
    /\ whole' = "yes"
    /\ UNCHANGED <<describing, stage, response, pin, behavior, call>>

DeclarePin(p) ==
    /\ stage = "declaring" /\ pin = {}
    /\ pin' = {p}
    /\ UNCHANGED <<describing, stage, response, whole, behavior, call>>

\* Mutant of MessagesStand: a mask may stand beside the whole response.
MessagesStandBeside ==
    /\ response = {} => whole = "yes"
    /\ \A mask \in response : mask.over = Output
    /\ \A p \in pin : p.of = Input

\* What resolvePassthrough asks of a method's messages.
MessagesStand ==
    /\ response = {} <=> whole = "yes"
    /\ \A mask \in response : mask.over = Output
    /\ \A p \in pin : p.of = Input

ResolvePassthrough ==
    /\ stage = "declaring"
    /\ stage' = IF MessagesStand THEN "rendering" ELSE "refused"
    /\ UNCHANGED <<describing, method, behavior, call>>

\* PassthroughOperations
Document ==
    /\ stage = "rendering" /\ rendering = "done"
    /\ stage' = "relaying"
    /\ behavior' = {PathsOf(mask.paths) : mask \in response}
    /\ UNCHANGED <<describing, method, call>>

\* The page's request arrives, and the pin is encoded.
Send(m) ==
    /\ stage = "relaying" /\ sent = {}
    /\ sent' = {m}
    /\ called' = {m}
    /\ landed' = [place \in {<<>>} |-> <<>>]
    /\ UNCHANGED <<describing, stage, method, behavior, answer>>

\* How many of the pin's places are read: <<>>, where it starts, is none of the wire's.
Read == Cardinality(DOMAIN landed) - 1
Pinned == \A p \in pin : Read = Len(p.wire)

\* applyPin: the next place of the pin is read into the request.
ApplyPin(p, m) ==
    /\ stage = "relaying" /\ sent # {} /\ ~Pinned
    /\ LET place == p.wire[Read + 1]
           at == landed[Front(place)]
       IN  /\ called' = {Put(m, at, Last(place), p.message[place])}
           /\ landed' = [q \in DOMAIN landed \cup {place} |->
                            IF q = place THEN Landing(m, at, Last(place)) ELSE landed[q]]
    /\ UNCHANGED <<describing, stage, method, behavior, sent, answer>>

\* The module answers, or its stream sends one message more: passthroughRoute.answer
\* has Apply clone it, unless the whole response is declared.
Return(m) ==
    /\ stage = "relaying" /\ sent # {} /\ Pinned /\ visits = {}
    /\ answered' = {m}
    /\ returned' = {m}
    /\ IF whole = "yes" THEN visits' = {} /\ stage' = stage
       ELSE IF \E mask \in response : m[<<>>] = mask.over THEN visits' = {<<>>} /\ stage' = stage
       ELSE visits' = {} /\ stage' = "panicked"
    /\ UNCHANGED <<describing, method, behavior, request>>

\* One call of prune, for the message at a place.  One it would make for a value
\* that is no message is the reflection's panic.
Prune(place, mask, m) ==
    /\ stage = "relaying" /\ place \in visits
    /\ LET deeper == Deeper(mask.paths, m, place)
       IN  /\ visits' = (visits \ {place}) \cup deeper
           /\ stage' = IF \A next \in deeper : m[next] \in Types THEN stage ELSE "panicked"
           /\ returned' = {Cleared(m, Disallowed(mask.paths, m, place))}
    /\ UNCHANGED <<describing, method, behavior, request, answered>>

\* The call ends, and another may come.
End ==
    /\ stage = "relaying" /\ sent # {} /\ Pinned /\ visits = {}
    /\ sent' = {} /\ called' = {} /\ landed' = <<>> /\ answered' = {} /\ returned' = {}
    /\ UNCHANGED <<describing, stage, method, behavior, visits>>

Over == (stage \in {"refused", "panicked"} \/ rendering = "panicked") /\ UNCHANGED vars

Next ==
    \/ \E mask \in Masks : DeclareResponse(mask)
    \/ DeclareWhole
    \/ \E p \in Pins : DeclarePin(p)
    \/ ResolvePassthrough
    \/ stage = "rendering" /\ Describe /\ UNCHANGED <<stage, method, behavior, call>>
    \/ Document
    \/ \E m \in Requests : Send(m)
    \/ \E p \in pin, m \in called : ApplyPin(p, m)
    \/ \E m \in Answers : Return(m)
    \/ \E place \in visits, mask \in response, m \in returned : Prune(place, mask, m)
    \/ End
    \/ Over

Spec == Init /\ [][Next]_vars

----------------------------------------------------------------------------

\* Every variable keeps its type, a method that stands says once what it returns, and
\* what the module is called with is a message of the type it takes, whatever is pinned.
TypeOK ==
    /\ stage \in {"declaring", "rendering", "relaying", "refused", "panicked"}
    /\ response \subseteq Masks /\ whole \in {"no", "yes"} /\ pin \subseteq Pins
    /\ sent \subseteq Requests /\ answered \subseteq Answers
    /\ stage \in {"rendering", "relaying"} => (response = {} <=> whole = "yes")
    /\ \A m \in called : IsMessage(m, Input)
    /\ rendering \in {"on", "done", "panicked"}

\* A mask that was declared never fails over a message of its type; and the page
\* receives a field the descriptor declares if a path names it or one it is in, or it
\* is on the way to one a path names, in every element of every list, and not
\* otherwise (FieldMask's comment); all of them, if the whole response is declared.
ReturnedIsAllowed ==
    /\ stage # "panicked"
    /\ visits = {} => \A m \in answered, out \in returned :
          /\ DOMAIN out \subseteq DOMAIN m /\ \A place \in DOMAIN out : out[place] = m[place]
          /\ \A place \in DOMAIN m \ {<<>>} :
                Declares(m[Front(place)], Last(place).field) =>
                    (place \in DOMAIN out <=>
                        whole = "yes" \/ \E mask \in response : Within(place, mask.paths))

\* "A field the module adds later is dropped until someone names it here"
\* (ConsumedMethod.Response's comment): of what the runtime's descriptor does not
\* declare, only what is in a field a path names reaches the page.
NewFieldsAreDropped ==
    visits = {} => \A mask \in response, out \in returned :
        \A place \in DOMAIN out \ {<<>>} :
            \/ Declares(out[Front(place)], Last(place).field)
            \/ \E path \in mask.paths : IsPrefix(path, FieldPath(Front(place)))

\* What the document says is returned is what is returned, said once.
DocumentedIsReturned ==
    \A paths \in behavior, mask \in response :
        /\ \A m \in Answers : \A place \in DOMAIN m :
              Within(place, paths) <=> Within(place, mask.paths)
        /\ \A p, q \in paths : IsPrefix(p, q) => p = q

\* A page can narrow a call but not undo its pin: all the pin says is said to the
\* module, and of what the page says only what the pin takes the place of is not
\* (PassthroughMethod.Pin's comment).
PinStands ==
    Pinned => \A m \in sent, out \in called, p \in pin :
        /\ \A q \in DOMAIN p.message :
              \E place \in DOMAIN out : Said(place) = Said(q) /\ out[place] = p.message[q]
        /\ \A place \in DOMAIN m :
              \/ place \in DOMAIN out /\ out[place] = m[place]
              \/ TakenBy(m, place, p.message)
=============================================================================
