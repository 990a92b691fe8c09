------------------------------- MODULE Router -------------------------------
(***************************************************************************)
(* One API Gateway event on its way through api/router.py and submit, and  *)
(* the message it becomes on its way to predict: which answer the caller   *)
(* gets, what is left in the table and the queue, and what the worker's    *)
(* second validation makes of the message.  Every call succeeds here; the  *)
(* failures of the table and the queue are InferenceService's.             *)
(***************************************************************************)
EXTENDS Validation, Sequences

CONSTANTS
    Backends,     \* VALID_BACKENDS
    Configured,   \* the backends with a queue URL
    KnownIds,     \* the request ids that have a record
    Events        \* the events considered

(* How the body arrives: absent or empty; base64 that cannot be decoded,   *)
(* not JSON, JSON but not an object, or an object.                         *)
Encodings == {"none", "bad_base64", "bad_json", "not_object", "object"}

ASSUME EventsAssumption ==
    \A e \in Events :
        /\ e.method \in {"GET", "POST"}
        /\ e.path \in Seq(STRING)
        /\ e.encoding \in Encodings
        /\ e.body \in AllBodies
ASSUME ConfiguredAssumption == Configured \subseteq Backends

VARIABLES
    event,    \* the event; never changes
    at,       \* where it is
    answer,   \* the status code, 0 before there is one
    record,   \* the input of the saved record, or NoInput
    message,  \* the input of the published message, or NoInput
    worker    \* what the worker's validation gave, or NoInput

vars == <<event, at, answer, record, message, worker>>

NoInput == [none |-> TRUE]

Places == {"router", "submit", "saved", "answered", "processed"}
Codes == {200, 202, 400, 404, 500}
Inputs == AllBodies \cup {NoInput}

(* Every variable has its type, and an event that left the router has an   *)
(* answer: route turns every exception into one.                           *)
RouterTypeOK ==
    /\ event \in Events
    /\ at \in Places
    /\ answer \in Codes \cup {0}
    /\ record \in Inputs
    /\ message \in Inputs
    /\ worker \in {NoInput} \cup [error: Errors, input: AllBodies]
    /\ answer = 0 <=> at \in {"router", "submit", "saved"}

Init ==
    /\ event \in Events
    /\ at = "router"
    /\ answer = 0
    /\ record = NoInput
    /\ message = NoInput
    /\ worker = NoInput

----------------------------------------------------------------------------
(* _dispatch: the path without empty segments and a leading "api".         *)
Segments ==
    IF event.path # <<>> /\ Head(event.path) = "api"
    THEN Tail(event.path)
    ELSE event.path

IsCatalog == event.method = "GET" /\ Segments = <<>>
IsHealth == event.method = "GET" /\ Segments = <<"health">>
IsStatus ==
    /\ event.method = "GET"
    /\ Len(Segments) = 2
    /\ Segments[1] = "requests"
IsSubmit ==
    /\ event.method = "POST"
    /\ Len(Segments) = 4
    /\ Segments[1] = "backend"
    /\ Segments[3] = "model"

Backend == Segments[2]
Model == Segments[4]

\* Mutant: without the catch-all of route, an unforeseen exception has no answer.
Answer_NoCatchAll(code) ==
    /\ at' = "answered"
    /\ answer' = IF code = 500 THEN 0 ELSE code

Answer(code) == at' = "answered" /\ answer' = code

Answered(code) ==
    /\ Answer(code)
    /\ UNCHANGED <<event, record, message, worker>>

Get ==
    /\ at = "router"
    /\ \/ IsCatalog \/ IsHealth
       \/ IsStatus /\ Segments[2] \in KnownIds
    /\ Answered(200)

NoRoute ==
    /\ at = "router"
    /\ \/ IsStatus /\ Segments[2] \notin KnownIds
       \/ ~(IsCatalog \/ IsHealth \/ IsStatus \/ IsSubmit)
    /\ Answered(404)

(* _parse_body comes before everything else of a submission; it does not   *)
(* catch what b64decode raises.                                            *)
ParseBody ==
    /\ at = "router"
    /\ IsSubmit
    /\ CASE event.encoding = "bad_base64" -> Answered(500)
         [] event.encoding = "bad_json" -> Answered(400)
         [] OTHER -> /\ at' = "submit"
                     /\ UNCHANGED <<event, answer, record, message, worker>>

(* validate_route, validate_body and the model's validate_input.           *)
UnknownRoute == Backend \notin Backends \/ Model \notin Models

Validated == ValidateInput(Model, event.body)

Refuse ==
    /\ at = "submit"
    /\ CASE UnknownRoute -> Answered(404)
         [] ~UnknownRoute /\ event.encoding # "object" -> Answered(400)
         [] OTHER ->
              \/ Validated.error = "InvalidRequestError" /\ Answered(400)
              \/ Validated.error = "OverflowError" /\ Answered(500)

Accepts ==
    /\ at = "submit"
    /\ ~UnknownRoute
    /\ event.encoding = "object"
    /\ Validated.error = "none"

SaveRefused ==
    /\ Accepts
    /\ ~Storable(Validated.input)
    /\ Answered(500)

Save ==
    /\ Accepts
    /\ Storable(Validated.input)
    /\ at' = "saved"
    /\ record' = Validated.input
    /\ UNCHANGED <<event, answer, message, worker>>

\* Mutant: what is published is what the caller sent.
Publish_RawBody ==
    /\ at = "saved"
    /\ IF Backend \in Configured
       THEN Answer(202) /\ message' = event.body
       ELSE Answer(404) /\ UNCHANGED message
    /\ UNCHANGED <<event, record, worker>>

\* Mutant: a backend without a queue is answered as if it had one.
Publish_NoQueue ==
    /\ at = "saved"
    /\ Answer(202)
    /\ message' = IF Backend \in Configured THEN record ELSE message
    /\ UNCHANGED <<event, record, worker>>

Publish ==
    /\ at = "saved"
    /\ IF Backend \in Configured
       THEN Answer(202) /\ message' = record
       ELSE Answer(404) /\ UNCHANGED message
    /\ UNCHANGED <<event, record, worker>>

(* process: validate_input on the input of the message.                    *)
Process ==
    /\ at = "answered"
    /\ message # NoInput
    /\ at' = "processed"
    /\ worker' = ValidateInput(Model, message)
    /\ UNCHANGED <<event, answer, record, message>>

Next ==
    \/ Get
    \/ NoRoute
    \/ ParseBody
    \/ Refuse
    \/ SaveRefused
    \/ Save
    \/ Publish
    \/ Process

Spec == Init /\ [][Next]_vars

----------------------------------------------------------------------------
(* What submit accepted, the worker accepts, and makes the same of: the    *)
(* validation is idempotent on its own results, so a request is never      *)
(* answered 202 and then FAILED as invalid.                                *)
RevalidationStable ==
    worker # NoInput => worker = Returns(record)

(* A caller is told of exactly what was done: 202 if and only if there is  *)
(* a message for a worker, and a refusal leaves no record, except where    *)
(* the queue of the backend is not configured.                             *)
AnswerTellsTrace ==
    /\ answer = 202 <=> message # NoInput
    /\ answer \in {400, 404, 500} /\ record # NoInput =>
          answer = 404 /\ Backend \notin Configured

(* What submit accepted, predict can compute with, in all but one case:    *)
(* the entries of exog are looked at by nobody before predict, and where   *)
(* they are no numbers the request is answered 202 and then fails there    *)
(* (openapi.yaml asks for rows of numbers, validate_input counts the rows).*)
(* No forecast is longer than the limit.                                   *)
PredictableInput ==
    message # NoInput =>
        /\ \/ Computes(Model, message)
           \/ Model = "sarima" /\ message.exog.type = "list" /\ message.exog.item = "text"
        /\ message.steps.n <= MaxSteps
=============================================================================
