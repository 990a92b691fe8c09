-------------------------- MODULE InferenceService --------------------------
(***************************************************************************)
(* The life of an inference request: API Gateway Lambda (api/router.py),   *)
(* InferenceService.submit and .process (common/inference_service.py), the *)
(* table and queue they share, and the two workers that hand a dequeued    *)
(* message to process (ecs_worker/worker.py, lambda_worker/handler.py).    *)
(*                                                                         *)
(* Requests interact only through the workers' batches, which this module  *)
(* leaves open: a delivery may pause anywhere, so every order in which a   *)
(* batch, its threads or several workers could run it is allowed.          *)
(*                                                                         *)
(* Crash, lost calls and failing writes are actions of Next; FailureFree   *)
(* leaves them out.                                                        *)
(***************************************************************************)
EXTENDS RequestTable, Sqs, FiniteSets

VARIABLES
    request,  \* request id -> its submission; never changes
    api,      \* request id -> how far the API got, or the answer it gave
    delivery  \* request id -> n -> how far the worker of the n-th receive got

vars == <<table, msg, request, api, delivery>>

(* "5xx" stands for the router's 500 and for the gateway's 502/504 when    *)
(* the API Lambda dies or is cut off.                                      *)
ApiStates == {"idle", "saved", "202", "400", "404", "5xx"}

(*   received    handed to handle_message / lambda_handler, not parsed     *)
(*   processing  mark_processing done, the model not run                   *)
(*   complete    predict returned, mark_completed to come                  *)
(*   reject      InvalidRequestError caught, mark_failed to come           *)
(*   retry       another exception caught, mark_failed and raise to come   *)
(*   ack         the handler is done with it, the delete to come           *)
(*   end         nothing more to come; unless deleted, it will reappear    *)
DeliveryStates ==
    {"none", "received", "processing", "complete", "reject", "retry", "ack", "end"}

(* Deliveries that mark_processing has counted and that are still running. *)
Running == {"processing", "complete", "reject", "retry"}
Active == Running \cup {"received", "ack"}

TypeOK ==
    /\ table \in [Requests -> Items]
    /\ msg \in [Requests -> Messages]
    /\ request \in [Requests -> Submissions]
    /\ api \in [Requests -> ApiStates]
    /\ delivery \in [Requests -> [Deliveries -> DeliveryStates]]

Init ==
    /\ TableInit
    /\ SqsInit
    /\ request \in [Requests -> Submissions]
    /\ api = [r \in Requests |-> "idle"]
    /\ delivery = [r \in Requests |-> [n \in Deliveries |-> "none"]]

----------------------------------------------------------------------------
(* The API: POST /api/backend/{backend}/model/{model}.                     *)

Respond(r, from, code) ==
    /\ request[r].origin = "api"
    /\ api[r] = from
    /\ api' = [api EXCEPT ![r] = code]
    /\ UNCHANGED <<request, delivery>>

(* validate_route, validate_body or validate_input raises: nothing saved.  *)
Reject(r) ==
    /\ \/ request[r].payload = "invalid" /\ Respond(r, "idle", "400")
       \/ request[r].payload = "unknown_model" /\ Respond(r, "idle", "404")
    /\ UNCHANGED <<table, msg>>

Accepted(r) == request[r].payload \in {"valid", "unstorable", "unrouted"}

Save(r) ==
    /\ Accepted(r)
    /\ Respond(r, "idle", "saved")
    /\ SaveItem(r)
    /\ UNCHANGED msg

(* put_item raises, or the Lambda dies in it: applied or not, no message.  *)
SaveRaises(r) ==
    /\ Accepted(r)
    /\ Respond(r, "idle", "5xx")
    /\ SaveItem(r) \/ UNCHANGED table
    /\ UNCHANGED msg

Publish(r) ==
    /\ request[r].payload # "unrouted"
    /\ Respond(r, "saved", "202")
    /\ SendMessage(r)
    /\ UNCHANGED table

(* send_message raises or the Lambda dies: the message may be on the queue *)
(* all the same, and the record stays QUEUED in any case.                  *)
\* Mutant: the exception is swallowed and the caller answered 202.
PublishRaises_Swallowed(r) ==
    /\ request[r].payload # "unrouted"
    /\ Respond(r, "saved", "202")
    /\ SendMessage(r) \/ UNCHANGED msg
    /\ UNCHANGED table

PublishRaises(r) ==
    /\ request[r].payload # "unrouted"
    /\ Respond(r, "saved", "5xx")
    /\ SendMessage(r) \/ UNCHANGED msg
    /\ UNCHANGED table

(* publish finds no queue URL: UnknownRouteError, so 404, after the save.  *)
PublishUnrouted(r) ==
    /\ request[r].payload = "unrouted"
    /\ Respond(r, "saved", "404")
    /\ UNCHANGED <<table, msg>>

(* A message this API never saved a record for: another producer, or an    *)
(* API of another version.                                                 *)
ForeignSend(r) ==
    /\ request[r].origin = "foreign"
    /\ SendMessage(r)
    /\ UNCHANGED <<table, request, api, delivery>>

----------------------------------------------------------------------------
(* The queue.                                                              *)

Receive(r) ==
    /\ ReceiveMessage(r)
    /\ delivery' = [delivery EXCEPT ![r][msg[r].receives + 1] = "received"]
    /\ UNCHANGED <<table, request, api>>

Redrive(r) == RedriveMessage(r) /\ UNCHANGED <<table, request, api, delivery>>

VisibilityTimeout(r) ==
    MessageReappears(r) /\ UNCHANGED <<table, request, api, delivery>>

Expire(r) == MessageExpires(r) /\ UNCHANGED <<table, request, api, delivery>>

----------------------------------------------------------------------------
(* A worker at the n-th delivery of r: handle_message (ECS) or one round   *)
(* of lambda_handler's loop, and InferenceService.process inside it.       *)

Step(r, n, from, to) ==
    /\ delivery[r][n] = from
    /\ delivery' = [delivery EXCEPT ![r][n] = to]
    /\ UNCHANGED <<request, api>>

(* from_json_dict raises: InvalidRequestError for missing fields, which    *)
(* the ECS worker answers with the receipt handle, or TypeError for a body *)
(* it cannot look for fields in, which only the Lambda worker catches.     *)
DropMalformed(r, n) ==
    /\ \/ /\ request[r].payload = "malformed"
          /\ request[r].backend = "ecs"
          /\ Step(r, n, "received", "ack")
       \/ /\ request[r].payload \in Unparsable
          /\ request[r].payload = "malformed" => request[r].backend = "lambda"
          /\ Step(r, n, "received", "end")
    /\ UNCHANGED <<table, msg>>

MarkProcessing(r, n) ==
    /\ request[r].payload \notin Unparsable
    /\ Step(r, n, "received", "processing")
    /\ SetProcessing(r)
    /\ UNCHANGED msg

(* get_model stands before the try: its UnknownRouteError is not caught.   *)
GetModelRaises(r, n) ==
    /\ request[r].payload = "unknown_model"
    /\ Step(r, n, "processing", "end")
    /\ UNCHANGED <<table, msg>>

\* Mutant: the permanent error falls to the handler of transient ones.
ValidateRaises_AsTransient(r, n) ==
    /\ request[r].payload = "invalid"
    /\ Step(r, n, "processing", "retry")
    /\ UNCHANGED <<table, msg>>

ValidateRaises(r, n) ==
    /\ request[r].payload = "invalid"
    /\ Step(r, n, "processing", "reject")
    /\ UNCHANGED <<table, msg>>

Runnable(r) == request[r].payload \in {"valid", "unstorable"}

PredictReturns(r, n) ==
    /\ Runnable(r)
    /\ Step(r, n, "processing", "complete")
    /\ UNCHANGED <<table, msg>>

(* ensure_loaded or predict raises: no artifact, no library, bad data.     *)
PredictRaises(r, n) ==
    /\ Runnable(r)
    /\ Step(r, n, "processing", "retry")
    /\ UNCHANGED <<table, msg>>

MarkCompleted(r, n) ==
    /\ request[r].payload = "valid"
    /\ Step(r, n, "complete", "ack")
    /\ SetCompleted(r)
    /\ UNCHANGED msg

(* mark_completed stands after the try: DynamoDB refuses the output, and   *)
(* nothing records a failure.                                              *)
StoreRefused(r, n) ==
    /\ request[r].payload = "unstorable"
    /\ Step(r, n, "complete", "end")
    /\ UNCHANGED <<table, msg>>

(* mark_failed, then process returns normally.                             *)
RecordPermanentFailure(r, n) ==
    /\ Step(r, n, "reject", "ack")
    /\ SetFailed(r)
    /\ UNCHANGED msg

(* mark_failed, then process raises again.                                 *)
\* Mutant: it raises without recording the failure.
RecordTransientFailure_Unrecorded(r, n) ==
    /\ Step(r, n, "retry", "end")
    /\ UNCHANGED <<table, msg>>

\* Mutant: the record goes back to QUEUED along with its message.
RecordTransientFailure_BackToQueued(r, n) ==
    /\ Step(r, n, "retry", "end")
    /\ table' = [table EXCEPT ![r].status = "QUEUED"]
    /\ UNCHANGED msg

RecordTransientFailure(r, n) ==
    /\ Step(r, n, "retry", "end")
    /\ SetFailed(r)
    /\ UNCHANGED msg

(* delete_message_batch (ECS), or the event source mapping's delete of a   *)
(* message lambda_handler did not report.                                  *)
Delete(r, n) ==
    /\ Step(r, n, "ack", "end")
    /\ DeleteMessage(r, n)
    /\ UNCHANGED table

----------------------------------------------------------------------------
(* Failures of a worker's calls and of the worker itself.                  *)

(* The DynamoDB call at hand raises, having been applied or not, and the   *)
(* exception leaves process: every such call is outside the try or in one  *)
(* of its handlers.                                                        *)
\* Mutant: the exception of the last write is swallowed.
WriteRaises_Swallowed(r, n) ==
    /\ Step(r, n, "complete", "ack") \/ Step(r, n, "reject", "ack")
    /\ UNCHANGED <<table, msg>>

WriteRaises(r, n) ==
    /\ \/ /\ request[r].payload \notin Unparsable
          /\ Step(r, n, "received", "end")
          /\ SetProcessing(r) \/ UNCHANGED table
       \/ /\ Step(r, n, "complete", "end")
          /\ (request[r].payload = "valid" /\ SetCompleted(r)) \/ UNCHANGED table
       \/ /\ Step(r, n, "reject", "end")
          /\ SetFailed(r) \/ UNCHANGED table
       \/ /\ Step(r, n, "retry", "end")
          /\ SetFailed(r) \/ UNCHANGED table
    /\ UNCHANGED msg

(* The delete fails: poll_once ignores failed entries, run swallows a      *)
(* raised call.                                                            *)
DeleteLost(r, n) ==
    /\ Step(r, n, "ack", "end")
    /\ UNCHANGED <<table, msg>>

(* The task is killed, the function times out, or another message of the   *)
(* batch raised out of poll_once: this delivery gets no further.           *)
Crash(r, n) ==
    /\ \E from \in Active : Step(r, n, from, "end")
    /\ UNCHANGED <<table, msg>>

----------------------------------------------------------------------------
WorkerStep(r, n) ==
    \/ DropMalformed(r, n)
    \/ MarkProcessing(r, n)
    \/ GetModelRaises(r, n)
    \/ ValidateRaises(r, n)
    \/ PredictReturns(r, n)
    \/ PredictRaises(r, n)
    \/ MarkCompleted(r, n)
    \/ StoreRefused(r, n)
    \/ RecordPermanentFailure(r, n)
    \/ RecordTransientFailure(r, n)
    \/ Delete(r, n)

(* Everything but failures of calls, processes and retention.              *)
Orderly(r) ==
    \/ Reject(r)
    \/ Save(r)
    \/ Publish(r)
    \/ PublishUnrouted(r)
    \/ ForeignSend(r)
    \/ Receive(r)
    \/ Redrive(r)
    \/ VisibilityTimeout(r)
    \/ \E n \in Deliveries : WorkerStep(r, n)

Failure(r) ==
    \/ SaveRaises(r)
    \/ PublishRaises(r)
    \/ Expire(r)
    \/ \E n \in Deliveries : WriteRaises(r, n) \/ DeleteLost(r, n) \/ Crash(r, n)

Next == \E r \in Requests : Orderly(r) \/ Failure(r)

Spec == Init /\ [][Next]_vars

(* The pollers keep polling (run's loop, the event source mapping) and SQS *)
(* returns what outlived its visibility timeout.  Nothing obliges a caller *)
(* to submit, a failure to happen, or a worker to get on with its message. *)
QueueFairness ==
    \A r \in Requests :
        /\ WF_vars(Receive(r) \/ Redrive(r))
        /\ WF_vars(VisibilityTimeout(r))

(* The behaviours without failures, in which a worker that has received a  *)
(* message goes on with it: nothing in process waits for anything but the  *)
(* model and its own calls.                                                *)
OrderlySpec ==
    /\ Init
    /\ [][\E r \in Requests : Orderly(r)]_vars
    /\ QueueFairness
    /\ \A r \in Requests, n \in Deliveries : WF_vars(WorkerStep(r, n))

----------------------------------------------------------------------------
(* Safety.                                                                 *)

(* A caller who was answered 202 can poll a record that holds the input,   *)
(* and the message is, or was, on the queue: no order of save, publish and *)
(* their failures acknowledges a request that nobody will ever process.    *)
AcceptedIsTracked ==
    \A r \in Requests :
        api[r] = "202" => table[r].input /\ msg[r].state # "unsent"

(* A message that names a request leaves the queue for good only when an   *)
(* outcome is in the table: deletes follow writes on every path, also when *)
(* several deliveries of the message, crashes and failing calls overlap.   *)
DeletedIsAnswered ==
    \A r \in Requests :
        msg[r].state = "deleted" /\ request[r].payload # "malformed"
            => HasResult(table[r])

(* QUEUED says what it seems to: no worker is at it and none ever changed  *)
(* the record, so save never overwrites the work of a fast worker and a    *)
(* retried request does not look untried.                                  *)
QueuedIsUntouched ==
    \A r \in Requests :
        table[r].status = "QUEUED" =>
            /\ ~HasResult(table[r])
            /\ table[r].attempts = 0
            /\ \A n \in Deliveries : delivery[r][n] \notin Running \cup {"ack"}

(* Every worker that is running a request has been counted in attempts,    *)
(* however the deliveries overlap.                                         *)
AttemptsCounted ==
    \A r \in Requests :
        Cardinality({n \in Deliveries : delivery[r][n] \in Running})
            <= table[r].attempts

(* Whatever deliveries raced to write it, a COMPLETED record has an output *)
(* and no error, and a FAILED record has an error.                         *)
RecordCoherent ==
    \A r \in Requests :
        /\ table[r].status = "COMPLETED" => table[r].output /\ ~table[r].error
        /\ table[r].status = "FAILED" => table[r].error

(* The inductive invariant behind these properties, of one request.        *)

(* Before its message is sent nobody but submit touches a request, and the *)
(* deliveries of a message are numbered by its receives.                   *)
UnsentIsUntouched(r) ==
    /\ request[r].origin = "api" /\ api[r] \in {"idle", "saved"}
          => msg[r].state = "unsent"
    /\ request[r].origin = "api" /\ api[r] = "idle" => table[r] = NoItem
    /\ api[r] = "saved" => table[r].input
    /\ msg[r].state = "unsent" => msg[r].receives = 0 /\ ~HasResult(table[r])
    /\ \A n \in Deliveries : n > msg[r].receives => delivery[r][n] = "none"

(* A worker past mark_processing has moved the record off QUEUED, and one  *)
(* about to delete has stored an outcome; neither saw a malformed message. *)
WorkerHasRecorded(r) ==
    \A n \in Deliveries :
        /\ delivery[r][n] \in Running => request[r].payload # "malformed"
        /\ delivery[r][n] \in Running \cup {"ack"}
           /\ request[r].payload # "malformed"
              => table[r].status # "QUEUED"
        /\ delivery[r][n] = "ack" /\ request[r].payload # "malformed"
              => HasResult(table[r])

(* What a record's status says about the record and its message.           *)
StatusIsTrue(r) ==
    /\ table[r].status = "QUEUED" =>
          /\ Accepted(r)
          /\ ~HasResult(table[r])
          /\ table[r].attempts = 0
    /\ table[r].status = "COMPLETED" => table[r].output /\ ~table[r].error
    /\ table[r].status = "FAILED" => table[r].error

(* When the two ends of the queue may let go of a message.                 *)
QueueIsAnswered(r) ==
    /\ api[r] = "202" => table[r].input /\ msg[r].state # "unsent"
    /\ msg[r].state = "deleted" /\ request[r].payload # "malformed"
          => HasResult(table[r])

RequestInv(r) ==
    /\ UnsentIsUntouched(r)
    /\ WorkerHasRecorded(r)
    /\ StatusIsTrue(r)
    /\ QueueIsAnswered(r)

Inv == \A r \in Requests : RequestInv(r)

(* A step never takes a stored input or outcome away: a late or repeated   *)
(* delivery may replace an outcome, not erase it.                          *)
OutcomeKept ==
    [][\A r \in Requests :
          /\ table[r].input => table[r].input'
          /\ HasResult(table[r]) => HasResult(table[r])']_vars

(* Input that validate_input refuses is recorded and acknowledged, never   *)
(* put back on the queue by the worker (errors.py: "workers must not       *)
(* requeue the message"): such a delivery ends by the delete only.         *)
InvalidIsNotRequeued ==
    [][\A r \in Requests, n \in Deliveries :
          request[r].payload = "invalid" /\ delivery'[r][n] = "end"
              => delivery[r][n] \in {"ack", "end"}]_vars

----------------------------------------------------------------------------
(* Liveness.                                                               *)

Settled(r) == msg[r].state \in {"deleted", "dlq", "expired"}

(* Whatever crashes and fails, no message goes round for ever: each is in  *)
(* the end deleted, parked in the dead-letter queue, or expired.           *)
EveryMessageSettles ==
    \A r \in Requests : msg[r].state \in OnQueue ~> Settled(r)

Terminal == {"COMPLETED", "FAILED"}

(* Without failures an accepted, storable request ends COMPLETED or FAILED *)
(* and stays so, however many of its deliveries overlap.                   *)
ValidEndsTerminal ==
    \A r \in Requests :
        (api[r] = "202" /\ request[r].payload = "valid")
            ~> [](table[r].status \in Terminal)

----------------------------------------------------------------------------
(* What the API promises, seen through this design: see AtLeastOnce.       *)

Phase(r) ==
    CASE msg[r].state = "unsent" -> "new"
      [] msg[r].state \in OnQueue -> "pending"
      [] msg[r].state = "deleted" -> "done"
      [] msg[r].state = "dlq" -> "parked"
      [] msg[r].state = "expired" -> "dropped"

Promise == INSTANCE AtLeastOnce WITH
    phase <- [r \in Requests |-> Phase(r)],
    tries <- [r \in Requests |-> msg[r].receives],
    answered <- [r \in Requests |-> HasResult(table[r])],
    accepted <- [r \in Requests |-> api[r] = "202"],
    junk <- [r \in Requests |-> request[r].payload = "malformed"]

(* Every step of the API, the queue and the workers is a step of the       *)
(* promise or none at all.                                                 *)
KeepsPromise == Promise!Spec
=============================================================================
