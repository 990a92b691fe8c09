-------------------------- MODULE BackendConstants --------------------------
(***************************************************************************)
(* What every module of the inference backend is parameterised by: the     *)
(* request ids, how often a queue delivers one message before it parks it, *)
(* and the kinds of submission a model run considers.                      *)
(***************************************************************************)
EXTENDS Naturals

CONSTANTS
    Requests,    \* the request ids (uuid4 hex strings in the code)
    MaxReceive,  \* maxReceiveCount of the queues' redrive policy
    Submissions  \* the submissions considered, a subset of AllSubmissions

(* Who put the message on the queue: this API's submit(), or any other     *)
(* producer (the queue policy restricts the transport, not the sender).    *)
Origins == {"api", "foreign"}

(* The two workers that consume a queue.                                   *)
Backends == {"lambda", "ecs"}

(* What the code makes of a payload:                                       *)
(*   valid          every validation succeeds and the output is storable;  *)
(*   unstorable     it validates, but DynamoDB refuses the model's output  *)
(*                  (an infinite or NaN prediction, or one over 1e126);    *)
(*   invalid        validate_body or validate_input refuses it;            *)
(*   unknown_model  the model name is not in the registry;                 *)
(*   unrouted       valid, but no queue URL is configured for the backend; *)
(*   malformed      the message body lacks a field of QueueMessage;        *)
(*   not_an_object  the body is JSON without fields, null or a number.     *)
Payloads ==
    {"valid", "unstorable", "invalid", "unknown_model", "unrouted",
     "malformed", "not_an_object"}

Unparsable == {"malformed", "not_an_object"}

AllSubmissions == [origin: Origins, backend: Backends, payload: Payloads]

(* A submission is possible when its producer can have created it: only a  *)
(* foreign producer sends a message without the fields, and "unrouted" is  *)
(* about the API's own configuration.                                     *)
PossibleSubmissions ==
    {s \in AllSubmissions :
        /\ s.payload \in Unparsable => s.origin = "foreign"
        /\ s.payload = "unrouted" => s.origin = "api"}

ASSUME MaxReceiveAssumption == MaxReceive \in Nat \ {0}
ASSUME SubmissionsAssumption == Submissions \subseteq PossibleSubmissions

Deliveries == 1..MaxReceive
=============================================================================
