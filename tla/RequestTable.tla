---------------------------- MODULE RequestTable ----------------------------
(***************************************************************************)
(* The DynamoDB request-tracking table behind DynamoRequestRepository      *)
(* (common/repository.py).  Every operation is one DynamoDB call, so it is *)
(* atomic on its item; none carries a condition, so an update of an absent *)
(* item creates it (an upsert) and any status may follow any other.        *)
(*                                                                         *)
(* Of an item the model keeps its status, the attempts counter, and        *)
(* whether the attributes written by save ("input"), mark_completed        *)
(* ("output") and mark_failed ("error") are present.                       *)
(***************************************************************************)
EXTENDS BackendConstants

VARIABLE table  \* request id -> item

Statuses == {"ABSENT", "QUEUED", "PROCESSING", "COMPLETED", "FAILED"}

Items == [status: Statuses, attempts: Nat,
          input: BOOLEAN, output: BOOLEAN, error: BOOLEAN]

NoItem == [status |-> "ABSENT", attempts |-> 0,
           input |-> FALSE, output |-> FALSE, error |-> FALSE]

TableInit == table = [r \in Requests |-> NoItem]

(* put_item of InferenceRequest.create(...).to_item(): replaces the item.  *)
SaveItem(r) ==
    table' = [table EXCEPT ![r] = [NoItem EXCEPT !.status = "QUEUED",
                                                 !.input = TRUE]]

(* SET status ADD attempts 1; output and error stay as they were.          *)
\* Mutant: the counter is not incremented.
SetProcessing_NoAttempt(r) ==
    table' = [table EXCEPT ![r].status = "PROCESSING"]

\* Mutant: the item is replaced, so what an earlier delivery wrote is lost.
SetProcessing_Replace(r) ==
    table' = [table EXCEPT ![r].status = "PROCESSING",
                           ![r].attempts = @ + 1,
                           ![r].output = FALSE,
                           ![r].error = FALSE]

SetProcessing(r) ==
    table' = [table EXCEPT ![r].status = "PROCESSING",
                           ![r].attempts = @ + 1]

(* SET status, output REMOVE error.                                        *)
SetCompleted(r) ==
    table' = [table EXCEPT ![r].status = "COMPLETED",
                           ![r].output = TRUE,
                           ![r].error = FALSE]

(* SET status, error; a stored output is not removed.                      *)
SetFailed(r) ==
    table' = [table EXCEPT ![r].status = "FAILED", ![r].error = TRUE]

(* The caller can read an outcome of the request.                          *)
HasResult(item) == item.output \/ item.error
=============================================================================
