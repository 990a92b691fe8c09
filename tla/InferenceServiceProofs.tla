----------------------- MODULE InferenceServiceProofs -----------------------
(***************************************************************************)
(* Proofs about InferenceService, for every set of requests, receive limit *)
(* and mix of submissions: its invariants, what its steps never do, and    *)
(* that it implements AtLeastOnce.                                         *)
(***************************************************************************)
EXTENDS InferenceService, FiniteSetTheorems, TLAPS

(* The operations on the table keep it a table of items.                   *)
LEMMA TableTypes ==
    ASSUME NEW r \in Requests, table \in [Requests -> Items]
    PROVE  /\ SaveItem(r) => table' \in [Requests -> Items]
           /\ SetProcessing(r) => table' \in [Requests -> Items]
           /\ SetCompleted(r) => table' \in [Requests -> Items]
           /\ SetFailed(r) => table' \in [Requests -> Items]
<1> table[r] \in Items
  OBVIOUS
<1>1. SaveItem(r) => table' \in [Requests -> Items]
  <2>1. [NoItem EXCEPT !.status = "QUEUED", !.input = TRUE] \in Items
    BY DEF NoItem, Items, Statuses
  <2>2. QED
    BY <2>1 DEF SaveItem
<1>2. SetProcessing(r) => table' \in [Requests -> Items]
  BY DEF SetProcessing, Items, Statuses
<1>3. SetCompleted(r) => table' \in [Requests -> Items]
  <2>1. [table[r] EXCEPT !.status = "COMPLETED", !.output = TRUE, !.error = FALSE]
          \in Items
    BY DEF Items, Statuses
  <2>2. QED
    BY <2>1 DEF SetCompleted
<1>4. SetFailed(r) => table' \in [Requests -> Items]
  <2>1. [table[r] EXCEPT !.status = "FAILED", !.error = TRUE] \in Items
    BY DEF Items, Statuses
  <2>2. QED
    BY <2>1 DEF SetFailed
<1>5. QED
  BY <1>1, <1>2, <1>3, <1>4

(* What each update leaves in the fields of its item.                      *)
LEMMA TableEffects ==
    ASSUME NEW r \in Requests, table \in [Requests -> Items]
    PROVE  /\ SetProcessing(r) =>
                /\ table'[r].status = "PROCESSING"
                /\ table'[r].attempts = table[r].attempts + 1
                /\ table'[r].input = table[r].input
                /\ table'[r].output = table[r].output
                /\ table'[r].error = table[r].error
           /\ SetCompleted(r) =>
                /\ table'[r].status = "COMPLETED"
                /\ table'[r].attempts = table[r].attempts
                /\ table'[r].input = table[r].input
                /\ table'[r].output
                /\ ~table'[r].error
           /\ SetFailed(r) =>
                /\ table'[r].status = "FAILED"
                /\ table'[r].attempts = table[r].attempts
                /\ table'[r].input = table[r].input
                /\ table'[r].output = table[r].output
                /\ table'[r].error
<1>1. table[r] \in Items
  OBVIOUS
<1>2. QED
  BY <1>1 DEF Items, SetProcessing, SetCompleted, SetFailed

(* The operations on the queue keep it a queue of messages.                *)
LEMMA QueueTypes ==
    ASSUME NEW r \in Requests, NEW n, msg \in [Requests -> Messages]
    PROVE  /\ SendMessage(r) => msg' \in [Requests -> Messages]
           /\ ReceiveMessage(r) => msg' \in [Requests -> Messages]
           /\ RedriveMessage(r) => msg' \in [Requests -> Messages]
           /\ MessageReappears(r) => msg' \in [Requests -> Messages]
           /\ DeleteMessage(r, n) => msg' \in [Requests -> Messages]
           /\ MessageExpires(r) => msg' \in [Requests -> Messages]
  BY MaxReceiveAssumption
     DEF SendMessage, ReceiveMessage, RedriveMessage, MessageReappears,
         DeleteMessage, MessageExpires, Messages, MsgStates, OnQueue

(* An API step changes api alone of the service's own variables.           *)
LEMMA RespondTypes ==
    ASSUME TypeOK, NEW r \in Requests, NEW from, NEW code \in ApiStates,
           Respond(r, from, code)
    PROVE  /\ api' \in [Requests -> ApiStates]
           /\ request' \in [Requests -> Submissions]
           /\ delivery' \in [Requests -> [Deliveries -> DeliveryStates]]
  BY DEF TypeOK, Respond

(* A worker's step changes delivery alone of them.                         *)
LEMMA StepTypes ==
    ASSUME TypeOK, NEW r \in Requests, NEW n \in Deliveries, NEW from,
           NEW to \in DeliveryStates, Step(r, n, from, to)
    PROVE  /\ api' \in [Requests -> ApiStates]
           /\ request' \in [Requests -> Submissions]
           /\ delivery' \in [Requests -> [Deliveries -> DeliveryStates]]
  BY DEF TypeOK, Step

LEMMA TypeInit == Init => TypeOK
  BY MaxReceiveAssumption
     DEF Init, TableInit, SqsInit, TypeOK, Items, Statuses, NoItem, Messages,
         MsgStates, ApiStates, DeliveryStates

(* Every step of a request keeps the types.                                *)
LEMMA TypeStep == TypeOK /\ [Next]_vars => TypeOK'
<1> SUFFICES ASSUME TypeOK, [Next]_vars
             PROVE  TypeOK'
  OBVIOUS
<1> USE DEF ApiStates, DeliveryStates
<1>1. CASE UNCHANGED vars
  BY <1>1 DEF TypeOK, vars
<1>2. ASSUME NEW r \in Requests, Orderly(r)
      PROVE  TypeOK'
  <2>1. CASE Reject(r)
    BY <2>1, RespondTypes DEF Reject, TypeOK
  <2>2. CASE Save(r)
    BY <2>2, RespondTypes, TableTypes DEF Save, TypeOK
  <2>3. CASE Publish(r)
    BY <2>3, RespondTypes, QueueTypes DEF Publish, TypeOK
  <2>4. CASE PublishUnrouted(r)
    BY <2>4, RespondTypes DEF PublishUnrouted, TypeOK
  <2>5. CASE ForeignSend(r)
    BY <2>5, QueueTypes DEF ForeignSend, TypeOK
  <2>6. CASE Receive(r)
    <3>1. msg[r].receives + 1 \in Deliveries
      BY <2>6, MaxReceiveAssumption
         DEF Receive, ReceiveMessage, TypeOK, Messages, Deliveries
    <3>2. QED
      BY <2>6, <3>1, QueueTypes DEF Receive, TypeOK
  <2>7. CASE Redrive(r)
    BY <2>7, QueueTypes DEF Redrive, TypeOK
  <2>8. CASE VisibilityTimeout(r)
    BY <2>8, QueueTypes DEF VisibilityTimeout, TypeOK
  <2>9. ASSUME NEW n \in Deliveries, WorkerStep(r, n)
        PROVE  TypeOK'
    <3>1. CASE DropMalformed(r, n)
      BY <3>1, StepTypes DEF DropMalformed, TypeOK
    <3>2. CASE MarkProcessing(r, n)
      BY <3>2, StepTypes, TableTypes DEF MarkProcessing, TypeOK
    <3>3. CASE GetModelRaises(r, n)
      BY <3>3, StepTypes DEF GetModelRaises, TypeOK
    <3>4. CASE ValidateRaises(r, n)
      BY <3>4, StepTypes DEF ValidateRaises, TypeOK
    <3>5. CASE PredictReturns(r, n)
      BY <3>5, StepTypes DEF PredictReturns, TypeOK
    <3>6. CASE PredictRaises(r, n)
      BY <3>6, StepTypes DEF PredictRaises, TypeOK
    <3>7. CASE MarkCompleted(r, n)
      BY <3>7, StepTypes, TableTypes DEF MarkCompleted, TypeOK
    <3>8. CASE StoreRefused(r, n)
      BY <3>8, StepTypes DEF StoreRefused, TypeOK
    <3>9. CASE RecordPermanentFailure(r, n)
      BY <3>9, StepTypes, TableTypes DEF RecordPermanentFailure, TypeOK
    <3>10. CASE RecordTransientFailure(r, n)
      BY <3>10, StepTypes, TableTypes DEF RecordTransientFailure, TypeOK
    <3>11. CASE Delete(r, n)
      BY <3>11, StepTypes, QueueTypes DEF Delete, TypeOK
    <3>12. QED
      BY <2>9, <3>1, <3>2, <3>3, <3>4, <3>5, <3>6, <3>7, <3>8, <3>9, <3>10,
         <3>11 DEF WorkerStep
  <2>10. QED
    BY <1>2, <2>1, <2>2, <2>3, <2>4, <2>5, <2>6, <2>7, <2>8, <2>9 DEF Orderly
<1>3. ASSUME NEW r \in Requests, Failure(r)
      PROVE  TypeOK'
  <2>1. CASE SaveRaises(r)
    BY <2>1, RespondTypes, TableTypes DEF SaveRaises, TypeOK
  <2>2. CASE PublishRaises(r)
    BY <2>2, RespondTypes, QueueTypes DEF PublishRaises, TypeOK
  <2>3. CASE Expire(r)
    BY <2>3, QueueTypes DEF Expire, TypeOK
  <2>4. ASSUME NEW n \in Deliveries, WriteRaises(r, n)
        PROVE  TypeOK'
    BY <2>4, StepTypes, TableTypes DEF WriteRaises, TypeOK
  <2>5. ASSUME NEW n \in Deliveries, DeleteLost(r, n)
        PROVE  TypeOK'
    BY <2>5, StepTypes DEF DeleteLost, TypeOK
  <2>6. ASSUME NEW n \in Deliveries, Crash(r, n)
        PROVE  TypeOK'
    BY <2>6, StepTypes DEF Crash, TypeOK
  <2>7. QED
    BY <1>3, <2>1, <2>2, <2>3, <2>4, <2>5, <2>6 DEF Failure
<1>4. QED
  BY <1>1, <1>2, <1>3 DEF Next

(* Whatever the API, the queue and the workers do, the state keeps its     *)
(* shape; in particular no message is received more than MaxReceive times. *)
THEOREM TypeCorrect == Spec => []TypeOK
  BY TypeInit, TypeStep, PTL DEF Spec

----------------------------------------------------------------------------
LEMMA InvInit == Init => Inv
<1> SUFFICES ASSUME Init, NEW r \in Requests
             PROVE  RequestInv(r)
  BY DEF Inv
<1>1. /\ table[r] = NoItem
      /\ msg[r] = [state |-> "unsent", receives |-> 0]
      /\ api[r] = "idle"
      /\ \A n \in Deliveries : delivery[r][n] = "none"
  BY DEF Init, TableInit, SqsInit
<1>2. QED
  BY <1>1 DEF RequestInv, UnsentIsUntouched, WorkerHasRecorded, StatusIsTrue,
              QueueIsAnswered, HasResult, NoItem, Running

(* A step of r leaves every other request alone.                           *)
Frame(r) ==
    \A q \in Requests \ {r} :
        /\ table'[q] = table[q]
        /\ msg'[q] = msg[q]
        /\ request'[q] = request[q]
        /\ api'[q] = api[q]
        /\ delivery'[q] = delivery[q]

LEMMA FrameKeepsOthers ==
    ASSUME Inv, NEW r \in Requests, Frame(r), RequestInv(r)'
    PROVE  Inv'
<1> SUFFICES ASSUME NEW q \in Requests, q # r
             PROVE  RequestInv(q)'
  BY DEF Inv
<1>1. RequestInv(q)
  BY DEF Inv
<1>2. QED
  BY <1>1 DEF Frame, RequestInv, UnsentIsUntouched, WorkerHasRecorded,
              StatusIsTrue, QueueIsAnswered, HasResult, Accepted

(* A delivery that just ends disturbs nothing.                             *)
LEMMA EndKeeps ==
    ASSUME TypeOK, NEW r \in Requests, NEW n \in Deliveries, 
           NEW from \in DeliveryStates \ {"none"},
           RequestInv(r), Step(r, n, from, "end"), UNCHANGED <<table, msg>>
    PROVE  RequestInv(r)'
<1>1. \A m \in Deliveries :
        delivery'[r][m] = IF m = n THEN "end" ELSE delivery[r][m]
  BY DEF TypeOK, Step
<1>2. /\ from # "none" => n <= msg[r].receives
      /\ delivery[r][n] = from
      /\ request' = request
      /\ api' = api
  BY DEF TypeOK, Messages, RequestInv, UnsentIsUntouched, Step, Deliveries
<1>3. QED
  BY <1>1, <1>2 DEF RequestInv, UnsentIsUntouched, WorkerHasRecorded,
     StatusIsTrue, QueueIsAnswered, HasResult, Accepted, Running

(* A message some delivery of which is under way has been received.        *)
LEMMA StartedIsReceived ==
    ASSUME TypeOK, NEW r \in Requests, NEW n \in Deliveries,
           RequestInv(r), delivery[r][n] # "none"
    PROVE  /\ n <= msg[r].receives
           /\ msg[r].state # "unsent"
           /\ ~(request[r].origin = "api" /\ api[r] \in {"idle", "saved"})
  BY DEF TypeOK, Messages, RequestInv, UnsentIsUntouched, Deliveries

(* A worker's write keeps the invariant if the item it leaves is coherent  *)
(* and not QUEUED, keeps what was stored, and has an outcome before the    *)
(* delivery may be acknowledged.                                           *)
LEMMA WriteKeeps ==
    ASSUME TypeOK, NEW r \in Requests, NEW n \in Deliveries,
           NEW from \in DeliveryStates \ {"none"}, NEW to \in DeliveryStates,
           RequestInv(r), Step(r, n, from, to), UNCHANGED msg,
           table[r].input => table'[r].input,
           HasResult(table[r]) => HasResult(table'[r]),
           table'[r].status # "QUEUED",
           StatusIsTrue(r)',
           to \in Running => request[r].payload # "malformed",
           to = "ack" => HasResult(table'[r])
    PROVE  RequestInv(r)'
<1>1. \A m \in Deliveries :
        delivery'[r][m] = IF m = n THEN to ELSE delivery[r][m]
  BY DEF TypeOK, Step
<1>2. /\ delivery[r][n] # "none"
      /\ request' = request
      /\ api' = api
  BY DEF Step
<1>3. /\ n <= msg[r].receives
      /\ msg[r].state # "unsent"
      /\ ~(request[r].origin = "api" /\ api[r] \in {"idle", "saved"})
  BY <1>2, StartedIsReceived
<1>4. UnsentIsUntouched(r)'
  BY <1>1, <1>2, <1>3 DEF RequestInv, UnsentIsUntouched
<1>5. WorkerHasRecorded(r)'
  BY <1>1, <1>2 DEF RequestInv, WorkerHasRecorded
<1>6. QueueIsAnswered(r)'
  BY <1>2 DEF RequestInv, QueueIsAnswered
<1>7. QED
  BY <1>4, <1>5, <1>6 DEF RequestInv

(* So does submit's put_item, which comes before everything else.          *)
LEMMA SaveKeeps ==
    ASSUME TypeOK, NEW r \in Requests, NEW code \in {"saved", "5xx"},
           RequestInv(r), Accepted(r), Respond(r, "idle", code), SaveItem(r),
           UNCHANGED msg
    PROVE  RequestInv(r)'
<1>1. table'[r] = [status |-> "QUEUED", attempts |-> 0, input |-> TRUE,
                   output |-> FALSE, error |-> FALSE]
  BY DEF TypeOK, SaveItem, NoItem
<1>2. /\ request[r].origin = "api"
      /\ api[r] = "idle"
      /\ api'[r] = code
      /\ request' = request
      /\ delivery' = delivery
  BY DEF TypeOK, Respond
<1>3. /\ msg[r].state = "unsent"
      /\ \A n \in Deliveries : delivery[r][n] = "none"
  BY <1>2 DEF TypeOK, Messages, RequestInv, UnsentIsUntouched, Deliveries
<1>4. UnsentIsUntouched(r)'
  BY <1>1, <1>2, <1>3 DEF RequestInv, UnsentIsUntouched, HasResult
<1>5. WorkerHasRecorded(r)'
  BY <1>2, <1>3 DEF WorkerHasRecorded, Running
<1>6. StatusIsTrue(r)'
  BY <1>1, <1>2 DEF StatusIsTrue, HasResult, Accepted
<1>7. QueueIsAnswered(r)'
  BY <1>2, <1>3 DEF QueueIsAnswered
<1>8. QED
  BY <1>4, <1>5, <1>6, <1>7 DEF RequestInv

(* A step of one request is no other request's.                            *)
LEMMA StepFrame ==
    ASSUME TypeOK, NEW r \in Requests, Orderly(r) \/ Failure(r)
    PROVE  Frame(r)
  BY DEF TypeOK, Frame, Orderly, Failure, WorkerStep, Respond, Step, Reject,
     Save, Publish, PublishUnrouted, ForeignSend, Receive, Redrive,
     VisibilityTimeout, SaveRaises, PublishRaises, Expire, DropMalformed,
     MarkProcessing, GetModelRaises, ValidateRaises, PredictReturns,
     PredictRaises, MarkCompleted, StoreRefused, RecordPermanentFailure,
     RecordTransientFailure, Delete, WriteRaises, DeleteLost, Crash,
     SaveItem, SetProcessing, SetCompleted, SetFailed, SendMessage,
     ReceiveMessage, RedriveMessage, MessageReappears, DeleteMessage,
     MessageExpires

(* Every step keeps the inductive invariant.                               *)
LEMMA InvStep == TypeOK /\ Inv /\ [Next]_vars => Inv'
<1> SUFFICES ASSUME TypeOK, Inv, [Next]_vars
             PROVE  Inv'
  OBVIOUS
<1>1. CASE UNCHANGED vars
  BY <1>1 DEF vars, Inv, RequestInv, UnsentIsUntouched, WorkerHasRecorded,
              StatusIsTrue, QueueIsAnswered, HasResult, Accepted
<1>2. ASSUME NEW r \in Requests, Orderly(r) \/ Failure(r)
      PROVE  Inv'
  <2>1. RequestInv(r)
    BY DEF Inv
  <2> SUFFICES RequestInv(r)'
    BY <1>2, StepFrame, FrameKeepsOthers
  <2> USE DEF RequestInv, UnsentIsUntouched, WorkerHasRecorded, StatusIsTrue,
              QueueIsAnswered, HasResult, Running, Accepted
  <2>2. CASE Reject(r)
    BY <2>1, <2>2 DEF TypeOK, Reject, Respond
  <2>3. CASE Save(r)
    BY <2>1, <2>3, SaveKeeps DEF Save
  <2>4. CASE Publish(r)
    BY <2>1, <2>4 DEF TypeOK, Messages, Publish, Respond, SendMessage
  <2>5. CASE PublishUnrouted(r)
    BY <2>1, <2>5 DEF TypeOK, PublishUnrouted, Respond
  <2>6. CASE ForeignSend(r)
    BY <2>1, <2>6 DEF TypeOK, Messages, ForeignSend, SendMessage
  <2>7. CASE Receive(r)
    BY <2>1, <2>7 DEF TypeOK, Messages, Receive, ReceiveMessage, Deliveries
  <2>8. CASE Redrive(r)
    BY <2>1, <2>8 DEF TypeOK, Messages, Redrive, RedriveMessage
  <2>9. CASE VisibilityTimeout(r)
    BY <2>1, <2>9 DEF TypeOK, Messages, VisibilityTimeout, MessageReappears
  <2>10. CASE SaveRaises(r)
    <3>1. CASE SaveItem(r)
      BY <2>1, <2>10, <3>1, SaveKeeps DEF SaveRaises
    <3>2. CASE UNCHANGED table
      BY <2>1, <2>10, <3>2 DEF TypeOK, SaveRaises, Respond
    <3>3. QED
      BY <2>10, <3>1, <3>2 DEF SaveRaises
  <2>11. CASE PublishRaises(r)
    BY <2>1, <2>11 DEF TypeOK, Messages, PublishRaises, Respond, SendMessage
  <2>12. CASE Expire(r)
    BY <2>1, <2>12 DEF TypeOK, Messages, Expire, MessageExpires, OnQueue
  <2>13. ASSUME NEW n \in Deliveries, WorkerStep(r, n)
         PROVE  RequestInv(r)'
    <3> USE DEF DeliveryStates
    <3>1. CASE DropMalformed(r, n)
      <4>1. CASE Step(r, n, "received", "ack")
        BY <2>1, <3>1, <4>1 DEF TypeOK, DropMalformed, Step
      <4>2. CASE Step(r, n, "received", "end")
        BY <2>1, <3>1, <4>2, EndKeeps DEF DropMalformed
      <4>3. QED
        BY <3>1, <4>1, <4>2 DEF DropMalformed
    <3>2. CASE MarkProcessing(r, n)
      <4>1. StatusIsTrue(r)'
        BY <3>2, TableEffects DEF MarkProcessing, TypeOK, Unparsable
      <4>2. QED
        BY <2>1, <3>2, <4>1, TableEffects, WriteKeeps
           DEF MarkProcessing, TypeOK, Unparsable
    <3>3. CASE GetModelRaises(r, n)
      BY <2>1, <3>3, EndKeeps DEF GetModelRaises
    <3>4. CASE ValidateRaises(r, n)
      BY <2>1, <3>4 DEF TypeOK, ValidateRaises, Step
    <3>5. CASE PredictReturns(r, n)
      BY <2>1, <3>5 DEF TypeOK, PredictReturns, Step
    <3>6. CASE PredictRaises(r, n)
      BY <2>1, <3>6 DEF TypeOK, PredictRaises, Step
    <3>7. CASE MarkCompleted(r, n)
      BY <2>1, <3>7, TableEffects, WriteKeeps DEF MarkCompleted, TypeOK
    <3>8. CASE StoreRefused(r, n)
      BY <2>1, <3>8, EndKeeps DEF StoreRefused
    <3>9. CASE RecordPermanentFailure(r, n)
      BY <2>1, <3>9, TableEffects, WriteKeeps DEF RecordPermanentFailure, TypeOK
    <3>10. CASE RecordTransientFailure(r, n)
      BY <2>1, <3>10, TableEffects, WriteKeeps DEF RecordTransientFailure, TypeOK
    <3>11. CASE Delete(r, n)
      BY <2>1, <3>11 DEF TypeOK, Messages, Delete, Step, DeleteMessage, OnQueue
    <3>12. QED
      BY <2>13, <3>1, <3>2, <3>3, <3>4, <3>5, <3>6, <3>7, <3>8, <3>9, <3>10,
         <3>11 DEF WorkerStep
  <2>14. ASSUME NEW n \in Deliveries, WriteRaises(r, n)
         PROVE  RequestInv(r)'
    <3> USE DEF DeliveryStates
    <3>1. CASE UNCHANGED table
      <4>1. PICK from \in {"received", "complete", "reject", "retry"} :
              Step(r, n, from, "end")
        BY <2>14 DEF WriteRaises
      <4>2. QED
        BY <2>1, <2>14, <3>1, <4>1, EndKeeps DEF WriteRaises
    <3>2. ASSUME NEW from \in DeliveryStates \ {"none"}, Step(r, n, from, "end"),
                 SetProcessing(r) \/ SetCompleted(r) \/ SetFailed(r)
          PROVE  RequestInv(r)'
      BY <2>1, <2>14, <3>2, TableEffects, WriteKeeps DEF WriteRaises, TypeOK
    <3>3. QED
      BY <2>14, <3>1, <3>2 DEF WriteRaises
  <2>15. ASSUME NEW n \in Deliveries, DeleteLost(r, n)
         PROVE  RequestInv(r)'
    BY <2>1, <2>15, EndKeeps DEF DeleteLost, DeliveryStates
  <2>16. ASSUME NEW n \in Deliveries, Crash(r, n)
         PROVE  RequestInv(r)'
    BY <2>1, <2>16, EndKeeps DEF Crash, Active, DeliveryStates
  <2>17. QED
    BY <1>2, <2>2, <2>3, <2>4, <2>5, <2>6, <2>7, <2>8, <2>9, <2>10, <2>11,
       <2>12, <2>13, <2>14, <2>15, <2>16 DEF Orderly, Failure
<1>3. QED
  BY <1>1, <1>2 DEF Next

(* The inductive invariant holds of every reachable state.                 *)
THEOREM Invariance == Spec => [](TypeOK /\ Inv)
<1>1. Init => TypeOK /\ Inv
  BY TypeInit, InvInit
<1>2. TypeOK /\ Inv /\ [Next]_vars => TypeOK' /\ Inv'
  BY TypeStep, InvStep
<1>3. QED
  BY <1>1, <1>2, PTL DEF Spec

(* A caller who was answered 202 can poll a record with the input, and the *)
(* message was put on the queue.                                           *)
THEOREM AcceptedTracked == Spec => []AcceptedIsTracked
<1>1. Inv => AcceptedIsTracked
  BY DEF Inv, RequestInv, QueueIsAnswered, AcceptedIsTracked
<1>2. QED
  BY <1>1, Invariance, PTL

(* No message that names a request is deleted before an outcome of it is   *)
(* in the table.                                                           *)
THEOREM DeletedAnswered == Spec => []DeletedIsAnswered
<1>1. Inv => DeletedIsAnswered
  BY DEF Inv, RequestInv, QueueIsAnswered, DeletedIsAnswered
<1>2. QED
  BY <1>1, Invariance, PTL

(* A record that reads QUEUED has not been touched by any worker.          *)
THEOREM QueuedUntouched == Spec => []QueuedIsUntouched
<1>1. Inv => QueuedIsUntouched
  BY DEF Inv, RequestInv, StatusIsTrue, WorkerHasRecorded, Accepted,
         QueuedIsUntouched
<1>2. QED
  BY <1>1, Invariance, PTL

(* A record's status agrees with the output and error it carries.          *)
THEOREM RecordsCoherent == Spec => []RecordCoherent
<1>1. Inv => RecordCoherent
  BY DEF Inv, RequestInv, StatusIsTrue, RecordCoherent
<1>2. QED
  BY <1>1, Invariance, PTL

(* No step takes a stored input or outcome away.                           *)
THEOREM OutcomesKept == Spec => OutcomeKept
<1> DEFINE Kept(r) == /\ table[r].input => table[r].input'
                      /\ HasResult(table[r]) => HasResult(table[r])'
<1>1. ASSUME TypeOK, Inv, [Next]_vars, NEW q \in Requests
      PROVE  Kept(q)
  <2>1. CASE UNCHANGED table
    BY <2>1 DEF HasResult
  <2>2. ASSUME NEW r \in Requests, Orderly(r) \/ Failure(r), r # q
        PROVE  Kept(q)
    BY <1>1, <2>2, StepFrame DEF Frame, HasResult
  <2>3. ASSUME Orderly(q) \/ Failure(q), ~UNCHANGED table
        PROVE  Kept(q)
    <3>1. \/ SaveItem(q) /\ request[q].origin = "api" /\ api[q] = "idle"
          \/ SetProcessing(q)
          \/ SetCompleted(q)
          \/ SetFailed(q)
      BY <2>3 DEF Orderly, Failure, WorkerStep, Respond, Reject, Save, Publish,
         PublishUnrouted, ForeignSend, Receive, Redrive, VisibilityTimeout,
         SaveRaises, PublishRaises, Expire, DropMalformed, MarkProcessing,
         GetModelRaises, ValidateRaises, PredictReturns, PredictRaises,
         MarkCompleted, StoreRefused, RecordPermanentFailure,
         RecordTransientFailure, Delete, WriteRaises, DeleteLost, Crash
    <3>2. CASE SaveItem(q) /\ request[q].origin = "api" /\ api[q] = "idle"
      BY <1>1, <3>2 DEF Inv, RequestInv, UnsentIsUntouched, HasResult, NoItem
    <3>3. CASE SetProcessing(q) \/ SetCompleted(q) \/ SetFailed(q)
      BY <1>1, <3>3, TableEffects DEF TypeOK, HasResult
    <3>4. QED
      BY <3>1, <3>2, <3>3
  <2>4. QED
    BY <1>1, <2>1, <2>2, <2>3 DEF Next, vars
<1>2. TypeOK /\ Inv /\ [Next]_vars
        => [\A r \in Requests : Kept(r)]_vars
  BY <1>1
<1>3. QED
  BY <1>2, Invariance, PTL DEF Spec, OutcomeKept
----------------------------------------------------------------------------
(* The attempts counter.                                                   *)
RunningDeliveries(r) == {n \in Deliveries : delivery[r][n] \in Running}

LEMMA RunningFinite ==
    ASSUME NEW S \in SUBSET Deliveries
    PROVE  IsFiniteSet(S) /\ Cardinality(S) \in Nat
<1>1. IsFiniteSet(Deliveries)
  BY MaxReceiveAssumption, FS_Interval DEF Deliveries
<1>2. IsFiniteSet(S)
  BY <1>1, FS_Subset
<1>3. QED
  BY <1>2, FS_CardinalityType

(* A worker's step from one state to another starts at most its delivery,  *)
(* and starts none unless it leads to a running state.                     *)
LEMMA StepRuns ==
    ASSUME TypeOK, NEW r \in Requests, NEW n \in Deliveries, NEW from,
           NEW to \in DeliveryStates, Step(r, n, from, to)
    PROVE  /\ RunningDeliveries(r)' \subseteq RunningDeliveries(r) \cup {n}
           /\ to \notin Running \/ from \in Running =>
                 RunningDeliveries(r)' \subseteq RunningDeliveries(r)
  BY DEF TypeOK, Step, RunningDeliveries

(* What a step does to the counter and to the set of running deliveries:   *)
(* it counts one attempt and starts at most one delivery, or starts none,  *)
(* or is the save before the message was sent.                             *)
LEMMA AttemptsOfStep ==
    ASSUME TypeOK, Inv, NEW r \in Requests, Orderly(r) \/ Failure(r)
    PROVE  \/ /\ table'[r].attempts = table[r].attempts
              /\ RunningDeliveries(r)' \subseteq RunningDeliveries(r)
           \/ \E n \in Deliveries :
              /\ table'[r].attempts = table[r].attempts + 1
              /\ RunningDeliveries(r)' \subseteq RunningDeliveries(r) \cup {n}
           \/ RunningDeliveries(r)' = {} /\ table'[r] \in Items
<1>t. table \in [Requests -> Items]
  BY DEF TypeOK
<1>1. CASE SaveItem(r) /\ request[r].origin = "api" /\ api[r] = "idle"
           /\ UNCHANGED delivery
  <2>1. \A n \in Deliveries : delivery[r][n] = "none"
    BY <1>1 DEF TypeOK, Messages, Inv, RequestInv, UnsentIsUntouched, Deliveries
  <2>2. QED
    BY <1>1, <1>t, <2>1, TableTypes DEF RunningDeliveries, Running
<1>2. CASE UNCHANGED <<table, delivery>>
  BY <1>2 DEF RunningDeliveries
<1>3. CASE Receive(r)
  BY <1>3 DEF TypeOK, Receive, RunningDeliveries, Running
<1>4. ASSUME NEW n \in Deliveries, NEW from, Step(r, n, from, "processing"),
             SetProcessing(r)
      PROVE  /\ table'[r].attempts = table[r].attempts + 1
             /\ RunningDeliveries(r)' \subseteq RunningDeliveries(r) \cup {n}
  BY <1>t, <1>4, TableEffects, StepRuns DEF DeliveryStates
<1>5. ASSUME NEW n \in Deliveries, NEW from, NEW to \in DeliveryStates,
             Step(r, n, from, to), to \notin Running \/ from \in Running,
             UNCHANGED table \/ SetCompleted(r) \/ SetFailed(r)
      PROVE  /\ table'[r].attempts = table[r].attempts
             /\ RunningDeliveries(r)' \subseteq RunningDeliveries(r)
  BY <1>t, <1>5, TableEffects, StepRuns
<1>6. ASSUME NEW n \in Deliveries, Step(r, n, "received", "end"), SetProcessing(r)
      PROVE  /\ table'[r].attempts = table[r].attempts + 1
             /\ RunningDeliveries(r)' \subseteq RunningDeliveries(r) \cup {n}
  BY <1>t, <1>6, TableEffects, StepRuns DEF DeliveryStates
<1>7. CASE \E n \in Deliveries : WorkerStep(r, n)
  <2>1. PICK n \in Deliveries : WorkerStep(r, n)
    BY <1>7
  <2>2. CASE MarkProcessing(r, n)
    BY <1>4, <2>2 DEF MarkProcessing
  <2>3. CASE ~MarkProcessing(r, n)
    <3>1. \E from \in DeliveryStates, to \in DeliveryStates :
            /\ Step(r, n, from, to)
            /\ to \notin Running \/ from \in Running
            /\ UNCHANGED table \/ SetCompleted(r) \/ SetFailed(r)
      BY <2>1, <2>3 DEF WorkerStep, DropMalformed, GetModelRaises,
         ValidateRaises, PredictReturns, PredictRaises, MarkCompleted,
         StoreRefused, RecordPermanentFailure, RecordTransientFailure, Delete,
         DeliveryStates, Running
    <3>2. QED
      BY <1>5, <3>1
  <2>4. QED
    BY <2>2, <2>3
<1>8. CASE \E n \in Deliveries : WriteRaises(r, n)
  <2>1. PICK n \in Deliveries : WriteRaises(r, n)
    BY <1>8
  <2>2. CASE Step(r, n, "received", "end") /\ SetProcessing(r)
    BY <1>6, <2>2
  <2>3. CASE ~(Step(r, n, "received", "end") /\ SetProcessing(r))
    <3>1. \E from \in DeliveryStates :
            /\ Step(r, n, from, "end")
            /\ UNCHANGED table \/ SetCompleted(r) \/ SetFailed(r)
      BY <2>1, <2>3 DEF WriteRaises, DeliveryStates
    <3>2. QED
      BY <1>5, <3>1 DEF DeliveryStates, Running
  <2>4. QED
    BY <2>2, <2>3
<1>9. CASE \E n \in Deliveries : DeleteLost(r, n) \/ Crash(r, n)
  <2>1. PICK n \in Deliveries, from \in DeliveryStates :
           Step(r, n, from, "end") /\ UNCHANGED table
    BY <1>9 DEF DeleteLost, Crash, Active, DeliveryStates, Running
  <2>2. QED
    BY <1>5, <2>1 DEF DeliveryStates, Running
<1>10. QED
  <2>1. CASE Orderly(r)
    BY <1>1, <1>2, <1>3, <1>7, <2>1 DEF Orderly, Reject, Save, Publish,
       PublishUnrouted, ForeignSend, Redrive, VisibilityTimeout, Respond
  <2>2. CASE Failure(r)
    BY <1>1, <1>2, <1>8, <1>9, <2>2 DEF Failure, SaveRaises, PublishRaises,
       Expire, Respond
  <2>3. QED
    BY <2>1, <2>2

LEMMA AttemptsStep ==
    ASSUME TypeOK, Inv, AttemptsCounted, [Next]_vars
    PROVE  AttemptsCounted'
<1> SUFFICES ASSUME NEW q \in Requests
             PROVE  Cardinality(RunningDeliveries(q)') <= table'[q].attempts
  BY DEF AttemptsCounted, RunningDeliveries
<1>0. /\ Cardinality(RunningDeliveries(q)) <= table[q].attempts
      /\ table[q].attempts \in Nat
      /\ RunningDeliveries(q) \in SUBSET Deliveries
      /\ RunningDeliveries(q)' \in SUBSET Deliveries
  BY DEF AttemptsCounted, RunningDeliveries, TypeOK, Items
<1>1. /\ IsFiniteSet(RunningDeliveries(q))
      /\ Cardinality(RunningDeliveries(q)) \in Nat
      /\ Cardinality(RunningDeliveries(q)') \in Nat
  BY <1>0, RunningFinite
<1>2. ASSUME RunningDeliveries(q)' \subseteq RunningDeliveries(q)
      PROVE  Cardinality(RunningDeliveries(q)') <= Cardinality(RunningDeliveries(q))
  BY <1>1, <1>2, FS_Subset
<1>3. ASSUME NEW n \in Deliveries,
             RunningDeliveries(q)' \subseteq RunningDeliveries(q) \cup {n}
      PROVE  Cardinality(RunningDeliveries(q)')
                 <= Cardinality(RunningDeliveries(q)) + 1
  <2>1. /\ IsFiniteSet(RunningDeliveries(q) \cup {n})
        /\ Cardinality(RunningDeliveries(q) \cup {n})
               \in {Cardinality(RunningDeliveries(q)),
                    Cardinality(RunningDeliveries(q)) + 1}
    BY <1>1, FS_AddElement
  <2>2. Cardinality(RunningDeliveries(q)')
            <= Cardinality(RunningDeliveries(q) \cup {n})
    BY <1>3, <2>1, FS_Subset
  <2>3. QED
    BY <1>1, <2>1, <2>2
<1>4. CASE UNCHANGED <<table[q], delivery[q]>>
  BY <1>0, <1>4 DEF RunningDeliveries
<1>5. CASE Orderly(q) \/ Failure(q)
  <2>1. CASE /\ table'[q].attempts = table[q].attempts
             /\ RunningDeliveries(q)' \subseteq RunningDeliveries(q)
    BY <1>0, <1>1, <1>2, <2>1
  <2>2. ASSUME NEW n \in Deliveries,
               table'[q].attempts = table[q].attempts + 1,
               RunningDeliveries(q)' \subseteq RunningDeliveries(q) \cup {n}
        PROVE  Cardinality(RunningDeliveries(q)') <= table'[q].attempts
    BY <1>0, <1>1, <1>3, <2>2
  <2>3. CASE RunningDeliveries(q)' = {} /\ table'[q] \in Items
    BY <2>3, FS_EmptySet DEF Items
  <2>4. QED
    BY <1>5, <2>1, <2>2, <2>3, AttemptsOfStep
<1>6. ASSUME NEW r \in Requests, Orderly(r) \/ Failure(r), r # q
      PROVE  UNCHANGED <<table[q], delivery[q]>>
  BY <1>6, StepFrame DEF Frame
<1>7. CASE UNCHANGED vars
  BY <1>4, <1>7 DEF vars
<1>8. QED
  BY <1>4, <1>5, <1>6, <1>7 DEF Next

(* However deliveries of one message overlap, crash or lose their writes,  *)
(* attempts counts at least those that are running it.                     *)
THEOREM RunningCounted == Spec => []AttemptsCounted
<1>1. Init => AttemptsCounted
  <2> SUFFICES ASSUME Init, NEW r \in Requests
               PROVE  Cardinality(RunningDeliveries(r)) <= table[r].attempts
    BY DEF AttemptsCounted, RunningDeliveries
  <2>1. RunningDeliveries(r) = {} /\ table[r].attempts = 0
    BY DEF Init, TableInit, NoItem, RunningDeliveries, Running
  <2>2. QED
    BY <2>1, FS_EmptySet
<1>2. TypeOK /\ Inv /\ AttemptsCounted /\ [Next]_vars => AttemptsCounted'
  BY AttemptsStep
<1>3. QED
  BY <1>1, <1>2, Invariance, PTL DEF Spec

----------------------------------------------------------------------------
(* Without failures a delivery of an invalid input takes one way only.     *)
InvalidTakesOneWay ==
    \A r \in Requests, n \in Deliveries :
        request[r].payload = "invalid" => delivery[r][n] \notin {"complete", "retry"}

LEMMA InvalidStep ==
    ASSUME TypeOK, InvalidTakesOneWay, NEW r \in Requests, Orderly(r),
           NEW q \in Requests, NEW m \in Deliveries,
           request[q].payload = "invalid"
    PROVE  /\ request' = request
           /\ delivery'[q][m] \notin {"complete", "retry"}
           /\ delivery'[q][m] = "end" => delivery[q][m] \in {"ack", "end"}
<1>0. delivery[q][m] \notin {"complete", "retry"}
  BY DEF InvalidTakesOneWay
<1>1. CASE UNCHANGED <<request, delivery>>
  BY <1>0, <1>1
<1>2. CASE Receive(r)
  BY <1>0, <1>2 DEF TypeOK, Receive
<1>3. ASSUME NEW n \in Deliveries, WorkerStep(r, n)
      PROVE  /\ request' = request
             /\ delivery'[q][m] \notin {"complete", "retry"}
             /\ delivery'[q][m] = "end" => delivery[q][m] \in {"ack", "end"}
  <2>1. ASSUME NEW from, NEW to, Step(r, n, from, to),
               q = r /\ m = n => to \notin {"complete", "retry"},
               q = r /\ m = n /\ to = "end" => from \in {"ack", "end"}
        PROVE  /\ request' = request
               /\ delivery'[q][m] \notin {"complete", "retry"}
               /\ delivery'[q][m] = "end" => delivery[q][m] \in {"ack", "end"}
    <3>1. delivery'[q][m] = IF q = r /\ m = n THEN to ELSE delivery[q][m]
      BY <2>1 DEF TypeOK, Step
    <3>2. request' = request /\ delivery[r][n] = from
      BY <2>1 DEF Step
    <3>3. CASE q = r /\ m = n
      BY <2>1, <3>1, <3>2, <3>3
    <3>4. CASE ~(q = r /\ m = n)
      BY <1>0, <3>1, <3>2, <3>4
    <3>5. QED
      BY <3>3, <3>4
  <2>2. CASE DropMalformed(r, n)
    BY <2>1, <2>2 DEF DropMalformed, Unparsable
  <2>3. CASE MarkProcessing(r, n)
    BY <2>1, <2>3 DEF MarkProcessing
  <2>4. CASE GetModelRaises(r, n)
    BY <2>1, <2>4 DEF GetModelRaises
  <2>5. CASE ValidateRaises(r, n)
    BY <2>1, <2>5 DEF ValidateRaises
  <2>6. CASE PredictReturns(r, n) \/ PredictRaises(r, n)
    BY <2>1, <2>6 DEF PredictReturns, PredictRaises, Runnable
  <2>7. CASE MarkCompleted(r, n) \/ StoreRefused(r, n)
    BY <2>1, <2>7 DEF MarkCompleted, StoreRefused
  <2>8. CASE RecordPermanentFailure(r, n)
    BY <2>1, <2>8 DEF RecordPermanentFailure
  <2>9. CASE RecordTransientFailure(r, n)
    BY <1>0, <2>1, <2>9 DEF RecordTransientFailure, Step
  <2>10. CASE Delete(r, n)
    BY <2>1, <2>10 DEF Delete
  <2>11. QED
    BY <1>3, <2>2, <2>3, <2>4, <2>5, <2>6, <2>7, <2>8, <2>9, <2>10 DEF WorkerStep
<1>4. QED
  BY <1>1, <1>2, <1>3 DEF Orderly, Reject, Save, Publish, PublishUnrouted,
     ForeignSend, Redrive, VisibilityTimeout, Respond

(* A worker never puts an input back on the queue that validation refuses: *)
(* without failures its delivery ends by the delete, after the failure was *)
(* recorded.                                                               *)
THEOREM InvalidNeverRequeued == OrderlySpec => InvalidIsNotRequeued
<1> DEFINE OrderlyNext == \E r \in Requests : Orderly(r)
           Kept == \A r \in Requests, n \in Deliveries :
                       request[r].payload = "invalid" /\ delivery'[r][n] = "end"
                           => delivery[r][n] \in {"ack", "end"}
<1>1. Init => TypeOK /\ InvalidTakesOneWay
  BY TypeInit DEF Init, InvalidTakesOneWay
<1>2. TypeOK /\ [OrderlyNext]_vars => TypeOK'
  BY TypeStep DEF Next
<1>3. TypeOK /\ InvalidTakesOneWay /\ [OrderlyNext]_vars
        => InvalidTakesOneWay' /\ [Kept]_vars
  <2> SUFFICES ASSUME TypeOK, InvalidTakesOneWay, [OrderlyNext]_vars
               PROVE  InvalidTakesOneWay' /\ [Kept]_vars
    OBVIOUS
  <2>1. CASE UNCHANGED vars
    BY <2>1 DEF vars, InvalidTakesOneWay
  <2>2. ASSUME NEW r \in Requests, Orderly(r)
        PROVE  InvalidTakesOneWay' /\ Kept
    <3>1. request' = request
      BY <2>2 DEF Orderly, WorkerStep, Step, Reject, Save, Publish,
         PublishUnrouted, ForeignSend, Receive, Redrive, VisibilityTimeout,
         Respond, DropMalformed, MarkProcessing, GetModelRaises,
         ValidateRaises, PredictReturns, PredictRaises, MarkCompleted,
         StoreRefused, RecordPermanentFailure, RecordTransientFailure, Delete
    <3>2. QED
      BY <2>2, <3>1, InvalidStep DEF InvalidTakesOneWay
  <2>3. QED
    BY <2>1, <2>2
<1>4. QED
  BY <1>1, <1>2, <1>3, PTL DEF OrderlySpec, InvalidIsNotRequeued

----------------------------------------------------------------------------
(* InferenceService implements AtLeastOnce: its initial states map to      *)
(* initial states, and every step of the API, the queue or a worker maps   *)
(* to a step of the promise or to a stutter.                               *)

(* What the promise sees of a request.                                     *)
Answered(r) == HasResult(table[r])
Told(r) == api[r] = "202"
Junk(r) == request[r].payload = "malformed"

LEMMA PromiseInit == Init => Promise!Init
<1> SUFFICES ASSUME Init
             PROVE  Promise!Init
  OBVIOUS
<1>1. \A r \in Requests :
        /\ table[r] = NoItem
        /\ msg[r] = [state |-> "unsent", receives |-> 0]
        /\ api[r] = "idle"
  BY DEF Init, TableInit, SqsInit
<1>2. \A r \in Requests : Phase(r) = "new" /\ msg[r].receives = 0
  <2>1. ASSUME NEW r \in Requests
        PROVE  msg[r].state = "unsent" /\ msg[r].receives = 0
    BY <1>1
  <2>2. QED
    BY <2>1 DEF Phase, OnQueue
<1>3. ~HasResult(NoItem)
  BY DEF HasResult, NoItem
<1>4. [r \in Requests |-> HasResult(table[r])] = [r \in Requests |-> FALSE]
  <2>1. ASSUME NEW r \in Requests
        PROVE  HasResult(table[r]) = FALSE
    BY <1>1, <1>3 DEF HasResult
  <2>2. QED
    BY <2>1
<1>5. [r \in Requests |-> api[r] = "202"] = [r \in Requests |-> FALSE]
  BY <1>1
<1>6. [r \in Requests |-> request[r].payload = "malformed"]
        \in [Requests -> BOOLEAN]
  OBVIOUS
<1>7. QED
  BY <1>2, <1>4, <1>5, <1>6 DEF Promise!Init

(* The promise sees nothing of the requests a step leaves alone.           *)
LEMMA Unseen ==
    ASSUME NEW r \in Requests, Frame(r), NEW q \in Requests, q # r
    PROVE  /\ Phase(q)' = Phase(q)
           /\ msg'[q].receives = msg[q].receives
           /\ Answered(q)' = Answered(q)
           /\ Told(q)' = Told(q)
           /\ Junk(q)' = Junk(q)
  BY DEF Frame, Phase, Answered, Told, Junk, HasResult

(* A step that changes nothing the promise sees of its own request.        *)
LEMMA Stutters ==
    ASSUME NEW r \in Requests, Frame(r),
           Phase(r)' = Phase(r),
           msg'[r].receives = msg[r].receives,
           Answered(r)' = Answered(r),
           Told(r)' = Told(r),
           Junk(r)' = Junk(r)
    PROVE  UNCHANGED Promise!vars
<1>1. \A q \in Requests :
        /\ Phase(q)' = Phase(q)
        /\ msg'[q].receives = msg[q].receives
        /\ Answered(q)' = Answered(q)
        /\ Told(q)' = Told(q)
        /\ Junk(q)' = Junk(q)
  BY Unseen
<1>2. QED
  BY <1>1 DEF Promise!vars, Answered, Told, Junk

LEMMA Answers ==
    ASSUME NEW r \in Requests, Frame(r), TypeOK,
           Phase(r)' = Phase(r),
           msg'[r].receives = msg[r].receives,
           msg[r].receives > 0,
           Answered(r)',
           Told(r)' = Told(r),
           Junk(r)' = Junk(r),
           ~Junk(r)
    PROVE  Promise!Answer(r)
<1>1. \A q \in Requests :
        /\ Phase(q)' = Phase(q)
        /\ msg'[q].receives = msg[q].receives
        /\ q # r => Answered(q)' = Answered(q)
        /\ Told(q)' = Told(q)
        /\ Junk(q)' = Junk(q)
  BY Unseen
<1>2. Answered(r)' = TRUE
  BY DEF Answered, HasResult
<1>3. [q \in Requests |-> Answered(q)]'
        = [[q \in Requests |-> Answered(q)] EXCEPT ![r] = TRUE]
  BY <1>1, <1>2
<1>4. QED
  BY <1>1, <1>3 DEF Promise!Answer, Answered, Told, Junk

LEMMA HandsOver ==
    ASSUME NEW r \in Requests, Frame(r), TypeOK,
           Phase(r) = "new",
           Phase(r)' = "pending",
           msg'[r].receives = msg[r].receives,
           Answered(r)' = Answered(r),
           Told(r) => Told(r)',
           Junk(r)' = Junk(r)
    PROVE  Promise!HandOver(r)
<1>1. \A q \in Requests :
        /\ q # r => Phase(q)' = Phase(q)
        /\ msg'[q].receives = msg[q].receives
        /\ Answered(q)' = Answered(q)
        /\ q # r => Told(q)' = Told(q)
        /\ Junk(q)' = Junk(q)
  BY Unseen
<1>2. [q \in Requests |-> Phase(q)]'
        = [[q \in Requests |-> Phase(q)] EXCEPT ![r] = "pending"]
  BY <1>1
<1>3. [q \in Requests |-> Told(q)]'
        \in {[q \in Requests |-> Told(q)],
             [[q \in Requests |-> Told(q)] EXCEPT ![r] = TRUE]}
  <2>1. CASE Told(r)' = Told(r)
    BY <1>1, <2>1
  <2>2. CASE Told(r)' = TRUE
    BY <1>1, <2>2
  <2>3. QED
    BY <2>1, <2>2 DEF Told
<1>4. QED
  BY <1>1, <1>2, <1>3 DEF Promise!HandOver, Answered, Told, Junk

(* The steps of the queue: only the phase or the number of tries changes.  *)
LEMMA MovesOn ==
    ASSUME NEW r \in Requests, Frame(r), TypeOK, NEW to,
           Phase(r)' = to,
           msg'[r].receives = msg[r].receives,
           UNCHANGED <<table, request, api>>
    PROVE  /\ [q \in Requests |-> Phase(q)]'
                = [[q \in Requests |-> Phase(q)] EXCEPT ![r] = to]
           /\ [q \in Requests |-> msg[q].receives]'
                = [q \in Requests |-> msg[q].receives]
           /\ UNCHANGED [q \in Requests |-> HasResult(table[q])]
           /\ UNCHANGED [q \in Requests |-> api[q] = "202"]
           /\ UNCHANGED [q \in Requests |-> request[q].payload = "malformed"]
<1>1. \A q \in Requests :
        /\ q # r => Phase(q)' = Phase(q)
        /\ msg'[q].receives = msg[q].receives
  BY Unseen
<1>2. QED
  BY <1>1 DEF HasResult

LEMMA Tries ==
    ASSUME NEW r \in Requests, TypeOK, Frame(r), Receive(r)
    PROVE  Promise!Try(r)
<1>1. /\ msg[r].state = "visible"
      /\ msg[r].receives < MaxReceive
      /\ msg'[r] = [state |-> "inflight", receives |-> msg[r].receives + 1]
      /\ UNCHANGED <<table, request, api>>
  BY DEF TypeOK, Receive, ReceiveMessage
<1>2. Phase(r) = "pending" /\ Phase(r)' = "pending"
  BY <1>1 DEF Phase, OnQueue
<1>3. \A q \in Requests :
        /\ Phase(q)' = Phase(q)
        /\ q # r => msg'[q].receives = msg[q].receives
  BY <1>2, Unseen
<1>4. [q \in Requests |-> msg[q].receives]'
        = [[q \in Requests |-> msg[q].receives] EXCEPT ![r] = @ + 1]
  <2>1. msg'[r].receives = msg[r].receives + 1
    BY <1>1
  <2>2. QED
    BY <1>3, <2>1
<1>5. QED
  BY <1>1, <1>2, <1>3, <1>4 DEF Promise!Try, HasResult

LEMMA Finishes ==
    ASSUME NEW r \in Requests, TypeOK, Frame(r), Phase(r) = "pending",
           Phase(r)' = "done", msg'[r].receives = msg[r].receives,
           UNCHANGED <<table, request, api>>, Answered(r) \/ Junk(r)
    PROVE  Promise!Finish(r)
  BY MovesOn DEF Promise!Finish, Answered, Junk

LEMMA Parks ==
    ASSUME NEW r \in Requests, TypeOK, Frame(r), Redrive(r)
    PROVE  Promise!Park(r)
<1>1. /\ msg[r].state = "visible"
      /\ msg[r].receives = MaxReceive
      /\ msg'[r].state = "dlq"
      /\ msg'[r].receives = msg[r].receives
      /\ UNCHANGED <<table, request, api>>
  BY DEF TypeOK, Messages, Redrive, RedriveMessage
<1>2. Phase(r) = "pending" /\ Phase(r)' = "parked"
  BY <1>1 DEF Phase, OnQueue
<1>3. QED
  BY <1>1, <1>2, MovesOn DEF Promise!Park

LEMMA Outlives ==
    ASSUME NEW r \in Requests, TypeOK, Frame(r), Expire(r)
    PROVE  Promise!Outlive(r)
<1>1. /\ msg[r].state \in OnQueue
      /\ msg'[r].state = "expired"
      /\ msg'[r].receives = msg[r].receives
      /\ UNCHANGED <<table, request, api>>
  BY DEF TypeOK, Messages, Expire, MessageExpires
<1>2. Phase(r) = "pending" /\ Phase(r)' = "dropped"
  BY <1>1 DEF Phase, OnQueue
<1>3. QED
  BY <1>1, <1>2, MovesOn DEF Promise!Outlive

(* Every step of the design is a step of the promise or none.              *)
LEMMA PromiseStep == TypeOK /\ Inv /\ [Next]_vars => [Promise!Next]_Promise!vars
<1> SUFFICES ASSUME TypeOK, Inv, [Next]_vars
             PROVE  Promise!Next \/ UNCHANGED Promise!vars
  OBVIOUS
<1>1. CASE UNCHANGED vars
  BY <1>1 DEF vars, Promise!vars, Phase, HasResult
<1>2. ASSUME NEW r \in Requests, Orderly(r) \/ Failure(r)
      PROVE  Promise!Next \/ UNCHANGED Promise!vars
  <2>1. Frame(r) /\ RequestInv(r)
    BY <1>2, StepFrame DEF Inv
  <2> DEFINE Goal == Promise!Next \/ UNCHANGED Promise!vars
  <2>2. CASE UNCHANGED <<table, msg, request>> /\ Told(r)' = Told(r)
    <3>1. Phase(r)' = Phase(r) /\ Answered(r)' = Answered(r) /\ Junk(r)' = Junk(r)
      BY <2>2 DEF Phase, Answered, Junk, HasResult
    <3>2. QED
      BY <2>1, <2>2, <3>1, Stutters
  (* submit's put_item: the outcome of a request is absent before and after *)
  <2>3. ASSUME NEW code \in {"saved", "5xx"}, Respond(r, "idle", code),
               SaveItem(r), UNCHANGED msg
        PROVE  Goal
    <3>1. table[r] = NoItem /\ ~Answered(r)
      BY <2>1, <2>3
         DEF Respond, RequestInv, UnsentIsUntouched, Answered, HasResult, NoItem
    <3>2. ~Answered(r)'
      BY <2>3 DEF TypeOK, SaveItem, NoItem, Answered, HasResult
    <3>3. Phase(r)' = Phase(r) /\ Told(r)' = Told(r) /\ Junk(r)' = Junk(r)
      BY <2>3 DEF TypeOK, Respond, Phase, Told, Junk
    <3>4. Answered(r)' = Answered(r)
      BY <3>1, <3>2 DEF Answered, HasResult
    <3>5. QED
      BY <2>1, <2>3, <3>3, <3>4, Stutters
  <2>4. CASE SendMessage(r) /\ UNCHANGED <<table, request>> /\ (Told(r) => Told(r)')
    <3>1. /\ Phase(r) = "new"
          /\ Phase(r)' = "pending"
          /\ msg'[r].receives = msg[r].receives
      BY <2>4 DEF TypeOK, Messages, SendMessage, Phase, OnQueue
    <3>2. Answered(r)' = Answered(r) /\ Junk(r)' = Junk(r)
      BY <2>4 DEF Answered, Junk, HasResult
    <3>3. QED
      BY <2>1, <2>4, <3>1, <3>2, HandsOver DEF Promise!Next
  <2>5. CASE Receive(r)
    BY <2>1, <2>5, Tries DEF Promise!Next
  <2>6. CASE Redrive(r)
    BY <2>1, <2>6, Parks DEF Promise!Next
  <2>7. CASE Expire(r)
    BY <2>1, <2>7, Outlives DEF Promise!Next
  <2>8. CASE VisibilityTimeout(r)
    <3>1. Phase(r)' = Phase(r) /\ msg'[r].receives = msg[r].receives
      BY <2>8 DEF TypeOK, Messages, VisibilityTimeout, MessageReappears, Phase, OnQueue
    <3>2. Answered(r)' = Answered(r) /\ Told(r)' = Told(r) /\ Junk(r)' = Junk(r)
      BY <2>8 DEF VisibilityTimeout, Answered, Told, Junk, HasResult
    <3>3. QED
      BY <2>1, <3>1, <3>2, Stutters
  (* mark_processing leaves output and error as they were                  *)
  <2>9. ASSUME NEW n \in Deliveries, NEW to, Step(r, n, "received", to),
               SetProcessing(r), UNCHANGED msg
        PROVE  Goal
    <3>1. Phase(r)' = Phase(r) /\ Told(r)' = Told(r) /\ Junk(r)' = Junk(r)
      BY <2>9 DEF Step, Phase, Told, Junk
    <3>2. Answered(r)' = Answered(r)
      BY <2>9, TableEffects DEF TypeOK, Answered, HasResult
    <3>3. QED
      BY <2>1, <2>9, <3>1, <3>2, Stutters
  (* mark_completed and mark_failed answer                                 *)
  <2>10. ASSUME NEW n \in Deliveries, NEW from \in Running, NEW to,
                Step(r, n, from, to), SetCompleted(r) \/ SetFailed(r),
                UNCHANGED msg
         PROVE  Goal
    <3>1. Phase(r)' = Phase(r) /\ Told(r)' = Told(r) /\ Junk(r)' = Junk(r)
      BY <2>10 DEF Step, Phase, Told, Junk
    <3>2. Answered(r)'
      BY <2>10, TableEffects DEF TypeOK, Answered, HasResult
    <3>3. delivery[r][n] = from /\ delivery[r][n] # "none"
      BY <2>10 DEF Step, Running
    <3>4. ~Junk(r)
      BY <2>1, <2>10, <3>3 DEF RequestInv, WorkerHasRecorded, Junk
    <3>5. msg[r].receives > 0
      BY <2>1, <3>3, StartedIsReceived DEF TypeOK, Messages, Deliveries
    <3>6. QED
      BY <2>1, <2>10, <3>1, <3>2, <3>4, <3>5, Answers DEF Promise!Next
  <2>11. ASSUME NEW n \in Deliveries, Delete(r, n)
         PROVE  Goal
    <3>1. Answered(r) \/ Junk(r)
      BY <2>1, <2>11
         DEF Delete, Step, RequestInv, WorkerHasRecorded, Answered, Junk
    <3>2. UNCHANGED <<table, request, api>>
      BY <2>11 DEF Delete, Step
    <3>3. CASE msg[r].state \in OnQueue /\ msg' = [msg EXCEPT ![r].state = "deleted"]
      <4>1. /\ Phase(r) = "pending"
            /\ Phase(r)' = "done"
            /\ msg'[r].receives = msg[r].receives
        BY <3>3 DEF TypeOK, Messages, Phase, OnQueue
      <4>2. QED
        BY <2>1, <3>1, <3>2, <4>1, Finishes DEF Promise!Next
    <3>4. CASE UNCHANGED msg
      BY <2>2, <3>2, <3>4 DEF Told
    <3>5. QED
      BY <2>11, <3>3, <3>4 DEF Delete, DeleteMessage
  <2>12. CASE Orderly(r)
    <3>1. CASE Reject(r) \/ Save(r) \/ Publish(r) \/ PublishUnrouted(r) \/ ForeignSend(r)
      BY <2>2, <2>3, <2>4, <3>1
         DEF TypeOK, Reject, Save, Publish, PublishUnrouted, ForeignSend, Respond, Told
    <3>2. ASSUME NEW n \in Deliveries, WorkerStep(r, n)
          PROVE  Goal
      BY <2>2, <2>9, <2>10, <2>11, <3>2
         DEF WorkerStep, DropMalformed, MarkProcessing, GetModelRaises,
             ValidateRaises, PredictReturns, PredictRaises, MarkCompleted,
             StoreRefused, RecordPermanentFailure, RecordTransientFailure,
             Step, Running, Told, Unparsable
    <3>3. QED
      BY <2>5, <2>6, <2>8, <2>12, <3>1, <3>2 DEF Orderly
  <2>13. CASE Failure(r)
    <3>1. CASE SaveRaises(r) \/ PublishRaises(r)
      BY <2>2, <2>3, <2>4, <3>1
         DEF TypeOK, SaveRaises, PublishRaises, Respond, Told
    <3>2. ASSUME NEW n \in Deliveries,
                 WriteRaises(r, n) \/ DeleteLost(r, n) \/ Crash(r, n)
          PROVE  Goal
      BY <2>2, <2>9, <2>10, <3>2
         DEF WriteRaises, DeleteLost, Crash, Step, Running, Told
    <3>3. QED
      BY <2>7, <2>13, <3>1, <3>2 DEF Failure
  <2>14. QED
    BY <1>2, <2>12, <2>13
<1>3. QED
  BY <1>1, <1>2 DEF Next

(* The design keeps the promise of AtLeastOnce.                            *)
THEOREM PromiseKept == Spec => KeepsPromise
<1>1. Init => Promise!Init
  BY PromiseInit
<1>2. TypeOK /\ Inv /\ [Next]_vars => [Promise!Next]_Promise!vars
  BY PromiseStep
<1>3. QED
  BY <1>1, <1>2, Invariance, PTL DEF Spec, KeepsPromise, Promise!Spec
=============================================================================
