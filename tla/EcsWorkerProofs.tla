-------------------------- MODULE EcsWorkerProofs --------------------------
(***************************************************************************)
(* Proofs about EcsWorker, for any number of tasks, batch size and pool:   *)
(* the tasks implement InferenceService, so its theorems hold of them.     *)
(***************************************************************************)
EXTENDS EcsWorker, InferenceServiceProofs

(* Every step of the tasks is a step of InferenceService or a stutter.     *)
LEMMA EcsStep == [EcsNext]_ecsVars => [Next]_vars
<1> SUFFICES ASSUME [EcsNext]_ecsVars
             PROVE  [Next]_vars
  OBVIOUS
<1>1. CASE UNCHANGED ecsVars
  BY <1>1 DEF ecsVars, vars
<1>2. ASSUME NEW r \in Requests,
             \/ ApiStep(r)
             \/ ApiFails(r)
             \/ QueueRedrive(r)
             \/ QueueTimeout(r)
             \/ QueueExpires(r)
      PROVE  Orderly(r) \/ Failure(r)
  BY <1>2 DEF ApiStep, ApiFails, QueueRedrive, QueueTimeout, QueueExpires,
              Orderly, Failure
<1>3. ASSUME NEW w \in Workers, Poll(w)
      PROVE  Next \/ UNCHANGED vars
  <2>1. ASSUME NEW r \in Requests, Take(w, r)
        PROVE  Orderly(r)
    BY <2>1 DEF Take, Orderly
  <2>2. ASSUME NEW r \in Requests, NEW n \in Deliveries, DeleteEntry(w, r, n)
        PROVE  Orderly(r)
    BY <2>2 DEF DeleteEntry, Orderly, WorkerStep
  <2>3. QED
    BY <1>3, <2>1, <2>2
       DEF Poll, Next, StartPoll, StopLoop, ReceiveReturns, BatchDone,
           BatchRaises, BatchDeleted, Restart
<1>4. ASSUME NEW w \in Workers, Threads(w)
      PROVE  Next
  BY <1>4 DEF Threads, HandleStep, Next, Orderly
<1>5. ASSUME NEW w \in Workers, TaskFails(w)
      PROVE  Next \/ UNCHANGED vars
  <2>1. ASSUME NEW r \in Requests, NEW n \in Deliveries,
               HandleFails(w, r, n) \/ DeleteFails(w, r, n)
        PROVE  Failure(r)
    BY <2>1 DEF HandleFails, DeleteFails, Failure
  <2>2. QED
    BY <1>5, <2>1 DEF TaskFails, Next, ReceiveRaises, Kill
<1>6. ASSUME NEW w \in Workers, Sigterm(w)
      PROVE  UNCHANGED vars
  BY <1>6 DEF Sigterm
<1>7. QED
  BY <1>1, <1>2, <1>3, <1>4, <1>5, <1>6 DEF EcsNext, Next

(* Tasks that poll, batch, share threads, drain, die and are replaced      *)
(* implement InferenceService.                                             *)
THEOREM EcsImplementsService == EcsSpec => ImplementsService
<1>1. EcsInit => Init
  BY DEF EcsInit
<1>2. [EcsNext]_ecsVars => [Next]_vars
  BY EcsStep
<1>3. QED
  BY <1>1, <1>2, PTL DEF EcsSpec, ImplementsService, Spec

(* So they delete no message that names a request before its outcome is    *)
(* stored, and keep the promise of the API.                                *)
THEOREM EcsDeletedAnswered == EcsSpec => []DeletedIsAnswered /\ KeepsPromise
  BY EcsImplementsService, DeletedAnswered, PromiseKept, PTL
     DEF ImplementsService
----------------------------------------------------------------------------
(* Types: what a task holds.                                               *)

(* No step of the service makes a delivery one that was never started.     *)
LEMMA StartedStays ==
    ASSUME TypeOK, [Next]_vars, NEW r \in Requests, NEW n \in Deliveries,
           delivery[r][n] # "none"
    PROVE  delivery'[r][n] # "none"
<1>1. CASE UNCHANGED delivery
  BY <1>1
<1>2. ASSUME NEW q \in Requests, Receive(q)
      PROVE  delivery'[r][n] # "none"
  BY <1>2 DEF TypeOK, Receive
<1>3. ASSUME NEW q \in Requests, NEW m \in Deliveries, NEW from,
             NEW to \in DeliveryStates \ {"none"}, Step(q, m, from, to)
      PROVE  delivery'[r][n] # "none"
  BY <1>3 DEF TypeOK, Step
<1>4. ASSUME NEW q \in Requests, Orderly(q) \/ Failure(q)
      PROVE  delivery'[r][n] # "none"
  <2> USE DEF DeliveryStates
  <2>1. ASSUME NEW m \in Deliveries, WorkerStep(q, m)
        PROVE  delivery'[r][n] # "none"
    BY <1>3, <2>1 DEF WorkerStep, DropMalformed, MarkProcessing,
       GetModelRaises, ValidateRaises, PredictReturns, PredictRaises,
       MarkCompleted, StoreRefused, RecordPermanentFailure,
       RecordTransientFailure, Delete
  <2>2. ASSUME NEW m \in Deliveries,
               WriteRaises(q, m) \/ DeleteLost(q, m) \/ Crash(q, m)
        PROVE  delivery'[r][n] # "none"
    BY <1>3, <2>2 DEF WriteRaises, DeleteLost, Crash
  <2>3. QED
    BY <1>1, <1>2, <1>4, <2>1, <2>2 DEF Orderly, Failure, Reject, Save,
       Publish, PublishUnrouted, ForeignSend, Redrive, VisibilityTimeout,
       SaveRaises, PublishRaises, Expire, Respond
<1>5. QED
  BY <1>1, <1>4 DEF Next, vars

LEMMA Pairs ==
    ASSUME NEW d \in Requests \X Deliveries
    PROVE  d[1] \in Requests /\ d[2] \in Deliveries /\ d = <<d[1], d[2]>>
  OBVIOUS

EcsTypeInv ==
    /\ TypeOK
    /\ EcsTypeOK
    /\ \A w \in Workers : IsFiniteSet(batch[w])

LEMMA EcsTypeInit == EcsInit => EcsTypeInv
<1> SUFFICES ASSUME EcsInit
             PROVE  EcsTypeInv
  OBVIOUS
<1>1. TypeOK
  BY TypeInit DEF EcsInit
<1>2. \A w \in Workers :
          batch[w] = {} /\ IsFiniteSet(batch[w]) /\ Cardinality(batch[w]) = 0
  BY FS_EmptySet DEF EcsInit
<1>3. QED
  BY <1>1, <1>2, BatchAssumption, StopsAssumption
     DEF EcsInit, EcsTypeInv, EcsTypeOK, Held, Phases

(* What one step does to what each task holds: nothing, one delivery just  *)
(* received into a batch that was not full, or letting go of everything.   *)
LEMMA BatchEffect ==
    ASSUME EcsTypeInv, [EcsNext]_ecsVars
    PROVE  \/ UNCHANGED batch
           \/ \E w \in Workers : LetGo(w)
           \/ \E w \in Workers, r \in Requests : Take(w, r)
  BY DEF EcsNext, ApiStep, ApiFails, QueueRedrive, QueueTimeout, QueueExpires,
     Poll, StartPoll, StopLoop, ReceiveReturns, BatchDone, BatchRaises,
     DeleteEntry, BatchDeleted, Restart, Threads, HandleStep, TaskFails,
     ReceiveRaises, Kill, HandleFails, DeleteFails, Sigterm, taskVars, ecsVars

LEMMA BatchTypes ==
    ASSUME EcsTypeInv, [EcsNext]_ecsVars
    PROVE  /\ batch' \in Held
           /\ \A w \in Workers :
                /\ IsFiniteSet(batch'[w])
                /\ Cardinality(batch'[w]) <= BatchSize
                /\ \A d \in batch'[w] : delivery'[d[1]][d[2]] # "none"
<1> USE DEF EcsTypeInv, EcsTypeOK, Held
<1>1. ASSUME NEW w \in Workers, NEW d \in batch[w]
      PROVE  delivery'[d[1]][d[2]] # "none"
  <2>1. d[1] \in Requests /\ d[2] \in Deliveries
    BY <1>1, Pairs
  <2>2. QED
    BY <1>1, <2>1, EcsStep, StartedStays
<1>2. CASE UNCHANGED batch
  BY <1>1, <1>2
<1>3. ASSUME NEW v \in Workers, LetGo(v)
      PROVE  /\ batch' \in Held
             /\ \A w \in Workers :
                  /\ IsFiniteSet(batch'[w])
                  /\ Cardinality(batch'[w]) <= BatchSize
                  /\ \A d \in batch'[w] : delivery'[d[1]][d[2]] # "none"
  BY <1>1, <1>3, FS_EmptySet, BatchAssumption DEF LetGo
<1>4. ASSUME NEW v \in Workers, NEW r \in Requests, Take(v, r)
      PROVE  /\ batch' \in Held
             /\ \A w \in Workers :
                  /\ IsFiniteSet(batch'[w])
                  /\ Cardinality(batch'[w]) <= BatchSize
                  /\ \A d \in batch'[w] : delivery'[d[1]][d[2]] # "none"
  <2> DEFINE n == msg[r].receives + 1
  <2>1. n \in Deliveries
    BY <1>4, MaxReceiveAssumption
       DEF Take, Receive, ReceiveMessage, TypeOK, Messages, Deliveries
  <2>2. /\ batch' = [batch EXCEPT ![v] = batch[v] \cup {<<r, n>>}]
        /\ Cardinality(batch[v]) < BatchSize
        /\ delivery' = [delivery EXCEPT ![r][n] = "received"]
    BY <1>4 DEF Take, Receive
  <2>3. delivery'[r][n] = "received"
    BY <2>1, <2>2 DEF TypeOK
  <2> HIDE DEF n
  <2>4. IsFiniteSet(batch[v]) /\ Cardinality(batch[v]) \in Nat
    BY FS_CardinalityType
  <2>5. /\ IsFiniteSet(batch[v] \cup {<<r, n>>})
        /\ Cardinality(batch[v] \cup {<<r, n>>}) <= BatchSize
    <3>1. /\ IsFiniteSet(batch[v] \cup {<<r, n>>})
          /\ Cardinality(batch[v] \cup {<<r, n>>})
                 \in {Cardinality(batch[v]), Cardinality(batch[v]) + 1}
      BY <2>4, FS_AddElement
    <3>2. QED
      BY <2>2, <2>4, <3>1, BatchAssumption
  <2>6. batch' \in Held
    BY <2>1, <2>2
  <2>7. QED
    BY <1>1, <2>2, <2>3, <2>5, <2>6
<1>5. QED
  BY <1>2, <1>3, <1>4, BatchEffect

LEMMA EcsTypeStep ==
    ASSUME EcsTypeInv, [EcsNext]_ecsVars
    PROVE  EcsTypeInv'
<1>1. TypeOK'
  BY EcsStep, TypeStep DEF EcsTypeInv
<1> USE DEF EcsTypeInv, EcsTypeOK, Held, Phases
<1> DEFINE P == /\ running' \in [Workers -> BOOLEAN]
                /\ phase' \in [Workers -> Phases]
                /\ stops' \in 0..MaxStops
                /\ \A w \in Workers :
                      phase'[w] \in {"loop", "stopped", "killed"} => batch'[w] = {}
<1>2. P
  <2>1. CASE UNCHANGED taskVars
    BY <2>1 DEF taskVars
  <2>2. ASSUME NEW w \in Workers, StartPoll(w) \/ StopLoop(w)
        PROVE  P
    BY <2>2 DEF StartPoll, StopLoop, Enter
  <2>3. ASSUME NEW w \in Workers, NEW r \in Requests, Take(w, r)
        PROVE  P
    BY <2>3 DEF Take
  <2>4. ASSUME NEW w \in Workers, ReceiveReturns(w) \/ BatchDone(w)
        PROVE  P
    BY <2>4 DEF ReceiveReturns, BatchDone, Enter
  <2>5. ASSUME NEW w \in Workers,
               BatchRaises(w) \/ BatchDeleted(w) \/ ReceiveRaises(w)
        PROVE  P
    BY <2>5 DEF BatchRaises, BatchDeleted, ReceiveRaises, Enter, LetGo
  <2>6. ASSUME NEW w \in Workers, Kill(w)
        PROVE  P
    BY <2>6 DEF Kill, LetGo
  <2>7. ASSUME NEW w \in Workers, Sigterm(w)
        PROVE  P
    BY <2>7, StopsAssumption DEF Sigterm
  <2>8. ASSUME NEW w \in Workers, Restart(w)
        PROVE  P
    BY <2>8 DEF Restart
  <2>9. QED
    BY <2>1, <2>2, <2>3, <2>4, <2>5, <2>6, <2>7, <2>8
       DEF EcsNext, ApiStep, ApiFails, QueueRedrive, QueueTimeout,
           QueueExpires, Poll, DeleteEntry, Threads, HandleStep, TaskFails,
           HandleFails, DeleteFails, taskVars, ecsVars
<1>3. QED
  BY <1>1, <1>2, BatchTypes

(* However tasks poll, stop, are killed and replaced, none holds more than *)
(* a batch, none holds a delivery that was not received, and none that is  *)
(* between batches, stopped or gone holds anything.                        *)
THEOREM EcsTypeCorrect == EcsSpec => []EcsTypeOK
<1>1. EcsInit => EcsTypeInv
  BY EcsTypeInit
<1>2. EcsTypeInv /\ [EcsNext]_ecsVars => EcsTypeInv'
  BY EcsTypeStep
<1>3. EcsTypeInv => EcsTypeOK
  BY DEF EcsTypeInv
<1>4. QED
  BY <1>1, <1>2, <1>3, PTL DEF EcsSpec
----------------------------------------------------------------------------
(* Where the visibility timeout is respected and nothing fails, a message  *)
(* has one holder at a time.  The inductive invariant of PromptSpec:       *)

(* a task holds the current delivery of an ECS message, no other task does *)
(* too, and the message is in flight until the task has deleted it;        *)
HeldIsCurrent(r) ==
    \A w \in Workers, n \in Deliveries : <<r, n>> \in batch[w] =>
        /\ request[r].backend = "ecs"
        /\ n = msg[r].receives
        /\ \/ msg[r].state = "inflight"
           \/ msg[r].state = "deleted" /\ delivery[r][n] = "end"
        /\ \A v \in Workers : <<r, n>> \in batch[v] => v = w

(* a delivery that has not ended is held by a task: none is abandoned;     *)
BusyIsHeld(r) ==
    \A n \in Deliveries : delivery[r][n] \notin {"none", "end"} =>
        \E w \in Workers : <<r, n>> \in batch[w]

(* and a COMPLETED record has its message deleted or about to be.          *)
CompletedIsAcked(r) ==
    table[r].status = "COMPLETED" =>
        \/ msg[r].state = "deleted"
        \/ /\ msg[r].receives \in Deliveries
           /\ delivery[r][msg[r].receives] = "ack"

PromptInv ==
    /\ \A r \in Requests :
          HeldIsCurrent(r) /\ BusyIsHeld(r) /\ CompletedIsAcked(r)
    /\ \A w \in Workers : phase[w] = "deleting" => AllDone(w)

(* The behaviours without failures are behaviours of the tasks.            *)
LEMMA PromptStep == [PromptNext]_ecsVars => [EcsNext]_ecsVars
  BY DEF PromptNext, EcsNext, PromptTimeout

LEMMA PromptInvInit == EcsInit => PromptInv
<1> SUFFICES ASSUME EcsInit
             PROVE  PromptInv
  OBVIOUS
<1>1. /\ \A r \in Requests :
            /\ table[r].status = "ABSENT"
            /\ \A n \in Deliveries : delivery[r][n] = "none"
      /\ \A w \in Workers : batch[w] = {} /\ phase[w] = "loop"
  BY DEF EcsInit, Init, TableInit, NoItem
<1>2. QED
  BY <1>1 DEF PromptInv, HeldIsCurrent, BusyIsHeld, CompletedIsAcked

(* A message that nobody holds has no busy delivery and, unless deleted,   *)
(* no COMPLETED record.                                                    *)
LEMMA UnheldIsIdle ==
    ASSUME PromptInv, NEW r \in Requests,
           \A w \in Workers, n \in Deliveries : <<r, n>> \notin batch[w]
    PROVE  /\ \A n \in Deliveries : delivery[r][n] \in {"none", "end"}
           /\ table[r].status = "COMPLETED" => msg[r].state = "deleted"
  BY DEF PromptInv, BusyIsHeld, CompletedIsAcked

(* A message outside the consumers' hands is held by nobody.               *)
LEMMA AwayIsUnheld ==
    ASSUME PromptInv, NEW r \in Requests,
           msg[r].state \notin {"inflight", "deleted"}
    PROVE  \A w \in Workers, n \in Deliveries : <<r, n>> \notin batch[w]
  BY DEF PromptInv, HeldIsCurrent

(* What a thread's step does to its delivery, its message and the status.  *)
LEMMA ThreadEffect ==
    ASSUME TypeOK, NEW r \in Requests, NEW n \in Deliveries,
           WorkerStep(r, n), delivery[r][n] # "ack"
    PROVE  /\ delivery[r][n] \notin {"none", "end", "ack"}
           /\ msg' = msg
           /\ request' = request
           /\ table'[r].status = "COMPLETED" =>
                 table[r].status = "COMPLETED" \/ delivery'[r][n] = "ack"
<1>1. delivery[r][n] \notin {"none", "end", "ack"} /\ msg' = msg /\ request' = request
  BY DEF WorkerStep, DropMalformed, MarkProcessing, GetModelRaises,
     ValidateRaises, PredictReturns, PredictRaises, MarkCompleted,
     StoreRefused, RecordPermanentFailure, RecordTransientFailure, Delete, Step
<1>2. \/ UNCHANGED table
      \/ SetProcessing(r)
      \/ SetFailed(r)
      \/ Step(r, n, "complete", "ack")
  BY DEF WorkerStep, DropMalformed, MarkProcessing, GetModelRaises,
     ValidateRaises, PredictReturns, PredictRaises, MarkCompleted,
     StoreRefused, RecordPermanentFailure, RecordTransientFailure, Delete
<1>3. Step(r, n, "complete", "ack") => delivery'[r][n] = "ack"
  BY DEF TypeOK, Step
<1>4. QED
  BY <1>1, <1>2, <1>3, TableEffects DEF TypeOK

(* A step that changes neither batches nor deliveries keeps the invariant  *)
(* if it leaves held messages alone and completes none.                    *)
LEMMA QuietKeeps ==
    ASSUME PromptInv, UNCHANGED <<request, delivery, batch>>,
           \A r \in Requests :
              /\ \/ msg'[r] = msg[r]
                 \/ \A w \in Workers, n \in Deliveries : <<r, n>> \notin batch[w]
              /\ table'[r].status = "COMPLETED" =>
                    table[r].status = "COMPLETED" /\ (msg'[r] = msg[r])
    PROVE  \A r \in Requests :
              HeldIsCurrent(r)' /\ BusyIsHeld(r)' /\ CompletedIsAcked(r)'
  BY DEF PromptInv, HeldIsCurrent, BusyIsHeld, CompletedIsAcked

LEMMA PromptInvStep ==
    ASSUME EcsTypeInv, PromptInv, [PromptNext]_ecsVars,
           \A s \in Submissions :
               s.backend = "ecs" => s.payload # "not_an_object"
    PROVE  PromptInv'
<1>t. /\ TypeOK
      /\ batch \in Held
      /\ phase \in [Workers -> Phases]
      /\ \A w \in Workers :
            phase[w] \in {"loop", "stopped", "killed"} => batch[w] = {}
  BY DEF EcsTypeInv, EcsTypeOK
<1>q. ASSUME UNCHANGED <<vars, batch>>,
             \A w \in Workers :
                 phase'[w] = "deleting" => phase[w] = "deleting" \/ AllDone(w)
      PROVE  PromptInv'
  <2>1. \A r \in Requests :
            HeldIsCurrent(r)' /\ BusyIsHeld(r)' /\ CompletedIsAcked(r)'
    BY <1>q, QuietKeeps DEF vars
  <2>2. QED
    BY <1>q, <2>1 DEF PromptInv, AllDone, vars
<1>m. ASSUME NEW r \in Requests, UNCHANGED <<request, delivery, taskVars>>,
             Frame(r),
             \/ msg'[r] = msg[r]
             \/ \A w \in Workers, n \in Deliveries : <<r, n>> \notin batch[w],
             table'[r].status = "COMPLETED" =>
                 table[r].status = "COMPLETED" /\ (msg'[r] = msg[r])
      PROVE  PromptInv'
  <2>1. \A q \in Requests :
            HeldIsCurrent(q)' /\ BusyIsHeld(q)' /\ CompletedIsAcked(q)'
    BY <1>m, QuietKeeps DEF Frame, taskVars
  <2>2. QED
    BY <1>m, <2>1 DEF PromptInv, AllDone, taskVars
<1>1. CASE UNCHANGED ecsVars
  BY <1>q, <1>1 DEF ecsVars, vars
<1>2. ASSUME NEW r \in Requests, ApiStep(r)
      PROVE  PromptInv'
  <2>1. Frame(r)
    BY <1>t, <1>2, StepFrame DEF ApiStep, Orderly
  <2>2. UNCHANGED <<request, delivery, taskVars>>
    BY <1>2 DEF ApiStep, Reject, Save, Publish, PublishUnrouted, ForeignSend, Respond
  <2>3. CASE msg' = msg
    <3>1. table'[r].status = "COMPLETED" => table[r].status = "COMPLETED"
      BY <1>t, <1>2, <2>3 DEF ApiStep, Reject, Save, Publish, PublishUnrouted,
         ForeignSend, SaveItem, NoItem, TypeOK
    <3>2. QED
      BY <1>m, <2>1, <2>2, <2>3, <3>1
  <2>4. CASE SendMessage(r) /\ UNCHANGED table
    <3>1. msg[r].state = "unsent"
      BY <2>4 DEF SendMessage
    <3>2. \A w \in Workers, n \in Deliveries : <<r, n>> \notin batch[w]
      BY <3>1, AwayIsUnheld
    <3>3. table[r].status # "COMPLETED"
      BY <3>1, <3>2, UnheldIsIdle
    <3>4. QED
      BY <1>m, <2>1, <2>2, <2>4, <3>2, <3>3
  <2>5. QED
    BY <1>2, <2>3, <2>4
       DEF ApiStep, Reject, Save, Publish, PublishUnrouted, ForeignSend
<1>3. ASSUME NEW r \in Requests, QueueRedrive(r)
      PROVE  PromptInv'
  <2>1. msg[r].state = "visible"
    BY <1>3 DEF QueueRedrive, Redrive, RedriveMessage
  <2>2. \A w \in Workers, n \in Deliveries : <<r, n>> \notin batch[w]
    BY <2>1, AwayIsUnheld
  <2>3. table[r].status # "COMPLETED"
    BY <2>1, <2>2, UnheldIsIdle
  <2>4. Frame(r)
    BY <1>t, <1>3, StepFrame DEF QueueRedrive, Orderly
  <2>5. UNCHANGED <<table, request, delivery, taskVars>>
    BY <1>3 DEF QueueRedrive, Redrive
  <2>6. QED
    BY <1>m, <2>2, <2>3, <2>4, <2>5
<1>4. ASSUME NEW r \in Requests, PromptTimeout(r)
      PROVE  PromptInv'
  <2>1. /\ msg[r].state = "inflight"
        /\ \A w \in Workers : <<r, msg[r].receives>> \notin batch[w]
    BY <1>4 DEF PromptTimeout, QueueTimeout, VisibilityTimeout, MessageReappears
  <2>2. \A w \in Workers, n \in Deliveries : <<r, n>> \notin batch[w]
    BY <2>1 DEF PromptInv, HeldIsCurrent
  <2>3. table[r].status # "COMPLETED"
    BY <2>1, <2>2, UnheldIsIdle
  <2>4. Frame(r)
    BY <1>t, <1>4, StepFrame DEF PromptTimeout, QueueTimeout, Orderly
  <2>5. UNCHANGED <<table, request, delivery, taskVars>>
    BY <1>4 DEF PromptTimeout, QueueTimeout, VisibilityTimeout
  <2>6. QED
    BY <1>m, <2>2, <2>3, <2>4, <2>5
<1>5. ASSUME NEW w \in Workers,
             \/ StartPoll(w) \/ StopLoop(w) \/ ReceiveReturns(w)
             \/ BatchDone(w) \/ Restart(w) \/ Sigterm(w)
      PROVE  PromptInv'
  <2>1. UNCHANGED <<vars, batch>>
    BY <1>5 DEF StartPoll, StopLoop, ReceiveReturns, BatchDone, Restart, Sigterm
  <2>2. \A v \in Workers :
            phase'[v] = "deleting" => phase[v] = "deleting" \/ AllDone(v)
    BY <1>t, <1>5 DEF StartPoll, StopLoop, ReceiveReturns, BatchDone, Restart,
       Sigterm, Enter
  <2>3. QED
    BY <1>q, <2>1, <2>2
<1>6. ASSUME NEW w \in Workers, NEW r \in Requests, Take(w, r)
      PROVE  PromptInv'
  <2> DEFINE n == msg[r].receives + 1
  <2>1. /\ msg[r].state = "visible"
        /\ msg'[r] = [state |-> "inflight", receives |-> n]
        /\ n \in Deliveries
    BY <1>t, <1>6, MaxReceiveAssumption
       DEF Take, Receive, ReceiveMessage, TypeOK, Messages, Deliveries
  <2>2. \A v \in Workers, m \in Deliveries : <<r, m>> \notin batch[v]
    BY <2>1, AwayIsUnheld
  <2>3. table[r].status # "COMPLETED"
    BY <2>1, <2>2, UnheldIsIdle
  <2>4. /\ Frame(r)
        /\ request' = request /\ table' = table /\ phase' = phase
    BY <1>t, <1>6, StepFrame DEF Take, Receive, Orderly
  <2>5. /\ batch' = [batch EXCEPT ![w] = batch[w] \cup {<<r, n>>}]
        /\ delivery' = [delivery EXCEPT ![r][n] = "received"]
        /\ phase[w] = "receiving"
        /\ request[r].backend = "ecs"
    BY <1>6 DEF Take, Receive
  <2> HIDE DEF n
  <2>6. \A v \in Workers, q \in Requests, m \in Deliveries :
            <<q, m>> \in batch'[v]
                <=> <<q, m>> \in batch[v] \/ (v = w /\ q = r /\ m = n)
    BY <1>t, <2>5 DEF Held
  <2>7. \A m \in Deliveries :
            delivery'[r][m] = IF m = n THEN "received" ELSE delivery[r][m]
    BY <1>t, <2>1, <2>5 DEF TypeOK
  <2>8. HeldIsCurrent(r)' /\ BusyIsHeld(r)' /\ CompletedIsAcked(r)'
    <3>1. HeldIsCurrent(r)'
      BY <2>1, <2>2, <2>4, <2>5, <2>6 DEF HeldIsCurrent
    <3>2. BusyIsHeld(r)'
      BY <2>2, <2>6, <2>7, UnheldIsIdle DEF BusyIsHeld
    <3>3. CompletedIsAcked(r)'
      BY <2>3, <2>4 DEF CompletedIsAcked
    <3>4. QED
      BY <3>1, <3>2, <3>3
  <2>9. ASSUME NEW q \in Requests, q # r
        PROVE  HeldIsCurrent(q)' /\ BusyIsHeld(q)' /\ CompletedIsAcked(q)'
    <3>1. /\ table'[q] = table[q] /\ msg'[q] = msg[q]
          /\ request'[q] = request[q] /\ delivery'[q] = delivery[q]
      BY <2>4, <2>9 DEF Frame
    <3>2. \A v \in Workers, m \in Deliveries :
              <<q, m>> \in batch'[v] <=> <<q, m>> \in batch[v]
      BY <2>6, <2>9
    <3>3. QED
      BY <3>1, <3>2 DEF PromptInv, HeldIsCurrent, BusyIsHeld, CompletedIsAcked
  <2>10. ASSUME NEW v \in Workers, phase'[v] = "deleting"
         PROVE  AllDone(v)'
    <3>1. v # w /\ batch'[v] = batch[v] /\ AllDone(v)
      BY <1>t, <2>4, <2>5, <2>10 DEF PromptInv, Held
    <3>2. \A d \in batch[v] : delivery'[d[1]][d[2]] = delivery[d[1]][d[2]]
      <4> SUFFICES ASSUME NEW d \in batch[v]
                   PROVE  delivery'[d[1]][d[2]] = delivery[d[1]][d[2]]
        OBVIOUS
      <4>1. d[1] \in Requests /\ d[2] \in Deliveries /\ d = <<d[1], d[2]>>
        BY <1>t, Pairs DEF Held
      <4>2. d[1] # r
        BY <2>2, <4>1
      <4>3. QED
        BY <2>4, <4>1, <4>2 DEF Frame
    <3>3. QED
      BY <3>1, <3>2 DEF AllDone
  <2>11. QED
    BY <2>8, <2>9, <2>10 DEF PromptInv
<1>7. ASSUME NEW w \in Workers, NEW r \in Requests, NEW n \in Deliveries,
             HandleStep(w, r, n)
      PROVE  PromptInv'
  <2>1. /\ phase[w] = "handling" /\ <<r, n>> \in batch[w]
        /\ WorkerStep(r, n) /\ delivery[r][n] # "ack"
        /\ UNCHANGED <<phase, batch>>
    BY <1>7 DEF HandleStep, taskVars
  <2>2. /\ delivery[r][n] \notin {"none", "end", "ack"}
        /\ msg' = msg /\ request' = request
        /\ table'[r].status = "COMPLETED" =>
              table[r].status = "COMPLETED" \/ delivery'[r][n] = "ack"
    BY <1>t, <2>1, ThreadEffect
  <2>3. /\ n = msg[r].receives /\ msg[r].state = "inflight"
        /\ \A v \in Workers : <<r, n>> \in batch[v] => v = w
    BY <2>1, <2>2 DEF PromptInv, HeldIsCurrent
  <2>4. table[r].status # "COMPLETED"
    BY <2>2, <2>3 DEF PromptInv, CompletedIsAcked
  <2>5. Frame(r)
    BY <1>t, <2>1, StepFrame DEF Orderly
  <2>6. \A m \in Deliveries : m # n => delivery'[r][m] = delivery[r][m]
    <3>1. \E from, to \in DeliveryStates : Step(r, n, from, to)
      BY <2>1 DEF WorkerStep, DropMalformed, MarkProcessing, GetModelRaises,
         ValidateRaises, PredictReturns, PredictRaises, MarkCompleted,
         StoreRefused, RecordPermanentFailure, RecordTransientFailure, Delete,
         DeliveryStates
    <3>2. QED
      BY <1>t, <3>1 DEF TypeOK, Step
  <2>7. HeldIsCurrent(r)' /\ BusyIsHeld(r)' /\ CompletedIsAcked(r)'
    <3>1. HeldIsCurrent(r)'
      BY <2>1, <2>2, <2>3 DEF PromptInv, HeldIsCurrent
    <3>2. BusyIsHeld(r)'
      BY <2>1, <2>6 DEF PromptInv, BusyIsHeld
    <3>3. CompletedIsAcked(r)'
      BY <2>2, <2>3, <2>4 DEF CompletedIsAcked
    <3>4. QED
      BY <3>1, <3>2, <3>3
  <2>8. ASSUME NEW q \in Requests, q # r
        PROVE  HeldIsCurrent(q)' /\ BusyIsHeld(q)' /\ CompletedIsAcked(q)'
    <3>1. /\ table'[q] = table[q] /\ msg'[q] = msg[q]
          /\ request'[q] = request[q] /\ delivery'[q] = delivery[q]
      BY <2>5, <2>8 DEF Frame
    <3>2. QED
      BY <2>1, <3>1 DEF PromptInv, HeldIsCurrent, BusyIsHeld, CompletedIsAcked
  <2>9. ASSUME NEW v \in Workers, phase'[v] = "deleting"
        PROVE  AllDone(v)'
    <3>1. v # w /\ AllDone(v)
      BY <2>1, <2>9 DEF PromptInv
    <3>2. \A d \in batch[v] : delivery'[d[1]][d[2]] = delivery[d[1]][d[2]]
      <4> SUFFICES ASSUME NEW d \in batch[v]
                   PROVE  delivery'[d[1]][d[2]] = delivery[d[1]][d[2]]
        OBVIOUS
      <4>1. d[1] \in Requests /\ d[2] \in Deliveries /\ d = <<d[1], d[2]>>
        BY <1>t, Pairs DEF Held
      <4>2. d[1] # r \/ d[2] # n
        BY <2>3, <3>1, <4>1
      <4>3. QED
        BY <2>5, <2>6, <4>1, <4>2 DEF Frame
    <3>3. QED
      BY <2>1, <3>1, <3>2 DEF AllDone
  <2>10. QED
    BY <2>7, <2>8, <2>9 DEF PromptInv
<1>8. ASSUME NEW w \in Workers, NEW r \in Requests, NEW n \in Deliveries,
             DeleteEntry(w, r, n)
      PROVE  PromptInv'
  <2>1. /\ phase[w] = "deleting" /\ <<r, n>> \in batch[w]
        /\ Delete(r, n)
        /\ UNCHANGED <<phase, batch>>
    BY <1>8 DEF DeleteEntry, taskVars
  <2>2. /\ delivery[r][n] = "ack"
        /\ delivery' = [delivery EXCEPT ![r][n] = "end"]
        /\ request' = request /\ table' = table
        /\ DeleteMessage(r, n)
    BY <2>1 DEF Delete, Step
  <2>3. n = msg[r].receives /\ msg[r].state = "inflight"
    BY <2>1, <2>2 DEF PromptInv, HeldIsCurrent
  <2>4. msg'[r].state = "deleted" /\ msg'[r].receives = msg[r].receives
    BY <1>t, <2>2, <2>3 DEF DeleteMessage, TypeOK, Messages
  <2>5. Frame(r)
    BY <1>t, <2>1, StepFrame DEF Orderly, WorkerStep
  <2>6. \A m \in Deliveries :
            delivery'[r][m] = IF m = n THEN "end" ELSE delivery[r][m]
    BY <1>t, <2>2 DEF TypeOK
  <2>7. HeldIsCurrent(r)' /\ BusyIsHeld(r)' /\ CompletedIsAcked(r)'
    <3>1. HeldIsCurrent(r)'
      BY <2>1, <2>2, <2>3, <2>4, <2>6 DEF PromptInv, HeldIsCurrent
    <3>2. BusyIsHeld(r)'
      BY <2>1, <2>6 DEF PromptInv, BusyIsHeld
    <3>3. CompletedIsAcked(r)'
      BY <2>4 DEF CompletedIsAcked
    <3>4. QED
      BY <3>1, <3>2, <3>3
  <2>8. ASSUME NEW q \in Requests, q # r
        PROVE  HeldIsCurrent(q)' /\ BusyIsHeld(q)' /\ CompletedIsAcked(q)'
    <3>1. /\ table'[q] = table[q] /\ msg'[q] = msg[q]
          /\ request'[q] = request[q] /\ delivery'[q] = delivery[q]
      BY <2>5, <2>8 DEF Frame
    <3>2. QED
      BY <2>1, <3>1 DEF PromptInv, HeldIsCurrent, BusyIsHeld, CompletedIsAcked
  <2>9. ASSUME NEW v \in Workers, phase'[v] = "deleting"
        PROVE  AllDone(v)'
    <3>1. AllDone(v)
      BY <2>1, <2>9 DEF PromptInv
    <3>2. ASSUME NEW d \in batch[v]
          PROVE  \/ delivery'[d[1]][d[2]] = delivery[d[1]][d[2]]
                 \/ delivery'[d[1]][d[2]] = "end"
      <4>1. d[1] \in Requests /\ d[2] \in Deliveries
        BY <1>t, <3>2, Pairs DEF Held
      <4>2. QED
        BY <2>5, <2>6, <4>1 DEF Frame
    <3>3. QED
      BY <2>1, <3>1, <3>2 DEF AllDone
  <2>10. QED
    BY <2>7, <2>8, <2>9 DEF PromptInv
<1>9. ASSUME NEW w \in Workers, BatchRaises(w)
      PROVE  FALSE
  <2>1. PICK d \in batch[w] : request[d[1]].payload = "not_an_object"
    BY <1>9 DEF BatchRaises, SomeRaised
  <2>2. d[1] \in Requests /\ d[2] \in Deliveries /\ d = <<d[1], d[2]>>
    BY <1>t, <2>1, Pairs DEF Held
  <2>3. request[d[1]].backend = "ecs" /\ request[d[1]] \in Submissions
    BY <1>t, <2>1, <2>2 DEF PromptInv, HeldIsCurrent, TypeOK
  <2>4. QED
    BY <2>1, <2>3
<1>10. ASSUME NEW w \in Workers, BatchDeleted(w)
       PROVE  PromptInv'
  <2>1. /\ phase[w] = "deleting" /\ UNCHANGED vars
        /\ batch' = [batch EXCEPT ![w] = {}]
        /\ phase' = [phase EXCEPT ![w] = "loop"]
        /\ \A d \in batch[w] : delivery[d[1]][d[2]] # "ack"
    BY <1>10 DEF BatchDeleted, Enter, LetGo
  <2>2. \A r \in Requests, n \in Deliveries :
            <<r, n>> \in batch[w] => delivery[r][n] = "end"
    <3> SUFFICES ASSUME NEW r \in Requests, NEW n \in Deliveries,
                        <<r, n>> \in batch[w]
                 PROVE  delivery[r][n] = "end"
      OBVIOUS
    <3>1. AllDone(w)
      BY <2>1 DEF PromptInv
    <3>2. delivery[<<r, n>>[1]][<<r, n>>[2]] \in {"ack", "end"} \ {"ack"}
      BY <2>1, <3>1 DEF AllDone
    <3>3. QED
      BY <3>2
  <2>3. \A v \in Workers : batch'[v] = IF v = w THEN {} ELSE batch[v]
    BY <1>t, <2>1 DEF Held
  <2>4. ASSUME NEW r \in Requests
        PROVE  HeldIsCurrent(r)' /\ BusyIsHeld(r)' /\ CompletedIsAcked(r)'
    <3>1. HeldIsCurrent(r)'
      BY <2>1, <2>3 DEF PromptInv, HeldIsCurrent, vars
    <3>2. BusyIsHeld(r)'
      BY <2>1, <2>2, <2>3 DEF PromptInv, BusyIsHeld, vars
    <3>3. CompletedIsAcked(r)'
      BY <2>1 DEF PromptInv, CompletedIsAcked, vars
    <3>4. QED
      BY <3>1, <3>2, <3>3
  <2>5. \A v \in Workers : phase'[v] = "deleting" => AllDone(v)'
    BY <1>t, <2>1, <2>3 DEF PromptInv, AllDone, vars
  <2>6. QED
    BY <2>4, <2>5 DEF PromptInv
<1>11. QED
  BY <1>1, <1>2, <1>3, <1>4, <1>5, <1>6, <1>7, <1>8, <1>9, <1>10
     DEF PromptNext, Poll, Threads

(* Where calls succeed, the visibility timeout outlasts a batch and no     *)
(* message of the ECS queue raises out of handle_message, no processed     *)
(* message ends in the dead-letter queue, however many tasks share it.     *)
THEOREM CompletedNotParked ==
    ASSUME \A s \in Submissions :
               s.backend = "ecs" => s.payload # "not_an_object"
    PROVE  PromptSpec => []CompletedIsNotParked
<1> DEFINE I == EcsTypeInv /\ PromptInv
<1>1. EcsInit => I
  BY EcsTypeInit, PromptInvInit
<1>2. I /\ [PromptNext]_ecsVars => I'
  BY PromptStep, EcsTypeStep, PromptInvStep
<1>3. I => CompletedIsNotParked
  <2> SUFFICES ASSUME I, NEW r \in Requests, msg[r].state = "dlq"
               PROVE  table[r].status # "COMPLETED"
    BY DEF CompletedIsNotParked
  <2>1. QED
    BY AwayIsUnheld, UnheldIsIdle
<1>4. QED
  BY <1>1, <1>2, <1>3, PTL DEF PromptSpec
=============================================================================
