----------------------------- MODULE EcsWorker -----------------------------
(***************************************************************************)
(* The ECS tasks around InferenceService (ecs_worker/worker.py): each runs *)
(* poll_once in a loop, which receives a batch, hands its messages to a    *)
(* pool of threads, and when all are done deletes those that returned a    *)
(* receipt handle.  SIGTERM ends the loop after the batch; ECS starts a    *)
(* new task for one that stopped or was killed.                            *)
(*                                                                         *)
(* What a thread does with its message, and what the API and the queue do  *)
(* meanwhile, are the actions of InferenceService; this module says which  *)
(* of them a task takes when.  A task that goes away leaves its deliveries *)
(* where they were: nobody continues them.                                 *)
(***************************************************************************)
EXTENDS InferenceService

CONSTANTS
    Workers,     \* the tasks
    BatchSize,   \* BATCH_SIZE, at most 10
    MaxWorkers,  \* MAX_WORKERS, the threads of the pool
    MaxStops     \* bound: how often SIGTERM is sent

ASSUME BatchAssumption == BatchSize \in Nat \ {0}
ASSUME PoolAssumption == MaxWorkers \in Nat \ {0}
ASSUME StopsAssumption == MaxStops \in Nat

VARIABLES
    running,  \* task -> self._running
    phase,    \* task -> where run and poll_once are
    batch,    \* task -> the deliveries <<r, n>> that poll_once holds
    stops     \* how often SIGTERM was sent

taskVars == <<running, phase, batch, stops>>
ecsVars == <<table, msg, request, api, delivery, running, phase, batch, stops>>

(*   loop       at the head of run's loop                                  *)
(*   receiving  in receive_message                                         *)
(*   handling   in the thread pool's block                                 *)
(*   deleting   in delete_message_batch                                    *)
(*   stopped    run returned;  killed  the process is gone                 *)
Phases == {"loop", "receiving", "handling", "deleting", "stopped", "killed"}

Held == [Workers -> SUBSET (Requests \X Deliveries)]

(* Beyond the types: a task holds at most a batch, of started deliveries,  *)
(* and none at the head of its loop or when it is gone.                    *)
EcsTypeOK ==
    /\ running \in [Workers -> BOOLEAN]
    /\ phase \in [Workers -> Phases]
    /\ batch \in Held
    /\ stops \in 0..MaxStops
    /\ \A w \in Workers :
          /\ Cardinality(batch[w]) <= BatchSize
          /\ \A d \in batch[w] : delivery[d[1]][d[2]] # "none"
          /\ phase[w] \in {"loop", "stopped", "killed"} => batch[w] = {}

EcsInit ==
    /\ Init
    /\ running = [w \in Workers |-> TRUE]
    /\ phase = [w \in Workers |-> "loop"]
    /\ batch = [w \in Workers |-> {}]
    /\ stops = 0

----------------------------------------------------------------------------
(* run and poll_once.                                                      *)

Enter(w, from, to) ==
    /\ phase[w] = from
    /\ phase' = [phase EXCEPT ![w] = to]

LetGo(w) == batch' = [batch EXCEPT ![w] = {}]

StartPoll(w) ==
    /\ running[w]
    /\ Enter(w, "loop", "receiving")
    /\ UNCHANGED <<vars, running, batch, stops>>

StopLoop(w) ==
    /\ ~running[w]
    /\ Enter(w, "loop", "stopped")
    /\ UNCHANGED <<vars, running, batch, stops>>

(* receive_message picks its messages, each once, one after the other.     *)
Take(w, r) ==
    /\ phase[w] = "receiving"
    /\ Cardinality(batch[w]) < BatchSize
    /\ \A n \in Deliveries : <<r, n>> \notin batch[w]
    /\ request[r].backend = "ecs"
    /\ Receive(r)
    /\ batch' = [batch EXCEPT ![w] = @ \cup {<<r, msg[r].receives + 1>>}]
    /\ UNCHANGED <<running, phase, stops>>

(* It returns empty only when the long poll found nothing.                 *)
Receivable(r) ==
    /\ request[r].backend = "ecs"
    /\ msg[r].state = "visible"
    /\ msg[r].receives < MaxReceive

\* Mutant: the stop flag is looked at again before the batch is handled.
ReceiveReturns_StopFirst(w) ==
    /\ \/ /\ batch[w] = {}
          /\ \A r \in Requests : ~Receivable(r)
          /\ Enter(w, "receiving", "loop")
          /\ UNCHANGED batch
       \/ /\ batch[w] # {}
          /\ running[w]
          /\ Enter(w, "receiving", "handling")
          /\ UNCHANGED batch
       \/ /\ ~running[w]
          /\ Enter(w, "receiving", "loop")
          /\ LetGo(w)
    /\ UNCHANGED <<vars, running, stops>>

ReceiveReturns(w) ==
    /\ \/ /\ batch[w] = {}
          /\ \A r \in Requests : ~Receivable(r)
          /\ Enter(w, "receiving", "loop")
       \/ /\ batch[w] # {}
          /\ Enter(w, "receiving", "handling")
    /\ UNCHANGED <<vars, running, batch, stops>>

(* A thread of the pool; a message not started waits for a free one.       *)
InPool(w) == {d \in batch[w] : delivery[d[1]][d[2]] \in Running}

HasThread(w, r, n) ==
    delivery[r][n] = "received" => Cardinality(InPool(w)) < MaxWorkers

HandleStep(w, r, n) ==
    /\ phase[w] = "handling"
    /\ <<r, n>> \in batch[w]
    /\ HasThread(w, r, n)
    /\ delivery[r][n] # "ack"
    /\ WorkerStep(r, n)
    /\ UNCHANGED taskVars

(* All futures are done.  A TypeError that handle_message did not catch    *)
(* comes out of future.result(): poll_once raises, and with it go the      *)
(* receipts of the others.                                                 *)
AllDone(w) == \A d \in batch[w] : delivery[d[1]][d[2]] \in {"ack", "end"}

SomeRaised(w) == \E d \in batch[w] : request[d[1]].payload = "not_an_object"

\* Mutant: the deletes go out only when every message was handled.
BatchDone_AllOrNothing(w) ==
    /\ AllDone(w)
    /\ ~SomeRaised(w)
    /\ \/ /\ \A d \in batch[w] : delivery[d[1]][d[2]] = "ack"
          /\ Enter(w, "handling", "deleting")
          /\ UNCHANGED batch
       \/ /\ \E d \in batch[w] : delivery[d[1]][d[2]] = "end"
          /\ Enter(w, "handling", "loop")
          /\ LetGo(w)
    /\ UNCHANGED <<vars, running, stops>>

BatchDone(w) ==
    /\ AllDone(w)
    /\ ~SomeRaised(w)
    /\ Enter(w, "handling", "deleting")
    /\ UNCHANGED <<vars, running, batch, stops>>

\* Mutant: the list of receipts is not local to poll_once.
BatchRaises_KeepsBatch(w) ==
    /\ AllDone(w)
    /\ SomeRaised(w)
    /\ Enter(w, "handling", "loop")
    /\ UNCHANGED <<vars, running, batch, stops>>

BatchRaises(w) ==
    /\ AllDone(w)
    /\ SomeRaised(w)
    /\ Enter(w, "handling", "loop")
    /\ LetGo(w)
    /\ UNCHANGED <<vars, running, stops>>

(* delete_message_batch deletes its entries one by one.                    *)
\* Mutant: the whole batch is deleted, not only what returned a receipt.
DeleteEntry_Any(w, r, n) ==
    /\ phase[w] = "deleting"
    /\ <<r, n>> \in batch[w]
    /\ delivery' = [delivery EXCEPT ![r][n] = "end"]
    /\ DeleteMessage(r, n)
    /\ UNCHANGED <<table, request, api, taskVars>>

DeleteEntry(w, r, n) ==
    /\ phase[w] = "deleting"
    /\ <<r, n>> \in batch[w]
    /\ Delete(r, n)
    /\ UNCHANGED taskVars

BatchDeleted(w) ==
    /\ \A d \in batch[w] : delivery[d[1]][d[2]] # "ack"
    /\ Enter(w, "deleting", "loop")
    /\ LetGo(w)
    /\ UNCHANGED <<vars, running, stops>>

----------------------------------------------------------------------------
(* Failures of its calls, and the life of the task.                        *)

(* receive_message raises: what SQS had handed out is in flight, unseen.   *)
ReceiveRaises(w) ==
    /\ Enter(w, "receiving", "loop")
    /\ LetGo(w)
    /\ UNCHANGED <<vars, running, stops>>

(* handle_message catches what a failing write raises.                     *)
HandleFails(w, r, n) ==
    /\ phase[w] = "handling"
    /\ <<r, n>> \in batch[w]
    /\ HasThread(w, r, n)
    /\ WriteRaises(r, n)
    /\ UNCHANGED taskVars

DeleteFails(w, r, n) ==
    /\ phase[w] = "deleting"
    /\ <<r, n>> \in batch[w]
    /\ DeleteLost(r, n)
    /\ UNCHANGED taskVars

(* request_stop.                                                           *)
Sigterm(w) ==
    /\ running[w]
    /\ stops < MaxStops
    /\ phase[w] \notin {"stopped", "killed"}
    /\ running' = [running EXCEPT ![w] = FALSE]
    /\ stops' = stops + 1
    /\ UNCHANGED <<vars, phase, batch>>

(* SIGKILL after the stop timeout, out of memory, or a stale heartbeat: it *)
(* is touched once per loop, so a batch that hangs has the task replaced.  *)
(* (Between batches nothing would be lost; that kill is left out.)         *)
\* Mutant: the heartbeat does not depend on the batch.
Kill_NotHung(w) ==
    /\ batch[w] # {}
    /\ phase[w] # "handling"
    /\ phase' = [phase EXCEPT ![w] = "killed"]
    /\ LetGo(w)
    /\ UNCHANGED <<vars, running, stops>>

Kill(w) ==
    /\ batch[w] # {}
    /\ phase' = [phase EXCEPT ![w] = "killed"]
    /\ LetGo(w)
    /\ UNCHANGED <<vars, running, stops>>

Restart(w) ==
    /\ phase[w] \in {"stopped", "killed"}
    /\ phase' = [phase EXCEPT ![w] = "loop"]
    /\ running' = [running EXCEPT ![w] = TRUE]
    /\ UNCHANGED <<vars, batch, stops>>

----------------------------------------------------------------------------
ApiStep(r) ==
    /\ \/ Reject(r)
       \/ Save(r)
       \/ Publish(r)
       \/ PublishUnrouted(r)
       \/ ForeignSend(r)
    /\ UNCHANGED taskVars

ApiFails(r) ==
    /\ SaveRaises(r) \/ PublishRaises(r)
    /\ UNCHANGED taskVars

QueueRedrive(r) == Redrive(r) /\ UNCHANGED taskVars
QueueTimeout(r) == VisibilityTimeout(r) /\ UNCHANGED taskVars
QueueExpires(r) == Expire(r) /\ UNCHANGED taskVars

(* What a task does by itself, but for its threads.                        *)
Poll(w) ==
    \/ StartPoll(w)
    \/ StopLoop(w)
    \/ \E r \in Requests : Take(w, r)
    \/ ReceiveReturns(w)
    \/ BatchDone(w)
    \/ BatchRaises(w)
    \/ \E r \in Requests, n \in Deliveries : DeleteEntry(w, r, n)
    \/ BatchDeleted(w)
    \/ Restart(w)

Threads(w) == \E r \in Requests, n \in Deliveries : HandleStep(w, r, n)

TaskFails(w) ==
    \/ ReceiveRaises(w)
    \/ Kill(w)
    \/ \E r \in Requests, n \in Deliveries :
          HandleFails(w, r, n) \/ DeleteFails(w, r, n)

EcsNext ==
    \/ \E r \in Requests :
          ApiStep(r) \/ ApiFails(r) \/ QueueRedrive(r) \/ QueueTimeout(r) \/ QueueExpires(r)
    \/ \E w \in Workers : Poll(w) \/ Threads(w) \/ TaskFails(w) \/ Sigterm(w)

EcsSpec == EcsInit /\ [][EcsNext]_ecsVars

(* The loop goes on, ECS replaces a task that is gone or unhealthy, and    *)
(* receive_message, which the loop repeats, does not fail for ever.  The   *)
(* threads need not go on: a model may hang.                               *)
EcsFairSpec ==
    /\ EcsSpec
    /\ \A r \in Requests : WF_ecsVars(QueueRedrive(r)) /\ WF_ecsVars(QueueTimeout(r))
    /\ \A w \in Workers :
          /\ WF_ecsVars(Poll(w))
          /\ WF_ecsVars(Kill(w))
          /\ SF_ecsVars(\E r \in Requests : Take(w, r))

(* 00-core.yaml of VisibilityTimeoutSeconds: it "Must be greater than the  *)
(* longest inference processing time".  When it is greater than that of a  *)
(* whole batch, a message does not reappear while a task holds it.         *)
PromptTimeout(r) ==
    /\ \A w \in Workers : <<r, msg[r].receives>> \notin batch[w]
    /\ QueueTimeout(r)

(* No call fails, no task is killed, the visibility timeout is respected;  *)
(* tasks are still told to stop, and models still raise.                   *)
PromptNext ==
    \/ \E r \in Requests : ApiStep(r) \/ QueueRedrive(r) \/ PromptTimeout(r)
    \/ \E w \in Workers : Poll(w) \/ Threads(w) \/ Sigterm(w)

PromptSpec ==
    /\ EcsInit
    /\ [][PromptNext]_ecsVars
    /\ \A r \in Requests : WF_ecsVars(QueueRedrive(r)) /\ WF_ecsVars(PromptTimeout(r))
    /\ \A w \in Workers : WF_ecsVars(Poll(w)) /\ WF_ecsVars(Threads(w))

----------------------------------------------------------------------------
(* Tasks that work in batches do nothing that InferenceService does not    *)
(* allow: what holds of it, holds of them.                                 *)
ImplementsService == Spec

(* Where nothing fails and the visibility timeout is respected, a message  *)
(* that was processed does not end in the dead-letter queue: worker.py     *)
(* sends there what fails transiently until maxReceiveCount.  It holds     *)
(* only while no message of a batch raises out of handle_message.          *)
CompletedIsNotParked ==
    \A r \in Requests :
        msg[r].state = "dlq" => table[r].status # "COMPLETED"

(* "In-flight work is allowed to finish": a task that was told to stop     *)
(* handles and deletes all that it received, at whatever point of the loop *)
(* the signal arrives.                                                     *)
DrainFinishes ==
    \A r \in Requests, n \in Deliveries :
        delivery[r][n] = "received" ~> delivery[r][n] = "end"
=============================================================================
