---------------------------- MODULE LambdaWorker ----------------------------
(***************************************************************************)
(* The Lambda worker around InferenceService (lambda_worker/handler.py and *)
(* the event source mapping of 10-api-lambda.yaml).  The mapping collects  *)
(* a batch and invokes the function, which handles the records one after   *)
(* the other and reports those that raised; the mapping deletes the rest.  *)
(* An invocation that is cut off by the function timeout reports nothing,  *)
(* so nothing of its batch is deleted, what was completed included.        *)
(*                                                                         *)
(* What becomes of one record is InferenceService's WorkerStep.            *)
(***************************************************************************)
EXTENDS InferenceService, SequencesExt

CONSTANTS
    Invocations,  \* MaximumConcurrency of the mapping
    BatchSize     \* BatchSize of the mapping

ASSUME BatchAssumption == BatchSize \in Nat \ {0}

VARIABLES
    stage,  \* invocation -> where the mapping and the function are
    batch,  \* invocation -> its Records, deliveries <<r, n>> in order
    cut     \* history: the requests whose last delivery was ended by a failing
            \* call or the end of the function, not by the handler

lambdaVars == <<table, msg, request, api, delivery, stage, batch, cut>>

(*   collecting  the mapping fills a batch;  handling  lambda_handler runs *)
(*   deleting    the mapping deletes what was not reported                 *)
Stages == {"collecting", "handling", "deleting"}

LambdaInit ==
    /\ Init
    /\ stage = [i \in Invocations |-> "collecting"]
    /\ batch = [i \in Invocations |-> << >>]
    /\ cut = {}

Held(i) == ToSet(batch[i])
Done(d) == delivery[d[1]][d[2]] \in {"ack", "end"}

(* A batch holds at most BatchSize deliveries, each once, and no other     *)
(* invocation has any of them; a record is not begun before the one ahead  *)
(* of it is done with.                                                     *)
LambdaTypeOK ==
    /\ stage \in [Invocations -> Stages]
    /\ cut \subseteq Requests
    /\ \A i \in Invocations :
          /\ Len(batch[i]) <= BatchSize
          /\ IsInjective(batch[i])
          /\ \A j \in Invocations \ {i} : Held(i) \cap Held(j) = {}
          /\ \A k \in DOMAIN batch[i] : \A h \in 1..k-1 :
                ~Done(batch[i][h]) => delivery[batch[i][k][1]][batch[i][k][2]] = "received"

----------------------------------------------------------------------------
(* The mapping.                                                            *)

Enter(i, from, to) ==
    /\ stage[i] = from
    /\ stage' = [stage EXCEPT ![i] = to]

LetGo(i) == batch' = [batch EXCEPT ![i] = << >>]

Collect(i, r) ==
    /\ stage[i] = "collecting"
    /\ Len(batch[i]) < BatchSize
    /\ request[r].backend = "lambda"
    /\ Receive(r)
    /\ batch' = [batch EXCEPT ![i] = Append(@, <<r, msg[r].receives + 1>>)]
    /\ cut' = cut \ {r}
    /\ UNCHANGED stage

(* The batch is full, or the batching window is over.                      *)
Invoke(i) ==
    /\ batch[i] # << >>
    /\ Enter(i, "collecting", "handling")
    /\ UNCHANGED <<vars, batch, cut>>

(* The record that the handler's loop is at.                               *)
\* Mutant: the records of a batch are handled side by side.
Current_Any(i, d) == d \in Held(i) /\ ~Done(d)

Current(i, d) ==
    \E k \in DOMAIN batch[i] :
        /\ batch[i][k] = d
        /\ ~Done(d)
        /\ \A h \in 1..k-1 : Done(batch[i][h])

(* lambda_handler at this record; every exception is caught and reported.  *)
HandleRecord(i, r, n) ==
    /\ stage[i] = "handling"
    /\ Current(i, <<r, n>>)
    /\ WorkerStep(r, n)
    /\ UNCHANGED <<stage, batch, cut>>

(* It returns batchItemFailures, the records that came to an "end".        *)
\* Mutant: it raises when a record failed, and so reports none of them.
Return_AllOrNothing(i) ==
    /\ \A d \in Held(i) : Done(d)
    /\ \/ /\ \A d \in Held(i) : delivery[d[1]][d[2]] = "ack"
          /\ Enter(i, "handling", "deleting")
          /\ UNCHANGED batch
       \/ /\ \E d \in Held(i) : delivery[d[1]][d[2]] = "end"
          /\ Enter(i, "handling", "collecting")
          /\ LetGo(i)
    /\ UNCHANGED <<vars, cut>>

Return(i) ==
    /\ \A d \in Held(i) : Done(d)
    /\ Enter(i, "handling", "deleting")
    /\ UNCHANGED <<vars, batch, cut>>

\* Mutant: the mapping deletes what the handler reported, too.
DeleteRecord_Reported(i, r, n) ==
    /\ stage[i] = "deleting"
    /\ <<r, n>> \in Held(i)
    /\ delivery' = [delivery EXCEPT ![r][n] = "end"]
    /\ DeleteMessage(r, n)
    /\ UNCHANGED <<table, request, api, stage, batch, cut>>

DeleteRecord(i, r, n) ==
    /\ stage[i] = "deleting"
    /\ <<r, n>> \in Held(i)
    /\ Delete(r, n)
    /\ UNCHANGED <<stage, batch, cut>>

BatchDeleted(i) ==
    /\ \A d \in Held(i) : delivery[d[1]][d[2]] = "end"
    /\ Enter(i, "deleting", "collecting")
    /\ LetGo(i)
    /\ UNCHANGED <<vars, cut>>

----------------------------------------------------------------------------
(* Failures.                                                               *)

(* The function timeout, or its runtime dies: the response never comes.    *)
\* Mutant: the handler looks at the time left only between two records.
CutOff_BetweenRecords(i) ==
    /\ \A d \in Held(i) : delivery[d[1]][d[2]] \notin Running
    /\ Enter(i, "handling", "collecting")
    /\ LetGo(i)
    /\ cut' = cut \cup {d[1] : d \in Held(i)}
    /\ UNCHANGED vars

CutOff(i) ==
    /\ Enter(i, "handling", "collecting")
    /\ LetGo(i)
    /\ cut' = cut \cup {d[1] : d \in Held(i)}
    /\ UNCHANGED vars

RecordFails(i, r, n) ==
    /\ stage[i] = "handling"
    /\ Current(i, <<r, n>>)
    /\ WriteRaises(r, n)
    /\ cut' = cut \cup {r}
    /\ UNCHANGED <<stage, batch>>

DeleteFails(i, r, n) ==
    /\ stage[i] = "deleting"
    /\ <<r, n>> \in Held(i)
    /\ DeleteLost(r, n)
    /\ cut' = cut \cup {r}
    /\ UNCHANGED <<stage, batch>>

----------------------------------------------------------------------------
ApiStep(r) ==
    /\ \/ Reject(r) \/ Save(r) \/ Publish(r) \/ PublishUnrouted(r)
       \/ ForeignSend(r)
    /\ UNCHANGED <<stage, batch, cut>>

QueueRedrive(r) == Redrive(r) /\ UNCHANGED <<stage, batch, cut>>

(* The visibility timeout, 300 s, is longer than the batching window and   *)
(* the function timeout together (AWS refuses a mapping of a function with *)
(* a longer timeout than its queue's).                                     *)
QueueTimeout(r) ==
    /\ \A i \in Invocations : <<r, msg[r].receives>> \notin Held(i)
    /\ VisibilityTimeout(r)
    /\ UNCHANGED <<stage, batch, cut>>

Mapping(i) ==
    \/ Invoke(i)
    \/ Return(i)
    \/ \E r \in Requests, n \in Deliveries : DeleteRecord(i, r, n)
    \/ BatchDeleted(i)

Handler(i) == \E r \in Requests, n \in Deliveries : HandleRecord(i, r, n)

LambdaFails(i) ==
    \/ CutOff(i)
    \/ \E r \in Requests, n \in Deliveries : RecordFails(i, r, n) \/ DeleteFails(i, r, n)

LambdaNext ==
    \/ \E r \in Requests : ApiStep(r) \/ QueueRedrive(r) \/ QueueTimeout(r)
    \/ \E i \in Invocations :
          \/ \E r \in Requests : Collect(i, r)
          \/ Mapping(i) \/ Handler(i) \/ LambdaFails(i)

LambdaSpec == LambdaInit /\ [][LambdaNext]_lambdaVars

(* The mapping polls, invokes and deletes, and a handler that does not     *)
(* return is cut off; the handler itself may hang.                         *)
LambdaFairSpec ==
    /\ LambdaSpec
    /\ \A r \in Requests :
          /\ WF_lambdaVars(QueueRedrive(r))
          /\ WF_lambdaVars(QueueTimeout(r))
          /\ WF_lambdaVars(\E i \in Invocations : Collect(i, r))
    /\ \A i \in Invocations :
          /\ WF_lambdaVars(Mapping(i))
          /\ WF_lambdaVars(CutOff(i))

----------------------------------------------------------------------------
(* Batches and reports do nothing that InferenceService does not allow.    *)
ImplementsService == Spec

(* No delivery of these can succeed, and lambda_handler reports every      *)
(* exception alike.                                                        *)
Hopeless(r) == request[r].payload \in Unparsable \cup {"unknown_model", "unstorable"}

(* What is in the dead-letter queue is there for a reason: its record says *)
(* FAILED, or no delivery could succeed, or its last one was cut short.  A *)
(* request is never parked for what its neighbours in a batch did, whether *)
(* they raise, fail or are malformed (the ECS worker does not keep this).  *)
ParkedIsExplained ==
    \A r \in Requests :
        msg[r].state = "dlq" =>
            \/ table[r].status = "FAILED"
            \/ Hopeless(r)
            \/ r \in cut

(* The inductive invariant behind it: a held delivery is its message's     *)
(* last, and the reason is there from the moment the delivery is over.     *)
HeldIsCurrent(r) ==
    \A i \in Invocations, n \in Deliveries :
        <<r, n>> \in Held(i) =>
            n = msg[r].receives /\ msg[r].state \in {"inflight", "deleted"}

Explained(r) == table[r].status = "FAILED" \/ Hopeless(r)

ReasonKept(r) ==
    LET n == msg[r].receives
    IN  n > 0 /\ msg[r].state # "deleted" =>
            \/ r \in cut
            \/ delivery[r][n] = "end" /\ Explained(r)
            \/ delivery[r][n] # "end" /\ \E i \in Invocations : <<r, n>> \in Held(i)

ParkedInv ==
    \A r \in Requests :
        /\ HeldIsCurrent(r)
        /\ ReasonKept(r)
        /\ msg[r].state = "dlq" => msg[r].receives = MaxReceive

(* Whatever hangs, fails or is cut off, every message leaves the queue,    *)
(* and one that cannot succeed is not lost: whatever it shares a batch     *)
(* with, it comes to the dead-letter queue.                                *)
EndsWhereItShould ==
    \A r \in Requests :
        msg[r].state \in OnQueue ~>
            msg[r].state = "dlq" \/ (msg[r].state = "deleted" /\ ~Hopeless(r))
=============================================================================
