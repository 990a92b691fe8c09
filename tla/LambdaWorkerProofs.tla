------------------------- MODULE LambdaWorkerProofs -------------------------
(***************************************************************************)
(* Proofs about LambdaWorker, for any number of requests, invocations and  *)
(* receives and any size of batch: it implements InferenceService, and     *)
(* what is in its dead-letter queue is there for a reason.                 *)
(***************************************************************************)
EXTENDS LambdaWorker, InferenceServiceProofs

(* Every step of the mapping and the function is a step of                 *)
(* InferenceService or a stutter.                                          *)
LEMMA LambdaStep == [LambdaNext]_lambdaVars => [Next]_vars
<1> SUFFICES ASSUME [LambdaNext]_lambdaVars
             PROVE  [Next]_vars
  OBVIOUS
<1>1. CASE UNCHANGED lambdaVars
  BY <1>1 DEF lambdaVars, vars
<1>2. ASSUME NEW r \in Requests, ApiStep(r) \/ QueueRedrive(r) \/ QueueTimeout(r)
      PROVE  Next
  BY <1>2 DEF ApiStep, QueueRedrive, QueueTimeout, Orderly, Next
<1>3. ASSUME NEW i \in Invocations, NEW r \in Requests, NEW n \in Deliveries,
             \/ Collect(i, r) \/ HandleRecord(i, r, n) \/ DeleteRecord(i, r, n)
             \/ RecordFails(i, r, n) \/ DeleteFails(i, r, n)
      PROVE  Next
  <2>1. Orderly(r) \/ Failure(r)
    BY <1>3 DEF Collect, HandleRecord, DeleteRecord, RecordFails, DeleteFails, Orderly,
       WorkerStep, Failure
  <2>2. QED
    BY <2>1 DEF Next
<1>4. ASSUME NEW i \in Invocations, Invoke(i) \/ Return(i) \/ BatchDeleted(i) \/ CutOff(i)
      PROVE  UNCHANGED vars
  BY <1>4 DEF Invoke, Return, BatchDeleted, CutOff
<1>5. ASSUME NEW i \in Invocations, NEW r \in Requests, Collect(i, r)
      PROVE  Next
  <2>1. Orderly(r)
    BY <1>5 DEF Collect, Orderly
  <2>2. QED
    BY <2>1 DEF Next
<1>6. QED
  BY <1>1, <1>2, <1>3, <1>4, <1>5 DEF LambdaNext, Mapping, Handler, LambdaFails

(* Sequential batches with partial failures, function timeouts and lost    *)
(* responses implement InferenceService.                                   *)
THEOREM LambdaImplementsService == LambdaSpec => ImplementsService
<1>1. LambdaInit => Init
  BY DEF LambdaInit
<1>2. QED
  BY <1>1, LambdaStep, PTL DEF LambdaSpec, ImplementsService, Spec

(* So no message that names a request is deleted before its outcome is     *)
(* stored, and the promise of the API is kept.                             *)
THEOREM LambdaDeletedAnswered == LambdaSpec => []DeletedIsAnswered /\ KeepsPromise
  BY LambdaImplementsService, DeletedAnswered, PromiseKept, PTL DEF ImplementsService

(* The records of the invocations are sequences of deliveries.             *)
Batches ==
    /\ stage \in [Invocations -> Stages]
    /\ batch \in [Invocations -> Seq(Requests \X Deliveries)]
    /\ cut \subseteq Requests

LEMMA HeldAppended ==
    ASSUME NEW S, NEW s \in Seq(S), NEW d \in S
    PROVE  Append(s, d) \in Seq(S) /\ ToSet(Append(s, d)) = ToSet(s) \cup {d}
<1>1. /\ Append(s, d) \in Seq(S)
      /\ DOMAIN Append(s, d) = 1..Len(s)+1 /\ DOMAIN s = 1..Len(s)
      /\ \A k \in 1..Len(s) : Append(s, d)[k] = s[k]
      /\ Append(s, d)[Len(s)+1] = d
  OBVIOUS
<1>2. Len(s) \in Nat
  OBVIOUS
<1>3. QED
  BY <1>1, <1>2 DEF ToSet

(* What each step does to the batches.                                     *)
LEMMA CollectEffect ==
    ASSUME TypeOK, Batches, NEW i \in Invocations, NEW q \in Requests, Collect(i, q)
    PROVE  /\ Batches'
           /\ Held(i)' = Held(i) \cup {<<q, msg[q].receives + 1>>}
           /\ \A j \in Invocations \ {i} : Held(j)' = Held(j)
<1>1. <<q, msg[q].receives + 1>> \in Requests \X Deliveries
  BY MaxReceiveAssumption
     DEF Collect, Receive, ReceiveMessage, TypeOK, Messages, Deliveries
<1>2. batch'[i] = Append(batch[i], <<q, msg[q].receives + 1>>)
  BY DEF Collect, Batches
<1>3. batch[i] \in Seq(Requests \X Deliveries)
  BY DEF Batches
<1>4. batch' \in [Invocations -> Seq(Requests \X Deliveries)]
  BY <1>1, <1>3, HeldAppended DEF Batches, Collect
<1>5. ToSet(batch'[i]) = ToSet(batch[i]) \cup {<<q, msg[q].receives + 1>>}
  BY <1>1, <1>2, <1>3, HeldAppended
<1>6. Batches'
  BY <1>4 DEF Batches, Collect
<1>7. \A j \in Invocations \ {i} : batch'[j] = batch[j]
  BY DEF Batches, Collect
<1>8. QED
  BY <1>5, <1>6, <1>7 DEF Held

LEMMA LetGoEffect ==
    ASSUME Batches, NEW i \in Invocations, LetGo(i), stage' \in [Invocations -> Stages],
           cut' \subseteq Requests
    PROVE  /\ Batches'
           /\ Held(i)' = {}
           /\ \A j \in Invocations \ {i} : Held(j)' = Held(j)
<1>1. << >> \in Seq(Requests \X Deliveries) /\ ToSet(<< >>) = {}
  BY DEF ToSet
<1>2. batch'[i] = << >> /\ batch' \in [Invocations -> Seq(Requests \X Deliveries)]
  BY <1>1 DEF Batches, LetGo
<1>3. QED
  BY <1>1, <1>2 DEF Batches, LetGo, Held

LEMMA HeldTyped ==
    ASSUME Batches, NEW i \in Invocations
    PROVE  Held(i) \subseteq Requests \X Deliveries
  BY DEF Batches, Held, ToSet

(* What ParkedInv says of one request.                                     *)
ParkedReq(r) ==
    /\ HeldIsCurrent(r)
    /\ ReasonKept(r)
    /\ msg[r].state = "dlq" => msg[r].receives = MaxReceive

(* It does not change when nothing of the request does, and its messages   *)
(* stay where they are held.                                               *)
LEMMA Untouched ==
    ASSUME NEW r \in Requests, ParkedReq(r), UNCHANGED <<msg[r], table[r], request, delivery[r]>>,
           r \in cut => r \in cut',
           \A n \in Deliveries, i \in Invocations : <<r, n>> \in Held(i)' <=> <<r, n>> \in Held(i),
           msg[r].receives \in 0..MaxReceive
    PROVE  ParkedReq(r)'
<1>1. msg[r].receives > 0 => msg[r].receives \in Deliveries
  BY MaxReceiveAssumption DEF Deliveries
<1>2. QED
  BY <1>1 DEF ParkedReq, HeldIsCurrent, ReasonKept, Explained, Hopeless

(* The steps of a record at work.                                          *)
LEMMA RecordStep ==
    ASSUME TypeOK, Inv, NEW r \in Requests, NEW n \in Deliveries, NEW i \in Invocations,
           ParkedReq(r), <<r, n>> \in Held(i), UNCHANGED batch,
           \/ cut' = cut /\ WorkerStep(r, n) /\ (delivery[r][n] = "ack" => stage[i] = "deleting")
           \/ cut' = cut \cup {r} /\ (WriteRaises(r, n) \/ DeleteLost(r, n))
    PROVE  ParkedReq(r)'
<1>1. n = msg[r].receives /\ msg[r].state \in {"inflight", "deleted"} /\ n > 0
  BY MaxReceiveAssumption DEF ParkedReq, HeldIsCurrent, Deliveries
<1>2. \A j \in Invocations : Held(j)' = Held(j)
  BY DEF Held
<1>3. msg[r] \in Messages /\ delivery[r] \in [Deliveries -> DeliveryStates]
  BY DEF TypeOK
<1>4. CASE Delete(r, n)
  <2>1. msg'[r].state = "deleted" /\ msg'[r].receives = n
    BY <1>1, <1>3, <1>4 DEF Delete, DeleteMessage, TypeOK, OnQueue, Messages
  <2>2. QED
    BY <1>1, <1>2, <2>1 DEF ParkedReq, HeldIsCurrent, ReasonKept
<1>5. CASE ~Delete(r, n)
  <2>1. UNCHANGED msg /\ UNCHANGED request
    BY <1>5 DEF WorkerStep, DropMalformed, MarkProcessing, GetModelRaises, ValidateRaises,
       PredictReturns, PredictRaises, MarkCompleted, StoreRefused, RecordPermanentFailure,
       RecordTransientFailure, WriteRaises, DeleteLost, Step
  <2>2. CASE r \in cut'
    BY <1>1, <1>2, <2>1, <2>2 DEF ParkedReq, HeldIsCurrent, ReasonKept
  <2>3. CASE WorkerStep(r, n)
    <3>1. \/ delivery'[r][n] # "end"
          \/ delivery'[r][n] = "end" /\ Explained(r)'
      <4>1. CASE RecordTransientFailure(r, n)
        BY <1>3, <4>1 DEF RecordTransientFailure, Step, SetFailed, Explained, TypeOK, Items
      <4>2. CASE DropMalformed(r, n) \/ GetModelRaises(r, n) \/ StoreRefused(r, n)
        BY <1>3, <4>2 DEF DropMalformed, GetModelRaises, StoreRefused, Step, Explained,
           Hopeless, Unparsable, TypeOK
      <4>3. CASE \/ MarkProcessing(r, n) \/ ValidateRaises(r, n) \/ PredictReturns(r, n)
                 \/ PredictRaises(r, n) \/ MarkCompleted(r, n) \/ RecordPermanentFailure(r, n)
        BY <1>3, <4>3 DEF MarkProcessing, ValidateRaises, PredictReturns, PredictRaises,
           MarkCompleted, RecordPermanentFailure, Step, TypeOK
      <4>4. QED
        BY <1>5, <2>3, <4>1, <4>2, <4>3 DEF WorkerStep
    <3>2. QED
      BY <1>1, <1>2, <2>1, <3>1 DEF ParkedReq, HeldIsCurrent, ReasonKept
  <2>4. QED
    BY <2>2, <2>3
<1>6. QED
  BY <1>4, <1>5

LEMMA ParkedStep ==
    ASSUME TypeOK, Inv, Batches, ParkedInv, [LambdaNext]_lambdaVars
    PROVE  Batches' /\ ParkedInv'
<1>0. /\ \A r \in Requests : ParkedReq(r) /\ msg[r].receives \in 0..MaxReceive
      /\ ParkedInv' <=> \A r \in Requests : ParkedReq(r)'
  BY DEF ParkedInv, ParkedReq, TypeOK, Messages
<1>1. ASSUME NEW q \in Requests, ApiStep(q) \/ QueueRedrive(q) \/ QueueTimeout(q)
      PROVE  Batches' /\ ParkedInv'
  <2>1. UNCHANGED <<stage, batch, cut, request, delivery>> /\ Frame(q) /\ Batches'
    <3>1. Orderly(q)
      BY <1>1 DEF ApiStep, QueueRedrive, QueueTimeout, Orderly
    <3>2. UNCHANGED <<stage, batch, cut, request, delivery>>
      BY <1>1 DEF ApiStep, QueueRedrive, QueueTimeout, Reject, Save, Publish,
         PublishUnrouted, ForeignSend, Respond, Redrive, VisibilityTimeout
    <3>3. QED
      BY <3>1, <3>2, StepFrame DEF Batches
  <2>2. \A j \in Invocations : Held(j)' = Held(j)
    BY <2>1 DEF Held
  <2>3. ASSUME NEW r \in Requests, r # q PROVE ParkedReq(r)'
    BY <1>0, <2>1, <2>2, <2>3, Untouched DEF Frame
  <2>4. ParkedReq(q)'
    <3>1. CASE ApiStep(q)
      <4>1. msg[q].state = "unsent" \/ UNCHANGED <<msg, table>>
        BY <3>1 DEF ApiStep, Reject, Save, Publish, PublishUnrouted, ForeignSend, Respond,
           SendMessage, Inv, RequestInv, UnsentIsUntouched
      <4>2. CASE msg[q].state = "unsent"
        <5>1. msg[q].receives = 0 /\ \A i \in Invocations, n \in Deliveries : <<q, n>> \notin Held(i)
          BY <1>0, <4>2 DEF Inv, RequestInv, UnsentIsUntouched, ParkedReq, HeldIsCurrent
        <5>2. msg'[q].receives = 0 /\ msg'[q].state \in {"unsent", "visible"}
          BY <3>1, <4>2, <5>1 DEF ApiStep, Reject, Save, Publish, PublishUnrouted,
             ForeignSend, SendMessage, TypeOK, Messages
        <5>3. QED
          BY <2>2, <5>1, <5>2 DEF ParkedReq, HeldIsCurrent, ReasonKept
      <4>3. QED
        BY <1>0, <2>1, <2>2, <4>1, <4>2, Untouched
    <3>2. CASE QueueRedrive(q) \/ QueueTimeout(q)
      <4>1. UNCHANGED table /\ msg'[q].receives = msg[q].receives
        BY <3>2 DEF QueueRedrive, QueueTimeout, Redrive, RedriveMessage, VisibilityTimeout,
           MessageReappears, TypeOK, Messages
      <4>2. /\ msg[q].state \in {"visible", "inflight"}
            /\ msg'[q].state = "dlq" => msg[q].receives = MaxReceive
        BY <3>2 DEF QueueRedrive, QueueTimeout, Redrive, RedriveMessage, VisibilityTimeout,
           MessageReappears, TypeOK, Messages
      <4>3. \A i \in Invocations, n \in Deliveries : <<q, n>> \notin Held(i)
        BY <1>0, <3>2 DEF ParkedReq, HeldIsCurrent, QueueRedrive, QueueTimeout, Redrive,
           RedriveMessage
      <4>4. msg[q].receives > 0 => msg[q].receives \in Deliveries
        BY <1>0, MaxReceiveAssumption DEF Deliveries
      <4>5. QED
        BY <1>0, <2>1, <2>2, <4>1, <4>2, <4>3, <4>4
           DEF ParkedReq, HeldIsCurrent, ReasonKept, Explained, Hopeless
    <3>3. QED
      BY <1>1, <3>1, <3>2
  <2>5. QED
    BY <1>0, <2>1, <2>3, <2>4
<1>2. ASSUME NEW i \in Invocations, NEW q \in Requests, Collect(i, q)
      PROVE  Batches' /\ ParkedInv'
  <2>1. Frame(q) /\ UNCHANGED request /\ UNCHANGED table
    BY <1>2, StepFrame DEF Collect, Orderly, Receive
  <2>2. ASSUME NEW r \in Requests, r # q PROVE ParkedReq(r)'
    <3>1. \A j \in Invocations, n \in Deliveries : <<r, n>> \in Held(j)' <=> <<r, n>> \in Held(j)
      BY <1>2, <2>2, CollectEffect
    <3>2. r \in cut => r \in cut'
      BY <1>2, <2>2 DEF Collect
    <3>3. QED
      BY <1>0, <2>1, <2>2, <3>1, <3>2, Untouched DEF Frame
  <2>3. ParkedReq(q)'
    <3>1. \A j \in Invocations, n \in Deliveries : <<q, n>> \notin Held(j)
      BY <1>0, <1>2 DEF ParkedReq, HeldIsCurrent, Collect, Receive, ReceiveMessage
    <3>2. /\ msg'[q].state = "inflight" /\ msg'[q].receives = msg[q].receives + 1
          /\ msg[q].receives + 1 \in Deliveries
          /\ delivery'[q][msg[q].receives + 1] = "received"
      BY <1>2, MaxReceiveAssumption DEF Collect, Receive, ReceiveMessage, TypeOK, Messages,
         Deliveries
    <3>3. QED
      BY <1>2, <3>1, <3>2, CollectEffect DEF ParkedReq, HeldIsCurrent, ReasonKept
  <2>4. QED
    BY <1>0, <1>2, <2>2, <2>3, CollectEffect
<1>3. ASSUME NEW i \in Invocations, NEW q \in Requests, NEW n \in Deliveries,
             \/ HandleRecord(i, q, n) \/ DeleteRecord(i, q, n)
             \/ RecordFails(i, q, n) \/ DeleteFails(i, q, n)
      PROVE  Batches' /\ ParkedInv'
  <2>1. /\ <<q, n>> \in Held(i) /\ UNCHANGED <<stage, batch>> /\ cut' \in {cut, cut \cup {q}}
        /\ \/ cut' = cut /\ WorkerStep(q, n) /\ (delivery[q][n] = "ack" => stage[i] = "deleting")
           \/ cut' = cut \cup {q} /\ (WriteRaises(q, n) \/ DeleteLost(q, n))
    BY <1>3 DEF HandleRecord, DeleteRecord, RecordFails, DeleteFails, Current, Done, Held, ToSet,
       WorkerStep
  <2>2. Frame(q) /\ UNCHANGED request
    <3>1. Orderly(q) \/ Failure(q)
      BY <2>1 DEF Orderly, Failure
    <3>2. UNCHANGED request
      BY <2>1 DEF WorkerStep, DropMalformed, MarkProcessing, GetModelRaises, ValidateRaises,
         PredictReturns, PredictRaises, MarkCompleted, StoreRefused, RecordPermanentFailure,
         RecordTransientFailure, Delete, WriteRaises, DeleteLost, Step
    <3>3. QED
      BY <3>1, <3>2, StepFrame
  <2>3. ParkedReq(q)'
    BY <1>0, <2>1, RecordStep
  <2>4. ASSUME NEW r \in Requests, r # q PROVE ParkedReq(r)'
    <3>1. \A j \in Invocations : Held(j)' = Held(j)
      BY <2>1 DEF Held
    <3>2. QED
      BY <1>0, <2>1, <2>2, <2>4, <3>1, Untouched DEF Frame
  <2>5. QED
    BY <1>0, <2>1, <2>3, <2>4 DEF Batches
<1>4. ASSUME NEW i \in Invocations, Invoke(i) \/ Return(i)
      PROVE  Batches' /\ ParkedInv'
  <2>1. UNCHANGED <<vars, batch, cut>> /\ Batches'
    BY <1>4 DEF Invoke, Return, Enter, Batches, Stages
  <2>2. QED
    BY <1>0, <2>1, Untouched DEF vars, Held
<1>5. ASSUME NEW i \in Invocations, BatchDeleted(i) \/ CutOff(i)
      PROVE  Batches' /\ ParkedInv'
  <2>1. LetGo(i) /\ UNCHANGED vars /\ stage' \in [Invocations -> Stages] /\ cut' \subseteq Requests
    BY <1>5, HeldTyped DEF BatchDeleted, CutOff, Enter, Batches, Stages
  <2>2. /\ Batches' /\ Held(i)' = {} /\ \A j \in Invocations \ {i} : Held(j)' = Held(j)
    BY <2>1, LetGoEffect
  <2>3. ASSUME NEW r \in Requests PROVE ParkedReq(r)'
    <3>1. UNCHANGED <<msg[r], table[r], request, delivery[r]>> /\ (r \in cut => r \in cut')
      BY <1>5, <2>1 DEF vars, BatchDeleted, CutOff
    <3>2. \A n \in Deliveries : <<r, n>> \in Held(i) => delivery[r][n] = "end" \/ r \in cut'
      BY <1>5 DEF BatchDeleted, CutOff
    <3>3. msg[r].receives > 0 => msg[r].receives \in Deliveries
      BY <1>0, MaxReceiveAssumption DEF Deliveries
    <3>4. QED
      BY <1>0, <2>2, <3>1, <3>2, <3>3
         DEF ParkedReq, HeldIsCurrent, ReasonKept, Explained, Hopeless
  <2>4. QED
    BY <1>0, <2>2, <2>3
<1>6. CASE UNCHANGED lambdaVars
  BY <1>6 DEF lambdaVars, Batches, ParkedInv, HeldIsCurrent, ReasonKept, Explained, Hopeless, Held
<1>7. QED
  BY <1>1, <1>2, <1>3, <1>4, <1>5, <1>6 DEF LambdaNext, Mapping, Handler, LambdaFails

(* What is parked has a reason in its record, its payload or its end.      *)
THEOREM ParkedExplained == LambdaSpec => []ParkedIsExplained
<1>1. LambdaInit => Batches /\ ParkedInv
  BY DEF LambdaInit, Init, SqsInit, Batches, Stages, ParkedInv, HeldIsCurrent, ReasonKept, Held, ToSet
<1>2. LambdaSpec => [](TypeOK /\ Inv)
  BY LambdaImplementsService, TypeCorrect, Invariance, PTL DEF ImplementsService
<1>3. ParkedInv => ParkedIsExplained
  <2>1. SUFFICES ASSUME ParkedInv, NEW r \in Requests, msg[r].state = "dlq"
                 PROVE  r \in cut \/ Explained(r)
    BY DEF ParkedIsExplained, Explained
  <2>2. HeldIsCurrent(r) /\ ReasonKept(r) /\ msg[r].receives = MaxReceive
    BY <2>1 DEF ParkedInv
  <2>3. MaxReceive \in Deliveries /\ MaxReceive > 0
    BY MaxReceiveAssumption DEF Deliveries
  <2>4. \A i \in Invocations : <<r, MaxReceive>> \notin Held(i)
    BY <2>1, <2>2, <2>3 DEF HeldIsCurrent
  <2>5. QED
    BY <2>1, <2>2, <2>3, <2>4 DEF ReasonKept
<1>4. QED
  BY <1>1, <1>2, <1>3, ParkedStep, PTL DEF LambdaSpec
----------------------------------------------------------------------------
(* Types: what the invocations hold, and in which order they work.         *)
Ordered(i) ==
    \A k \in DOMAIN batch[i] : \A h \in 1..k-1 :
        ~Done(batch[i][h]) => delivery[batch[i][k][1]][batch[i][k][2]] = "received"

LambdaTypeInv ==
    \A i \in Invocations :
        /\ Len(batch[i]) <= BatchSize
        /\ IsInjective(batch[i])
        /\ \A j \in Invocations \ {i} : Held(i) \cap Held(j) = {}
        /\ Ordered(i)

(* The entries of a batch, one by one.                                     *)
LEMMA Entry ==
    ASSUME Batches, NEW i \in Invocations, NEW k \in DOMAIN batch[i]
    PROVE  /\ batch[i][k] \in Held(i)
           /\ batch[i][k] \in Requests \X Deliveries
           /\ batch[i][k] = <<batch[i][k][1], batch[i][k][2]>>
           /\ k \in 1..Len(batch[i])
           /\ Len(batch[i]) \in Nat
           /\ \A h \in 1..k-1 : h \in DOMAIN batch[i] /\ h < k
<1>1. batch[i] \in Seq(Requests \X Deliveries)
  BY DEF Batches
<1>2. batch[i][k] \in Requests \X Deliveries
  BY <1>1
<1>3. batch[i][k] \in Held(i)
  BY <1>1 DEF Held, ToSet
<1>4. Len(batch[i]) \in Nat /\ DOMAIN batch[i] = 1..Len(batch[i])
  BY <1>1
<1>5. QED
  BY <1>2, <1>3, <1>4

(* Deliveries that an invocation does not hold may do what they like.      *)
LEMMA OrderKept ==
    ASSUME Batches, NEW i \in Invocations, Ordered(i), batch'[i] = batch[i],
           \A d \in Held(i) : delivery'[d[1]][d[2]] = delivery[d[1]][d[2]]
    PROVE  Ordered(i)'
<1> SUFFICES ASSUME NEW k \in DOMAIN batch[i], NEW h \in 1..k-1,
                    ~Done(batch[i][h])'
             PROVE  delivery'[batch[i][k][1]][batch[i][k][2]] = "received"
  BY DEF Ordered
<1>1. h \in DOMAIN batch[i] /\ batch[i][k] \in Held(i)
  BY Entry
<1>2. batch[i][h] \in Held(i)
  BY <1>1, Entry
<1>3. QED
  BY <1>1, <1>2 DEF Ordered, Done

(* The record at work moves on, or one that is done with stays so.         *)
LEMMA OneMoves ==
    ASSUME Batches, NEW i \in Invocations, IsInjective(batch[i]), Ordered(i),
           batch'[i] = batch[i],
           NEW d, Current(i, d) \/ (Done(d) /\ Done(d)'),
           \A e \in Held(i) :
               e # d => delivery'[e[1]][e[2]] = delivery[e[1]][e[2]]
    PROVE  Ordered(i)'
<1> SUFFICES ASSUME NEW k \in DOMAIN batch[i], NEW h \in 1..k-1,
                    ~Done(batch[i][h])'
             PROVE  delivery'[batch[i][k][1]][batch[i][k][2]] = "received"
  BY DEF Ordered
<1>1. h \in DOMAIN batch[i] /\ h < k /\ batch[i][k] \in Held(i) /\ k \in Nat /\ h \in Nat
  BY Entry
<1>2. batch[i][h] \in Held(i)
  BY <1>1, Entry
<1>3. ~Done(batch[i][h])
  BY <1>2 DEF Done, Current
<1>4. delivery[batch[i][k][1]][batch[i][k][2]] = "received"
  BY <1>3 DEF Ordered
<1>5. batch[i][k] # d
  <2>1. ASSUME batch[i][k] = d, Current(i, d)
        PROVE  FALSE
    <3>1. PICK c \in DOMAIN batch[i] :
              batch[i][c] = d /\ \A b \in 1..c-1 : Done(batch[i][b])
      BY <2>1 DEF Current
    <3>2. c = k
      BY <2>1, <3>1 DEF IsInjective
    <3>3. QED
      BY <1>3, <3>1, <3>2
  <2>2. ASSUME batch[i][k] = d, Done(d)
        PROVE  FALSE
    BY <1>4, <2>2 DEF Done
  <2>3. QED
    BY <2>1, <2>2
<1>6. QED
  BY <1>1, <1>4, <1>5

(* A record that is collected is new to every batch.                       *)
LEMMA CollectOrdered ==
    ASSUME TypeOK, Batches, ParkedInv, LambdaTypeInv,
           NEW i \in Invocations, NEW q \in Requests, Collect(i, q)
    PROVE  LambdaTypeInv'
<1> DEFINE n == msg[q].receives + 1
           d == <<q, n>>
<1>1. \A j \in Invocations, m \in Deliveries : <<q, m>> \notin Held(j)
  BY DEF ParkedInv, HeldIsCurrent, Collect, Receive, ReceiveMessage
<1>2. n \in Deliveries
  BY MaxReceiveAssumption
     DEF Collect, Receive, ReceiveMessage, TypeOK, Messages, Deliveries
<1>3. /\ delivery' = [delivery EXCEPT ![q][n] = "received"]
      /\ batch' = [batch EXCEPT ![i] = Append(batch[i], d)]
      /\ Len(batch[i]) < BatchSize
  BY DEF Collect, Receive
<1> HIDE DEF n
<1>4. batch'[i] = Append(batch[i], d) /\ \A j \in Invocations \ {i} : batch'[j] = batch[j]
  BY <1>3 DEF Batches
<1>5. ASSUME NEW e \in Requests \X Deliveries, e[1] # q
      PROVE  delivery'[e[1]][e[2]] = delivery[e[1]][e[2]]
  BY <1>3, <1>5 DEF TypeOK
<1>6. delivery'[q][n] = "received"
  BY <1>2, <1>3 DEF TypeOK
<1>7. ASSUME NEW j \in Invocations, NEW e \in Held(j)
      PROVE  /\ e # d
             /\ delivery'[e[1]][e[2]] = delivery[e[1]][e[2]]
  <2>1. e \in Requests \X Deliveries
    BY <1>7, HeldTyped
  <2>2. e[1] # q
    <3>1. e = <<e[1], e[2]>> /\ e[2] \in Deliveries
      BY <2>1
    <3>2. QED
      BY <1>1, <1>7, <3>1
  <2>3. QED
    BY <1>5, <2>1, <2>2
<1>8. /\ Held(i)' = Held(i) \cup {d}
      /\ \A j \in Invocations \ {i} : Held(j)' = Held(j)
  BY CollectEffect DEF n
<1>9. ASSUME NEW j \in Invocations, NEW h \in Invocations \ {j}
      PROVE  Held(j)' \cap Held(h)' = {}
  BY <1>7, <1>8, <1>9 DEF LambdaTypeInv
<1>10. ASSUME NEW j \in Invocations, j # i
       PROVE  Len(batch'[j]) <= BatchSize /\ IsInjective(batch'[j]) /\ Ordered(j)'
  <2>1. Ordered(j)'
    BY <1>4, <1>7, <1>10, OrderKept DEF LambdaTypeInv
  <2>2. QED
    BY <1>4, <1>10, <2>1 DEF LambdaTypeInv
<1>11. Len(batch'[i]) <= BatchSize /\ IsInjective(batch'[i]) /\ Ordered(i)'
  <2> DEFINE l == Len(batch[i])
  <2>1. /\ l \in Nat /\ DOMAIN batch[i] = 1..l
        /\ Len(batch'[i]) = l + 1 /\ DOMAIN batch'[i] = 1..l+1
        /\ \A k \in 1..l : batch'[i][k] = batch[i][k]
        /\ batch'[i][l+1] = d
    <3>1. batch[i] \in Seq(Requests \X Deliveries) /\ d \in Requests \X Deliveries
      BY <1>2 DEF Batches
    <3>2. QED
      BY <1>4, <3>1
  <2>2. Len(batch'[i]) <= BatchSize
    BY <1>3, <2>1, BatchAssumption
  <2>3. \A k \in 1..l : batch[i][k] \in Held(i)
    BY <2>1, Entry
  <2> HIDE DEF l
  <2>4. ASSUME NEW a \in 1..l+1, NEW b \in 1..l+1, batch'[i][a] = batch'[i][b]
        PROVE  a = b
    <3>1. CASE a \in 1..l /\ b \in 1..l
      BY <2>1, <2>4, <3>1 DEF LambdaTypeInv, IsInjective
    <3>2. CASE a \in 1..l /\ b = l+1
      BY <1>7, <2>1, <2>3, <2>4, <3>2
    <3>3. CASE a = l+1 /\ b \in 1..l
      BY <1>7, <2>1, <2>3, <2>4, <3>3
    <3>4. QED
      BY <2>1, <2>4, <3>1, <3>2, <3>3
  <2>5. IsInjective(batch'[i])
    BY <2>1, <2>4 DEF IsInjective
  <2>6. ASSUME NEW k \in 1..l+1, NEW h \in 1..k-1, ~Done(batch[i][h])'
        PROVE  delivery'[batch'[i][k][1]][batch'[i][k][2]] = "received"
    <3>1. CASE k = l+1
      BY <1>6, <2>1, <3>1
    <3>2. CASE k # l+1
      <4>1. k \in 1..l /\ h \in 1..l
        BY <2>1, <2>6, <3>2
      <4>2. batch'[i][k] = batch[i][k] /\ batch'[i][h] = batch[i][h]
        BY <2>1, <4>1
      <4>3. ~Done(batch[i][h])
        BY <1>7, <2>3, <2>6, <4>1, <4>2 DEF Done
      <4>4. delivery[batch[i][k][1]][batch[i][k][2]] = "received"
        BY <2>1, <2>6, <4>1, <4>3 DEF LambdaTypeInv, Ordered
      <4>5. QED
        BY <1>7, <2>3, <4>1, <4>2, <4>4
    <3>3. QED
      BY <3>1, <3>2
  <2>7. Ordered(i)'
    BY <2>1, <2>6 DEF Ordered
  <2>8. QED
    BY <2>2, <2>5, <2>7
<1>12. QED
  BY <1>9, <1>10, <1>11 DEF LambdaTypeInv

LEMMA LambdaTypeStep ==
    ASSUME TypeOK, Batches, ParkedInv, LambdaTypeInv, [LambdaNext]_lambdaVars
    PROVE  LambdaTypeInv'
<1>1. ASSUME UNCHANGED <<batch, delivery>>
      PROVE  LambdaTypeInv'
  BY <1>1 DEF LambdaTypeInv, Ordered, Done, Held
<1>2. ASSUME NEW q \in Requests, ApiStep(q) \/ QueueRedrive(q) \/ QueueTimeout(q)
      PROVE  LambdaTypeInv'
  BY <1>1, <1>2 DEF ApiStep, QueueRedrive, QueueTimeout, Reject, Save, Publish,
     PublishUnrouted, ForeignSend, Respond, Redrive, VisibilityTimeout
<1>3. ASSUME NEW i \in Invocations, NEW q \in Requests, Collect(i, q)
      PROVE  LambdaTypeInv'
  BY <1>3, CollectOrdered
<1>4. ASSUME NEW i \in Invocations, NEW q \in Requests, NEW n \in Deliveries,
             \/ HandleRecord(i, q, n) \/ DeleteRecord(i, q, n)
             \/ RecordFails(i, q, n) \/ DeleteFails(i, q, n)
      PROVE  LambdaTypeInv'
  <2> DEFINE d == <<q, n>>
  <2>1. PICK from, to : Step(q, n, from, to)
    BY <1>4 DEF HandleRecord, DeleteRecord, RecordFails, DeleteFails,
       WorkerStep, DropMalformed, MarkProcessing, GetModelRaises,
       ValidateRaises, PredictReturns, PredictRaises, MarkCompleted,
       StoreRefused, RecordPermanentFailure, RecordTransientFailure, Delete,
       WriteRaises, DeleteLost
  <2>2. ASSUME NEW e \in Requests \X Deliveries, e # d
        PROVE  delivery'[e[1]][e[2]] = delivery[e[1]][e[2]]
    <3>1. e[1] \in Requests /\ e[2] \in Deliveries /\ (e[1] # q \/ e[2] # n)
      BY <2>2
    <3>2. QED
      BY <2>1, <3>1 DEF Step, TypeOK
  <2>3. d \in Held(i) /\ UNCHANGED batch
    BY <1>4 DEF HandleRecord, DeleteRecord, RecordFails, DeleteFails, Current,
       Held, ToSet
  <2>4. Current(i, d) \/ (Done(d) /\ Done(d)')
    <3>1. CASE HandleRecord(i, q, n) \/ RecordFails(i, q, n)
      BY <3>1 DEF HandleRecord, RecordFails
    <3>2. CASE DeleteRecord(i, q, n) \/ DeleteFails(i, q, n)
      <4>1. Step(q, n, "ack", "end")
        BY <3>2 DEF DeleteRecord, DeleteFails, Delete, DeleteLost
      <4>2. delivery[q][n] = "ack" /\ delivery'[q][n] = "end"
        BY <4>1 DEF Step, TypeOK
      <4>3. QED
        BY <4>2 DEF Done
    <3>3. QED
      BY <1>4, <3>1, <3>2
  <2> HIDE DEF d
  <2>5. \A j \in Invocations : batch'[j] = batch[j] /\ Held(j)' = Held(j)
    BY <2>3 DEF Held
  <2>6. Ordered(i)'
    BY <2>2, <2>4, <2>5, HeldTyped, OneMoves DEF LambdaTypeInv
  <2>7. ASSUME NEW j \in Invocations, j # i
        PROVE  Ordered(j)'
    <3>1. d \notin Held(j)
      BY <2>3, <2>7 DEF LambdaTypeInv
    <3>2. \A e \in Held(j) : delivery'[e[1]][e[2]] = delivery[e[1]][e[2]]
      BY <2>2, <3>1, HeldTyped
    <3>3. QED
      BY <2>5, <3>2, OrderKept DEF LambdaTypeInv
  <2>8. QED
    BY <2>5, <2>6, <2>7 DEF LambdaTypeInv
<1>5. ASSUME NEW i \in Invocations, Invoke(i) \/ Return(i)
      PROVE  LambdaTypeInv'
  BY <1>1, <1>5 DEF Invoke, Return, vars
<1>6. ASSUME NEW i \in Invocations, BatchDeleted(i) \/ CutOff(i)
      PROVE  LambdaTypeInv'
  <2>1. LetGo(i) /\ delivery' = delivery
    BY <1>6 DEF BatchDeleted, CutOff, vars
  <2>2. batch'[i] = << >> /\ \A j \in Invocations \ {i} : batch'[j] = batch[j]
    BY <2>1 DEF LetGo, Batches
  <2>3. /\ Held(i)' = {}
        /\ \A j \in Invocations \ {i} : Held(j)' = Held(j)
    BY <2>2 DEF Held, ToSet
  <2>4. /\ Len(batch'[i]) <= BatchSize
        /\ IsInjective(batch'[i])
        /\ Ordered(i)'
    BY <2>2, BatchAssumption DEF IsInjective, Ordered
  <2>5. \A j \in Invocations \ {i} :
            Len(batch'[j]) <= BatchSize /\ IsInjective(batch'[j]) /\ Ordered(j)'
    BY <2>1, <2>2 DEF LambdaTypeInv, Ordered, Done
  <2>6. \A j, h \in Invocations : j # h => Held(j)' \cap Held(h)' = {}
    BY <2>3 DEF LambdaTypeInv
  <2>7. QED
    BY <2>4, <2>5, <2>6 DEF LambdaTypeInv
<1>7. CASE UNCHANGED lambdaVars
  BY <1>1, <1>7 DEF lambdaVars
<1>8. QED
  BY <1>2, <1>3, <1>4, <1>5, <1>6, <1>7 DEF LambdaNext, Mapping, Handler, LambdaFails

(* However invocations overlap, fail and are cut off, each holds at most a *)
(* batch of deliveries that no other has, and works through it in order.   *)
THEOREM LambdaTypeCorrect == LambdaSpec => []LambdaTypeOK
<1> DEFINE I == Batches /\ ParkedInv /\ LambdaTypeInv
<1>1. LambdaInit => I
  <2> SUFFICES ASSUME LambdaInit
               PROVE  I
    OBVIOUS
  <2>1. Batches /\ ParkedInv
    BY DEF LambdaInit, Init, SqsInit, Batches, Stages, ParkedInv,
       HeldIsCurrent, ReasonKept, Held, ToSet
  <2>2. \A i \in Invocations : batch[i] = << >> /\ Held(i) = {}
    BY DEF LambdaInit, Held, ToSet
  <2>3. LambdaTypeInv
    BY <2>2, BatchAssumption DEF LambdaTypeInv, IsInjective, Ordered
  <2>4. QED
    BY <2>1, <2>3
<1>2. TypeOK /\ Inv /\ I /\ [LambdaNext]_lambdaVars => I'
  BY ParkedStep, LambdaTypeStep
<1>3. LambdaSpec => [](TypeOK /\ Inv)
  BY LambdaImplementsService, Invariance, PTL DEF ImplementsService
<1>4. I => LambdaTypeOK
  BY DEF Batches, LambdaTypeInv, LambdaTypeOK, Ordered
<1>5. QED
  BY <1>1, <1>2, <1>3, <1>4, PTL DEF LambdaSpec
=============================================================================
