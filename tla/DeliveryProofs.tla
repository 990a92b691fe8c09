---------------------------- MODULE DeliveryProofs ----------------------------
(***************************************************************************)
(* Proofs about Delivery, for any number of executions, pushes and test    *)
(* cases, and with either input of PublishMetrics: executions keep their   *)
(* order, a passed smoke test is true, and what an execution releases and  *)
(* leaves running is what it tested and took.                              *)
(***************************************************************************)
EXTENDS Delivery, TLAPS

LEMMA StageNumbers ==
    /\ Len(Stages) = 5
    /\ DOMAIN Stages = 1..5
    /\ Number("Build_And_Test") = 1
    /\ Number("Deploy_QA") = 2
    /\ Number("Verify_QA") = 3
    /\ Number("Approve_Prod") = 4
    /\ Number("Deploy_Prod") = 5
<1>1. Len(Stages) = 5 /\ DOMAIN Stages = 1..5
  BY DEF Stages
<1>2. /\ Stages[1] = "Build_And_Test" /\ Stages[2] = "Deploy_QA"
      /\ Stages[3] = "Verify_QA" /\ Stages[4] = "Approve_Prod"
      /\ Stages[5] = "Deploy_Prod"
  BY DEF Stages
<1>3. \A k \in 1..5 : k = 1 \/ k = 2 \/ k = 3 \/ k = 4 \/ k = 5
  OBVIOUS
<1>4. \A k \in 1..5 : Number(Stages[k]) \in 1..5 /\ Stages[Number(Stages[k])] = Stages[k]
  BY <1>1 DEF Number
<1>5. \A j, k \in 1..5 : Stages[j] = Stages[k] => j = k
  BY <1>2, <1>3
<1>6. \A k \in 1..5 : Number(Stages[k]) = k
  BY <1>4, <1>5
<1>7. QED
  BY <1>1, <1>2, <1>6

----------------------------------------------------------------------------
(* The smoke test.  While a case is tried, the ones before it were         *)
(* COMPLETED unless one is counted as failed; so is this one if its record *)
(* shows it.                                                               *)
CaseInv ==
    /\ smoke \in [at : SmokeStates, case : Nat \ {0}, failures : Nat]
    /\ record \in [now : RecordStates, old : RecordStates]
    /\ smoke.case <= Len(Cases) + 1 /\ smoke.failures <= Len(Cases)
    /\ truth \subseteq DOMAIN Cases
    /\ At("idle") \/ At("catalog") => smoke.case = 1 /\ smoke.failures = 0
    /\ At("submitting") \/ At("polling") =>
          /\ smoke.case <= Len(Cases)
          /\ smoke.failures < smoke.case
          /\ smoke.failures = 0 => 1..smoke.case-1 \subseteq truth
    /\ At("polling") /\ "COMPLETED" \in {record.now, record.old} => smoke.case \in truth
    /\ PassIsSound

(* What a step may do with the smoke test.                                 *)
SmokeMoves ==
    \/ UNCHANGED smokeVars
    \/ Begin
    \/ SmokeStep
    \/ WorkerWrites
    \/ smoke' = NoSmoke /\ truth' = {} /\ UNCHANGED record

LEMMA SmokeFrame == [Next]_vars => SmokeMoves
<1> SUFFICES ASSUME [Next]_vars PROVE SmokeMoves
  OBVIOUS
<1>1. CASE UNCHANGED vars
  BY <1>1 DEF vars, SmokeMoves
<1>2. CASE Push \/ \E env \in Environments : StartTasks(env) \/ StopOldTasks(env)
  BY <1>2 DEF Push, StartTasks, StopOldTasks, SmokeMoves
<1>3. CASE ApiEndpointTests
  BY <1>3 DEF ApiEndpointTests, SmokeMoves
<1>4. ASSUME NEW e \in Ids, StartExecution(e) \/ QaProcesses(e) \/ SnsRefuses(e)
      PROVE  SmokeMoves
  BY <1>4 DEF StartExecution, QaProcesses, SnsRefuses, SmokeMoves
<1>5. ASSUME NEW e \in Ids, StageStep(e)
      PROVE  SmokeMoves
  <2>1. CASE EnterStage(e)
    BY <2>1 DEF EnterStage, SmokeMoves
  <2>2. CASE VerifyEnds(e)
    BY <2>2 DEF VerifyEnds, SmokeMoves
  <2>3. CASE Deploy(e, "Deploy_QA", "qa") \/ Deploy(e, "Deploy_Prod", "prod")
    BY <2>3 DEF Deploy, UpdateService, ServicesStable, DeployFails, SmokeMoves
  <2>4. CASE UnitTests(e) \/ PublishMetrics(e) \/ ManualApproval(e)
             \/ \E row \in Rows : LoadTest(e, row)
    BY <2>4 DEF UnitTests, PublishMetrics, ManualApproval, LoadTest, SmokeMoves
  <2>5. QED
    BY <1>5, <2>1, <2>2, <2>3, <2>4 DEF StageStep
<1>6. QED
  BY <1>1, <1>2, <1>3, <1>4, <1>5 DEF Next, NotifiedNext, Pipeline

LEMMA CasesCounted == Len(Cases) \in Nat /\ DOMAIN Cases = 1..Len(Cases)
  BY CasesAssumption

LEMMA CaseOverKeeps ==
    ASSUME CaseInv, At("submitting") \/ At("polling"), NEW failed \in {0, 1},
           failed = 0 => smoke.case \in truth, CaseOver(failed)
    PROVE  CaseInv'
<1> USE CasesCounted
<1>1. /\ smoke.case \in 1..Len(Cases) /\ smoke.failures \in Nat
      /\ smoke.failures + failed <= smoke.case
      /\ smoke.failures + failed = 0 => 1..smoke.case \subseteq truth
  BY DEF CaseInv, At
<1>2. CASE smoke.case < Len(Cases)
  <2>1. smoke' = [at |-> "submitting", case |-> smoke.case + 1,
                  failures |-> smoke.failures + failed]
    BY <1>2 DEF CaseOver
  <2>2. QED
    BY <1>1, <1>2, <2>1 DEF CaseOver, CaseInv, At, NoRecord, PassIsSound, SmokeStates,
       RecordStates
<1>3. CASE ~(smoke.case < Len(Cases))
  <2> DEFINE failures == smoke.failures + failed
             at == IF failures = 0 THEN "passed" ELSE "failed"
  <2>1. /\ smoke' = [smoke EXCEPT !.at = at, !.failures = failures]
        /\ record' = NoRecord /\ truth' = truth
    BY <1>3 DEF CaseOver
  <2>2. smoke \in [at : SmokeStates, case : Nat \ {0}, failures : Nat]
    BY DEF CaseInv
  <2>3. failures \in Nat /\ at \in SmokeStates
    BY <1>1 DEF SmokeStates
  <2>4. /\ smoke' \in [at : SmokeStates, case : Nat \ {0}, failures : Nat]
        /\ smoke'.at = at /\ smoke'.case = smoke.case /\ smoke'.failures = failures
    BY <2>1, <2>2, <2>3
  <2>5. at \in {"passed", "failed"} /\ (at = "passed" => failures = 0)
    OBVIOUS
  <2>6. at = "passed" => truth' = DOMAIN Cases
    <3>1. smoke.case = Len(Cases)
      BY <1>1, <1>3
    <3>2. failures = 0 => 1..smoke.case \subseteq truth
      BY <1>1
    <3>3. truth \subseteq DOMAIN Cases
      BY DEF CaseInv
    <3>4. QED
      BY <2>1, <2>5, <3>1, <3>2, <3>3
  <2>7. record' \in [now : RecordStates, old : RecordStates]
    BY <2>1 DEF NoRecord, RecordStates
  <2> HIDE DEF at, failures
  <2>8. QED
    BY <1>1, <2>1, <2>3, <2>4, <2>5, <2>6, <2>7 DEF CaseInv, At, PassIsSound, failures
<1>4. QED
  BY <1>2, <1>3

LEMMA SmokeKept == CaseInv /\ SmokeMoves => CaseInv'
<1> SUFFICES ASSUME CaseInv, SmokeMoves PROVE CaseInv'
  OBVIOUS
<1> USE CasesCounted
<1>1. CASE UNCHANGED smokeVars
  BY <1>1 DEF smokeVars, CaseInv, PassIsSound, At
<1>2. CASE Begin
  BY <1>2 DEF Begin, CaseInv, PassIsSound, At, NoSmoke, NoRecord, SmokeStates, RecordStates
<1>3. CASE ReadCatalog
  <2>1. Len(Cases) = 0 => Cases = << >> /\ truth = DOMAIN Cases
    BY CasesAssumption DEF CaseInv
  <2>2. Cases = << >> => Len(Cases) = 0
    OBVIOUS
  <2>3. QED
    BY <1>3, <2>1, <2>2 DEF ReadCatalog, CaseInv, PassIsSound, At, SmokeStates
<1>4. CASE CatalogRaises
  BY <1>4 DEF CatalogRaises, CaseInv, PassIsSound, At, SmokeStates
<1>5. CASE Submit
  BY <1>5 DEF Submit, CaseInv, PassIsSound, At, SmokeStates, RecordStates
<1>6. CASE CaseRaises
  BY <1>6, CaseOverKeeps DEF CaseRaises
<1>7. CASE PollReads
  <2>1. PICK seen \in {record.now, record.old} \cap {"COMPLETED", "FAILED"} :
            CaseOver(IF seen = "COMPLETED" THEN 0 ELSE 1)
    BY <1>7 DEF PollReads
  <2>2. seen = "COMPLETED" => smoke.case \in truth
    BY <1>7, <2>1 DEF PollReads, CaseInv
  <2>3. QED
    BY <1>7, <2>1, <2>2, CaseOverKeeps DEF PollReads
<1>8. CASE WorkerWrites
  BY <1>8 DEF WorkerWrites, CaseInv, PassIsSound, At, RecordStates
<1>9. CASE smoke' = NoSmoke /\ truth' = {} /\ UNCHANGED record
  BY <1>9 DEF CaseInv, PassIsSound, At, NoSmoke, SmokeStates
<1>10. QED
  BY <1>1, <1>2, <1>3, <1>4, <1>5, <1>6, <1>7, <1>8, <1>9 DEF SmokeMoves, SmokeStep

LEMMA SmokeInitial == Init => CaseInv
  BY CasesCounted DEF Init, SmokeInit, CaseInv, PassIsSound, At, NoSmoke, NoRecord,
     SmokeStates, RecordStates

(* A smoke test that passes is right, for any list of cases: each of their *)
(* requests has been COMPLETED.                                            *)
THEOREM PassSound == Spec => []PassIsSound
<1>1. CaseInv /\ [Next]_vars => CaseInv'
  BY SmokeFrame, SmokeKept
<1>2. CaseInv => PassIsSound
  BY DEF CaseInv
<1>3. QED
  BY SmokeInitial, <1>1, <1>2, PTL DEF Spec

----------------------------------------------------------------------------
(* The executions.                                                         *)

ExecTyped ==
    /\ latest \in Images
    /\ exec \in [Ids -> [stage : 0..5, state : ExecStates, image : 0..Pushes]]
    /\ \A e \in Ids :
          /\ Live(e) => exec[e].stage \in 1..5 /\ exec[e].image \in 1..latest
          /\ ~Live(e) => exec[e].stage = 0
          /\ exec[e].image <= latest

StartedInOrder ==
    \A e, f \in Ids : e < f /\ exec[e].state = "none" => exec[f].state = "none"

ExecInv == ExecTyped /\ StartedInOrder /\ NoOvertaking

(* What a step may do with the executions: begin one, let it into a stage, *)
(* take it to the next, or end it.                                         *)
Begins(e) ==
    /\ exec[e].state = "none"
    /\ \A f \in 1..e-1 : exec[f].state # "none"
    /\ Queue(e, 1, latest)

Advances(e) ==
    /\ exec[e].state = "running"
    /\ exec[e].stage < 5
    /\ Queue(e, exec[e].stage + 1, exec[e].image)

Ends(e, state) ==
    /\ exec[e].state = "running"
    /\ exec' = [exec EXCEPT ![e].stage = 0, ![e].state = state]

Moves(e) == Begins(e) \/ Admit(e) \/ Advances(e) \/ Ends(e, "succeeded") \/ Ends(e, "failed")

LEMMA SucceedMoves ==
    ASSUME ExecTyped, NEW e \in Ids,
           NEW stage \in {"Build_And_Test", "Deploy_QA", "Verify_QA", "Approve_Prod",
                          "Deploy_Prod"},
           Running(e, stage), Succeed(e, stage)
    PROVE  IF stage = "Deploy_Prod" THEN Ends(e, "succeeded") ELSE Advances(e)
<1>1. CASE stage = "Deploy_Prod"
  BY <1>1, StageNumbers DEF Running, Succeed, Ends
<1>2. CASE stage # "Deploy_Prod"
  BY <1>2, StageNumbers DEF Running, Succeed, Advances
<1>3. QED
  BY <1>1, <1>2

LEMMA FailMoves ==
    ASSUME NEW e \in Ids, NEW stage, Running(e, stage), Fail(e, stage)
    PROVE  Ends(e, "failed")
  BY DEF Running, Fail, Ends

LEMMA ExecFrame ==
    ASSUME ExecTyped, [Next]_vars
    PROVE  /\ UNCHANGED exec \/ \E e \in Ids : Moves(e)
           /\ UNCHANGED latest \/ (Push /\ UNCHANGED exec)
<1>1. CASE UNCHANGED vars
  BY <1>1 DEF vars
<1>2. CASE \/ Push \/ ApiEndpointTests
           \/ \E env \in Environments : StartTasks(env) \/ StopOldTasks(env)
  BY <1>2 DEF Push, StartTasks, StopOldTasks, ApiEndpointTests
<1>3. ASSUME NEW e \in Ids, StartExecution(e) \/ EnterStage(e)
      PROVE  Moves(e) /\ UNCHANGED latest
  BY <1>3 DEF StartExecution, EnterStage, Moves, Begins
<1>4. ASSUME NEW e \in Ids, QaProcesses(e) \/ \E row \in Rows : LoadTest(e, row)
      PROVE  UNCHANGED <<exec, latest>>
  BY <1>4 DEF QaProcesses, LoadTest
<1>5. ASSUME NEW e \in Ids, UnitTests(e) \/ VerifyEnds(e) \/ ManualApproval(e)
                            \/ PublishMetrics(e) \/ SnsRefuses(e)
      PROVE  (UNCHANGED exec \/ Moves(e)) /\ UNCHANGED latest
  BY <1>5, SucceedMoves, FailMoves
     DEF UnitTests, VerifyEnds, ManualApproval, PublishMetrics, SnsRefuses, Moves
<1>6. ASSUME NEW e \in Ids, Deploy(e, "Deploy_QA", "qa") \/ Deploy(e, "Deploy_Prod", "prod")
      PROVE  (UNCHANGED exec \/ Moves(e)) /\ UNCHANGED latest
  BY <1>6, SucceedMoves, FailMoves
     DEF Deploy, UpdateService, ServicesStable, DeployFails, Moves
<1>7. QED
  BY <1>1, <1>2, <1>3, <1>4, <1>5, <1>6 DEF Next, NotifiedNext, Pipeline, StageStep

(* Of the executions that wait for k, e alone is left.                     *)
LEMMA QueueEffect ==
    ASSUME ExecTyped, NEW e \in Ids, NEW k \in 1..5, NEW image, Queue(e, k, image)
    PROVE  /\ Live(e)' /\ exec'[e].stage = k /\ exec'[e].state = "waiting"
           /\ exec'[e].image = image
           /\ \A f \in Ids \ {e} :
                 \/ exec'[f] = exec[f] /\ ~(exec[f].stage = k /\ exec[f].state = "waiting")
                 \/ /\ exec[f].stage = k /\ exec[f].state = "waiting"
                    /\ exec'[f].stage = 0 /\ exec'[f].state = "superseded"
                    /\ exec'[f].image = exec[f].image
  BY DEF ExecTyped, Queue, Live

LEMMA QueueTyped ==
    ASSUME ExecTyped, NEW e \in Ids, NEW k \in 1..5, NEW image \in 1..latest,
           Queue(e, k, image), UNCHANGED latest
    PROVE  ExecTyped'
<1> DEFINE Record == [stage : 0..5, state : ExecStates, image : 0..Pushes]
<1>1. latest \in 1..Pushes /\ Pushes \in Nat
  BY DeliveryAssumption DEF ExecTyped, Images
<1>2. [stage |-> k, state |-> "waiting", image |-> image] \in Record
  BY <1>1 DEF ExecStates
<1>3. \A f \in Ids : [exec[f] EXCEPT !.stage = 0, !.state = "superseded"] \in Record
  <2> SUFFICES ASSUME NEW f \in Ids
               PROVE  [exec[f] EXCEPT !.stage = 0, !.state = "superseded"] \in Record
    OBVIOUS
  <2>1. exec[f] \in Record
    BY DEF ExecTyped
  <2>2. 0 \in 0..5 /\ "superseded" \in ExecStates
    BY DEF ExecStates
  <2>3. QED
    BY <2>1, <2>2
<1>4. exec' \in [Ids -> Record]
  BY <1>2, <1>3 DEF ExecTyped, Queue
<1>5. ASSUME NEW f \in Ids
      PROVE  /\ Live(f)' => exec'[f].stage \in 1..5 /\ exec'[f].image \in 1..latest
             /\ ~Live(f)' => exec'[f].stage = 0
             /\ exec'[f].image <= latest
  <2>1. CASE f = e
    <3>1. /\ exec'[e].stage = k /\ exec'[e].state = "waiting"
          /\ exec'[e].image = image
      BY QueueEffect
    <3>2. image <= latest
      BY <1>1
    <3>3. QED
      BY <2>1, <3>1, <3>2 DEF Live
  <2>2. CASE f # e /\ exec[f].stage = k /\ exec[f].state = "waiting"
    BY <2>2 DEF Queue, Live, ExecTyped
  <2>3. CASE f # e /\ ~(exec[f].stage = k /\ exec[f].state = "waiting")
    BY <2>3 DEF Queue, Live, ExecTyped
  <2>4. QED
    BY <2>1, <2>2, <2>3
<1>6. QED
  BY <1>4, <1>5 DEF ExecTyped

LEMMA MovesTyped ==
    ASSUME ExecTyped, NEW e \in Ids, Moves(e), UNCHANGED latest
    PROVE  ExecTyped'
<1>1. CASE Begins(e)
  BY <1>1, QueueTyped, DeliveryAssumption DEF Begins, ExecTyped, Images
<1>2. CASE Admit(e)
  BY <1>2 DEF Admit, ExecTyped, Live, ExecStates
<1>3. CASE Advances(e)
  <2>1. exec[e].stage + 1 \in 1..5 /\ exec[e].image \in 1..latest
    BY <1>3 DEF Advances, ExecTyped, Live
  <2>2. QED
    BY <1>3, <2>1, QueueTyped DEF Advances
<1>4. CASE Ends(e, "succeeded") \/ Ends(e, "failed")
  BY <1>4 DEF Ends, ExecTyped, Live, ExecStates
<1>5. QED
  BY <1>1, <1>2, <1>3, <1>4 DEF Moves

LEMMA MovesOrdered ==
    ASSUME ExecInv, NEW e \in Ids, Moves(e)
    PROVE  StartedInOrder' /\ NoOvertaking'
<1> USE DEF ExecInv
<1>t. /\ Ids \subseteq Int
      /\ \A f \in Ids : exec[f].stage \in 0..5 /\ (Live(f) => exec[f].stage \in 1..5)
  BY DEF ExecTyped, Ids
<1>1. CASE Begins(e)
  <2>1. /\ Live(e)' /\ exec'[e].stage = 1 /\ exec'[e].state = "waiting"
        /\ \A f \in Ids \ {e} :
              \/ exec'[f] = exec[f] /\ ~(exec[f].stage = 1 /\ exec[f].state = "waiting")
              \/ ~Live(f)' /\ exec'[f].state # "none" /\ exec[f].state # "none"
    BY <1>1, QueueEffect DEF Begins, Live
  <2>2. \A f \in Ids : f < e => exec[f].state # "none"
    BY <1>1 DEF Begins, Ids
  <2>3. \A f \in Ids : e < f => exec[f].state = "none"
    BY <1>1 DEF Begins, StartedInOrder
  <2>4. \A f \in Ids : e < f => ~Live(f)'
    BY <2>1, <2>3, <1>t DEF Live
  <2>5. StartedInOrder'
    BY <2>1, <2>2, <1>t DEF StartedInOrder
  <2>6. NoOvertaking'
    BY <2>1, <2>4, <1>t DEF NoOvertaking, Live
  <2>7. QED
    BY <2>5, <2>6
<1>2. CASE Admit(e)
  <2>1. /\ exec'[e].stage = exec[e].stage /\ exec'[e].state = "running"
        /\ \A f \in Ids \ {e} : exec'[f] = exec[f]
        /\ exec[e].state = "waiting"
        /\ \A f \in Ids : ~(exec[f].state = "running" /\ exec[f].stage = exec[e].stage)
    BY <1>2 DEF Admit, ExecTyped
  <2>2. StartedInOrder'
    BY <2>1 DEF StartedInOrder
  <2>3. NoOvertaking'
    <3> SUFFICES ASSUME NEW f \in Ids, NEW g \in Ids, f < g, Live(f)', Live(g)'
                 PROVE  \/ exec'[f].stage > exec'[g].stage
                        \/ exec'[f].stage = exec'[g].stage /\ exec'[f].state = "running"
                                                         /\ exec'[g].state = "waiting"
      BY DEF NoOvertaking
    <3>1. Live(f) /\ Live(g) /\ exec'[f].stage = exec[f].stage
          /\ exec'[g].stage = exec[g].stage
      BY <2>1 DEF Live
    <3>2. \/ exec[f].stage > exec[g].stage
          \/ exec[f].stage = exec[g].stage /\ exec[f].state = "running"
                                           /\ exec[g].state = "waiting"
      BY <3>1 DEF NoOvertaking
    <3>3. exec[f].stage = exec[g].stage => f # e /\ g # e
      BY <2>1, <3>2, <1>t
    <3>4. QED
      BY <2>1, <3>1, <3>2, <3>3
  <2>4. QED
    BY <2>2, <2>3
<1>3. CASE Advances(e)
  <2> DEFINE k == exec[e].stage
  <2>1. /\ exec[e].state = "running" /\ k \in 1..4
        /\ Live(e)' /\ exec'[e].stage = k + 1 /\ exec'[e].state = "waiting"
        /\ \A f \in Ids \ {e} :
              \/ exec'[f] = exec[f] /\ ~(exec[f].stage = k + 1 /\ exec[f].state = "waiting")
              \/ ~Live(f)' /\ exec'[f].state # "none" /\ exec[f].state # "none"
    <3>1. exec[e].state = "running" /\ k \in 1..4 /\ Queue(e, k + 1, exec[e].image)
      BY <1>3, <1>t DEF Advances, Live
    <3>2. k + 1 \in 1..5
      BY <3>1
    <3>3. QED
      BY <3>1, <3>2, QueueEffect DEF Live
  <2>2. StartedInOrder'
    BY <2>1 DEF StartedInOrder
  <2>3. NoOvertaking'
    BY <2>1, <1>t DEF NoOvertaking, Live
  <2>4. QED
    BY <2>2, <2>3
<1>4. ASSUME NEW state \in {"succeeded", "failed"}, Ends(e, state)
      PROVE  StartedInOrder' /\ NoOvertaking'
  <2>1. /\ exec[e].state = "running" /\ exec'[e].state = state
        /\ \A f \in Ids \ {e} : exec'[f] = exec[f]
    BY <1>4 DEF Ends, ExecTyped
  <2>2. QED
    BY <2>1 DEF StartedInOrder, NoOvertaking, Live
<1>5. QED
  BY <1>1, <1>2, <1>3, <1>4 DEF Moves

LEMMA ExecInitial == Init => ExecInv
  BY DeliveryAssumption DEF Init, ExecInv, ExecTyped, StartedInOrder, NoOvertaking,
     NoExecution, Live, Images, ExecStates

LEMMA ExecKept == ExecInv /\ [Next]_vars => ExecInv'
<1> SUFFICES ASSUME ExecInv, [Next]_vars PROVE ExecInv'
  OBVIOUS
<1>1. CASE UNCHANGED <<exec, latest>>
  BY <1>1 DEF ExecInv, ExecTyped, StartedInOrder, NoOvertaking, Live
<1>2. CASE Push /\ UNCHANGED exec
  BY <1>2, DeliveryAssumption
     DEF Push, ExecInv, ExecTyped, StartedInOrder, NoOvertaking, Live, Images
<1>3. ASSUME NEW e \in Ids, Moves(e), UNCHANGED latest
      PROVE  ExecInv'
  BY <1>3, MovesTyped, MovesOrdered DEF ExecInv
<1>4. QED
  BY <1>1, <1>2, <1>3, ExecFrame DEF ExecInv

(* Executions never overtake each other, however many share the stages,    *)
(* and no two of them run one stage.                                       *)
THEOREM NoneOvertakes == Spec => []NoOvertaking
<1>1. ExecInv => NoOvertaking
  BY DEF ExecInv
<1>2. QED
  BY ExecInitial, ExecKept, <1>1, PTL DEF Spec

----------------------------------------------------------------------------
(* The stages' actions, the services and the histories.                    *)

RestTyped ==
    /\ action \in [1..5 -> {"idle", "begun", "rolling", "asked"}]
    /\ load \in {"idle", "running", "passed", "failed"}
    /\ service \in [Environments -> [revision : Images, tasks : SUBSET Images]]
    /\ \A env \in Environments :
          service[env].revision <= latest /\ service[env].tasks \subseteq 1..latest
    /\ verified \in [Ids -> SUBSET Images]
    /\ released \in [Ids -> 0..Pushes]

LEMMA RestInitial == Init => RestTyped
  BY StageNumbers, DeliveryAssumption DEF Init, RestTyped, Images, Environments

LEMMA LeaveTyped ==
    ASSUME RestTyped, NEW e, NEW stage, Succeed(e, stage) \/ Fail(e, stage)
    PROVE  action' \in [1..5 -> {"idle", "begun", "rolling", "asked"}]
  BY DEF RestTyped, Succeed, Fail, Leave

LEMMA RestKept ==
    ASSUME ExecInv, RestTyped, [Next]_vars
    PROVE  RestTyped'
<1>1. latest \in 1..Pushes /\ Pushes \in Nat /\ Images = 1..Pushes
  BY DeliveryAssumption DEF ExecInv, ExecTyped, Images
<1>2. CASE UNCHANGED vars
  BY <1>2 DEF vars, RestTyped
<1>3. CASE Push
  BY <1>1, <1>3 DEF Push, RestTyped
<1>4. CASE ApiEndpointTests
  BY <1>4 DEF ApiEndpointTests, RestTyped
<1>5. ASSUME NEW env \in Environments, StartTasks(env) \/ StopOldTasks(env)
      PROVE  RestTyped'
  <2>1. PICK tasks \in {service[env].tasks \cup {service[env].revision},
                        {service[env].revision}} :
            service' = [service EXCEPT ![env].tasks = tasks]
    BY <1>5 DEF StartTasks, StopOldTasks
  <2>2. tasks \in SUBSET Images /\ tasks \subseteq 1..latest
    <3>1. /\ service[env].revision \in 1..latest
          /\ service[env].tasks \subseteq 1..latest
      BY <1>1 DEF RestTyped
    <3>2. QED
      BY <1>1, <2>1, <3>1
  <2>3. service' \in [Environments -> [revision : Images, tasks : SUBSET Images]]
    BY <2>1, <2>2 DEF RestTyped
  <2>4. \A v \in Environments :
            service'[v].revision <= latest /\ service'[v].tasks \subseteq 1..latest
    BY <2>1, <2>2 DEF RestTyped
  <2>5. QED
    BY <1>5, <2>3, <2>4 DEF StartTasks, StopOldTasks, RestTyped
<1>6. ASSUME NEW e \in Ids, StartExecution(e) \/ EnterStage(e)
      PROVE  RestTyped'
  BY <1>6 DEF StartExecution, EnterStage, RestTyped
<1>7. ASSUME NEW e \in Ids, UnitTests(e) \/ PublishMetrics(e) \/ SnsRefuses(e)
                            \/ ManualApproval(e)
      PROVE  RestTyped'
  BY <1>7, LeaveTyped DEF UnitTests, PublishMetrics, SnsRefuses, ManualApproval, RestTyped
<1>8. ASSUME NEW e \in Ids, VerifyEnds(e)
      PROVE  RestTyped'
  BY <1>8, LeaveTyped DEF VerifyEnds, RestTyped
<1>9. ASSUME NEW e \in Ids, QaProcesses(e)
      PROVE  RestTyped'
  BY <1>9 DEF QaProcesses, RestTyped, Environments
<1>10. ASSUME NEW e \in Ids, NEW row \in Rows, LoadTest(e, row)
       PROVE  RestTyped'
  BY <1>10 DEF LoadTest, RestTyped
<1>11. ASSUME NEW e \in Ids, NEW stage, NEW env \in Environments, UpdateService(e, stage, env)
       PROVE  RestTyped'
  <2>1. /\ service' = [service EXCEPT ![env].revision = latest]
        /\ action' \in [1..5 -> {"idle", "begun", "rolling", "asked"}]
    BY <1>11 DEF UpdateService, RestTyped
  <2>2. /\ service' \in [Environments -> [revision : Images, tasks : SUBSET Images]]
        /\ \A v \in Environments :
              service'[v].revision <= latest /\ service'[v].tasks \subseteq 1..latest
    <3>1. service' = [service EXCEPT ![env] = [service[env] EXCEPT !.revision = latest]]
      BY <2>1
    <3>2. [service[env] EXCEPT !.revision = latest] \in [revision : Images, tasks : SUBSET Images]
      BY <1>1 DEF RestTyped
    <3>3. service' \in [Environments -> [revision : Images, tasks : SUBSET Images]]
      BY <3>1, <3>2 DEF RestTyped
    <3>4. /\ service'[env].revision = latest /\ service'[env].tasks = service[env].tasks
          /\ \A v \in Environments \ {env} : service'[v] = service[v]
      BY <2>1 DEF RestTyped
    <3>5. QED
      BY <1>1, <3>3, <3>4 DEF RestTyped
  <2>3. released' \in [Ids -> 0..Pushes]
    BY <1>1, <1>11 DEF UpdateService, RestTyped
  <2>4. QED
    BY <1>11, <2>1, <2>2, <2>3 DEF UpdateService, RestTyped
<1>12. ASSUME NEW e \in Ids, NEW stage, NEW env \in Environments,
              ServicesStable(e, stage, env) \/ DeployFails(e, stage)
       PROVE  RestTyped'
  BY <1>12, LeaveTyped DEF ServicesStable, DeployFails, RestTyped
<1>13. ASSUME NEW e \in Ids, Deploy(e, "Deploy_QA", "qa") \/ Deploy(e, "Deploy_Prod", "prod")
       PROVE  RestTyped'
  BY <1>11, <1>12, <1>13 DEF Deploy, Environments
<1>14. QED
  BY <1>2, <1>3, <1>4, <1>5, <1>6, <1>7, <1>8, <1>9, <1>10, <1>13
     DEF Next, NotifiedNext, Pipeline, StageStep

(* The state keeps its shape, for any number of executions and cases.      *)
THEOREM TypeCorrect == Spec => []TypeOK
<1> DEFINE I == CaseInv /\ ExecInv /\ RestTyped
<1>1. Init => I
  BY SmokeInitial, ExecInitial, RestInitial
<1>2. I /\ [Next]_vars => I'
  BY SmokeFrame, SmokeKept, ExecKept, RestKept
<1>3. I => TypeOK
  <2> SUFFICES ASSUME I PROVE TypeOK
    OBVIOUS
  <2>1. SmokeTypeOK
    BY CasesCounted DEF CaseInv, SmokeTypeOK
  <2>2. QED
    BY <2>1, StageNumbers DEF ExecInv, ExecTyped, RestTyped, TypeOK
<1>4. QED
  BY <1>1, <1>2, <1>3, PTL DEF Spec

----------------------------------------------------------------------------
(* What QA knows of an execution.                                          *)

EcsTested == \E c \in DOMAIN Cases : Cases[c] = "ecs-fargate"

NotRunYet(e) ==
    /\ exec[e].state = "none" => verified[e] = {} /\ released[e] = 0
    /\ Live(e) /\ exec[e].stage <= 2 => verified[e] = {}
    /\ Live(e) /\ exec[e].stage <= 4 => released[e] = 0

(* A COMPLETED case of the ECS backend was processed by some image.        *)
CasesSeen(e) ==
    exec[e].state = "running" /\ exec[e].stage = 3 =>
        \A c \in truth : Cases[c] = "ecs-fargate" => verified[e] # {}

(* As long as its image is the newest, QA runs that and nothing else from  *)
(* its deployment on: who deploys meanwhile, deploys the same.             *)
QaHasIt(e) ==
    Live(e) /\ exec[e].image = latest =>
        /\ exec[e].state = "running" /\ exec[e].stage = 2 /\ action[2] = "rolling" =>
              service["qa"].revision = latest
        /\ exec[e].stage >= 3 =>
              /\ service["qa"] = [revision |-> latest, tasks |-> {latest}]
              /\ verified[e] \subseteq {latest}
        /\ exec[e].stage >= 4 /\ EcsTested => verified[e] # {}

OwnReleaseTested(e) ==
    EcsTested /\ released[e] # 0 /\ released[e] = exec[e].image =>
        verified[e] = {exec[e].image}

Tested(e) == NotRunYet(e) /\ CasesSeen(e) /\ QaHasIt(e) /\ OwnReleaseTested(e)

(* What production took stays, or makes place for what is newer.           *)
TakenIsLive(e) ==
    /\ exec[e].state = "running" /\ exec[e].stage = 5 /\ action[5] = "rolling" =>
          released[e] <= service["prod"].revision
    /\ exec[e].state = "succeeded" =>
          /\ released[e] <= service["prod"].revision
          /\ service["prod"].tasks \subseteq released[e]..latest

PipelineInv ==
    /\ CaseInv /\ ExecInv /\ RestTyped
    /\ \A e \in Ids : Tested(e) /\ TakenIsLive(e)

(* What one execution's step leaves alone of the others.                   *)
LEMMA MovesOthers ==
    ASSUME ExecTyped, NEW g \in Ids, Moves(g), NEW e \in Ids \ {g}
    PROVE  \/ exec'[e] = exec[e]
           \/ /\ Live(e) /\ exec[e].state = "waiting" /\ exec'[e].state = "superseded"
              /\ exec'[e].image = exec[e].image
<1>1. CASE Begins(g)
  BY <1>1, QueueEffect DEF Begins, Live
<1>2. CASE Admit(g) \/ Ends(g, "succeeded") \/ Ends(g, "failed")
  BY <1>2 DEF Admit, Ends, ExecTyped
<1>3. CASE Advances(g)
  <2>1. exec[g].stage + 1 \in 1..5
    BY <1>3 DEF Advances, ExecTyped, Live
  <2>2. QED
    BY <1>3, <2>1, QueueEffect DEF Advances, Live
<1>4. QED
  BY <1>1, <1>2, <1>3 DEF Moves

LEMMA OneRuns ==
    ASSUME ExecInv, NEW e \in Ids, NEW f \in Ids, e # f,
           exec[e].state = "running", exec[f].state = "running"
    PROVE  exec[e].stage # exec[f].stage
<1>1. e < f \/ f < e
  BY DEF Ids
<1>2. QED
  BY <1>1 DEF ExecInv, ExecTyped, NoOvertaking, Live

(* A step that is not e's, as far as e is concerned.                       *)
LEMMA OthersKeep ==
    ASSUME PipelineInv, NEW e \in Ids,
           \/ exec'[e] = exec[e]
           \/ /\ Live(e) /\ exec[e].state = "waiting" /\ exec'[e].state = "superseded"
              /\ exec'[e].image = exec[e].image,
           latest' = latest, verified'[e] = verified[e], released'[e] = released[e],
           exec[e].state = "running" =>
               action'[exec[e].stage] \in {action[exec[e].stage], "idle"},
           exec[e].state = "running" /\ exec[e].stage = 3 => truth' \subseteq truth,
           \/ service'["qa"] = service["qa"]
           \/ /\ service'["qa"].revision = latest
              /\ service["qa"] = [revision |-> latest, tasks |-> {latest}] =>
                    service'["qa"] = service["qa"],
           \/ service'["prod"] = service["prod"]
           \/ service'["prod"].revision = latest /\ service'["prod"].tasks = service["prod"].tasks
    PROVE  Tested(e)' /\ TakenIsLive(e)'
<1>1. Tested(e) /\ TakenIsLive(e)
  BY DEF PipelineInv
<1>2. /\ latest \in Nat /\ released[e] \in Nat /\ service["prod"].revision \in Nat
      /\ service["prod"].revision <= latest
      /\ exec[e].stage \in 0..5 /\ (Live(e) => exec[e].stage \in 1..5)
  BY DeliveryAssumption DEF PipelineInv, ExecInv, ExecTyped, RestTyped, Images, Environments
<1>3. CASE exec'[e] = exec[e]
  <2>1. NotRunYet(e)' /\ OwnReleaseTested(e)'
    BY <1>1, <1>3 DEF Tested, NotRunYet, OwnReleaseTested, Live
  <2>2. CasesSeen(e)'
    BY <1>1, <1>3 DEF Tested, CasesSeen
  <2>3. QaHasIt(e)'
    BY <1>1, <1>3 DEF Tested, QaHasIt, Live
  <2>4. TakenIsLive(e)'
    BY <1>1, <1>2, <1>3 DEF TakenIsLive
  <2>5. QED
    BY <2>1, <2>2, <2>3, <2>4 DEF Tested
<1>4. CASE exec'[e].state = "superseded" /\ Live(e) /\ exec[e].state = "waiting"
           /\ exec'[e].image = exec[e].image
  BY <1>1, <1>4 DEF Tested, NotRunYet, CasesSeen, QaHasIt, OwnReleaseTested, TakenIsLive, Live
<1>5. QED
  BY <1>3, <1>4

(* The steps of ECS, and of those who push.                                *)
LEMMA NobodysStep ==
    ASSUME PipelineInv, NEW e \in Ids,
           \/ UNCHANGED vars
           \/ Push
           \/ ApiEndpointTests
           \/ \E env \in Environments : StartTasks(env) \/ StopOldTasks(env)
    PROVE  Tested(e)' /\ TakenIsLive(e)'
<1>1. Tested(e) /\ TakenIsLive(e)
  BY DEF PipelineInv
<1>2. /\ latest \in Nat /\ released[e] \in Nat /\ exec[e].image \in Nat
      /\ exec[e].image <= latest
      /\ service["prod"].revision \in Nat /\ service["prod"].revision <= latest
  BY DeliveryAssumption DEF PipelineInv, ExecInv, ExecTyped, RestTyped, Images, Environments
<1>3. CASE UNCHANGED vars
  BY <1>1, <1>3 DEF vars, smokeVars, Tested, NotRunYet, CasesSeen, QaHasIt, OwnReleaseTested,
     TakenIsLive, Live
<1>4. CASE Push
  <2>1. exec[e].image # latest' /\ latest' \in Nat /\ latest < latest'
    BY <1>2, <1>4 DEF Push
  <2>2. TakenIsLive(e)'
    BY <1>1, <1>2, <1>4, <2>1 DEF Push, TakenIsLive
  <2>3. NotRunYet(e)' /\ CasesSeen(e)' /\ OwnReleaseTested(e)'
    BY <1>1, <1>4 DEF Push, smokeVars, Tested, NotRunYet, CasesSeen, OwnReleaseTested, Live
  <2>4. QaHasIt(e)'
    BY <1>4, <2>1 DEF Push, QaHasIt
  <2>5. QED
    BY <2>2, <2>3, <2>4 DEF Tested
<1>5. CASE ApiEndpointTests
  <2>1. truth' = truth
    BY <1>5 DEF ApiEndpointTests, SmokeStep, ReadCatalog, CatalogRaises, Submit, CaseRaises,
       PollReads, CaseOver
  <2>2. QED
    BY <1>5, <2>1, OthersKeep DEF ApiEndpointTests
<1>6. ASSUME NEW env \in Environments, StartTasks(env) \/ StopOldTasks(env)
      PROVE  Tested(e)' /\ TakenIsLive(e)'
  <2>1. /\ UNCHANGED <<latest, exec, action, verified, released, truth>>
        /\ service' \in [Environments -> [revision : Images, tasks : SUBSET Images]]
        /\ \A v \in Environments :
              service'[v].revision = service[v].revision
    <3>1. UNCHANGED <<latest, exec, action, verified, released, truth>>
      BY <1>6 DEF StartTasks, StopOldTasks, smokeVars
    <3>2. service' \in [Environments -> [revision : Images, tasks : SUBSET Images]]
      BY RestKept, <1>6 DEF PipelineInv, RestTyped, Next, NotifiedNext
    <3>3. PICK tasks : service' = [service EXCEPT ![env].tasks = tasks]
      BY <1>6 DEF StartTasks, StopOldTasks
    <3>4. QED
      BY <3>1, <3>2, <3>3 DEF PipelineInv, RestTyped
  <2>2. service["qa"] = [revision |-> latest, tasks |-> {latest}] =>
            service'["qa"] = service["qa"]
    <3>1. CASE env = "qa"
      BY <1>6, <3>1 DEF StartTasks, StopOldTasks, Stable
    <3>2. CASE env # "qa"
      BY <1>6, <3>2 DEF StartTasks, StopOldTasks, PipelineInv, RestTyped, Environments
    <3>3. QED
      BY <3>1, <3>2
  <2>3. service'["prod"].tasks \subseteq service["prod"].tasks \cup {service["prod"].revision}
    BY <1>6 DEF StartTasks, StopOldTasks, PipelineInv, RestTyped, Environments
  <2>4. NotRunYet(e)' /\ CasesSeen(e)' /\ OwnReleaseTested(e)'
    BY <1>1, <2>1 DEF Tested, NotRunYet, CasesSeen, OwnReleaseTested, Live
  <2>5. QaHasIt(e)'
    BY <1>1, <2>1, <2>2 DEF Tested, QaHasIt, Live, Environments
  <2>6. TakenIsLive(e)'
    BY <1>1, <1>2, <2>1, <2>3 DEF TakenIsLive, Environments
  <2>7. QED
    BY <2>4, <2>5, <2>6 DEF Tested
<1>7. QED
  BY <1>3, <1>4, <1>5, <1>6

(* The steps of g, as far as the others are concerned.                     *)
ExecutionStep(g) == StartExecution(g) \/ QaProcesses(g) \/ SnsRefuses(g) \/ StageStep(g)

LEMMA OthersStep ==
    ASSUME PipelineInv, NEW g \in Ids, NEW e \in Ids \ {g}, ExecutionStep(g)
    PROVE  Tested(e)' /\ TakenIsLive(e)'
<1> USE StageNumbers
<1>t. /\ ExecTyped /\ ExecInv /\ RestTyped
      /\ action \in [1..5 -> {"idle", "begun", "rolling", "asked"}]
      /\ exec[e].state = "running" => exec[e].stage \in 1..5
      /\ exec[e].state = "running" /\ exec[g].state = "running" => exec[e].stage # exec[g].stage
  BY OneRuns DEF PipelineInv, ExecInv, RestTyped, ExecTyped, Live
<1>m. ASSUME exec' = exec \/ Moves(g)
      PROVE  \/ exec'[e] = exec[e]
             \/ /\ Live(e) /\ exec[e].state = "waiting" /\ exec'[e].state = "superseded"
                /\ exec'[e].image = exec[e].image
  BY <1>t, <1>m, MovesOthers
<1>1. CASE StartExecution(g)
  BY <1>1, <1>m, OthersKeep DEF StartExecution, Moves, Begins, smokeVars
<1>2. CASE EnterStage(g)
  <2>1. Moves(g) /\ UNCHANGED <<latest, service, verified, released>>
        /\ exec[g].state = "waiting" /\ truth' \subseteq truth
    BY <1>2 DEF EnterStage, Moves, Admit, Begin, smokeVars
  <2>2. exec[e].state = "running" => exec[e].stage # exec[g].stage
    BY <1>2 DEF EnterStage, Admit
  <2>3. exec[e].state = "running" => action'[exec[e].stage] = action[exec[e].stage]
    BY <1>2, <1>t, <2>2 DEF EnterStage
  <2>4. QED
    BY <1>m, <2>1, <2>3, OthersKeep
<1>3. ASSUME NEW stage \in {"Build_And_Test", "Deploy_QA", "Verify_QA", "Approve_Prod",
                            "Deploy_Prod"},
             Running(g, stage), Succeed(g, stage) \/ Fail(g, stage),
             UNCHANGED <<latest, service, released>>, verified'[e] = verified[e],
             truth' \subseteq truth
      PROVE  Tested(e)' /\ TakenIsLive(e)'
  <2>1. Moves(g)
    BY <1>t, <1>3, SucceedMoves, FailMoves DEF Moves
  <2>2. action' = [action EXCEPT ![Number(stage)] = "idle"]
    BY <1>3 DEF Succeed, Fail, Leave
  <2>3. exec[e].state = "running" =>
            action'[exec[e].stage] \in {action[exec[e].stage], "idle"}
    BY <1>t, <2>2
  <2>4. QED
    BY <1>3, <1>m, <2>1, <2>3, OthersKeep
<1>4. CASE UnitTests(g)
  BY <1>4, <1>3 DEF UnitTests, smokeVars
<1>5. CASE PublishMetrics(g)
  <2>1. CASE MetricsInput = "SourceOutput"
    <3>1. exec' = exec /\ UNCHANGED <<latest, service, verified, released, truth>>
      BY <1>5, <2>1 DEF PublishMetrics, smokeVars
    <3>2. exec[e].state = "running" => action'[exec[e].stage] = action[exec[e].stage]
      BY <1>5, <1>t, <2>1 DEF PublishMetrics, Running
    <3>3. QED
      BY <3>1, <3>2, OthersKeep
  <2>2. CASE MetricsInput # "SourceOutput"
    BY <1>5, <2>2, <1>3 DEF PublishMetrics, smokeVars
  <2>3. QED
    BY <2>1, <2>2
<1>6. CASE SnsRefuses(g) \/ ManualApproval(g)
  BY <1>6, <1>3 DEF SnsRefuses, ManualApproval, smokeVars
<1>7. CASE VerifyEnds(g)
  <2>1. verified'[e] = verified[e]
    BY <1>7, <1>t DEF VerifyEnds, RestTyped
  <2>2. QED
    BY <1>7, <1>3, <2>1 DEF VerifyEnds
<1>8. CASE QaProcesses(g)
  <2>1. /\ exec' = exec /\ UNCHANGED <<latest, action, service, released>>
        /\ verified'[e] = verified[e]
    BY <1>8, <1>t DEF QaProcesses, RestTyped
  <2>2. exec[e].state = "running" => exec[e].stage # 3
    BY <1>8, <1>t DEF QaProcesses, Running
  <2>3. QED
    BY <2>1, <2>2, OthersKeep
<1>9. ASSUME NEW row \in Rows, LoadTest(g, row)
      PROVE  Tested(e)' /\ TakenIsLive(e)'
  BY <1>9, OthersKeep DEF LoadTest, smokeVars
<1>10. ASSUME NEW stage \in {"Deploy_QA", "Deploy_Prod"}, NEW env \in Environments,
              UpdateService(g, stage, env)
       PROVE  Tested(e)' /\ TakenIsLive(e)'
  <2>1. /\ exec' = exec /\ UNCHANGED <<latest, verified, truth>>
        /\ service' = [service EXCEPT ![env].revision = latest]
        /\ released'[e] = released[e]
    BY <1>10, <1>t DEF UpdateService, smokeVars, RestTyped
  <2>2. exec[e].state = "running" => action'[exec[e].stage] = action[exec[e].stage]
    BY <1>10, <1>t DEF UpdateService, Running
  <2>3. /\ service \in [Environments -> [revision : Images, tasks : SUBSET Images]]
        /\ "qa" \in Environments /\ "prod" \in Environments
    BY <1>t DEF RestTyped, Environments
  <2>4. service["qa"].revision = latest => service'["qa"] = service["qa"]
    BY <2>1, <2>3, <1>t DEF PipelineInv, ExecInv, ExecTyped
  <2>5. service'["qa"] = service["qa"] \/ service'["qa"].revision = latest
    BY <2>1, <2>3
  <2>6. \/ service'["prod"] = service["prod"]
        \/ service'["prod"].revision = latest /\ service'["prod"].tasks = service["prod"].tasks
    BY <2>1, <2>3
  <2>7. QED
    BY <2>1, <2>2, <2>4, <2>5, <2>6, OthersKeep
<1>11. ASSUME NEW stage \in {"Deploy_QA", "Deploy_Prod"}, NEW env \in Environments,
              ServicesStable(g, stage, env) \/ DeployFails(g, stage)
       PROVE  Tested(e)' /\ TakenIsLive(e)'
  BY <1>11, <1>3 DEF ServicesStable, DeployFails, smokeVars
<1>12. QED
  BY <1>1, <1>2, <1>4, <1>5, <1>6, <1>7, <1>8, <1>9, <1>10, <1>11
     DEF ExecutionStep, StageStep, Deploy, Environments

(* The step of g, as far as itself is concerned.                           *)
LEMMA OwnStep ==
    ASSUME PipelineInv, NEW g \in Ids, ExecutionStep(g)
    PROVE  Tested(g)' /\ TakenIsLive(g)'
<1> USE StageNumbers
<1>i. Tested(g) /\ TakenIsLive(g) /\ ExecTyped /\ ExecInv /\ RestTyped /\ CaseInv
  BY DEF PipelineInv, ExecInv
<1>t. /\ action \in [1..5 -> {"idle", "begun", "rolling", "asked"}]
      /\ exec[g].stage \in 0..5 /\ (Live(g) => exec[g].stage \in 1..5)
      /\ latest \in Nat \ {0} /\ latest \in Images /\ released[g] \in Nat
      /\ exec[g].image \in Nat /\ exec[g].image <= latest
      /\ service["qa"] \in [revision : Images, tasks : SUBSET Images]
      /\ service["prod"] \in [revision : Images, tasks : SUBSET Images]
      /\ service["prod"].revision \in Nat /\ service["prod"].revision <= latest
      /\ verified[g] \subseteq Images /\ verified \in [Ids -> SUBSET Images]
      /\ released \in [Ids -> 0..Pushes]
  BY <1>i, DeliveryAssumption DEF ExecTyped, RestTyped, Images, Environments
(* What becomes of the invariant in an execution that ends.                *)
<1>e. ASSUME Ends(g, "failed"), UNCHANGED <<latest, released>>,
             \/ verified'[g] = verified[g]
             \/ exec[g].stage = 3
      PROVE  Tested(g)' /\ TakenIsLive(g)'
  <2>1. /\ exec'[g].state = "failed" /\ exec'[g].image = exec[g].image
        /\ exec[g].state = "running" /\ Live(g) /\ ~Live(g)'
    BY <1>e, <1>i DEF Ends, ExecTyped, Live
  <2>2. OwnReleaseTested(g)'
    BY <1>e, <1>i, <2>1 DEF Tested, NotRunYet, OwnReleaseTested
  <2>3. QED
    BY <2>1, <2>2 DEF Tested, NotRunYet, CasesSeen, QaHasIt, TakenIsLive
(* And in one that goes on to its next stage.                              *)
<1>a. ASSUME Advances(g)
      PROVE  /\ exec'[g].state = "waiting" /\ exec'[g].stage = exec[g].stage + 1
             /\ exec'[g].image = exec[g].image /\ Live(g)' /\ Live(g)
             /\ exec[g].stage + 1 \in 2..5
  <2>1. exec[g].stage + 1 \in 1..5 /\ exec[g].stage + 1 \in 2..5 /\ Live(g)
    BY <1>a, <1>t DEF Advances, Live
  <2>2. QED
    BY <1>a, <1>i, <2>1, QueueEffect DEF Advances, Live
<1>1. CASE StartExecution(g)
  <2>1. /\ exec[g].state = "none" /\ exec'[g].state = "waiting" /\ exec'[g].stage = 1
        /\ exec'[g].image = latest /\ UNCHANGED <<latest, verified, released>>
    BY <1>1, <1>i, QueueEffect DEF StartExecution
  <2>2. verified[g] = {} /\ released[g] = 0
    BY <1>i, <2>1 DEF Tested, NotRunYet
  <2>3. QED
    BY <2>1, <2>2 DEF Tested, NotRunYet, CasesSeen, QaHasIt, OwnReleaseTested, TakenIsLive, Live
<1>2. CASE EnterStage(g)
  <2>1. /\ exec[g].state = "waiting" /\ exec'[g].state = "running"
        /\ exec'[g].stage = exec[g].stage /\ exec'[g].image = exec[g].image
        /\ Live(g) /\ Live(g)'
        /\ UNCHANGED <<latest, service, verified, released>>
    BY <1>2, <1>i DEF EnterStage, Admit, ExecTyped, Live
  <2>2. action'[exec[g].stage] = "begun"
    BY <1>2, <1>t, <2>1 DEF EnterStage
  <2>3. exec[g].stage = 3 => truth' = {}
    BY <1>2 DEF EnterStage, Begin
  <2>4. QED
    BY <1>i, <2>1, <2>2, <2>3
       DEF Tested, NotRunYet, CasesSeen, QaHasIt, OwnReleaseTested, TakenIsLive
<1>3. CASE UnitTests(g)
  <2>1. CASE Fail(g, "Build_And_Test")
    BY <1>3, <1>e, <2>1, FailMoves DEF UnitTests
  <2>2. CASE Succeed(g, "Build_And_Test")
    <3>1. Advances(g) /\ exec[g].stage = 1 /\ UNCHANGED <<latest, service, verified, released>>
      BY <1>3, <1>i, <2>2, SucceedMoves DEF UnitTests, Running
    <3>2. QED
      BY <1>i, <1>a, <3>1
         DEF Tested, NotRunYet, CasesSeen, QaHasIt, OwnReleaseTested, TakenIsLive
  <2>3. QED
    BY <1>3, <2>1, <2>2 DEF UnitTests
<1>4. CASE UpdateService(g, "Deploy_QA", "qa")
  <2>1. /\ exec' = exec /\ exec[g].state = "running" /\ exec[g].stage = 2 /\ Live(g)
        /\ service'["qa"].revision = latest /\ UNCHANGED <<latest, verified, truth>>
        /\ released' = released
    BY <1>4, <1>i DEF UpdateService, Running, Live, smokeVars, RestTyped, Environments
  <2>2. QED
    BY <1>i, <2>1
       DEF Tested, NotRunYet, CasesSeen, QaHasIt, OwnReleaseTested, TakenIsLive, Live
<1>5. CASE UpdateService(g, "Deploy_Prod", "prod")
  <2>1. /\ exec' = exec /\ exec[g].state = "running" /\ exec[g].stage = 5 /\ Live(g)
        /\ service'["prod"].revision = latest /\ service'["qa"] = service["qa"]
        /\ UNCHANGED <<latest, verified, truth>> /\ released'[g] = latest
    BY <1>5, <1>i DEF UpdateService, Running, Live, smokeVars, RestTyped, Environments
  <2>2. OwnReleaseTested(g)'
    BY <1>i, <2>1 DEF Tested, QaHasIt, OwnReleaseTested
  <2>3. TakenIsLive(g)'
    BY <1>t, <2>1 DEF TakenIsLive
  <2>4. NotRunYet(g)' /\ CasesSeen(g)' /\ QaHasIt(g)'
    BY <1>i, <2>1 DEF Tested, NotRunYet, CasesSeen, QaHasIt, Live
  <2>5. QED
    BY <2>2, <2>3, <2>4 DEF Tested
<1>6. CASE ServicesStable(g, "Deploy_QA", "qa")
  <2>1. /\ Advances(g) /\ exec[g].state = "running" /\ exec[g].stage = 2
        /\ action[2] = "rolling"
        /\ service["qa"].tasks = {service["qa"].revision}
        /\ UNCHANGED <<latest, service, verified, released>>
    BY <1>6, <1>i, SucceedMoves DEF ServicesStable, Running, Stable
  <2>2. service["qa"].revision = latest =>
            service["qa"] = [revision |-> latest, tasks |-> {latest}]
    BY <1>t, <2>1
  <2>3. verified[g] = {} /\ released[g] = 0
    BY <1>i, <2>1 DEF Tested, NotRunYet, Live
  <2>4. QaHasIt(g)'
    BY <1>i, <1>a, <2>1, <2>2, <2>3 DEF Tested, QaHasIt
  <2>5. QED
    BY <1>a, <2>1, <2>3, <2>4
       DEF Tested, NotRunYet, CasesSeen, OwnReleaseTested, TakenIsLive
<1>7. CASE ServicesStable(g, "Deploy_Prod", "prod")
  <2>1. /\ Ends(g, "succeeded") /\ exec[g].state = "running" /\ exec[g].stage = 5
        /\ action[5] = "rolling"
        /\ service["prod"].tasks = {service["prod"].revision}
        /\ UNCHANGED <<latest, service, verified, released>>
    BY <1>7, <1>i, SucceedMoves DEF ServicesStable, Running, Stable
  <2>2. exec'[g].state = "succeeded" /\ exec'[g].image = exec[g].image /\ ~Live(g)'
    BY <1>i, <2>1 DEF Ends, ExecTyped, Live
  <2>3. released[g] <= service["prod"].revision
    BY <1>i, <2>1 DEF TakenIsLive
  <2>4. TakenIsLive(g)'
    BY <1>t, <2>1, <2>2, <2>3 DEF TakenIsLive
  <2>5. QED
    BY <1>i, <2>1, <2>2, <2>4
       DEF Tested, NotRunYet, CasesSeen, QaHasIt, OwnReleaseTested
<1>8. ASSUME NEW stage, DeployFails(g, stage)
      PROVE  Tested(g)' /\ TakenIsLive(g)'
  BY <1>8, <1>e, FailMoves DEF DeployFails
<1>9. ASSUME NEW row \in Rows, LoadTest(g, row)
      PROVE  Tested(g)' /\ TakenIsLive(g)'
  BY <1>9, <1>i DEF LoadTest, smokeVars, Tested, NotRunYet, CasesSeen, QaHasIt,
     OwnReleaseTested, TakenIsLive, Live
<1>10. CASE QaProcesses(g)
  <2>1. /\ exec' = exec /\ UNCHANGED <<latest, action, service, released>>
        /\ exec[g].state = "running" /\ exec[g].stage = 3 /\ Live(g)
    BY <1>10 DEF QaProcesses, Running, Live
  <2>2. \/ /\ Cases[smoke.case] = "lambda" /\ verified' = verified
        \/ \E image \in service["qa"].tasks : verified'[g] = verified[g] \cup {image}
    BY <1>10, <1>t DEF QaProcesses
  <2>3. truth' \subseteq truth \cup {smoke.case}
    BY <1>10 DEF QaProcesses, WorkerWrites
  <2>4. CasesSeen(g)'
    BY <1>i, <2>1, <2>2, <2>3 DEF Tested, CasesSeen
  <2>5. QaHasIt(g)'
    BY <1>i, <2>1, <2>2 DEF Tested, QaHasIt, Live
  <2>6. released[g] = 0
    BY <1>i, <2>1 DEF Tested, NotRunYet
  <2>7. QED
    BY <1>i, <2>1, <2>4, <2>5, <2>6 DEF Tested, NotRunYet, OwnReleaseTested, TakenIsLive, Live
<1>11. CASE VerifyEnds(g)
  <2>1. exec[g].state = "running" /\ exec[g].stage = 3 /\ Live(g)
        /\ UNCHANGED <<latest, service, released>> /\ released[g] = 0
    BY <1>11, <1>i DEF VerifyEnds, Running, Live, Tested, NotRunYet
  <2>2. CASE ~(At("passed") /\ load = "passed")
    BY <1>11, <1>e, <2>1, <2>2, FailMoves DEF VerifyEnds
  <2>3. CASE At("passed") /\ load = "passed"
    <3>1. Advances(g) /\ verified' = verified
      BY <1>11, <1>i, <2>3, SucceedMoves DEF VerifyEnds
    <3>2. EcsTested => verified[g] # {}
      BY <1>i, <2>1, <2>3 DEF CaseInv, PassIsSound, Tested, CasesSeen, EcsTested
    <3>3. QED
      BY <1>i, <1>a, <2>1, <3>1, <3>2
         DEF Tested, NotRunYet, CasesSeen, QaHasIt, OwnReleaseTested, TakenIsLive
  <2>4. QED
    BY <2>2, <2>3
<1>12. CASE PublishMetrics(g) /\ MetricsInput = "SourceOutput"
  <2>1. /\ exec' = exec /\ exec[g].state = "running" /\ exec[g].stage = 4
        /\ UNCHANGED <<latest, service, verified, released, truth>>
    BY <1>12 DEF PublishMetrics, Running, smokeVars
  <2>2. QED
    BY <1>i, <2>1
       DEF Tested, NotRunYet, CasesSeen, QaHasIt, OwnReleaseTested, TakenIsLive, Live
<1>13. CASE PublishMetrics(g) /\ MetricsInput # "SourceOutput"
  BY <1>13, <1>e, FailMoves DEF PublishMetrics
<1>14. CASE SnsRefuses(g)
  BY <1>14, <1>e, FailMoves DEF SnsRefuses
<1>15. CASE ManualApproval(g)
  <2>1. CASE Fail(g, "Approve_Prod")
    BY <1>15, <1>e, <2>1, FailMoves DEF ManualApproval
  <2>2. CASE Succeed(g, "Approve_Prod")
    <3>1. Advances(g) /\ exec[g].stage = 4 /\ UNCHANGED <<latest, service, verified, released>>
      BY <1>15, <1>i, <2>2, SucceedMoves DEF ManualApproval, Running
    <3>2. QED
      BY <1>i, <1>a, <3>1
         DEF Tested, NotRunYet, CasesSeen, QaHasIt, OwnReleaseTested, TakenIsLive
  <2>3. QED
    BY <1>15, <2>1, <2>2 DEF ManualApproval
<1>16. QED
  BY <1>1, <1>2, <1>3, <1>4, <1>5, <1>6, <1>7, <1>8, <1>9, <1>10, <1>11, <1>12, <1>13,
     <1>14, <1>15 DEF ExecutionStep, StageStep, Deploy

LEMMA PipelineInitial == Init => PipelineInv
<1> SUFFICES ASSUME Init PROVE PipelineInv
  OBVIOUS
<1>1. CaseInv /\ ExecInv /\ RestTyped
  BY SmokeInitial, ExecInitial, RestInitial
<1>2. \A e \in Ids : Tested(e) /\ TakenIsLive(e)
  BY DEF Init, NoExecution, Tested, NotRunYet, CasesSeen, QaHasIt, OwnReleaseTested,
     TakenIsLive, Live
<1>3. QED
  BY <1>1, <1>2 DEF PipelineInv

LEMMA PipelineKept == PipelineInv /\ [Next]_vars => PipelineInv'
<1> SUFFICES ASSUME PipelineInv, [Next]_vars PROVE PipelineInv'
  OBVIOUS
<1>1. CaseInv' /\ ExecInv' /\ RestTyped'
  BY SmokeFrame, SmokeKept, ExecKept, RestKept DEF PipelineInv
<1>2. ASSUME NEW e \in Ids
      PROVE  Tested(e)' /\ TakenIsLive(e)'
  <2>1. \/ UNCHANGED vars
        \/ Push
        \/ ApiEndpointTests
        \/ \E env \in Environments : StartTasks(env) \/ StopOldTasks(env)
        \/ \E g \in Ids : ExecutionStep(g)
    BY DEF Next, NotifiedNext, Pipeline, ExecutionStep
  <2>2. QED
    BY <2>1, NobodysStep, OthersStep, OwnStep
<1>3. QED
  BY <1>1, <1>2 DEF PipelineInv

(* If the smoke test has a case for the ECS backend, production takes the  *)
(* image an execution was begun for only if that image, and no other, has  *)
(* passed its tests in QA; what moved the tag or rolled QA meanwhile       *)
(* cannot slip in under its name.                                          *)
THEOREM ReleaseTested ==
    ASSUME \E c \in DOMAIN Cases : Cases[c] = "ecs-fargate"
    PROVE  Spec => []ReleaseIsTested
<1>1. EcsTested
  BY DEF EcsTested
<1>2. PipelineInv => ReleaseIsTested
  BY <1>1 DEF PipelineInv, Tested, OwnReleaseTested, ReleaseIsTested
<1>3. QED
  BY PipelineInitial, PipelineKept, <1>2, PTL DEF Spec

(* An execution that succeeded has left production with what it took, or   *)
(* with what was pushed later.                                             *)
THEOREM SucceededLive == Spec => []SucceededIsLive
<1>1. PipelineInv => SucceededIsLive
  BY DEF PipelineInv, TakenIsLive, SucceededIsLive
<1>2. QED
  BY PipelineInitial, PipelineKept, <1>1, PTL DEF Spec
=============================================================================
