------------------------------ MODULE Delivery ------------------------------
(***************************************************************************)
(* The delivery pipeline (cicd_stack.py, its buildspecs, notify_approval.py*)
(* and evaluate.py) around the tag "latest" of the worker's ECR repository *)
(* and the QA and production services of ecs_fargate_stack.py.             *)
(*                                                                         *)
(* A push of the tag starts an execution, which records the image as its   *)
(* source revision.  But no stage uses that revision: both deploy projects *)
(* call update-service --force-new-deployment, and the service takes what  *)
(* the tag points to at that moment, pushed since or not.  Executions share*)
(* the stages: QA may be rolled for the next one while this one verifies.  *)
(*                                                                         *)
(* Images are numbered in the order of their pushes.  CodePipeline, ECR and*)
(* ECS are external: a stage runs one execution at a time, of those waiting*)
(* for it only the newest goes on, and a deployment's tasks all run the    *)
(* image its tag was resolved to when it began.                            *)
(***************************************************************************)
EXTENDS SmokeTest, FiniteSets

CONSTANTS
    Pushes,      \* bound: images pushed, the one deployed at first included
    Executions,  \* bound: executions of the pipeline, 1..Executions
    MetricsInput \* the artifact that PublishMetrics runs in

ASSUME DeliveryAssumption ==
    /\ Pushes \in Nat \ {0} /\ Executions \in Nat \ {0}
    /\ MetricsInput \in {"SourceOutput", "SastOutput"}

VARIABLES
    latest,    \* the image the tag points to
    exec,      \* execution -> [stage (0 when over), state, image |-> its source]
    action,    \* stage -> what its running action has come to
    load,      \* the LoadTest action of Verify_QA
    service,   \* environment -> [revision |-> of its deployment, tasks |-> images]
    verified,  \* history: execution -> images that worked on the ECS cases of
               \* its test, until this fails
    released   \* history: execution -> the image production took from it, or 0

vars == <<latest, exec, action, load, service, verified, released, smokeVars>>

Images == 1..Pushes
Ids == 1..Executions
Environments == {"qa", "prod"}

(* The stages after Source, which is over in the step that begins an       *)
(* execution: the image detail and the bundle of that moment are read.     *)
Stages == <<"Build_And_Test", "Deploy_QA", "Verify_QA", "Approve_Prod", "Deploy_Prod">>
Number(stage) == CHOOSE k \in DOMAIN Stages : Stages[k] = stage

ExecStates == {"none", "waiting", "running", "failed", "superseded", "succeeded"}
NoExecution == [stage |-> 0, state |-> "none", image |-> 0]

Init ==
    /\ latest = 1
    /\ exec = [e \in Ids |-> NoExecution]
    /\ action = [k \in DOMAIN Stages |-> "idle"]
    /\ load = "idle"
    /\ service = [env \in Environments |-> [revision |-> 1, tasks |-> {1}]]
    /\ verified = [e \in Ids |-> {}]
    /\ released = [e \in Ids |-> 0]
    /\ SmokeInit

Live(e) == exec[e].state \in {"waiting", "running"}
Running(e, stage) == exec[e].state = "running" /\ exec[e].stage = Number(stage)
Stable(env) == service[env].tasks = {service[env].revision}

----------------------------------------------------------------------------
(* CodePipeline.                                                           *)

(* e comes to wait for stage k: of the ones that wait there, it alone.     *)
Queue(e, k, image) ==
    exec' = [f \in Ids |->
        IF f = e THEN [stage |-> k, state |-> "waiting", image |-> image]
        ELSE IF exec[f].stage = k /\ exec[f].state = "waiting"
             THEN [exec[f] EXCEPT !.stage = 0, !.state = "superseded"]
             ELSE exec[f]]

(* Source: the push of the tag, or somebody by hand, begins an execution.  *)
StartExecution(e) ==
    /\ exec[e].state = "none"
    /\ \A f \in 1..e-1 : exec[f].state # "none"
    /\ Queue(e, 1, latest)
    /\ UNCHANGED <<latest, action, load, service, verified, released, smokeVars>>

\* Mutant: executions run in parallel.
Admit_Parallel(e) ==
    /\ exec[e].state = "waiting"
    /\ exec' = [exec EXCEPT ![e].state = "running"]

Admit(e) ==
    /\ exec[e].state = "waiting"
    /\ \A f \in Ids : ~(exec[f].state = "running" /\ exec[f].stage = exec[e].stage)
    /\ exec' = [exec EXCEPT ![e].state = "running"]

(* Verify_QA begins both its actions at once, run_order 1.                 *)
EnterStage(e) ==
    /\ Admit(e)
    /\ action' = [action EXCEPT ![exec[e].stage] = "begun"]
    /\ IF exec[e].stage = Number("Verify_QA")
       THEN Begin /\ load' = "running"
       ELSE UNCHANGED <<smokeVars, load>>
    /\ UNCHANGED <<latest, service, verified, released>>

Leave(stage) == action' = [action EXCEPT ![Number(stage)] = "idle"]

(* The stage's last action succeeds, or one of its actions fails.          *)
\* Mutant: the last stage is missed.
Succeed_NoLast(e, stage) ==
    /\ Leave(stage)
    /\ Queue(e, Number(stage) + 1, exec[e].image)

Succeed(e, stage) ==
    /\ Leave(stage)
    /\ IF Number(stage) = Len(Stages)
       THEN exec' = [exec EXCEPT ![e].stage = 0, ![e].state = "succeeded"]
       ELSE Queue(e, Number(stage) + 1, exec[e].image)

\* Mutant: a failed stage is tried again.
Fail_Retried(e, stage) ==
    /\ action' = [action EXCEPT ![Number(stage)] = "begun"]
    /\ UNCHANGED exec

Fail(e, stage) ==
    /\ Leave(stage)
    /\ exec' = [exec EXCEPT ![e].stage = 0, ![e].state = "failed"]

----------------------------------------------------------------------------
(* Build_And_Test: unit tests and bandit can fail the build, the audit of  *)
(* the dependencies cannot.                                                *)
UnitTests(e) ==
    /\ Running(e, "Build_And_Test")
    /\ Succeed(e, "Build_And_Test") \/ Fail(e, "Build_And_Test")
    /\ UNCHANGED <<latest, load, service, verified, released, smokeVars>>

(* The deploy project: update-service begins a deployment of what the tag  *)
(* points to, then wait services-stable.                                   *)
\* Mutant: without --force-new-deployment nothing is deployed.
UpdateService_NotForced(e, stage, env) ==
    /\ Running(e, stage)
    /\ action[Number(stage)] = "begun"
    /\ action' = [action EXCEPT ![Number(stage)] = "rolling"]
    /\ released' = IF env = "prod" THEN [released EXCEPT ![e] = latest] ELSE released
    /\ UNCHANGED <<latest, exec, load, service, verified, smokeVars>>

UpdateService(e, stage, env) ==
    /\ Running(e, stage)
    /\ action[Number(stage)] = "begun"
    /\ action' = [action EXCEPT ![Number(stage)] = "rolling"]
    /\ service' = [service EXCEPT ![env].revision = latest]
    /\ released' = IF env = "prod" THEN [released EXCEPT ![e] = latest] ELSE released
    /\ UNCHANGED <<latest, exec, load, verified, smokeVars>>

\* Mutant: the project ends with update-service.
ServicesStable_NoWait(e, stage, env) ==
    /\ Running(e, stage)
    /\ action[Number(stage)] = "rolling"
    /\ Succeed(e, stage)
    /\ UNCHANGED <<latest, load, service, verified, released, smokeVars>>

ServicesStable(e, stage, env) ==
    /\ Running(e, stage)
    /\ action[Number(stage)] = "rolling"
    /\ Stable(env)
    /\ Succeed(e, stage)
    /\ UNCHANGED <<latest, load, service, verified, released, smokeVars>>

(* update-service is refused, or the wait gives up after ten minutes; the  *)
(* deployment goes on.                                                     *)
DeployFails(e, stage) ==
    /\ Running(e, stage)
    /\ Fail(e, stage)
    /\ UNCHANGED <<latest, load, service, verified, released, smokeVars>>

Deploy(e, stage, env) ==
    \/ UpdateService(e, stage, env)
    \/ ServicesStable(e, stage, env)
    \/ DeployFails(e, stage)

(* ECS starts the tasks of the deployment, and stops the others once these *)
(* are healthy (minimum healthy 100 %, maximum 200 %).                     *)
StartTasks(env) ==
    /\ service[env].revision \notin service[env].tasks
    /\ service' = [service EXCEPT ![env].tasks = @ \cup {service[env].revision}]
    /\ UNCHANGED <<latest, exec, action, load, verified, released, smokeVars>>

StopOldTasks(env) ==
    /\ service[env].revision \in service[env].tasks
    /\ ~Stable(env)
    /\ service' = [service EXCEPT ![env].tasks = {service[env].revision}]
    /\ UNCHANGED <<latest, exec, action, load, verified, released, smokeVars>>

----------------------------------------------------------------------------
(* Verify_QA.                                                              *)

ApiEndpointTests ==
    /\ SmokeStep
    /\ UNCHANGED <<latest, exec, action, load, service, verified, released>>

(* A case's request is processed: by any task of the QA service, or by the *)
(* Lambda worker, whose code no stage deploys.                             *)
QaProcesses(e) ==
    /\ Running(e, "Verify_QA")
    /\ WorkerWrites
    /\ IF Cases[smoke.case] = "lambda"
       THEN UNCHANGED verified
       ELSE \E image \in service["qa"].tasks :
               verified' = [verified EXCEPT ![e] = @ \cup {image}]
    /\ UNCHANGED <<latest, exec, action, load, service, released>>

(* The Aggregated row of Locust's table: requests, failures, and the 95th  *)
(* percentile in units of MAX_P95_MS; 0 stands for a missing one.          *)
Rows == [requests : {0, 200}, failures : {0, 3}, p95 : {0, 2}]

(* evaluate.main: no requests count as failed, a missing percentile passes.*)
Evaluate(row) ==
    /\ row.p95 <= 1
    /\ row.requests > 0
    /\ 100 * row.failures <= row.requests

(* Locust itself exits 1 if any request failed, before evaluate can run.   *)
LoadTest(e, row) ==
    /\ Running(e, "Verify_QA")
    /\ load = "running"
    /\ load' = IF row.failures = 0 /\ Evaluate(row) THEN "passed" ELSE "failed"
    /\ UNCHANGED <<latest, exec, action, service, verified, released, smokeVars>>

(* Both actions must come to an end and succeed.                           *)
VerifyEnds(e) ==
    /\ Running(e, "Verify_QA")
    /\ At("passed") \/ At("failed")
    /\ load \in {"passed", "failed"}
    /\ IF At("passed") /\ load = "passed"
       THEN Succeed(e, "Verify_QA") /\ UNCHANGED verified
       ELSE Fail(e, "Verify_QA") /\ verified' = [verified EXCEPT ![e] = {}]
    /\ load' = "idle"
    /\ smoke' = NoSmoke
    /\ truth' = {}
    /\ UNCHANGED <<latest, service, released, record>>

----------------------------------------------------------------------------
(* Approve_Prod: PublishMetrics, then ManualApproval.                      *)

(* python app/cicd/notify_approval.py, in a directory that holds the input *)
(* artifact only.  The script is in the source bundle; SastOutput holds    *)
(* two reports and nothing else.                                           *)
PublishMetrics(e) ==
    /\ Running(e, "Approve_Prod")
    /\ action[Number("Approve_Prod")] = "begun"
    /\ IF MetricsInput = "SourceOutput"
       THEN /\ action' = [action EXCEPT ![Number("Approve_Prod")] = "asked"]
            /\ UNCHANGED exec
       ELSE Fail(e, "Approve_Prod")
    /\ UNCHANGED <<latest, load, service, verified, released, smokeVars>>

(* publish raises, and so does main.                                       *)
SnsRefuses(e) ==
    /\ Running(e, "Approve_Prod")
    /\ action[Number("Approve_Prod")] = "begun"
    /\ MetricsInput = "SourceOutput"
    /\ Fail(e, "Approve_Prod")
    /\ UNCHANGED <<latest, load, service, verified, released, smokeVars>>

(* The approver agrees, or refuses, or lets the seven days pass.           *)
ManualApproval(e) ==
    /\ Running(e, "Approve_Prod")
    /\ action[Number("Approve_Prod")] = "asked"
    /\ Succeed(e, "Approve_Prod") \/ Fail(e, "Approve_Prod")
    /\ UNCHANGED <<latest, load, service, verified, released, smokeVars>>

----------------------------------------------------------------------------
(* deploy-app.sh, or a training job's notebook, pushes the tag.            *)
Push ==
    /\ latest < Pushes
    /\ latest' = latest + 1
    /\ UNCHANGED <<exec, action, load, service, verified, released, smokeVars>>

StageStep(e) ==
    \/ EnterStage(e) \/ UnitTests(e)
    \/ Deploy(e, "Deploy_QA", "qa") \/ Deploy(e, "Deploy_Prod", "prod")
    \/ \E row \in Rows : LoadTest(e, row)
    \/ VerifyEnds(e) \/ PublishMetrics(e) \/ ManualApproval(e)

Pipeline == ApiEndpointTests \/ \E e \in Ids : StageStep(e)

NotifiedNext ==
    \/ Push
    \/ \E e \in Ids : StartExecution(e) \/ QaProcesses(e)
    \/ Pipeline
    \/ \E env \in Environments : StartTasks(env) \/ StopOldTasks(env)

Next == NotifiedNext \/ \E e \in Ids : SnsRefuses(e)

Spec == Init /\ [][Next]_vars

(* SNS takes every message it is given.                                    *)
NotifiedSpec == Init /\ [][NotifiedNext]_vars

(* Builds and the smoke test end within their timeouts, the approval       *)
(* within seven days: as long as the pipeline has something to do, it does *)
(* it some time.  Nobody need push, no worker need work, and no deployment *)
(* need come to an end.                                                    *)
FairSpec == Spec /\ WF_vars(Pipeline)

----------------------------------------------------------------------------
TypeOK ==
    /\ latest \in Images
    /\ exec \in [Ids -> [stage : 0..Len(Stages), state : ExecStates, image : 0..Pushes]]
    /\ action \in [DOMAIN Stages -> {"idle", "begun", "rolling", "asked"}]
    /\ load \in {"idle", "running", "passed", "failed"}
    /\ service \in [Environments -> [revision : Images, tasks : SUBSET Images]]
    /\ verified \in [Ids -> SUBSET Images]
    /\ released \in [Ids -> 0..Pushes]
    /\ SmokeTypeOK

(* Executions share the stages but keep their order: of two that go on,    *)
(* the older is ahead, or runs the stage the younger waits for.            *)
NoOvertaking ==
    \A e, f \in Ids :
        e < f /\ Live(e) /\ Live(f) =>
            \/ exec[e].stage > exec[f].stage
            \/ exec[e].stage = exec[f].stage /\ exec[e].state = "running"
                                             /\ exec[f].state = "waiting"

(* When production takes from an execution the image this was begun for,   *)
(* that image alone worked on its ECS test cases in QA, although QA may have*)
(* been rolled for other executions in between.  (Nothing follows when the *)
(* tag has moved: what is released then, the tests need not have seen.)    *)
ReleaseIsTested ==
    \A e \in Ids :
        released[e] # 0 /\ released[e] = exec[e].image =>
            verified[e] = {exec[e].image}

(* An execution ends as succeeded only when production runs nothing else   *)
(* than what it took, or what was taken for a later one.                   *)
SucceededIsLive ==
    \A e \in Ids :
        exec[e].state = "succeeded" =>
            service["prod"].tasks \subseteq released[e]..latest

(* Of an execution that passed Verify_QA, the approver is asked: as long as*)
(* SNS takes the message, Approve_Prod fails only when they refuse or do   *)
(* not answer.                                                             *)
ApproverIsAsked ==
    [][\A e \in Ids :
          Running(e, "Approve_Prod") /\ exec'[e].state = "failed" =>
              action[Number("Approve_Prod")] = "asked"]_vars

(* The executions come to an end, whatever the workers and ECS do: the     *)
(* stages they share, one waiting for an approval among them, do not hold  *)
(* them for ever.                                                          *)
Busy == \E e \in Ids : Live(e)

EveryExecutionEnds == Busy ~> ~Busy
=============================================================================
