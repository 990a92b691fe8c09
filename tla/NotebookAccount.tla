-------------------------- MODULE NotebookAccount ---------------------------
(***************************************************************************)
(* What the two hosting notebooks work on: the cells, the kernel that runs *)
(* them, the disk, and the AWS account (S3, ECR, ECS) with its tasks.      *)
(*                                                                         *)
(* The user runs the cells in order.  A cell that raises changes nothing,  *)
(* unless an action says otherwise, and is the next to be run again; so a  *)
(* cell is an action that is enabled when it can succeed.  The user may go *)
(* back to an earlier cell, and the kernel may be restarted, which loses   *)
(* its variables and nothing else.                                         *)
(*                                                                         *)
(* S3, ECR, ECS and Docker are external, modelled from what the cells do   *)
(* with them.                                                              *)
(***************************************************************************)
EXTENDS Integers, Sequences, FiniteSets

CONSTANTS
    None,       \* what a variable or a file holds that is not there
    Tasks,      \* bound: the ECS tasks that are started
    MaxRuns,    \* bound: models trained
    MaxBacks    \* bound: times the user goes back or the kernel is restarted

(* So that no bound keeps the user from running a cell again.              *)
ASSUME AccountAssumption ==
    /\ MaxBacks \in Nat
    /\ MaxRuns \in Nat /\ MaxRuns > MaxBacks
    /\ IsFiniteSet(Tasks) /\ Cardinality(Tasks) > MaxBacks

VARIABLES
    notebook,  \* "xgboost" or "sarima", which one is run
    cell,      \* the index of the next cell
    backs,     \* bound: how often the user went back or the kernel restarted
    kernel,    \* what the kernel's variables hold
    disk,      \* the files and the local Docker image; fits: what the searches
               \* come to on the data set, which never changes
    bucket,    \* under the notebook's prefix: [models, of the training jobs;
               \* data |-> scales of the uploaded data sets]
    registry,  \* the ECR repository: [exists, latest |-> its image]
    cluster,   \* the status of the ECS cluster
    revisions, \* [next |-> number, active |-> set] of the task definition
    task,      \* task -> [status, model |-> what it serves]
    answer     \* what the last request to a task came back with

vars == <<notebook, cell, backs, kernel, disk, bucket, registry, cluster,
          revisions, task, answer>>

(* A model, and so the artifact, the image and the task made from it: the  *)
(* number of the training run and the kind of model.  Run 0 is a job that  *)
(* was there before.                                                       *)
Kinds == {"native", "pickled", "arima", "sarima"}
Models == [run : 0..MaxRuns, kind : Kinds]

(* The features of the three data sets, each as read, or standardised by   *)
(* the mean and deviation of the training set or of its own.               *)
Parts == {"train", "validate", "test"}
Scales == {"raw", "train", "own"}
Frames == [Parts -> Scales]

(* What a search for orders comes to on the series of the data set: every  *)
(* fit raises, some fit has an AIC, or neither.                            *)
Outcomes == {"raises", "no order", "order"}

TaskStates == {"unused", "PENDING", "RUNNING", "STOPPING", "STOPPED"}
Alive == {t \in Tasks : task[t].status \in {"PENDING", "RUNNING", "STOPPING"}}
Known == IF kernel.task = None THEN {} ELSE {kernel.task}

(* runs counts the models trained; it stays when the kernel is restarted.  *)
FreshKernel(runs) ==
    [runs |-> runs, search |-> None, found |-> {}, winner |-> None,
     fitted |-> None, frames |-> None, definition |-> 0, task |-> None, ip |-> None]

AccountInit ==
    /\ cell = 1
    /\ backs = 0
    /\ kernel = FreshKernel(0)
    /\ \E fits \in [{"arima", "sarima"} -> Outcomes] \cup {None} :
          disk = [model |-> None, image |-> None, data |-> None, fits |-> fits,
                  staged |-> [route \in {"xgboost", "arima", "sarima"} |-> None]]
    /\ \E models \in {{}, {[run |-> 0, kind |-> "native"]}} :
          bucket = [models |-> models, data |-> None]
    /\ registry = [exists |-> FALSE, latest |-> None]
    /\ cluster = "MISSING"
    /\ revisions = [next |-> 1, active |-> {}]
    /\ task = [t \in Tasks |-> [status |-> "unused", model |-> None]]
    /\ answer = None

(* Cell k of the notebook succeeds; answer is what the last cell printed.  *)
Run(cells, name) == cell \in DOMAIN cells /\ cells[cell] = name /\ cell' = cell + 1

(* Cell k raises, with an effect.                                          *)
RunRaises(cells, name) == cell \in DOMAIN cells /\ cells[cell] = name /\ UNCHANGED cell

Keep == UNCHANGED <<notebook, backs>>
KeepCloud == UNCHANGED <<bucket, registry, cluster, revisions, task>>

GoBack(k) ==
    /\ backs < MaxBacks
    /\ k < cell
    /\ cell' = k
    /\ backs' = backs + 1
    /\ answer' = None
    /\ UNCHANGED <<notebook, kernel, disk>>
    /\ KeepCloud

RestartKernel ==
    /\ backs < MaxBacks
    /\ cell > 1
    /\ cell' = 1
    /\ backs' = backs + 1
    /\ kernel' = FreshKernel(kernel.runs)
    /\ answer' = None
    /\ UNCHANGED <<notebook, disk>>
    /\ KeepCloud

----------------------------------------------------------------------------
(* ECS: a task pulls what "latest" is at that moment, and stops when there *)
(* is no image, when its container dies or is found unhealthy, and some    *)
(* time after it is told to.                                               *)

Provisioned ==
    /\ cluster = "PROVISIONING"
    /\ cluster' \in {"ACTIVE", "FAILED"}
    /\ UNCHANGED <<notebook, cell, backs, kernel, disk, bucket, registry, revisions, task, answer>>

TaskMoves(t, status) ==
    /\ task' = [task EXCEPT ![t].status = status,
                            ![t].model = IF status = "RUNNING" THEN registry.latest ELSE None]
    /\ UNCHANGED <<notebook, cell, backs, kernel, disk, bucket, registry, cluster, revisions, answer>>

TaskRuns(t) ==
    task[t].status = "PENDING" /\ registry.latest # None /\ TaskMoves(t, "RUNNING")

PullFails(t) ==
    task[t].status = "PENDING" /\ registry.latest = None /\ TaskMoves(t, "STOPPED")

TaskStops(t) == task[t].status = "STOPPING" /\ TaskMoves(t, "STOPPED")

TaskDies(t) == task[t].status \in {"PENDING", "RUNNING"} /\ TaskMoves(t, "STOPPED")

Ecs == Provisioned \/ \E t \in Tasks : TaskRuns(t) \/ PullFails(t) \/ TaskStops(t)

----------------------------------------------------------------------------
(* What the cells ask of Docker, ECR and ECS; cells is a notebook's list.  *)

(* !docker build does not raise: when it fails, the image of an earlier    *)
(* build stays what it was.                                                *)
BuildImage(cells) ==
    /\ Run(cells, "Build")
    /\ \/ disk.model # None /\ disk' = [disk EXCEPT !.image = disk.model]
       \/ UNCHANGED disk
    /\ UNCHANGED <<kernel, answer>> /\ Keep /\ KeepCloud

EnsureRepository(cells) ==
    /\ Run(cells, "Repository")
    /\ registry' = [registry EXCEPT !.exists = TRUE]
    /\ UNCHANGED <<kernel, disk, bucket, cluster, revisions, task, answer>> /\ Keep

PushImage(cells) ==
    /\ Run(cells, "Push")
    /\ disk.image # None
    /\ registry.exists
    /\ registry' = [registry EXCEPT !.latest = disk.image]
    /\ UNCHANGED <<kernel, disk, bucket, cluster, revisions, task, answer>> /\ Keep

(* A cluster in one of these states is created anew.                       *)
EnsureCluster(cells, absent) ==
    /\ Run(cells, "Cluster")
    /\ cluster' = IF cluster \in absent THEN "PROVISIONING" ELSE cluster
    /\ UNCHANGED <<kernel, disk, bucket, registry, revisions, task, answer>> /\ Keep

(* The loop also ends on INACTIVE and FAILED, and the notebook goes on.    *)
ClusterSettled(cells) ==
    /\ Run(cells, "AwaitCluster")
    /\ cluster \in {"ACTIVE", "INACTIVE", "FAILED"}
    /\ UNCHANGED <<kernel, disk, answer>> /\ Keep /\ KeepCloud

RegisterRevision(cells) ==
    /\ Run(cells, "Register")
    /\ revisions' = [next |-> revisions.next + 1,
                     active |-> revisions.active \cup {revisions.next}]
    /\ kernel' = [kernel EXCEPT !.definition = revisions.next]
    /\ UNCHANGED <<disk, bucket, registry, cluster, task, answer>> /\ Keep

(* The newest active revision of the family; a refusal raises.             *)
LaunchTask(cells) ==
    \E t \in Tasks :
        /\ Run(cells, "RunTask")
        /\ cluster = "ACTIVE"
        /\ revisions.active # {}
        /\ task[t].status = "unused"
        /\ task' = [task EXCEPT ![t].status = "PENDING"]
        /\ kernel' = [kernel EXCEPT !.task = t]
        /\ UNCHANGED <<disk, bucket, registry, cluster, revisions, answer>> /\ Keep

(* A STOPPED task is reported, and the notebook goes on.                   *)
TaskSettled(cells) ==
    /\ Run(cells, "AwaitTask")
    /\ kernel.task # None
    /\ task[kernel.task].status \in {"RUNNING", "STOPPED"}
    /\ UNCHANGED <<kernel, disk, answer>> /\ Keep /\ KeepCloud

(* A task that has not stopped has a network interface.  One that has has  *)
(* none, or one that cannot be described, and then the cell raises.        *)
LookUpIp(cells, without) ==
    /\ Run(cells, "PublicIp")
    /\ kernel.task # None
    /\ kernel' = [kernel EXCEPT !.ip =
                     IF task[kernel.task].status = "STOPPED" THEN without ELSE kernel.task]
    /\ UNCHANGED <<disk, answer>> /\ Keep /\ KeepCloud

(* !curl does not raise when nothing answers.                              *)
Post(cells, request, status) ==
    /\ Run(cells, "Invoke")
    /\ answer' = IF kernel.ip # None /\ task[kernel.ip].status = "RUNNING"
                 THEN [request |-> request, status |-> status]
                 ELSE None
    /\ UNCHANGED <<kernel, disk>> /\ Keep /\ KeepCloud

(* stop_task only asks for it.                                             *)
\* Mutant: only a task that is still starting is stopped.
StopKnownTask_Starting(cells) ==
    /\ Run(cells, "StopTask")
    /\ cluster = "ACTIVE"
    /\ kernel.task # None
    /\ task' = [task EXCEPT ![kernel.task].status = IF @ = "PENDING" THEN "STOPPING" ELSE @]
    /\ answer' = None
    /\ UNCHANGED <<kernel, disk, bucket, registry, cluster, revisions>> /\ Keep

StopKnownTask(cells) ==
    /\ Run(cells, "StopTask")
    /\ cluster = "ACTIVE"
    /\ kernel.task # None
    /\ task' = [task EXCEPT ![kernel.task].status =
                   IF @ \in {"PENDING", "RUNNING"} THEN "STOPPING" ELSE @]
    /\ answer' = None
    /\ UNCHANGED <<kernel, disk, bucket, registry, cluster, revisions>> /\ Keep

DeregisterKnown(cells) ==
    /\ Run(cells, "Deregister")
    /\ kernel.definition \in revisions.active
    /\ revisions' = [revisions EXCEPT !.active = @ \ {kernel.definition}]
    /\ UNCHANGED <<kernel, disk, bucket, registry, cluster, task, answer>> /\ Keep

(* Refused while the cluster has tasks.                                    *)
\* Mutant: as for the repository below, a refusal is only printed.
DeleteEmptyCluster_Tolerant(cells) ==
    /\ Run(cells, "DeleteCluster")
    /\ cluster' = IF cluster = "ACTIVE" /\ Alive = {} THEN "INACTIVE" ELSE cluster
    /\ UNCHANGED <<kernel, disk, bucket, registry, revisions, task, answer>> /\ Keep

DeleteEmptyCluster(cells) ==
    /\ Run(cells, "DeleteCluster")
    /\ cluster = "ACTIVE"
    /\ Alive = {}
    /\ cluster' = "INACTIVE"
    /\ UNCHANGED <<kernel, disk, bucket, registry, revisions, task, answer>> /\ Keep

(* A repository that is not there is none to delete.                       *)
\* Mutant: without force, the images are not deleted with it.
DropRepository_KeepsImage(cells) ==
    /\ Run(cells, "DeleteRepository")
    /\ registry' = [registry EXCEPT !.exists = FALSE]
    /\ UNCHANGED <<kernel, disk, bucket, cluster, revisions, task, answer>> /\ Keep

DropRepository(cells) ==
    /\ Run(cells, "DeleteRepository")
    /\ registry' = [exists |-> FALSE, latest |-> None]
    /\ UNCHANGED <<kernel, disk, bucket, cluster, revisions, task, answer>> /\ Keep

----------------------------------------------------------------------------
AccountTypeOK ==
    /\ backs \in 0..MaxBacks
    /\ kernel.runs \in 0..MaxRuns
    /\ kernel.task \in Tasks \cup {None} /\ kernel.ip \in Tasks \cup {None}
    /\ kernel.definition \in 0..(revisions.next - 1)
    /\ {disk.model, disk.image, registry.latest} \subseteq Models \cup {None}
    /\ ~registry.exists => registry.latest = None
    /\ bucket.models \subseteq Models
    /\ {kernel.frames, disk.data, bucket.data} \subseteq Frames \cup {None}
    /\ cluster \in {"MISSING", "PROVISIONING", "ACTIVE", "FAILED", "INACTIVE"}
    /\ revisions.active \subseteq 1..(revisions.next - 1)
    /\ \A t \in Tasks :
          /\ task[t].status \in TaskStates
          /\ task[t].status = "RUNNING" => task[t].model \in Models
=============================================================================
