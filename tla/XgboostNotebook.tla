-------------------------- MODULE XgboostNotebook ---------------------------
(***************************************************************************)
(* sm_xgboost_ca_housing_ecs_container_model_hosting.ipynb: train with     *)
(* SageMaker, stage the model for the ECS worker, and host it in a task of *)
(* its own.  One action per cell with an effect; those that only set up    *)
(* tools, define, plot or print are left out.                              *)
(***************************************************************************)
EXTENDS NotebookAccount, FlaskServers

Cells == <<"Split", "Standardize", "SaveLocally", "Upload", "Train", "Retrieve",
           "Stage", "Build", "Repository", "Push", "Cluster", "AwaitCluster",
           "Register", "RunTask", "AwaitTask", "PublicIp", "Invoke",
           "StopTask", "Deregister", "DeleteCluster", "DeleteRepository",
           "DeleteObjects">>

Finished == cell > Len(Cells)

(* The rows are shuffled and split, by fixed seeds.                        *)
Split ==
    /\ Run(Cells, "Split")
    /\ kernel' = [kernel EXCEPT !.frames = [p \in Parts |-> "raw"]]
    /\ UNCHANGED <<disk, answer>> /\ Keep /\ KeepCloud

(* The scaler is fitted to the training set and applied to all three, in   *)
(* place.  Run again it is fitted to a training set whose mean is 0 and    *)
(* deviation 1, and leaves everything as it is.                            *)
\* Mutant: fit_transform is called for each of them.
Standardize_FitEach ==
    /\ Run(Cells, "Standardize")
    /\ kernel.frames # None
    /\ kernel' = [kernel EXCEPT !.frames =
                     [p \in Parts |-> IF p = "train" THEN "train" ELSE "own"]]
    /\ UNCHANGED <<disk, answer>> /\ Keep /\ KeepCloud

Standardize ==
    /\ Run(Cells, "Standardize")
    /\ kernel.frames # None
    /\ kernel' = [kernel EXCEPT !.frames =
                     IF @["train"] = "raw" THEN [p \in Parts |-> "train"] ELSE @]
    /\ UNCHANGED <<disk, answer>> /\ Keep /\ KeepCloud

SaveLocally ==
    /\ Run(Cells, "SaveLocally")
    /\ kernel.frames # None
    /\ disk' = [disk EXCEPT !.data = kernel.frames]
    /\ UNCHANGED <<kernel, answer>> /\ Keep /\ KeepCloud

Upload ==
    /\ Run(Cells, "Upload")
    /\ disk.data # None
    /\ bucket' = [bucket EXCEPT !.data = disk.data]
    /\ UNCHANGED <<kernel, disk, registry, cluster, revisions, task, answer>> /\ Keep

(* A training job of a new name, on the uploaded data, waited for.         *)
Train ==
    /\ Run(Cells, "Train")
    /\ bucket.data # None
    /\ kernel.runs < MaxRuns
    /\ kernel' = [kernel EXCEPT !.runs = @ + 1]
    /\ \E kind \in {"native", "pickled"} :
          bucket' = [bucket EXCEPT !.models = @ \cup {[run |-> kernel.runs + 1, kind |-> kind]}]
    /\ UNCHANGED <<disk, registry, cluster, revisions, task, answer>> /\ Keep

(* The job whose model is downloaded is named in the cell: that of run 0.  *)
Retrieve ==
    \E model \in bucket.models :
        /\ model.run = 0
        /\ Run(Cells, "Retrieve")
        /\ disk' = [disk EXCEPT !.model = model]
        /\ UNCHANGED <<kernel, answer>> /\ Keep /\ KeepCloud

(* What was retrieved last is removed before the download, which raises.   *)
RetrieveRaises ==
    /\ RunRaises(Cells, "Retrieve")
    /\ disk.model # None
    /\ disk' = [disk EXCEPT !.model = None]
    /\ UNCHANGED <<kernel, answer>> /\ Keep /\ KeepCloud

(* Read natively or unpickled, written natively for the ECS worker.        *)
Stage ==
    /\ Run(Cells, "Stage")
    /\ disk.model # None
    /\ LoadsXgboost(disk.model.kind)
    /\ disk' = [disk EXCEPT !.staged["xgboost"] = [disk.model EXCEPT !.kind = "native"]]
    /\ UNCHANGED <<kernel, answer>> /\ Keep /\ KeepCloud

Build == BuildImage(Cells)

Repository == EnsureRepository(Cells)

(* Both commands are checked: no image or no repository raises.            *)
Push == PushImage(Cells)

Cluster == EnsureCluster(Cells, {"MISSING", "PROVISIONING", "FAILED", "INACTIVE"})

AwaitCluster == ClusterSettled(Cells)

Register == RegisterRevision(Cells)

RunTask == LaunchTask(Cells)

AwaitTask == TaskSettled(Cells)

(* Without a network interface the address is that of the last task.       *)
PublicIp == LookUpIp(Cells, kernel.ip) /\ kernel'.ip # None

(* !curl: the answer of the server, or none, is no error either way.  The  *)
(* user may change the payload.                                            *)
Invoke ==
    \E request \in XgboostRequests :
        kernel.ip # None /\ Post(Cells, request, XgboostAnswers(request))

StopTask == StopKnownTask(Cells)

DeregisterDefinition == DeregisterKnown(Cells)

DeleteClusterCell == DeleteEmptyCluster(Cells)

DeleteRepository == DropRepository(Cells)

DeleteObjects ==
    /\ Run(Cells, "DeleteObjects")
    /\ bucket' = [models |-> {}, data |-> None]
    /\ UNCHANGED <<kernel, disk, registry, cluster, revisions, task, answer>> /\ Keep

Cell ==
    \/ Split \/ Standardize \/ SaveLocally \/ Upload \/ Train \/ Retrieve
    \/ Stage \/ Build \/ Repository \/ Push
    \/ Cluster \/ AwaitCluster \/ Register \/ RunTask \/ AwaitTask \/ PublicIp
    \/ Invoke \/ StopTask \/ DeregisterDefinition \/ DeleteClusterCell
    \/ DeleteRepository \/ DeleteObjects

Next == Cell \/ RetrieveRaises \/ \E k \in DOMAIN Cells : GoBack(k)
=============================================================================
