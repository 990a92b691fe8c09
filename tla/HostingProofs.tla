---------------------------- MODULE HostingProofs ----------------------------
(***************************************************************************)
(* What holds of the hosting notebooks whatever the numbers of tasks, of   *)
(* models, of steps back and of orders searched: the types of the account, *)
(* one scale for the training data, requests to the notebook's own task,   *)
(* good answers only, and nothing left behind by a notebook that finished. *)
(*                                                                         *)
(* All but the answers need one invariant of two parts.  Types says what   *)
(* every variable holds; XgboostPlaces and SarimaPlaces say what is true   *)
(* from a cell on: cells run in order, so the cell that made it true was   *)
(* run after every cell that could make it false.                          *)
(***************************************************************************)
EXTENDS Hosting, WellFoundedInduction, TLAPS

AllRaw == [p \in Parts |-> "raw"]
AllTrain == [p \in Parts |-> "train"]

Searches == {[aic |-> a, best |-> S!Search(a)] : a \in [1..Grid -> S!Aics]}

Kernels ==
    [runs : 0..MaxRuns, search : Searches \cup {None}, found : SUBSET Kinds,
     winner : {"arima", "sarima", None}, fitted : Models \cup {None},
     frames : {AllRaw, AllTrain, None}, definition : Nat,
     task : Tasks \cup {None}, ip : Tasks \cup {None}]

Disks ==
    [model : Models \cup {None}, image : Models \cup {None}, data : {AllTrain, None},
     fits : [{"arima", "sarima"} -> Outcomes] \cup {None},
     staged : [{"xgboost", "arima", "sarima"} -> Models \cup {None}]]

Buckets == [models : SUBSET Models, data : {AllTrain, None}]

Registries == [exists : BOOLEAN, latest : Models \cup {None}]

Clusters == {"MISSING", "PROVISIONING", "ACTIVE", "FAILED", "INACTIVE"}

Types ==
    /\ notebook \in {"xgboost", "sarima"}
    /\ backs \in 0..MaxBacks
    /\ kernel \in Kernels
    /\ disk \in Disks
    /\ bucket \in Buckets
    /\ registry \in Registries
    /\ ~registry.exists => registry.latest = None
    /\ cluster \in Clusters
    /\ revisions \in [next : Nat \ {0}, active : SUBSET Nat]
    /\ revisions.active \subseteq 1..(revisions.next - 1)
    /\ kernel.definition < revisions.next
    /\ task \in [Tasks -> [status : TaskStates, model : Models \cup {None}]]
    /\ \A t \in Tasks : task[t].status = "RUNNING" => task[t].model \in Models

XgboostPlaces ==
    Xgboost =>
        /\ cell \in 1..23
        /\ cell > 2 => kernel.frames = AllTrain
        /\ cell > 20 => Alive = {} /\ cluster = "INACTIVE"
        /\ cell > 21 => ~registry.exists
        /\ cell > 22 => bucket = [models |-> {}, data |-> None]

SarimaPlaces ==
    Sarima =>
        /\ cell \in 1..24
        /\ cell > 17 => kernel.ip \in {None, kernel.task}
        /\ cell > 21 => Alive = {} /\ cluster = "INACTIVE"
        /\ cell > 22 => ~registry.exists

Inv == Types /\ XgboostPlaces /\ SarimaPlaces

(* The cells of the XGBoost notebook, by their number.                     *)
LEMMA XgboostCells ==
    /\ Len(X!Cells) = 22
    /\ DOMAIN X!Cells = 1..22
  BY DEF X!Cells

LEMMA XgboostNumbers ==
    /\ X!Run(X!Cells, "Split") => cell = 1 /\ cell' = 2
    /\ X!Run(X!Cells, "Standardize") => cell = 2 /\ cell' = 3
    /\ X!Run(X!Cells, "SaveLocally") => cell = 3 /\ cell' = 4
    /\ X!Run(X!Cells, "Upload") => cell = 4 /\ cell' = 5
    /\ X!Run(X!Cells, "Train") => cell = 5 /\ cell' = 6
    /\ X!Run(X!Cells, "Retrieve") => cell = 6 /\ cell' = 7
    /\ X!Run(X!Cells, "Stage") => cell = 7 /\ cell' = 8
    /\ X!Run(X!Cells, "Build") => cell = 8 /\ cell' = 9
    /\ X!Run(X!Cells, "Repository") => cell = 9 /\ cell' = 10
    /\ X!Run(X!Cells, "Push") => cell = 10 /\ cell' = 11
    /\ X!Run(X!Cells, "Cluster") => cell = 11 /\ cell' = 12
    /\ X!Run(X!Cells, "AwaitCluster") => cell = 12 /\ cell' = 13
    /\ X!Run(X!Cells, "Register") => cell = 13 /\ cell' = 14
    /\ X!Run(X!Cells, "RunTask") => cell = 14 /\ cell' = 15
    /\ X!Run(X!Cells, "AwaitTask") => cell = 15 /\ cell' = 16
    /\ X!Run(X!Cells, "PublicIp") => cell = 16 /\ cell' = 17
    /\ X!Run(X!Cells, "Invoke") => cell = 17 /\ cell' = 18
    /\ X!Run(X!Cells, "StopTask") => cell = 18 /\ cell' = 19
    /\ X!Run(X!Cells, "Deregister") => cell = 19 /\ cell' = 20
    /\ X!Run(X!Cells, "DeleteCluster") => cell = 20 /\ cell' = 21
    /\ X!Run(X!Cells, "DeleteRepository") => cell = 21 /\ cell' = 22
    /\ X!Run(X!Cells, "DeleteObjects") => cell = 22 /\ cell' = 23
  BY DEF X!Cells, X!Run

(* The cells of the SARIMA notebook, by their number.                      *)
LEMMA SarimaCells ==
    /\ Len(S!Cells) = 23
    /\ DOMAIN S!Cells = 1..23
  BY DEF S!Cells

LEMMA SarimaNumbers ==
    /\ S!Run(S!Cells, "SearchArima") => cell = 1 /\ cell' = 2
    /\ S!Run(S!Cells, "FitArima") => cell = 2 /\ cell' = 3
    /\ S!Run(S!Cells, "SearchSarima") => cell = 3 /\ cell' = 4
    /\ S!Run(S!Cells, "FitSarima") => cell = 4 /\ cell' = 5
    /\ S!Run(S!Cells, "Compare") => cell = 5 /\ cell' = 6
    /\ S!Run(S!Cells, "Production") => cell = 6 /\ cell' = 7
    /\ S!Run(S!Cells, "Save") => cell = 7 /\ cell' = 8
    /\ S!Run(S!Cells, "Stage") => cell = 8 /\ cell' = 9
    /\ S!Run(S!Cells, "Build") => cell = 9 /\ cell' = 10
    /\ S!Run(S!Cells, "Repository") => cell = 10 /\ cell' = 11
    /\ S!Run(S!Cells, "Push") => cell = 11 /\ cell' = 12
    /\ S!Run(S!Cells, "Cluster") => cell = 12 /\ cell' = 13
    /\ S!Run(S!Cells, "AwaitCluster") => cell = 13 /\ cell' = 14
    /\ S!Run(S!Cells, "Register") => cell = 14 /\ cell' = 15
    /\ S!Run(S!Cells, "RunTask") => cell = 15 /\ cell' = 16
    /\ S!Run(S!Cells, "AwaitTask") => cell = 16 /\ cell' = 17
    /\ S!Run(S!Cells, "PublicIp") => cell = 17 /\ cell' = 18
    /\ S!Run(S!Cells, "Invoke") => cell = 18 /\ cell' = 19
    /\ S!Run(S!Cells, "StopTask") => cell = 19 /\ cell' = 20
    /\ S!Run(S!Cells, "Deregister") => cell = 20 /\ cell' = 21
    /\ S!Run(S!Cells, "DeleteCluster") => cell = 21 /\ cell' = 22
    /\ S!Run(S!Cells, "DeleteRepository") => cell = 22 /\ cell' = 23
    /\ S!Run(S!Cells, "DeleteArtifacts") => cell = 23 /\ cell' = 24
  BY DEF S!Cells, S!Run

(* The operations the notebooks share are those of NotebookAccount.        *)
LEMMA XgboostShares ==
    ASSUME NEW cells
    PROVE  /\ X!Keep => Keep
           /\ X!KeepCloud => KeepCloud
           /\ X!BuildImage(cells) => BuildImage(cells) /\ X!Run(cells, "Build")
           /\ X!EnsureRepository(cells) => EnsureRepository(cells) /\ X!Run(cells, "Repository")
           /\ X!PushImage(cells) => PushImage(cells) /\ X!Run(cells, "Push")
           /\ \A absent :
                 X!EnsureCluster(cells, absent) => EnsureCluster(cells,
                 absent) /\ X!Run(cells, "Cluster")
           /\ X!ClusterSettled(cells) => ClusterSettled(cells) /\ X!Run(cells, "AwaitCluster")
           /\ X!RegisterRevision(cells) => RegisterRevision(cells) /\ X!Run(cells, "Register")
           /\ X!LaunchTask(cells) => LaunchTask(cells) /\ X!Run(cells, "RunTask")
           /\ X!TaskSettled(cells) => TaskSettled(cells) /\ X!Run(cells, "AwaitTask")
           /\ \A without :
                 X!LookUpIp(cells, without) => LookUpIp(cells,
                 without) /\ X!Run(cells, "PublicIp")
           /\ \A request, status :
                 X!Post(cells, request, status) => Post(cells, request,
                 status) /\ X!Run(cells, "Invoke")
           /\ X!StopKnownTask(cells) => StopKnownTask(cells) /\ X!Run(cells, "StopTask")
           /\ X!DeregisterKnown(cells) => DeregisterKnown(cells) /\ X!Run(cells, "Deregister")
           /\ X!DeleteEmptyCluster(cells) => DeleteEmptyCluster(cells) /\ X!Run(cells, "DeleteCluster")
           /\ X!DropRepository(cells) => DropRepository(cells) /\ X!Run(cells, "DeleteRepository")
           /\ \A k :
                 X!GoBack(k) => GoBack(k)
  BY DEF X!Run, Run, X!Keep, Keep, X!KeepCloud, KeepCloud, X!Alive, Alive,
         X!BuildImage, BuildImage, X!EnsureRepository, EnsureRepository,
         X!PushImage, PushImage, X!EnsureCluster, EnsureCluster, X!ClusterSettled,
         ClusterSettled, X!RegisterRevision, RegisterRevision, X!LaunchTask,
         LaunchTask, X!TaskSettled, TaskSettled, X!LookUpIp, LookUpIp, X!Post,
         Post, X!StopKnownTask, StopKnownTask, X!DeregisterKnown, DeregisterKnown,
         X!DeleteEmptyCluster, DeleteEmptyCluster, X!DropRepository,
         DropRepository, X!GoBack, GoBack

LEMMA SarimaShares ==
    ASSUME NEW cells
    PROVE  /\ S!Keep => Keep
           /\ S!KeepCloud => KeepCloud
           /\ S!BuildImage(cells) => BuildImage(cells) /\ S!Run(cells, "Build")
           /\ S!EnsureRepository(cells) => EnsureRepository(cells) /\ S!Run(cells, "Repository")
           /\ S!PushImage(cells) => PushImage(cells) /\ S!Run(cells, "Push")
           /\ \A absent :
                 S!EnsureCluster(cells, absent) => EnsureCluster(cells,
                 absent) /\ S!Run(cells, "Cluster")
           /\ S!ClusterSettled(cells) => ClusterSettled(cells) /\ S!Run(cells, "AwaitCluster")
           /\ S!RegisterRevision(cells) => RegisterRevision(cells) /\ S!Run(cells, "Register")
           /\ S!LaunchTask(cells) => LaunchTask(cells) /\ S!Run(cells, "RunTask")
           /\ S!TaskSettled(cells) => TaskSettled(cells) /\ S!Run(cells, "AwaitTask")
           /\ \A without :
                 S!LookUpIp(cells, without) => LookUpIp(cells,
                 without) /\ S!Run(cells, "PublicIp")
           /\ \A request, status :
                 S!Post(cells, request, status) => Post(cells, request,
                 status) /\ S!Run(cells, "Invoke")
           /\ S!StopKnownTask(cells) => StopKnownTask(cells) /\ S!Run(cells, "StopTask")
           /\ S!DeregisterKnown(cells) => DeregisterKnown(cells) /\ S!Run(cells, "Deregister")
           /\ S!DeleteEmptyCluster(cells) => DeleteEmptyCluster(cells) /\ S!Run(cells, "DeleteCluster")
           /\ S!DropRepository(cells) => DropRepository(cells) /\ S!Run(cells, "DeleteRepository")
           /\ \A k :
                 S!GoBack(k) => GoBack(k)
  BY DEF S!Run, Run, S!Keep, Keep, S!KeepCloud, KeepCloud, S!Alive, Alive,
         S!BuildImage, BuildImage, S!EnsureRepository, EnsureRepository,
         S!PushImage, PushImage, S!EnsureCluster, EnsureCluster, S!ClusterSettled,
         ClusterSettled, S!RegisterRevision, RegisterRevision, S!LaunchTask,
         LaunchTask, S!TaskSettled, TaskSettled, S!LookUpIp, LookUpIp, S!Post,
         Post, S!StopKnownTask, StopKnownTask, S!DeregisterKnown, DeregisterKnown,
         S!DeleteEmptyCluster, DeleteEmptyCluster, S!DropRepository,
         DropRepository, S!GoBack, GoBack

(* The shared operations keep the types, in whichever notebook.            *)
LEMMA SharedTypes ==
    ASSUME Types, NEW cells, NEW absent, NEW without \in Tasks \cup {None},
           NEW request, NEW status, NEW k
    PROVE
        /\ BuildImage(cells) => Types'
        /\ EnsureRepository(cells) => Types'
        /\ PushImage(cells) => Types'
        /\ EnsureCluster(cells, absent) => Types'
        /\ ClusterSettled(cells) => Types'
        /\ RegisterRevision(cells) => Types'
        /\ LaunchTask(cells) => Types'
        /\ TaskSettled(cells) => Types'
        /\ LookUpIp(cells, without) => Types'
        /\ Post(cells, request, status) => Types'
        /\ StopKnownTask(cells) => Types'
        /\ DeregisterKnown(cells) => Types'
        /\ DeleteEmptyCluster(cells) => Types'
        /\ DropRepository(cells) => Types'
        /\ GoBack(k) => Types'
  <1>1. BuildImage(cells) => Types'
    BY DEF Types, BuildImage, Keep, KeepCloud, Disks
  <1>2. EnsureRepository(cells) => Types'
    BY DEF Types, EnsureRepository, Keep, Registries
  <1>3. PushImage(cells) => Types'
    BY DEF Types, PushImage, Keep, Disks, Registries
  <1>4. EnsureCluster(cells, absent) => Types'
    BY DEF Types, EnsureCluster, Keep, Clusters
  <1>5. ClusterSettled(cells) => Types'
    BY DEF Types, ClusterSettled, Keep, KeepCloud
  <1>6. RegisterRevision(cells) => Types'
    BY DEF Types, RegisterRevision, Keep, Kernels
  <1>7. LaunchTask(cells) => Types'
    BY DEF Types, LaunchTask, Keep, Kernels, TaskStates
  <1>8. TaskSettled(cells) => Types'
    BY DEF Types, TaskSettled, Keep, KeepCloud
  <1>9. ASSUME LookUpIp(cells, without) PROVE Types'
    <2>. DEFINE ip == IF task[kernel.task].status = "STOPPED" THEN without ELSE kernel.task
    <2>1. ip \in Tasks \cup {None}
      BY DEF Types, Kernels
    <2>2. [kernel EXCEPT !.ip = ip] \in Kernels
      BY <2>1 DEF Types, Kernels
    <2>3. kernel' = [kernel EXCEPT !.ip = ip]
      BY <1>9 DEF LookUpIp
    <2>4. kernel' \in Kernels /\ kernel'.definition = kernel.definition
      BY <2>2, <2>3 DEF Types, Kernels
    <2>. QED  BY <1>9, <2>4 DEF Types, LookUpIp, Keep, KeepCloud
  <1>10. Post(cells, request, status) => Types'
    BY DEF Types, Post, Keep, KeepCloud
  <1>11. StopKnownTask(cells) => Types'
    BY DEF Types, StopKnownTask, Keep, Kernels, TaskStates
  <1>12. DeregisterKnown(cells) => Types'
    BY DEF Types, DeregisterKnown, Keep
  <1>13. DeleteEmptyCluster(cells) => Types'
    BY DEF Types, DeleteEmptyCluster, Keep, Clusters
  <1>14. DropRepository(cells) => Types'
    BY DEF Types, DropRepository, Keep, Registries
  <1>15. GoBack(k) => Types'
    BY AccountAssumption DEF Types, GoBack, KeepCloud
  <1>. QED  BY <1>1, <1>2, <1>3, <1>4, <1>5, <1>6, <1>7, <1>8, <1>9, <1>10, <1>11,
         <1>12, <1>13, <1>14, <1>15

(* Standardising what is standardised changes nothing.                     *)
LEMMA StandardizedFrames ==
    ASSUME Types, X!Standardize
    PROVE  kernel' = [kernel EXCEPT !.frames = AllTrain] /\ kernel'.frames = AllTrain
  <1>1. kernel.frames \in {AllRaw, AllTrain}
    BY DEF X!Standardize, Types, Kernels
  <1>2. CASE kernel.frames = AllRaw
    BY <1>2 DEF X!Standardize, X!Parts, AllRaw, AllTrain, Parts, Types, Kernels
  <1>3. CASE kernel.frames = AllTrain
    BY <1>3 DEF X!Standardize, X!Parts, AllTrain, Parts, Types, Kernels
  <1>. QED  BY <1>1, <1>2, <1>3

(* So do the cells of each notebook, and all that happens beside them.     *)
LEMMA XgboostTypes == Inv /\ Xgboost /\ X!Next => Types'
  <1>. SUFFICES ASSUME Types, XgboostPlaces, Xgboost, X!Next PROVE Types'
    BY DEF Inv
  <1>. USE XgboostShares, SharedTypes
  <1>1. CASE X!Split
    <2>1. kernel' = [kernel EXCEPT !.frames = AllRaw]
      BY <1>1 DEF X!Split, X!Parts, AllRaw, Parts
    <2>. QED  BY <1>1, <2>1 DEF X!Split, X!Keep, X!KeepCloud, Types, Kernels
  <1>2. CASE X!Standardize
    BY <1>2, StandardizedFrames DEF X!Standardize, X!Keep, X!KeepCloud, Types, Kernels
  <1>3. CASE X!SaveLocally
    <2>1. kernel.frames = AllTrain
      BY <1>3, XgboostNumbers DEF X!SaveLocally, XgboostPlaces
    <2>. QED  BY <1>3, <2>1 DEF X!SaveLocally, X!Keep, X!KeepCloud, Types, Disks
  <1>4. CASE X!Upload
    BY <1>4 DEF X!Upload, X!Keep, Types, Disks, Buckets
  <1>5. CASE X!Train
    <2>1. PICK kind \in {"native", "pickled"} :
             bucket' = [bucket EXCEPT !.models = @ \cup {[run |-> kernel.runs + 1, kind |-> kind]}]
      BY <1>5 DEF X!Train
    <2>2. kernel.runs + 1 \in 0..MaxRuns
      BY <1>5, AccountAssumption DEF X!Train, Types, Kernels
    <2>3. [run |-> kernel.runs + 1, kind |-> kind] \in Models
      BY <2>2 DEF Models, Kinds
    <2>4. bucket' \in Buckets
      <3>1. bucket.models \cup {[run |-> kernel.runs + 1, kind |-> kind]} \in SUBSET Models
        BY <2>3 DEF Types, Buckets
      <3>. QED  BY <2>1, <3>1 DEF Types, Buckets
    <2>5. kernel' \in Kernels /\ kernel'.definition = kernel.definition
      BY <1>5, <2>2 DEF X!Train, Types, Kernels
    <2>. QED  BY <1>5, <2>4, <2>5 DEF X!Train, X!Keep, Types
  <1>6. CASE X!Retrieve
    BY <1>6 DEF X!Retrieve, X!Keep, X!KeepCloud, Types, Disks, Buckets
  <1>7. CASE X!RetrieveRaises
    BY <1>7 DEF X!RetrieveRaises, X!RunRaises, X!Keep, X!KeepCloud, Types, Disks
  <1>8. CASE X!Stage
    <2>1. [disk.model EXCEPT !.kind = "native"] \in Models
      BY <1>8 DEF X!Stage, Types, Disks, Models, Kinds
    <2>2. disk' \in Disks
      BY <1>8, <2>1 DEF X!Stage, Types, Disks
    <2>. QED  BY <1>8, <2>2 DEF X!Stage, X!Keep, X!KeepCloud, Types
  <1>9. CASE X!Build
    BY <1>9 DEF X!Build
  <1>10. CASE X!Repository
    BY <1>10 DEF X!Repository
  <1>11. CASE X!Push
    BY <1>11 DEF X!Push
  <1>12. CASE X!Cluster
    BY <1>12 DEF X!Cluster
  <1>13. CASE X!AwaitCluster
    BY <1>13 DEF X!AwaitCluster
  <1>14. CASE X!Register
    BY <1>14 DEF X!Register
  <1>15. CASE X!RunTask
    BY <1>15 DEF X!RunTask
  <1>16. CASE X!AwaitTask
    BY <1>16 DEF X!AwaitTask
  <1>17. CASE X!PublicIp
    BY <1>17 DEF X!PublicIp, Types, Kernels
  <1>18. CASE X!Invoke
    BY <1>18 DEF X!Invoke
  <1>19. CASE X!StopTask
    BY <1>19 DEF X!StopTask
  <1>20. CASE X!DeregisterDefinition
    BY <1>20 DEF X!DeregisterDefinition
  <1>21. CASE X!DeleteClusterCell
    BY <1>21 DEF X!DeleteClusterCell
  <1>22. CASE X!DeleteRepository
    BY <1>22 DEF X!DeleteRepository
  <1>23. CASE X!DeleteObjects
    BY <1>23 DEF X!DeleteObjects, X!Keep, Types, Buckets
  <1>24. CASE \E k \in DOMAIN X!Cells : X!GoBack(k)
    BY <1>24
  <1>. QED  BY <1>1, <1>2, <1>3, <1>4, <1>5, <1>6, <1>7, <1>8, <1>9, <1>10, <1>11,
         <1>12, <1>13, <1>14, <1>15, <1>16, <1>17, <1>18, <1>19, <1>20, <1>21,
         <1>22, <1>23, <1>24 DEF X!Next, X!Cell

LEMMA SearchTypes ==
    ASSUME Types, NEW kind \in Kinds, NEW name, S!SearchOver(kind, name)
    PROVE  Types'
  <1>1. PICK a \in [1..Grid -> S!Aics] :
           kernel' = [kernel EXCEPT
                         !.search = [aic |-> a, best |-> S!Search(a)],
                         !.found = IF S!Search(a) = 0 THEN @ \ {kind} ELSE @ \cup {kind}]
    BY DEF S!SearchOver
  <1>. DEFINE search == [aic |-> a, best |-> S!Search(a)]
              found == IF S!Search(a) = 0 THEN kernel.found \ {kind} ELSE kernel.found \cup {kind}
  <1>2. search \in Searches
    BY DEF Searches
  <1>3. found \in SUBSET Kinds
    BY DEF Types, Kernels
  <1>4. kernel' = [kernel EXCEPT !.search = search, !.found = found]
    BY <1>1 DEF Types, Kernels
  <1>. HIDE DEF search, found
  <1>5. kernel' \in Kernels /\ kernel'.definition = kernel.definition
    BY <1>2, <1>3, <1>4 DEF Types, Kernels
  <1>. QED  BY <1>5 DEF S!SearchOver, S!Run, S!RunRaises, S!Keep, S!KeepCloud, Types

LEMMA FitTypes ==
    ASSUME Types, NEW kind, NEW name, S!FitFound(kind, name)
    PROVE  Types'
  BY DEF S!FitFound, S!Keep, S!KeepCloud, Types, Kernels

LEMMA SarimaTypes == Inv /\ Sarima /\ S!Next => Types'
  <1>. SUFFICES ASSUME Types, S!Next PROVE Types'
    BY DEF Inv
  <1>. USE SarimaShares, SharedTypes
  <1>1. CASE S!SearchArima
    BY <1>1, SearchTypes DEF S!SearchArima, Kinds
  <1>2. CASE S!FitArima
    BY <1>2, FitTypes DEF S!FitArima
  <1>3. CASE S!SearchSarima
    BY <1>3, SearchTypes DEF S!SearchSarima, Kinds
  <1>4. CASE S!FitSarima
    BY <1>4, FitTypes DEF S!FitSarima
  <1>5. CASE S!Compare
    BY <1>5 DEF S!Compare, S!Keep, S!KeepCloud, Types, Kernels
  <1>6. CASE S!Production
    <2>1. kernel.runs + 1 \in 0..MaxRuns
      BY <1>6, AccountAssumption DEF S!Production, Types, Kernels
    <2>2. [run |-> kernel.runs + 1, kind |-> kernel.winner] \in Models
      BY <1>6, <2>1 DEF S!Production, Models, Kinds
    <2>3. kernel' \in Kernels /\ kernel'.definition = kernel.definition
      BY <1>6, <2>1, <2>2 DEF S!Production, Types, Kernels
    <2>. QED  BY <1>6, <2>3 DEF S!Production, S!Keep, S!KeepCloud, Types
  <1>7. CASE S!Save
    BY <1>7 DEF S!Save, S!Keep, S!KeepCloud, Types, Kernels, Disks
  <1>8. CASE S!Stage
    BY <1>8 DEF S!Stage, S!Keep, S!KeepCloud, Types, Kernels, Disks
  <1>9. CASE S!Build
    BY <1>9 DEF S!Build
  <1>10. CASE S!Repository
    BY <1>10 DEF S!Repository
  <1>11. CASE S!Push
    <2>1. CASE S!PushImage(S!Cells)
      BY <2>1
    <2>2. CASE UNCHANGED <<kernel, disk, answer>> /\ S!Keep /\ S!KeepCloud
      BY <2>2 DEF S!Keep, S!KeepCloud, Types
    <2>. QED  BY <1>11, <2>1, <2>2 DEF S!Push
  <1>12. CASE S!Cluster
    BY <1>12 DEF S!Cluster
  <1>13. CASE S!AwaitCluster
    BY <1>13 DEF S!AwaitCluster
  <1>14. CASE S!Register
    BY <1>14 DEF S!Register
  <1>15. CASE S!RunTask
    BY <1>15 DEF S!RunTask
  <1>16. CASE S!AwaitTask
    BY <1>16 DEF S!AwaitTask
  <1>17. CASE S!PublicIp
    BY <1>17 DEF S!PublicIp
  <1>18. CASE S!Invoke
    BY <1>18 DEF S!Invoke
  <1>19. CASE S!StopTask
    BY <1>19 DEF S!StopTask
  <1>20. CASE S!DeregisterDefinition
    BY <1>20 DEF S!DeregisterDefinition
  <1>21. CASE S!DeleteClusterCell
    BY <1>21 DEF S!DeleteClusterCell
  <1>22. CASE S!DeleteRepository
    BY <1>22 DEF S!DeleteRepository
  <1>23. CASE S!DeleteArtifacts
    BY <1>23 DEF S!DeleteArtifacts, S!Keep, S!KeepCloud, Types, Disks
  <1>24. CASE \E k \in DOMAIN S!Cells : S!GoBack(k)
    BY <1>24
  <1>. QED  BY <1>1, <1>2, <1>3, <1>4, <1>5, <1>6, <1>7, <1>8, <1>9, <1>10, <1>11,
         <1>12, <1>13, <1>14, <1>15, <1>16, <1>17, <1>18, <1>19, <1>20, <1>21,
         <1>22, <1>23, <1>24 DEF S!Next, S!Cell

LEMMA OtherTypes == Types /\ (RestartKernel \/ Ecs \/ TaskDiesAlone \/ UNCHANGED vars) => Types'
  <1>. SUFFICES ASSUME Types PROVE RestartKernel \/ Ecs \/ TaskDiesAlone \/ UNCHANGED vars => Types'
    OBVIOUS
  <1>1. RestartKernel => Types'
    BY AccountAssumption DEF RestartKernel, FreshKernel, KeepCloud, Types, Kernels
  <1>2. Provisioned => Types'
    BY DEF Provisioned, Types, Clusters
  <1>3. ASSUME NEW t \in Tasks, TaskRuns(t) \/ PullFails(t) \/ TaskStops(t) \/ TaskDies(t)
        PROVE  Types'
    BY <1>3 DEF TaskRuns, PullFails, TaskStops, TaskDies, TaskMoves, Types,
           Registries, TaskStates
  <1>4. UNCHANGED vars => Types'
    BY DEF vars, Types
  <1>. QED  BY <1>1, <1>2, <1>3, <1>4 DEF Ecs, TaskDiesAlone

----------------------------------------------------------------------------
(* The scale of the frames is a matter of the first cells only.            *)
LEMMA SharedKeeps ==
    ASSUME Types, NEW cells
    PROVE  /\ \/ BuildImage(cells) \/ EnsureRepository(cells) \/ PushImage(cells)
              \/ ClusterSettled(cells) \/ RegisterRevision(cells)
              \/ LaunchTask(cells) \/ TaskSettled(cells)
              \/ StopKnownTask(cells) \/ DeregisterKnown(cells)
              \/ DeleteEmptyCluster(cells) \/ DropRepository(cells)
              => notebook' = notebook /\ kernel'.frames = kernel.frames
           /\ \A absent : EnsureCluster(cells, absent)
              => notebook' = notebook /\ kernel'.frames = kernel.frames
           /\ \A without : LookUpIp(cells, without)
              => notebook' = notebook /\ kernel'.frames = kernel.frames
           /\ \A request, status : Post(cells, request, status)
              => notebook' = notebook /\ kernel'.frames = kernel.frames
           /\ DeregisterKnown(cells) \/ DropRepository(cells)
              => UNCHANGED <<kernel, bucket, task, cluster>>
           /\ DeleteEmptyCluster(cells)
              => UNCHANGED <<kernel, bucket, task>> /\ Alive = {} /\ cluster' = "INACTIVE"
           /\ DropRepository(cells) => ~registry'.exists
  BY DEF Types, Kernels, Keep, KeepCloud, BuildImage, EnsureRepository, PushImage,
         EnsureCluster,
         ClusterSettled, RegisterRevision, LaunchTask, TaskSettled, LookUpIp, Post,
         StopKnownTask, DeregisterKnown, DeleteEmptyCluster, DropRepository

LEMMA EarlyXgboostPlaces ==
    ASSUME cell' \in 1..20, kernel'.frames = AllTrain
    PROVE  XgboostPlaces'
  BY DEF XgboostPlaces, AllTrain

(* Each cell leaves true what is true from the next cell on.               *)
LEMMA XgboostKeepsPlaces == Inv /\ Xgboost /\ X!Next => XgboostPlaces'
  <1>. SUFFICES ASSUME Types, XgboostPlaces, Xgboost, X!Next PROVE XgboostPlaces'
    BY DEF Inv
  <1>. USE XgboostNumbers, XgboostShares
  <1>1. CASE X!Split
    BY <1>1 DEF X!Split, XgboostPlaces
  <1>2. CASE X!Standardize
    <2>1. kernel'.frames = AllTrain
      BY <1>2, StandardizedFrames
    <2>. QED  BY <1>2, <2>1, EarlyXgboostPlaces DEF X!Standardize
  <1>3. CASE X!SaveLocally
    BY <1>3, EarlyXgboostPlaces DEF X!SaveLocally, X!Keep, X!KeepCloud,
           XgboostPlaces, Types, Kernels
  <1>4. CASE X!Upload
    BY <1>4, EarlyXgboostPlaces DEF X!Upload, X!Keep, X!KeepCloud, XgboostPlaces,
           Types, Kernels
  <1>5. CASE X!Train
    BY <1>5, EarlyXgboostPlaces DEF X!Train, X!Keep, X!KeepCloud, XgboostPlaces,
           Types, Kernels
  <1>6. CASE X!Retrieve
    BY <1>6, EarlyXgboostPlaces DEF X!Retrieve, X!Keep, X!KeepCloud,
           XgboostPlaces, Types, Kernels
  <1>7. CASE X!RetrieveRaises
    <2>1. UNCHANGED <<cell, kernel, bucket, registry, cluster, task>>
      BY <1>7 DEF X!RetrieveRaises, X!RunRaises, X!KeepCloud
    <2>. QED  BY <2>1 DEF XgboostPlaces, Alive, Xgboost
  <1>8. CASE X!Stage
    BY <1>8, EarlyXgboostPlaces DEF X!Stage, X!Keep, X!KeepCloud, XgboostPlaces,
           Types, Kernels
  <1>9. CASE X!Build
    BY <1>9, SharedKeeps, EarlyXgboostPlaces DEF X!Build, XgboostPlaces
  <1>10. CASE X!Repository
    BY <1>10, SharedKeeps, EarlyXgboostPlaces DEF X!Repository, XgboostPlaces
  <1>11. CASE X!Push
    BY <1>11, SharedKeeps, EarlyXgboostPlaces DEF X!Push, XgboostPlaces
  <1>12. CASE X!Cluster
    BY <1>12, SharedKeeps, EarlyXgboostPlaces DEF X!Cluster, XgboostPlaces
  <1>13. CASE X!AwaitCluster
    BY <1>13, SharedKeeps, EarlyXgboostPlaces DEF X!AwaitCluster, XgboostPlaces
  <1>14. CASE X!Register
    BY <1>14, SharedKeeps, EarlyXgboostPlaces DEF X!Register, XgboostPlaces
  <1>15. CASE X!RunTask
    BY <1>15, SharedKeeps, EarlyXgboostPlaces DEF X!RunTask, XgboostPlaces
  <1>16. CASE X!AwaitTask
    BY <1>16, SharedKeeps, EarlyXgboostPlaces DEF X!AwaitTask, XgboostPlaces
  <1>17. CASE X!PublicIp
    BY <1>17, SharedKeeps, EarlyXgboostPlaces DEF X!PublicIp, XgboostPlaces
  <1>18. CASE X!Invoke
    BY <1>18, SharedKeeps, EarlyXgboostPlaces DEF X!Invoke, XgboostPlaces
  <1>19. CASE X!StopTask
    BY <1>19, SharedKeeps, EarlyXgboostPlaces DEF X!StopTask, XgboostPlaces
  <1>20. CASE X!DeregisterDefinition
    BY <1>20, SharedKeeps DEF X!DeregisterDefinition, XgboostPlaces, Alive
  <1>21. CASE X!DeleteClusterCell
    <2>1. cell' = 21 /\ Alive' = {} /\ cluster' = "INACTIVE" /\ kernel' = kernel
      BY <1>21, SharedKeeps DEF X!DeleteClusterCell, Alive
    <2>. QED  BY <1>21, <2>1 DEF XgboostPlaces, X!DeleteClusterCell, X!DeleteEmptyCluster
  <1>22. CASE X!DeleteRepository
    <2>1. cell' = 22 /\ Alive' = Alive /\ cluster' = cluster /\ kernel' = kernel /\ ~registry'.exists
      BY <1>22, SharedKeeps DEF X!DeleteRepository, Alive
    <2>. QED  BY <1>22, <2>1 DEF XgboostPlaces, X!DeleteRepository, X!DropRepository
  <1>23. CASE X!DeleteObjects
    BY <1>23 DEF XgboostPlaces, X!DeleteObjects, Alive
  <1>24. CASE \E k \in DOMAIN X!Cells : X!GoBack(k)
    <2>1. PICK k \in 1..22 : X!GoBack(k)
      BY <1>24, XgboostCells
    <2>2. k < cell /\ cell' = k /\ UNCHANGED <<notebook, kernel, bucket, registry, cluster, task>>
      BY <2>1 DEF X!GoBack, X!KeepCloud
    <2>3. Alive' = Alive
      BY <2>2 DEF Alive
    <2>. QED  BY <2>2, <2>3 DEF XgboostPlaces, Xgboost, AllTrain
  <1>. QED  BY <1>1, <1>2, <1>3, <1>4, <1>5, <1>6, <1>7, <1>8, <1>9, <1>10, <1>11,
         <1>12, <1>13, <1>14, <1>15, <1>16, <1>17, <1>18, <1>19, <1>20, <1>21,
         <1>22, <1>23, <1>24 DEF X!Next, X!Cell

LEMMA EarlySarimaPlaces == ASSUME cell' \in 1..17 PROVE SarimaPlaces'
  BY DEF SarimaPlaces

LEMMA SarimaKeepsPlaces == Inv /\ Sarima /\ S!Next => SarimaPlaces'
  <1>. SUFFICES ASSUME Types, SarimaPlaces, Sarima, S!Next PROVE SarimaPlaces'
    BY DEF Inv
  <1>. USE SarimaNumbers, SarimaShares
  <1>1. CASE \/ S!SearchArima \/ S!FitArima \/ S!SearchSarima \/ S!FitSarima \/ S!Compare
             \/ S!Production \/ S!Save \/ S!Stage
    <2>1. \A kind, name : S!FitFound(kind, name) => S!Run(S!Cells, name)
      BY DEF S!FitFound
    <2>2. S!SearchArima \/ S!SearchSarima => cell' \in 1..4
      <3>1. \A kind, name : S!SearchOver(kind, name) =>
               S!Run(S!Cells, name) \/ S!RunRaises(S!Cells, name)
        BY DEF S!SearchOver
      <3>2. /\ S!RunRaises(S!Cells, "SearchArima") => cell' = 1
            /\ S!RunRaises(S!Cells, "SearchSarima") => cell' = 3
        BY DEF S!RunRaises, S!Cells
      <3>. QED  BY <3>1, <3>2 DEF S!SearchArima, S!SearchSarima
    <2>. QED  BY <1>1, <2>1, <2>2, EarlySarimaPlaces
              DEF S!FitArima, S!FitSarima,
                  S!Compare, S!Production, S!Save, S!Stage
  <1>2. CASE \/ S!Build \/ S!Repository \/ S!Push \/ S!Cluster \/ S!AwaitCluster
             \/ S!Register \/ S!RunTask \/ S!AwaitTask
    BY <1>2, EarlySarimaPlaces
       DEF S!Build, S!Repository, S!Push, S!Cluster, S!AwaitCluster, S!Register,
           S!RunTask, S!AwaitTask
  <1>3. CASE S!PublicIp
    BY <1>3 DEF S!PublicIp, LookUpIp, SarimaPlaces, Types, Kernels
  <1>4. CASE S!Invoke \/ S!StopTask
    BY <1>4 DEF S!Invoke, S!StopTask, Post, StopKnownTask, SarimaPlaces, Keep
  <1>5. CASE S!DeregisterDefinition
    BY <1>5, SharedKeeps DEF S!DeregisterDefinition, SarimaPlaces
  <1>6. CASE S!DeleteClusterCell
    <2>1. cell' = 22 /\ Alive' = {} /\ cluster' = "INACTIVE" /\ kernel' = kernel
      BY <1>6, SharedKeeps DEF S!DeleteClusterCell, Alive
    <2>. QED  BY <1>6, <2>1 DEF SarimaPlaces, S!DeleteClusterCell, S!DeleteEmptyCluster
  <1>7. CASE S!DeleteRepository
    <2>1. cell' = 23 /\ Alive' = Alive /\ cluster' = cluster /\ kernel' = kernel /\ ~registry'.exists
      BY <1>7, SharedKeeps DEF S!DeleteRepository, Alive
    <2>. QED  BY <1>7, <2>1 DEF SarimaPlaces, S!DeleteRepository, S!DropRepository
  <1>8. CASE S!DeleteArtifacts
    BY <1>8 DEF SarimaPlaces, S!DeleteArtifacts, S!KeepCloud, Alive
  <1>9. CASE \E k \in DOMAIN S!Cells : S!GoBack(k)
    <2>1. PICK k \in 1..23 : S!GoBack(k)
      BY <1>9, SarimaCells
    <2>2. k < cell /\ cell' = k /\ UNCHANGED <<notebook, kernel, registry, cluster, task>>
      BY <2>1 DEF S!GoBack, S!KeepCloud
    <2>3. Alive' = Alive
      BY <2>2 DEF Alive
    <2>. QED  BY <2>2, <2>3 DEF SarimaPlaces, Sarima
  <1>. QED  BY <1>1, <1>2, <1>3, <1>4, <1>5, <1>6, <1>7, <1>8, <1>9 DEF S!Next, S!Cell

(* No task becomes alive but by the cell that starts it, and a cluster     *)
(* that is INACTIVE stays so until the cell that creates it is run.        *)
LEMMA OthersKeepPlaces ==
    ASSUME Inv, RestartKernel \/ Ecs \/ TaskDiesAlone \/ UNCHANGED vars
    PROVE  XgboostPlaces' /\ SarimaPlaces'
  <1>1. CASE RestartKernel
    BY <1>1 DEF RestartKernel, XgboostPlaces, SarimaPlaces
  <1>2. CASE Provisioned
    <2>1. UNCHANGED <<notebook, cell, kernel, bucket, registry>> /\ Alive' = Alive
      BY <1>2 DEF Provisioned, Alive
    <2>2. cluster = "PROVISIONING"
      BY <1>2 DEF Provisioned
    <2>. QED  BY <2>1, <2>2 DEF Inv, XgboostPlaces, SarimaPlaces, Xgboost, Sarima,
           AllTrain
  <1>3. ASSUME NEW t \in Tasks, TaskRuns(t) \/ PullFails(t) \/ TaskStops(t) \/ TaskDies(t)
        PROVE  XgboostPlaces' /\ SarimaPlaces'
    <2>1. UNCHANGED <<notebook, cell, kernel, bucket, registry, cluster>>
      BY <1>3 DEF TaskRuns, PullFails, TaskStops, TaskDies, TaskMoves
    <2>2. Alive' \subseteq Alive
      BY <1>3 DEF TaskRuns, PullFails, TaskStops, TaskDies, TaskMoves, Alive, Inv,
             Types, TaskStates
    <2>. QED  BY <2>1, <2>2 DEF Inv, XgboostPlaces, SarimaPlaces, Xgboost, Sarima,
           AllTrain
  <1>4. CASE UNCHANGED vars
    BY <1>4 DEF vars, Inv, XgboostPlaces, SarimaPlaces, Xgboost, Sarima, AllTrain, Alive
  <1>. QED  BY <1>1, <1>2, <1>3, <1>4 DEF Ecs, TaskDiesAlone

LEMMA NotebookStays == X!Next \/ S!Next => notebook' = notebook
  <1>1. X!Next => notebook' = notebook
    <2>1. X!Next => X!Keep \/ \E k \in DOMAIN X!Cells : X!GoBack(k)
      BY DEF X!Next, X!Cell, X!Split, X!Standardize, X!SaveLocally, X!Upload,
             X!Train, X!Retrieve,
             X!RetrieveRaises, X!Stage, X!Build, X!Repository, X!Push, X!Cluster,
             X!AwaitCluster, X!Register, X!RunTask, X!AwaitTask, X!PublicIp, X!Invoke,
             X!StopTask, X!DeregisterDefinition, X!DeleteClusterCell, X!DeleteRepository,
             X!DeleteObjects, X!BuildImage, X!EnsureRepository, X!PushImage,
             X!EnsureCluster,
             X!ClusterSettled, X!RegisterRevision, X!LaunchTask, X!TaskSettled,
             X!LookUpIp,
             X!Post, X!StopKnownTask, X!DeregisterKnown, X!DeleteEmptyCluster,
             X!DropRepository
    <2>. QED  BY <2>1 DEF X!Keep, X!GoBack
  <1>2. S!Next => notebook' = notebook
    <2>1. S!Next => S!Keep \/ \E k \in DOMAIN S!Cells : S!GoBack(k)
      BY DEF S!Next, S!Cell, S!SearchArima, S!FitArima, S!SearchSarima,
             S!FitSarima, S!SearchOver,
             S!FitFound, S!Compare, S!Production, S!Save, S!Stage, S!Build,
             S!Repository, S!Push,
             S!Cluster, S!AwaitCluster, S!Register, S!RunTask, S!AwaitTask,
             S!PublicIp, S!Invoke,
             S!StopTask, S!DeregisterDefinition, S!DeleteClusterCell, S!DeleteRepository,
             S!DeleteArtifacts, S!BuildImage, S!EnsureRepository, S!PushImage,
             S!EnsureCluster,
             S!ClusterSettled, S!RegisterRevision, S!LaunchTask, S!TaskSettled,
             S!LookUpIp,
             S!Post, S!StopKnownTask, S!DeregisterKnown, S!DeleteEmptyCluster,
             S!DropRepository
    <2>. QED  BY <2>1 DEF S!Keep, S!GoBack
  <1>. QED  BY <1>1, <1>2

LEMMA InvStep == Inv /\ [Next]_vars => Inv'
  <1>1. Inv /\ Xgboost /\ X!Next => Inv'
    BY XgboostTypes, XgboostKeepsPlaces, NotebookStays DEF Inv, SarimaPlaces,
           Xgboost, Sarima
  <1>2. Inv /\ Sarima /\ S!Next => Inv'
    BY SarimaTypes, SarimaKeepsPlaces, NotebookStays DEF Inv, XgboostPlaces,
           Xgboost, Sarima
  <1>. QED  BY <1>1, <1>2, OtherTypes, OthersKeepPlaces DEF Inv, Next, User

LEMMA InvStart == Init => Inv
  <1>. SUFFICES ASSUME Init PROVE Inv
    OBVIOUS
  <1>1. kernel \in Kernels /\ kernel.definition = 0
    BY AccountAssumption DEF Init, AccountInit, FreshKernel, Kernels
  <1>2. disk \in Disks
    BY DEF Init, AccountInit, Disks
  <1>3. bucket \in Buckets
    BY AccountAssumption DEF Init, AccountInit, Buckets, Models, Kinds
  <1>4. Types
    BY <1>1, <1>2, <1>3, AccountAssumption
       DEF Init, AccountInit, Types, Registries, Clusters, TaskStates
  <1>. QED  BY <1>4 DEF Init, AccountInit, Inv, XgboostPlaces, SarimaPlaces

(* What the types and the places say holds of every state.                 *)
THEOREM InvHolds == Spec => []Inv
  BY InvStart, InvStep, PTL DEF Spec

----------------------------------------------------------------------------
(* Every variable keeps its type, and the kernel never knows a revision    *)
(* that was not registered.                                                *)
THEOREM HostingTypeCorrect == Spec => []TypeOK
  <1>1. Inv => TypeOK
    <2>. SUFFICES ASSUME Inv PROVE TypeOK
      OBVIOUS
    <2>1. {kernel.frames, disk.data, bucket.data} \subseteq Frames \cup {None}
      BY DEF Inv, Types, Kernels, Disks, Buckets, AllRaw, AllTrain, Frames, Parts, Scales
    <2>2. AccountTypeOK
      BY <2>1 DEF Inv, Types, AccountTypeOK, Kernels, Disks, Buckets, Registries,
             Clusters, TaskStates
    <2>. QED  BY <2>2, XgboostCells, SarimaCells DEF TypeOK, Inv, XgboostPlaces,
           SarimaPlaces
  <1>. QED  BY <1>1, InvHolds, PTL

(* Between the cell that looks up the address and the cell that uses it    *)
(* no cell starts a task, and the address was reset before: a request goes *)
(* to the task started last or to none.                                    *)
THEOREM RequestsGoToOwnTask == Spec => []InvokesOwnTask
  <1>1. Inv => InvokesOwnTask
    BY SarimaCells DEF Inv, SarimaPlaces, InvokesOwnTask, At, S!Cells, Sarima, Xgboost
  <1>. QED  BY <1>1, InvHolds, PTL

(* Whatever cells were run again, what is uploaded was standardised by the *)
(* training set.                                                           *)
THEOREM OneScale == Spec => []TrainsOnOneScale
  <1>1. Inv => TrainsOnOneScale
    BY DEF Inv, Types, Buckets, TrainsOnOneScale, AllTrain
  <1>. QED  BY <1>1, InvHolds, PTL

(* Who reaches the last cell has run the clean-up cells before it, after   *)
(* every cell that makes what they remove.                                 *)
THEOREM FinishedNotebookIsClean == Spec => []FinishedIsClean
  <1>1. Inv => FinishedIsClean
    BY XgboostCells, SarimaCells
       DEF Inv, Types, XgboostPlaces, SarimaPlaces, FinishedIsClean, Finished, X!Finished, S!Finished,
           Xgboost, Sarima
  <1>. QED  BY <1>1, InvHolds, PTL

(* A server that answers 200 has parsed what it was sent and compared the  *)
(* lengths, and only an answer of the notebook's own server is printed.    *)
LEMMA GoodXgboostAnswer ==
    ASSUME NEW request \in X!XgboostRequests, X!XgboostAnswers(request) = 200
    PROVE  request.shape = "object" /\ request.csv \in 1..8
  <1>1. CASE request \in [shape : {"object"}, csv : X!CsvGiven]
    BY <1>1 DEF X!XgboostAnswers, X!ParseCsv, X!Predict, X!CsvGiven, X!Absent,
           X!Empty, X!Unfit, X!Text
  <1>2. CASE request \in [shape : X!Shapes, csv : {X!Absent}]
    BY <1>2 DEF X!XgboostAnswers, X!ParseCsv, X!Predict, X!Absent
  <1>. QED  BY <1>1, <1>2 DEF X!XgboostRequests

LEMMA GoodSarimaAnswer ==
    ASSUME NEW request \in S!SarimaRequests, S!SarimaAnswers(request) = 200
    PROVE  /\ request.shape = "object"
           /\ request.steps \in 1..365
           /\ request.exog \in {Absent, request.steps}
  <1>1. S!ParseSteps(request) = 200 /\ S!Forecast(request.steps, request.exog) = 200
    BY DEF S!SarimaAnswers
  <1>2. CASE request \in [shape : {"object"}, steps : S!StepsGiven, exog : S!ExogGiven]
    <2>1. request.steps \in {0, 1, 5, 365, 366}
      BY <1>1, <1>2 DEF S!ParseSteps, S!StepsGiven, S!Absent, S!Text, S!Unfit, S!Infinite
    <2>. QED  BY <1>1, <1>2, <2>1 DEF S!Forecast, S!Scalar, S!Ragged, S!Absent, Absent
  <1>3. CASE request \in [shape : S!Shapes, steps : {S!Absent}, exog : {S!Absent}]
    BY <1>1, <1>3 DEF S!ParseSteps, S!Absent, S!Text, S!Shapes
  <1>. QED  BY <1>2, <1>3 DEF S!SarimaRequests

LEMMA AnswersComeFromInvoke ==
    /\ X!Next => answer' \in {answer, None} \/ X!Invoke
    /\ S!Next => answer' \in {answer, None} \/ S!Invoke
  <1>1. X!Next => answer' \in {answer, None} \/ X!Invoke
    BY DEF X!Next, X!Cell, X!Split, X!Standardize, X!SaveLocally, X!Upload,
           X!Train, X!Retrieve,
           X!RetrieveRaises, X!Stage, X!Build, X!Repository, X!Push, X!Cluster,
           X!AwaitCluster, X!Register, X!RunTask, X!AwaitTask, X!PublicIp,
           X!StopTask, X!DeregisterDefinition, X!DeleteClusterCell, X!DeleteRepository,
           X!DeleteObjects, X!BuildImage, X!EnsureRepository, X!PushImage,
           X!EnsureCluster,
           X!ClusterSettled, X!RegisterRevision, X!LaunchTask, X!TaskSettled, X!LookUpIp,
           X!StopKnownTask, X!DeregisterKnown, X!DeleteEmptyCluster,
           X!DropRepository, X!GoBack
  <1>2. S!Next => answer' \in {answer, None} \/ S!Invoke
    BY DEF S!Next, S!Cell, S!SearchArima, S!FitArima, S!SearchSarima, S!FitSarima,
           S!SearchOver,
           S!FitFound, S!Compare, S!Production, S!Save, S!Stage, S!Build,
           S!Repository, S!Push,
           S!Cluster, S!AwaitCluster, S!Register, S!RunTask, S!AwaitTask, S!PublicIp,
           S!StopTask, S!DeregisterDefinition, S!DeleteClusterCell, S!DeleteRepository,
           S!DeleteArtifacts, S!BuildImage, S!EnsureRepository, S!PushImage,
           S!EnsureCluster,
           S!ClusterSettled, S!RegisterRevision, S!LaunchTask, S!TaskSettled, S!LookUpIp,
           S!StopKnownTask, S!DeregisterKnown, S!DeleteEmptyCluster,
           S!DropRepository, S!GoBack
  <1>. QED  BY <1>1, <1>2

(* Only a request that makes sense is answered with 200.                   *)
THEOREM AnswersAreGood == Spec => []GoodAnswer
  <1>1. Init => GoodAnswer
    BY DEF Init, AccountInit, GoodAnswer
  <1>2. GoodAnswer /\ [Next]_vars => GoodAnswer'
    <2>. SUFFICES ASSUME GoodAnswer, [Next]_vars PROVE GoodAnswer'
      OBVIOUS
    <2>1. CASE notebook' = notebook /\ answer' \in {answer, None}
      BY <2>1 DEF GoodAnswer, Sarima, Xgboost, Absent
    <2>2. CASE Xgboost /\ X!Invoke
      <3>1. PICK request \in X!XgboostRequests :
               answer' \in {None, [request |-> request, status |-> X!XgboostAnswers(request)]}
        BY <2>2 DEF X!Invoke, X!Post
      <3>2. Xgboost' /\ ~Sarima'
        BY <2>2, NotebookStays DEF X!Invoke, X!Post, X!Keep, Xgboost, Sarima
      <3>. QED  BY <3>1, <3>2, GoodXgboostAnswer DEF GoodAnswer
    <2>3. CASE Sarima /\ S!Invoke
      <3>1. PICK request \in S!SarimaRequests :
               answer' \in {None, [request |-> request, status |-> S!SarimaAnswers(request)]}
        BY <2>3 DEF S!Invoke, S!Post
      <3>2. Sarima' /\ ~Xgboost'
        BY <2>3 DEF S!Invoke, S!Post, S!Keep, Xgboost, Sarima
      <3>. QED  BY <3>1, <3>2, GoodSarimaAnswer DEF GoodAnswer, Absent
    <2>4. CASE RestartKernel \/ Ecs \/ TaskDiesAlone \/ UNCHANGED vars
      BY <2>1, <2>4 DEF RestartKernel, Ecs, Provisioned, TaskRuns, PullFails, TaskStops,
                        TaskDiesAlone, TaskDies, TaskMoves, vars
    <2>. QED  BY <2>1, <2>2, <2>3, <2>4, AnswersComeFromInvoke,
           NotebookStays DEF Next, User
  <1>. QED  BY <1>1, <1>2, PTL DEF Spec

----------------------------------------------------------------------------
(* A set of naturals has a least member: the induction that the search     *)
(* needs, stated of a set because a theorem with an operator parameter     *)
(* cannot be instantiated.                                                 *)
LEMMA LeastNatural ==
    ASSUME NEW T, T \subseteq Nat, T # {}
    PROVE  \E x \in T : \A y \in T : x <= y
  <1>. DEFINE R == {p \in Nat \X Nat : p[1] < p[2]}
  <1>1. IsWellFoundedOn(R, Nat)
    BY NatLessThanWellFounded DEF OpToRel
  <1>. HIDE DEF R
  <1>2. PICK x \in T : \A y \in T : ~ (<<y, x>> \in R)
    BY <1>1, WFMin
  <1>3. \A y \in T : ~(y < x)
    BY <1>2 DEF R
  <1>. QED  BY <1>3

LEMMA UpTo ==
    ASSUME NEW n \in Nat, NEW T, 0 \in T, \A i \in 0..(n - 1) : i \in T => i + 1 \in T
    PROVE  0..n \subseteq T
  <1>1. CASE (0..n) \ T # {}
    <2>. DEFINE U == (0..n) \ T
    <2>0. U \subseteq Nat /\ U # {}
      BY <1>1
    <2>. HIDE DEF U
    <2>1. PICK x \in U : \A y \in U : x <= y
      BY <2>0, LeastNatural
    <2>. USE DEF U
    <2>2. x # 0 /\ x - 1 \in 0..(n - 1) /\ x - 1 \notin T
      BY <2>1
    <2>. QED  BY <2>1, <2>2
  <1>. QED  BY <1>1

(* The order that is best after i orders, given those after fewer.         *)
BestAfter(aic, best, i) ==
    IF i = 0 THEN 0
    ELSE IF aic[i] > 0 /\ (best[i - 1] = 0 \/ aic[i] < aic[best[i - 1]])
         THEN i ELSE best[i - 1]

IsBest(aic, best, n) == best = [i \in 0..n |-> BestAfter(aic, best, i)]

(* The function the loop computes exists, so that the recursive definition *)
(* means what it says.                                                     *)
LEMMA BestExists ==
    ASSUME NEW aic, NEW n \in Nat
    PROVE  \E best : IsBest(aic, best, n)
  <1>. DEFINE T == {m \in 0..n : \E best : IsBest(aic, best, m)}
  <1>1. 0 \in T
    <2>1. IsBest(aic, [i \in 0..0 |-> 0], 0)
      BY DEF IsBest, BestAfter
    <2>. QED  BY <2>1
  <1>2. ASSUME NEW m \in 0..(n - 1), m \in T
        PROVE  m + 1 \in T
    <2>1. PICK best : IsBest(aic, best, m)
      BY <1>2
    <2>. DEFINE longer == [i \in 0..(m + 1) |->
                              IF i <= m THEN best[i] ELSE BestAfter(aic, best, m + 1)]
    <2>2. \A i \in 0..m : longer[i] = best[i]
      OBVIOUS
    <2>3. \A i \in 0..(m + 1) : BestAfter(aic, longer, i) = BestAfter(aic, best, i)
      BY <2>2 DEF BestAfter
    <2>4. \A i \in 0..m : best[i] = BestAfter(aic, best, i)
      BY <2>1 DEF IsBest
    <2>5. \A i \in 0..(m + 1) : longer[i] = BestAfter(aic, longer, i)
      BY <2>3, <2>4
    <2>6. IsBest(aic, longer, m + 1)
      BY <2>5 DEF IsBest
    <2>. QED  BY <2>6
  <1>. HIDE DEF T
  <1>3. 0..n \subseteq T
    BY <1>1, <1>2, UpTo
  <1>. QED  BY <1>3 DEF T

LEMMA SearchIsBest ==
    ASSUME NEW aic
    PROVE  \E best : IsBest(aic, best, Grid) /\ S!Search(aic) = best[Grid]
  <1>1. PICK best : IsBest(aic, best, Grid)
    BY BestExists, GridAssumption
  <1>. QED  BY <1>1 DEF S!Search, IsBest, BestAfter

(* After n orders: the first of those with the least AIC so far.           *)
FirstLeast(aic, n, b) ==
    /\ b = 0 => \A i \in 1..n : ~(aic[i] > 0)
    /\ b # 0 => /\ b \in 1..n
                /\ aic[b] > 0
                /\ \A j \in 1..n : aic[j] > 0 => /\ aic[b] <= aic[j]
                                                 /\ j < b => aic[b] < aic[j]

LEMMA BestIsFirstLeast ==
    ASSUME NEW aic \in [1..Grid -> S!Aics], NEW best, IsBest(aic, best, Grid)
    PROVE  best[Grid] \in Nat /\ FirstLeast(aic, Grid, best[Grid])
  <1>. DEFINE T == {n \in 0..Grid : best[n] \in Nat /\ FirstLeast(aic, n, best[n])}
  <1>0. Grid \in Nat /\ \A i \in 1..Grid : aic[i] \in Int
    BY GridAssumption DEF S!Aics, S!Raises, S!NotANumber
  <1>1. 0 \in T
    BY <1>0 DEF IsBest, BestAfter, FirstLeast
  <1>2. ASSUME NEW n \in 0..(Grid - 1), n \in T
        PROVE  n + 1 \in T
    <2>1. best[n] \in Nat /\ FirstLeast(aic, n, best[n])
      BY <1>2
    <2>2. n + 1 \in 1..Grid /\ best[n + 1] = BestAfter(aic, best, n + 1)
      BY <1>0 DEF IsBest
    <2>3. CASE aic[n + 1] > 0 /\ (best[n] = 0 \/ aic[n + 1] < aic[best[n]])
      <3>1. best[n + 1] = n + 1
        BY <2>2, <2>3 DEF BestAfter
      <3>2. \A j \in 1..n : aic[j] > 0 => aic[n + 1] < aic[j]
        BY <1>0, <2>1, <2>2, <2>3 DEF FirstLeast
      <3>. QED  BY <1>0, <2>2, <2>3, <3>1, <3>2 DEF FirstLeast
    <2>4. CASE ~(aic[n + 1] > 0 /\ (best[n] = 0 \/ aic[n + 1] < aic[best[n]]))
      <3>1. best[n + 1] = best[n]
        BY <2>2, <2>4 DEF BestAfter
      <3>. QED  BY <1>0, <2>1, <2>2, <2>4, <3>1 DEF FirstLeast
    <2>. QED  BY <2>3, <2>4
  <1>. HIDE DEF T
  <1>3. 0..Grid \subseteq T
    BY <1>0, <1>1, <1>2, UpTo
  <1>. QED  BY <1>0, <1>3 DEF T

(* Of every outcome of the fits, the search keeps the first order with the *)
(* least AIC, and none only if none has an AIC.                            *)
LEMMA SearchIsLeast ==
    ASSUME NEW aic \in [1..Grid -> S!Aics]
    PROVE  LET usable == {i \in DOMAIN aic : aic[i] > 0}
               least == {i \in usable : \A j \in usable : aic[i] <= aic[j]}
           IN  S!Search(aic) =
                   IF least = {} THEN 0 ELSE CHOOSE i \in least : \A j \in least : i <= j
  <1>. DEFINE usable == {i \in DOMAIN aic : aic[i] > 0}
              least == {i \in usable : \A j \in usable : aic[i] <= aic[j]}
              b == S!Search(aic)
  <1>1. b \in Nat /\ FirstLeast(aic, Grid, b)
    BY SearchIsBest, BestIsFirstLeast
  <1>2. Grid \in Nat /\ \A i \in 1..Grid : aic[i] \in Int
    BY GridAssumption DEF S!Aics, S!Raises, S!NotANumber
  <1>. HIDE DEF b
  <1>3. CASE b = 0
    <2>1. least = {}
      BY <1>1, <1>2, <1>3 DEF FirstLeast
    <2>. HIDE DEF least
    <2>2. b = IF least = {} THEN 0 ELSE CHOOSE i \in least : \A j \in least : i <= j
      BY <1>3, <2>1
    <2>. QED  BY <2>2 DEF b, least
  <1>4. CASE b # 0
    <2>1. b \in least
      BY <1>1, <1>2, <1>4 DEF FirstLeast
    <2>2. \A i \in least : i \in 1..Grid /\ b <= i
      BY <1>1, <1>2, <1>4 DEF FirstLeast
    <2>3. \A i \in least : (\A j \in least : i <= j) => i = b
      BY <1>1, <2>1, <2>2
    <2>4. b = CHOOSE i \in least : \A j \in least : i <= j
      <3>. HIDE DEF least
      <3>. QED  BY <2>1, <2>2, <2>3
    <2>. HIDE DEF least
    <2>5. b = IF least = {} THEN 0 ELSE CHOOSE i \in least : \A j \in least : i <= j
      BY <2>1, <2>4
    <2>. QED  BY <2>5 DEF b, least
  <1>. QED  BY <1>3, <1>4

(* What the kernel holds of a search is an outcome and the order the loop  *)
(* finds in it, which is the first with the least AIC.                     *)
THEOREM SearchKeepsLeast == Spec => []SearchFindsLeast
  <1>1. Inv => SearchFindsLeast
    <2>. SUFFICES ASSUME Inv, kernel.search # None
                  PROVE  SearchFindsLeast
      BY DEF SearchFindsLeast
    <2>1. PICK a \in [1..Grid -> S!Aics] : kernel.search = [aic |-> a, best |-> S!Search(a)]
      BY DEF Inv, Types, Kernels, Searches
    <2>2. kernel.search.aic = a /\ kernel.search.best = S!Search(a)
      BY <2>1
    <2>. QED  BY <2>2, SearchIsLeast DEF SearchFindsLeast
  <1>. QED  BY <1>1, InvHolds, PTL

=============================================================================
