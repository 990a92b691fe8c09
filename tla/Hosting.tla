------------------------------ MODULE Hosting -------------------------------
(***************************************************************************)
(* A user runs one of the two hosting notebooks in an AWS account of their *)
(* own: its cells in order, now and then going back to an earlier one or   *)
(* restarting the kernel, while ECS starts and stops tasks and a task may  *)
(* die.                                                                    *)
(***************************************************************************)
EXTENDS NotebookAccount, FlaskServers

CONSTANT Grid  \* the number of orders a search tries

ASSUME GridAssumption == Grid \in Nat \ {0}

X == INSTANCE XgboostNotebook
S == INSTANCE SarimaNotebook

Xgboost == notebook = "xgboost"
Sarima == notebook = "sarima"

Finished == IF Xgboost THEN X!Finished ELSE S!Finished
At(name) == ~Finished /\ (IF Xgboost THEN X!Cells ELSE S!Cells)[cell] = name

(* Only one of the notebooks searches orders.                              *)
Init ==
    /\ AccountInit
    /\ notebook \in {"xgboost", "sarima"}
    /\ Sarima <=> disk.fits # None

User == (Xgboost /\ X!Next) \/ (Sarima /\ S!Next) \/ RestartKernel

TaskDiesAlone == \E t \in Tasks : TaskDies(t)

Next == User \/ Ecs \/ TaskDiesAlone

Spec == Init /\ [][Next]_vars

(* The user runs the next cell when it can succeed, and ECS gets on with   *)
(* what it was asked for.  Going back, restarts and deaths need not happen.*)
FairSpec ==
    /\ Spec
    /\ WF_vars((Xgboost /\ X!Cell) \/ (Sarima /\ S!Cell))
    /\ WF_vars(Ecs)

----------------------------------------------------------------------------
TypeOK ==
    /\ AccountTypeOK
    /\ Xgboost => cell \in 1..(Len(X!Cells) + 1)
    /\ Sarima => cell \in 1..(Len(S!Cells) + 1)

(* The order a search ends with is the first of those with the least AIC,  *)
(* whatever raised or came out as no number before, between and after      *)
(* them; there is none only if no order has an AIC.                        *)
SearchFindsLeast ==
    kernel.search # None =>
        LET aic == kernel.search.aic
            usable == {i \in DOMAIN aic : aic[i] > 0}
            least == {i \in usable : \A j \in usable : aic[i] <= aic[j]}
        IN  kernel.search.best =
                IF least = {} THEN 0 ELSE CHOOSE i \in least : \A j \in least : i <= j

(* The SARIMA notebook sends its requests to the task it started last, or  *)
(* to none, never to one left over from an earlier pass.                   *)
InvokesOwnTask == Sarima /\ At("Invoke") => kernel.ip \in {None, kernel.task}

(* A job is trained and validated on data of one scale, that of the        *)
(* training set, however often the cells that overwrite their own input    *)
(* were run.                                                               *)
TrainsOnOneScale ==
    At("Train") => bucket.data \in {None, [p \in Parts |-> "train"]}

(* Only a request that makes sense is answered with a forecast or a        *)
(* prediction: an object with 1 to 365 steps and, if it has exogenous      *)
(* rows, as many; or with rows of at most the eight features.              *)
GoodAnswer ==
    answer # None /\ answer.status = 200 =>
        /\ answer.request.shape = "object"
        /\ Sarima => /\ answer.request.steps \in 1..365
                     /\ answer.request.exog \in {Absent, answer.request.steps}
        /\ Xgboost => answer.request.csv \in 1..8

(* A notebook run to its end leaves nothing in the account that costs: no  *)
(* task, also none started before a restart of the kernel, no cluster, no  *)
(* image and no model.                                                     *)
FinishedIsClean ==
    Finished =>
        /\ Alive = {}
        /\ cluster = "INACTIVE"
        /\ ~registry.exists
        /\ Xgboost => bucket = [models |-> {}, data |-> None]

(* Where a notebook may stop for good: the cell raises and running it      *)
(* again does not help.                                                    *)
NoData == At("Train") /\ bucket.data = None
NoModelToRetrieve == Xgboost /\ At("Retrieve") /\ \A model \in bucket.models : model.run # 0
NothingFits == \/ At("SearchArima") /\ disk.fits["arima"] = "raises"
               \/ At("SearchSarima") /\ disk.fits["sarima"] = "raises"
NoOrderFound == \/ At("FitArima") /\ "arima" \notin kernel.found
                \/ At("FitSarima") /\ "sarima" \notin kernel.found
ArimaWon == At("Production") /\ kernel.winner = "arima"
ModelDeleted == Sarima /\ At("Stage") /\ disk.model = None
PushRefused == Xgboost /\ At("Push") /\ (disk.image = None \/ ~registry.exists)
NoCluster == cluster # "ACTIVE" /\ (At("RunTask") \/ At("StopTask") \/ At("DeleteCluster"))
NoDefinition == At("RunTask") /\ revisions.active = {}
TaskGone == At("PublicIp") /\ task[kernel.task].status = "STOPPED"
AlreadyDeregistered == At("Deregister") /\ kernel.definition \notin revisions.active
TaskLeftBehind == At("DeleteCluster") /\ ~(Alive \subseteq Known)

Stuck ==
    \/ NoData \/ NoModelToRetrieve \/ NothingFits \/ NoOrderFound \/ ArimaWon
    \/ ModelDeleted \/ PushRefused \/ NoCluster \/ NoDefinition \/ TaskGone
    \/ AlreadyDeregistered \/ TaskLeftBehind

(* As long as AWS does what it is asked for, the data set is read and a    *)
(* model that could be fitted is evaluated, these are the only ends: the   *)
(* notebook is finished, or stuck at one of them.  In particular, a task   *)
(* that the kernel knows stops, and does not keep its cluster from being   *)
(* deleted.                                                                *)
EndsOrIsStuck == <>[](Finished \/ Stuck)
=============================================================================
