--------------------------- MODULE SarimaNotebook ---------------------------
(***************************************************************************)
(* sarima_arima_ca_housing_ecs_container_model_hosting.ipynb: search the   *)
(* orders of an ARIMA and a SARIMA model, train the better one on the full *)
(* series, stage it for the ECS worker, and host it in a task of its own.  *)
(* One action per cell with an effect.  It differs from the other notebook *)
(* in what it checks: more of its commands are run with ! and cannot       *)
(* raise, and the address of the task is reset before it is looked up.     *)
(***************************************************************************)
EXTENDS NotebookAccount, FlaskServers

CONSTANT Grid  \* the number of orders a search tries

Cells == <<"SearchArima", "FitArima", "SearchSarima", "FitSarima", "Compare",
           "Production", "Save", "Stage", "Build", "Repository", "Push",
           "Cluster", "AwaitCluster", "Register", "RunTask", "AwaitTask",
           "PublicIp", "Invoke", "StopTask", "Deregister", "DeleteCluster",
           "DeleteRepository", "DeleteArtifacts">>

Finished == cell > Len(Cells)

(* What fitting an order comes to: an exception, an AIC that is no number, *)
(* or an AIC.                                                              *)
Raises == -1
NotANumber == 0
Aics == {Raises, NotANumber} \cup 1..2

(* The loop over the orders: an exception skips the order, and only an AIC *)
(* below the best so far, which begins as infinity, replaces it.  0 stands *)
(* for no order.                                                           *)
\* Mutant: ties go to the last order.
Search_Last(aic) ==
    LET best[i \in 0..Grid] ==
            IF i = 0 THEN 0
            ELSE IF aic[i] > 0 /\ (best[i - 1] = 0 \/ aic[i] <= aic[best[i - 1]])
                 THEN i ELSE best[i - 1]
    IN  best[Grid]

Search(aic) ==
    LET best[i \in 0..Grid] ==
            IF i = 0 THEN 0
            ELSE IF aic[i] > 0 /\ (best[i - 1] = 0 \/ aic[i] < aic[best[i - 1]])
                 THEN i ELSE best[i - 1]
    IN  best[Grid]

Outcome(aic) ==
    CASE \A i \in 1..Grid : aic[i] = Raises -> "raises"
      [] \E i \in 1..Grid : aic[i] > 0 -> "order"
      [] OTHER -> "no order"

(* The same series makes the same of a search every time.  Without a       *)
(* single fit there is no table to sort, and the cell raises.  What a      *)
(* search tried matters until the next cell, and then only whether it      *)
(* found an order.                                                         *)
SearchOver(kind, name) ==
    \E aic \in [1..Grid -> Aics] :
        /\ Outcome(aic) = disk.fits[kind]
        /\ \/ Run(Cells, name) /\ Outcome(aic) # "raises"
           \/ RunRaises(Cells, name) /\ Outcome(aic) = "raises"
        /\ kernel' = [kernel EXCEPT
                         !.search = [aic |-> aic, best |-> Search(aic)],
                         !.found = IF Search(aic) = 0 THEN @ \ {kind} ELSE @ \cup {kind}]
        /\ UNCHANGED <<disk, answer>> /\ Keep /\ KeepCloud

FitFound(kind, name) ==
    /\ Run(Cells, name)
    /\ kind \in kernel.found
    /\ kernel' = [kernel EXCEPT !.search = None]
    /\ UNCHANGED <<disk, answer>> /\ Keep /\ KeepCloud

SearchArima == SearchOver("arima", "SearchArima")

(* The order that was found is fitted again and evaluated on the test set. *)
FitArima == FitFound("arima", "FitArima")

(* The seasonal orders, each with the order found for ARIMA.               *)
SearchSarima == SearchOver("sarima", "SearchSarima")

FitSarima == FitFound("sarima", "FitSarima")

(* The smaller error on the test set wins, SARIMA if they are equal.       *)
Compare ==
    /\ Run(Cells, "Compare")
    /\ \E winner \in {"arima", "sarima"} :
          kernel' = [kernel EXCEPT !.winner = winner]
    /\ UNCHANGED <<disk, answer>> /\ Keep /\ KeepCloud

(* Trained again on the full series with fit(disp=..., maxiter=...), which *)
(* SARIMAX.fit takes and ARIMA.fit does not: for an ARIMA it raises.       *)
Production ==
    /\ Run(Cells, "Production")
    /\ kernel.winner = "sarima"
    /\ kernel.runs < MaxRuns
    /\ kernel' = [kernel EXCEPT !.runs = @ + 1,
                                !.fitted = [run |-> kernel.runs + 1, kind |-> kernel.winner]]
    /\ UNCHANGED <<disk, answer>> /\ Keep /\ KeepCloud

Save ==
    /\ Run(Cells, "Save")
    /\ kernel.fitted # None
    /\ disk' = [disk EXCEPT !.model = kernel.fitted]
    /\ UNCHANGED <<kernel, answer>> /\ Keep /\ KeepCloud

(* Under the route of the winner; what an earlier run staged for the other *)
(* route stays.                                                            *)
Stage ==
    /\ Run(Cells, "Stage")
    /\ kernel.winner # None /\ disk.model # None
    /\ disk' = [disk EXCEPT !.staged[kernel.winner] = disk.model]
    /\ UNCHANGED <<kernel, answer>> /\ Keep /\ KeepCloud

Build == BuildImage(Cells)

Repository == EnsureRepository(Cells)

(* !docker tag and !docker push do not raise: a push that fails, or has no *)
(* image, leaves the repository as it was.                                 *)
Push ==
    \/ PushImage(Cells)
    \/ Run(Cells, "Push") /\ UNCHANGED <<kernel, disk, answer>> /\ Keep /\ KeepCloud

Cluster == EnsureCluster(Cells, {"MISSING", "INACTIVE"})

AwaitCluster == ClusterSettled(Cells)

Register == RegisterRevision(Cells)

(* A refusal is not looked at, but the empty list of tasks raises.         *)
RunTask == LaunchTask(Cells)

AwaitTask == TaskSettled(Cells)

(* The address is None unless the task has a network interface.            *)
\* Mutant: the address of the last task is kept.
PublicIp_Kept == LookUpIp(Cells, kernel.ip)

PublicIp == LookUpIp(Cells, None)

(* As there, the user may change the payload.                              *)
Invoke ==
    \E request \in SarimaRequests : Post(Cells, request, SarimaAnswers(request))

StopTask == StopKnownTask(Cells)

DeregisterDefinition == DeregisterKnown(Cells)

DeleteClusterCell == DeleteEmptyCluster(Cells)

DeleteRepository == DropRepository(Cells)

(* The artifacts go, the local image stays.                                *)
DeleteArtifacts ==
    /\ Run(Cells, "DeleteArtifacts")
    /\ disk' = [disk EXCEPT !.model = None]
    /\ UNCHANGED <<kernel, answer>> /\ Keep /\ KeepCloud

Cell ==
    \/ SearchArima \/ FitArima \/ SearchSarima \/ FitSarima \/ Compare
    \/ Production \/ Save \/ Stage \/ Build \/ Repository \/ Push \/ Cluster
    \/ AwaitCluster \/ Register \/ RunTask \/ AwaitTask \/ PublicIp \/ Invoke
    \/ StopTask \/ DeregisterDefinition \/ DeleteClusterCell
    \/ DeleteRepository \/ DeleteArtifacts

Next == Cell \/ \E k \in DOMAIN Cells : GoBack(k)
=============================================================================
