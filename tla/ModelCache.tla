----------------------------- MODULE ModelCache -----------------------------
(***************************************************************************)
(* How the threads of one worker process share a model: the registry's     *)
(* cache of instances (models/registry.py), the lazy loading of an         *)
(* instance's artifact (models/base.py) and its use by a model that cannot *)
(* predict without one (models/xgboost_model.py).  Nothing is locked; a    *)
(* step is one access to the shared dictionary, to an attribute of the     *)
(* shared instance, or to the model directory.                             *)
(*                                                                         *)
(* A thread's loop is one message after another for the same model; the    *)
(* other models have entries of their own and do not interfere.            *)
(***************************************************************************)
EXTENDS Naturals, FiniteSets

CONSTANTS
    Threads,      \* the threads that call process at the same time
    NoInstance,   \* what _CACHE.get(name) would return before the first call
    DiskStates,   \* the states the model directory may be in
    MaxChanges    \* bound: how often a deployment disturbs the directory

(*   absent   no artifact file;   partial  one that cannot be loaded;      *)
(*   present  a complete one.                                              *)
AllDiskStates == {"absent", "partial", "present"}

ASSUME ThreadsAssumption == IsFiniteSet(Threads)
ASSUME NoInstanceAssumption == NoInstance \notin Threads
ASSUME DiskAssumption == DiskStates \subseteq AllDiskStates
ASSUME ChangesAssumption == MaxChanges \in Nat

VARIABLES
    cache,     \* _CACHE[name], or NoInstance
    made,      \* the instances that were constructed
    loaded,    \* instance -> _loaded
    artifact,  \* instance -> _artifact, "none" or "booster"
    disk,      \* the state of the model directory
    changes,   \* how often it was disturbed
    pc,        \* thread -> what it does next
    inst,      \* thread -> the instance get_model returned to it
    read,      \* thread -> what _load_artifact returned to it
    loads      \* how many artifacts were read in full

vars == <<cache, made, loaded, artifact, disk, changes, pc, inst, read, loads>>

(* An instance bears the name of the thread that constructed it: no thread *)
(* constructs two (ConstructsOne).                                         *)
Instances == Threads

Artifacts == {"none", "booster"}
Steps == {"lookup", "create", "fetch", "check", "discover", "read",
          "store", "mark", "predict"}
Getting == {"lookup", "create", "fetch"}

TypeOK ==
    /\ cache \in made \cup {NoInstance}
    /\ made \subseteq Instances
    /\ loaded \in [Instances -> BOOLEAN]
    /\ artifact \in [Instances -> Artifacts]
    /\ disk \in DiskStates
    /\ changes \in 0..MaxChanges
    /\ pc \in [Threads -> Steps]
    /\ inst \in [Threads -> made \cup {NoInstance}]
    /\ read \in [Threads -> Artifacts]
    /\ loads \in Nat
    /\ \A t \in Threads : pc[t] \notin Getting => inst[t] # NoInstance

Init ==
    /\ cache = NoInstance
    /\ made = {}
    /\ loaded = [i \in Instances |-> FALSE]
    /\ artifact = [i \in Instances |-> "none"]
    /\ disk \in DiskStates
    /\ changes = 0
    /\ pc = [t \in Threads |-> "lookup"]
    /\ inst = [t \in Threads |-> NoInstance]
    /\ read = [t \in Threads |-> "none"]
    /\ loads = 0

Go(t, from, to) ==
    /\ pc[t] = from
    /\ pc' = [pc EXCEPT ![t] = to]

----------------------------------------------------------------------------
(* get_model.                                                              *)

Lookup(t) ==
    /\ Go(t, "lookup", IF cache = NoInstance THEN "create" ELSE "fetch")
    /\ UNCHANGED <<cache, made, loaded, artifact, disk, changes, inst, read, loads>>

Create(t) ==
    /\ Go(t, "create", "fetch")
    /\ made' = made \cup {t}
    /\ cache' = t
    /\ loaded' = [loaded EXCEPT ![t] = FALSE]
    /\ artifact' = [artifact EXCEPT ![t] = "none"]
    /\ UNCHANGED <<disk, changes, inst, read, loads>>

Fetch(t) ==
    /\ Go(t, "fetch", "check")
    /\ inst' = [inst EXCEPT ![t] = cache]
    /\ UNCHANGED <<cache, made, loaded, artifact, disk, changes, read, loads>>

----------------------------------------------------------------------------
(* ensure_loaded.                                                          *)

Check(t) ==
    /\ Go(t, "check", IF loaded[inst[t]] THEN "predict" ELSE "discover")
    /\ UNCHANGED <<cache, made, loaded, artifact, disk, changes, inst, read, loads>>

(* _discover_artifact: os.path.exists.                                     *)
\* Mutant: the instance is marked loaded before its artifact is read.
Discover_MarkFirst(t) ==
    /\ Go(t, "discover", IF disk = "absent" THEN "store" ELSE "read")
    /\ loaded' = [loaded EXCEPT ![inst[t]] = TRUE]
    /\ read' = [read EXCEPT ![t] = "none"]
    /\ UNCHANGED <<cache, made, artifact, disk, changes, inst, loads>>

Discover(t) ==
    /\ Go(t, "discover", IF disk = "absent" THEN "store" ELSE "read")
    /\ read' = [read EXCEPT ![t] = "none"]
    /\ UNCHANGED <<cache, made, loaded, artifact, disk, changes, inst, loads>>

ReadArtifact(t) ==
    /\ disk = "present"
    /\ Go(t, "read", "store")
    /\ read' = [read EXCEPT ![t] = "booster"]
    /\ loads' = loads + 1
    /\ UNCHANGED <<cache, made, loaded, artifact, disk, changes, inst>>

(* load_model or open raises: ModelLoadError, the instance is untouched    *)
(* and the message goes back to the queue.                                 *)
\* Mutant: the failed load counts as loaded.
ReadRaises_MarksLoaded(t) ==
    /\ disk # "present"
    /\ Go(t, "read", "lookup")
    /\ loaded' = [loaded EXCEPT ![inst[t]] = TRUE]
    /\ UNCHANGED <<cache, made, artifact, disk, changes, inst, read, loads>>

ReadRaises(t) ==
    /\ disk # "present"
    /\ Go(t, "read", "lookup")
    /\ UNCHANGED <<cache, made, loaded, artifact, disk, changes, inst, read, loads>>

StoreArtifact(t) ==
    /\ Go(t, "store", "mark")
    /\ artifact' = [artifact EXCEPT ![inst[t]] = read[t]]
    /\ UNCHANGED <<cache, made, loaded, disk, changes, inst, read, loads>>

\* Mutant: the flag is never set.
MarkLoaded_Forgotten(t) ==
    /\ Go(t, "mark", "predict")
    /\ UNCHANGED <<cache, made, loaded, artifact, disk, changes, inst, read, loads>>

MarkLoaded(t) ==
    /\ Go(t, "mark", "predict")
    /\ loaded' = [loaded EXCEPT ![inst[t]] = TRUE]
    /\ UNCHANGED <<cache, made, artifact, disk, changes, inst, read, loads>>

(* predict, with an artifact or raising ModelLoadError without.            *)
Predict(t) ==
    /\ Go(t, "predict", "lookup")
    /\ UNCHANGED <<cache, made, loaded, artifact, disk, changes, inst, read, loads>>

----------------------------------------------------------------------------
(* The model directory: an artifact arrives, or a deployment replaces it.  *)

Arrive ==
    /\ disk # "present"
    /\ "present" \in DiskStates
    /\ disk' = "present"
    /\ UNCHANGED <<cache, made, loaded, artifact, changes, pc, inst, read, loads>>

Disturb ==
    /\ disk = "present"
    /\ changes < MaxChanges
    /\ disk' \in DiskStates \ {"present"}
    /\ changes' = changes + 1
    /\ UNCHANGED <<cache, made, loaded, artifact, pc, inst, read, loads>>

ThreadStep(t) ==
    \/ Lookup(t)
    \/ Create(t)
    \/ Fetch(t)
    \/ Check(t)
    \/ Discover(t)
    \/ ReadArtifact(t)
    \/ ReadRaises(t)
    \/ StoreArtifact(t)
    \/ MarkLoaded(t)
    \/ Predict(t)

Next == Arrive \/ Disturb \/ \E t \in Threads : ThreadStep(t)

Spec == Init /\ [][Next]_vars

(* Every thread goes on, and what a deployment disturbed it completes.     *)
FairSpec ==
    Spec /\ WF_vars(Arrive) /\ \A t \in Threads : WF_vars(ThreadStep(t))

----------------------------------------------------------------------------
(* A thread constructs at most one instance, whatever the unlocked lookup  *)
(* lets the others construct meanwhile.                                    *)
ConstructsOne == \A t \in Threads : pc[t] = "create" => t \notin made

(* An instance marked as loaded holds its artifact, and so does the one a  *)
(* thread is about to predict with, however the threads interleave in the  *)
(* unlocked check-then-act of get_model and ensure_loaded, as long as      *)
(* there is an artifact file, complete or not ("absent" \notin DiskStates). *)
PredictsWithArtifact ==
    /\ \A i \in made : loaded[i] => artifact[i] = "booster"
    /\ \A t \in Threads : pc[t] = "predict" => artifact[inst[t]] = "booster"

(* The races cost a bounded number of loads: the thread that constructs    *)
(* the i-th instance loads it and at most each later one, once.            *)
LoadsBounded ==
    LET n == Cardinality(Threads) IN loads <= (n * (n + 1)) \div 2

(* The inductive invariant behind PredictsWithArtifact: what a thread is   *)
(* about to store is an artifact, and what it stored nobody takes away.    *)
CacheInv ==
    /\ cache = NoInstance => made = {}
    /\ ConstructsOne
    /\ \A t \in Threads :
          /\ pc[t] = "fetch" => cache # NoInstance
          /\ pc[t] = "store" => read[t] = "booster"
          /\ pc[t] = "mark" => artifact[inst[t]] = "booster"
    /\ PredictsWithArtifact

(* errors.py of ModelLoadError: "the artifact may become available [...]   *)
(* so the worker should let the message return to the queue and retry":    *)
(* once the artifact is there to stay, every thread goes on to predict     *)
(* with it, again and again.                                               *)
RetryFindsArtifact ==
    \A t \in Threads :
        <>[](disk = "present")
            => []<>(pc[t] = "predict" /\ artifact[inst[t]] = "booster")
=============================================================================
