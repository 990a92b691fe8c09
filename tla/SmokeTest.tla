----------------------------- MODULE SmokeTest ------------------------------
(***************************************************************************)
(* The post-deploy smoke test (cicd/apitest/smoke_test.py): it reads the   *)
(* catalog, then takes its cases one after the other; each submits a       *)
(* request and polls its record until it reads COMPLETED or FAILED, or     *)
(* POLL_TIMEOUT is over.  A case that fails is counted and the next one is *)
(* tried.                                                                  *)
(*                                                                         *)
(* The record it polls is written by the workers meanwhile, which may take *)
(* it out of a final status again (a retry, a second delivery), and the    *)
(* read is eventually consistent: it may still miss the last write.        *)
(***************************************************************************)
EXTENDS Integers, Sequences

CONSTANT Cases  \* the backends of CASES, in order

ASSUME CasesAssumption == Cases \in Seq({"lambda", "ecs-fargate"})

VARIABLES
    smoke,   \* [at |-> where main is, case |-> its index, failures |-> count]
    record,  \* [now |-> the item's status, old |-> what a read may still return]
    truth    \* history: the cases whose record has been COMPLETED

smokeVars == <<smoke, record, truth>>

SmokeStates == {"idle", "catalog", "submitting", "polling", "passed", "failed"}
RecordStates == {"absent", "QUEUED", "PROCESSING", "COMPLETED", "FAILED"}

NoRecord == [now |-> "absent", old |-> "absent"]
NoSmoke == [at |-> "idle", case |-> 1, failures |-> 0]

SmokeInit ==
    /\ smoke = NoSmoke
    /\ record = NoRecord
    /\ truth = {}

At(step) == smoke.at = step

Begin ==
    /\ smoke' = [NoSmoke EXCEPT !.at = "catalog"]
    /\ record' = NoRecord
    /\ truth' = {}

(* The catalog is read outside the try: if it cannot be, main raises.      *)
ReadCatalog ==
    /\ At("catalog")
    /\ smoke' = [smoke EXCEPT !.at = IF Cases = << >> THEN "passed" ELSE "submitting"]
    /\ UNCHANGED <<record, truth>>

CatalogRaises ==
    /\ At("catalog")
    /\ smoke' = [smoke EXCEPT !.at = "failed"]
    /\ UNCHANGED <<record, truth>>

(* submit: the answer is a 202 with the id of a record just saved.         *)
Submit ==
    /\ At("submitting")
    /\ smoke' = [smoke EXCEPT !.at = "polling"]
    /\ record' = [now |-> "QUEUED", old |-> "absent"]
    /\ UNCHANGED truth

(* A case is over; after the last one, main returns 1 if any failed.       *)
CaseOver(failed) ==
    LET failures == smoke.failures + failed
    IN  /\ smoke' = IF smoke.case < Len(Cases)
                    THEN [at |-> "submitting", case |-> smoke.case + 1, failures |-> failures]
                    ELSE [smoke EXCEPT !.at = IF failures = 0 THEN "passed" ELSE "failed",
                                       !.failures = failures]
        /\ record' = NoRecord
        /\ UNCHANGED truth

(* submit or poll raised: a refused connection, a status that is not 202,  *)
(* a 404 read too early, the deadline.                                     *)
\* Mutant: the case is reported but not counted.
CaseRaises_Uncounted == (At("submitting") \/ At("polling")) /\ CaseOver(0)

CaseRaises == (At("submitting") \/ At("polling")) /\ CaseOver(1)

(* poll reads a final status, the item's or the one before it.             *)
PollReads ==
    /\ At("polling")
    /\ \E seen \in {record.now, record.old} \cap {"COMPLETED", "FAILED"} :
          CaseOver(IF seen = "COMPLETED" THEN 0 ELSE 1)

SmokeStep == ReadCatalog \/ CatalogRaises \/ Submit \/ CaseRaises \/ PollReads

----------------------------------------------------------------------------
(* The system under test.                                                  *)

(* process() in a worker: the first delivery, a retry of a transient       *)
(* failure, or a second delivery beside or after the first.                *)
WorkerWrites ==
    /\ At("polling")
    /\ \E status \in RecordStates \ {"absent", "QUEUED"} :
          /\ record.now = "QUEUED" => status = "PROCESSING"
          /\ record' = [now |-> status, old |-> record.now]
          /\ truth' = IF status = "COMPLETED" THEN truth \cup {smoke.case} ELSE truth
    /\ UNCHANGED smoke

SmokeTypeOK ==
    /\ smoke \in [at : SmokeStates, case : 1..(Len(Cases) + 1), failures : 0..Len(Cases)]
    /\ record \in [now : RecordStates, old : RecordStates]

(* Exit code 0 means that every case's record has been COMPLETED, whatever *)
(* retries, stale reads and deadlines there were on the way.               *)
PassIsSound ==
    At("passed") => truth = DOMAIN Cases
=============================================================================
