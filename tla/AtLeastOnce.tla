---------------------------- MODULE AtLeastOnce ----------------------------
(***************************************************************************)
(* What the asynchronous API promises, without its table, queue handles or *)
(* workers.  A submission the caller was told is accepted has been handed  *)
(* over; a submission handed over is tried at most MaxReceive times; it is *)
(* given up as done only once an outcome was recorded for it (or it is     *)
(* junk that names no request); it is parked for an operator only after    *)
(* every try; and it may be lost only by outliving its retention.  An      *)
(* outcome, once recorded, is never taken away.                            *)
(***************************************************************************)
EXTENDS BackendConstants

VARIABLES
    phase,     \* where the submission is: see Phases
    tries,     \* how often a worker was handed it
    answered,  \* an outcome (output or error) is recorded for it
    accepted,  \* its caller was answered 202
    junk       \* it carries no request a worker could answer (never changes)

vars == <<phase, tries, answered, accepted, junk>>

Phases == {"new", "pending", "done", "parked", "dropped"}

TypeOK ==
    /\ phase \in [Requests -> Phases]
    /\ tries \in [Requests -> 0..MaxReceive]
    /\ answered \in [Requests -> BOOLEAN]
    /\ accepted \in [Requests -> BOOLEAN]
    /\ junk \in [Requests -> BOOLEAN]

Init ==
    /\ phase = [r \in Requests |-> "new"]
    /\ tries = [r \in Requests |-> 0]
    /\ answered = [r \in Requests |-> FALSE]
    /\ accepted = [r \in Requests |-> FALSE]
    /\ junk \in [Requests -> BOOLEAN]

(* Handing over and telling the caller is one step; the caller may not     *)
(* learn of it.                                                            *)
HandOver(r) ==
    /\ phase[r] = "new"
    /\ phase' = [phase EXCEPT ![r] = "pending"]
    /\ accepted' \in {accepted, [accepted EXCEPT ![r] = TRUE]}
    /\ UNCHANGED <<tries, answered, junk>>

Try(r) ==
    /\ phase[r] = "pending"
    /\ tries[r] < MaxReceive
    /\ tries' = [tries EXCEPT ![r] = @ + 1]
    /\ UNCHANGED <<phase, answered, accepted, junk>>

(* A try may still record its outcome after the submission was given up.   *)
Answer(r) ==
    /\ tries[r] > 0
    /\ ~junk[r]
    /\ answered' = [answered EXCEPT ![r] = TRUE]
    /\ UNCHANGED <<phase, tries, accepted, junk>>

Finish(r) ==
    /\ phase[r] = "pending"
    /\ answered[r] \/ junk[r]
    /\ phase' = [phase EXCEPT ![r] = "done"]
    /\ UNCHANGED <<tries, answered, accepted, junk>>

Park(r) ==
    /\ phase[r] = "pending"
    /\ tries[r] = MaxReceive
    /\ phase' = [phase EXCEPT ![r] = "parked"]
    /\ UNCHANGED <<tries, answered, accepted, junk>>

Outlive(r) ==
    /\ phase[r] = "pending"
    /\ phase' = [phase EXCEPT ![r] = "dropped"]
    /\ UNCHANGED <<tries, answered, accepted, junk>>

Next ==
    \E r \in Requests :
        \/ HandOver(r)
        \/ Try(r)
        \/ Answer(r)
        \/ Finish(r)
        \/ Park(r)
        \/ Outlive(r)

Spec == Init /\ [][Next]_vars
=============================================================================
