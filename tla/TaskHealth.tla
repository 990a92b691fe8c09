----------------------------- MODULE TaskHealth -----------------------------
(***************************************************************************)
(* The clocks around an ECS task.  The worker touches its heartbeat once   *)
(* per loop and goes on if it cannot (ecs_worker/worker.py), the           *)
(* container's health check fails when the heartbeat is old or missing     *)
(* (healthcheck.py), ECS replaces a task whose check failed Retries times  *)
(* in a row, and SQS hides a received message for the visibility timeout.  *)
(* Nobody compares these clocks: this module does.                         *)
(*                                                                         *)
(* Time passes in Tick, in any unit; every timer is the age of something   *)
(* and starts again from 0, and no timer grows without a bound.            *)
(***************************************************************************)
EXTENDS Sqs, Integers

CONSTANTS
    Tasks,        \* the task slots of the service
    Unwritable,   \* bound: those where a touch may fail
    Wait,         \* WAIT_TIME_SECONDS of the long poll
    Backoff,      \* what run sleeps after a poll that raised
    MaxAge,       \* HEARTBEAT_MAX_AGE
    Interval, Timeout, Retries, StartPeriod,  \* of the HealthCheck
    Reaction,     \* external: from unhealthy to SIGTERM, at most
    StopTimeout,  \* external: from SIGTERM to SIGKILL (not set: 30 s)
    Visibility    \* VisibilityTimeoutSeconds

ASSUME ClockAssumption ==
    /\ {Wait, Backoff, Timeout, StartPeriod, Reaction, StopTimeout} \subseteq Nat
    /\ {MaxAge, Interval, Retries, Visibility} \subseteq Nat \ {0}

(* A check that follows a touch passes, and so does one in the poll after  *)
(* it; no start may take longer than a batch.                              *)
ASSUME HeartbeatAssumption ==
    /\ Interval + Timeout <= MaxAge
    /\ Wait <= MaxAge
    /\ StartPeriod <= MaxAge

(* How long a hung batch can last before its task is gone.                 *)
LongestBatch == MaxAge + Retries * (Interval + Timeout) + Reaction + StopTimeout

(* "Must be greater than the longest inference processing time."           *)
ASSUME VisibilityAssumption == LongestBatch < Visibility

VARIABLES
    hidden,  \* request -> since its message was received, up to Visibility
    loop,    \* task -> where run and poll_once are
    batch,   \* task -> the deliveries <<r, n>> that poll_once holds
    beat,    \* task -> its container's heartbeat file, "missing" or "written"
    age,     \* task -> since that was written, or else since the container began
    waited,  \* task -> since the poll or the backoff began
    status,  \* task -> what ECS does with it
    since,   \* task -> since the last check, or since ECS began to stop it
    fails    \* task -> checks failed in a row

queueVars == <<msg, hidden>>
loopVars == <<loop, batch, beat, age, waited>>
ecsVars == <<status, since, fails>>
vars == <<msg, hidden, loop, batch, beat, age, waited, status, since, fails>>

(*   booting    the container runs, its loop has not begun                 *)
(*   polling    in receive_message;  handling  from there to the deletes   *)
(*   backoff    in time.sleep;       done      run has returned, or killed *)
Loops == {"booting", "polling", "handling", "backoff", "done"}

(*   running    it is to stay;       unhealthy  it is to be replaced       *)
(*   draining   it got SIGTERM;      stopped    it is gone                 *)
Statuses == {"running", "unhealthy", "draining", "stopped"}

TypeOK ==
    /\ msg \in [Requests -> Messages]
    /\ hidden \in [Requests -> 0..Visibility]
    /\ loop \in [Tasks -> Loops]
    /\ batch \in [Tasks -> SUBSET (Requests \X Deliveries)]
    /\ beat \in [Tasks -> {"missing", "written"}]
    /\ age \in [Tasks -> 0..LongestBatch]
    /\ waited \in [Tasks -> 0..(Wait + Backoff)]
    /\ status \in [Tasks -> Statuses]
    /\ since \in [Tasks -> Nat]
    /\ fails \in [Tasks -> 0..Retries]

Init ==
    /\ msg = [r \in Requests |-> [state |-> "visible", receives |-> 0]]
    /\ hidden = [r \in Requests |-> 0]
    /\ loop = [t \in Tasks |-> "booting"]
    /\ batch = [t \in Tasks |-> {}]
    /\ beat = [t \in Tasks |-> "missing"]
    /\ age = [t \in Tasks |-> 0]
    /\ waited = [t \in Tasks |-> 0]
    /\ status = [t \in Tasks |-> "running"]
    /\ since = [t \in Tasks |-> 0]
    /\ fails = [t \in Tasks |-> 0]

----------------------------------------------------------------------------
(* The worker.                                                             *)

(* _touch_heartbeat; a write that fails is logged, and the heartbeat stays *)
(* what it was.                                                            *)
Touch(t) ==
    \/ beat' = [beat EXCEPT ![t] = "written"] /\ age' = [age EXCEPT ![t] = 0]
    \/ t \in Unwritable /\ UNCHANGED <<beat, age>>

(* The head of run's loop: the stop flag, then the touch, then the poll.   *)
(* When run returns its container ends, and the heartbeat with it.         *)
NextLoop(t) ==
    /\ waited' = [waited EXCEPT ![t] = 0]
    /\ \/ /\ status[t] = "draining"
          /\ loop' = [loop EXCEPT ![t] = "done"]
          /\ beat' = [beat EXCEPT ![t] = "missing"]
          /\ age' = [age EXCEPT ![t] = 0]
       \/ /\ status[t] # "draining"
          /\ loop' = [loop EXCEPT ![t] = "polling"]
          /\ Touch(t)

Boot(t) ==
    /\ loop[t] = "booting"
    /\ NextLoop(t)
    /\ UNCHANGED <<queueVars, batch, ecsVars>>

Receivable == {r \in Requests : msg[r].state = "visible" /\ msg[r].receives < MaxReceive}

(* receive_message answers with some of the messages there are; an empty R *)
(* is a batch of messages that are not among Requests.                     *)
Take(t, R) ==
    /\ loop[t] = "polling"
    /\ R \subseteq Receivable
    /\ msg' = [r \in Requests |->
                 IF r \in R THEN [state |-> "inflight", receives |-> msg[r].receives + 1]
                            ELSE msg[r]]
    /\ loop' = [loop EXCEPT ![t] = "handling"]
    /\ batch' = [batch EXCEPT ![t] = {<<r, msg[r].receives + 1>> : r \in R}]
    /\ waited' = [waited EXCEPT ![t] = 0]
    /\ UNCHANGED <<hidden, beat, age, ecsVars>>

(* The long poll ends without a message.                                   *)
PollEmpty(t) ==
    /\ loop[t] = "polling"
    /\ waited[t] = Wait
    /\ NextLoop(t)
    /\ UNCHANGED <<queueVars, batch, ecsVars>>

(* The batch is handled, however long it took; the messages of D were      *)
(* processed or refused for good, and are deleted.                         *)
BatchDone(t, D) ==
    /\ loop[t] = "handling"
    /\ D \subseteq batch[t]
    /\ msg' = [r \in Requests |->
                 IF (\E n \in Deliveries : <<r, n>> \in D) /\ msg[r].state \in OnQueue
                 THEN [msg[r] EXCEPT !.state = "deleted"]
                 ELSE msg[r]]
    /\ hidden' = [r \in Requests |-> IF msg'[r].state = "deleted" THEN 0 ELSE hidden[r]]
    /\ batch' = [batch EXCEPT ![t] = {}]
    /\ NextLoop(t)
    /\ UNCHANGED ecsVars

(* poll_once raises, in any of its calls.                                  *)
PollRaises(t) ==
    /\ loop[t] \in {"polling", "handling"}
    /\ loop' = [loop EXCEPT ![t] = "backoff"]
    /\ batch' = [batch EXCEPT ![t] = {}]
    /\ waited' = [waited EXCEPT ![t] = 0]
    /\ UNCHANGED <<queueVars, beat, age, ecsVars>>

WakeUp(t) ==
    /\ loop[t] = "backoff"
    /\ waited[t] = Backoff
    /\ NextLoop(t)
    /\ UNCHANGED <<queueVars, batch, ecsVars>>

----------------------------------------------------------------------------
(* The health check, and ECS.                                              *)

(* Without a heartbeat the check fails; it does not count before the start *)
(* period is over.                                                         *)
Allowed(t) == IF beat[t] = "written" THEN MaxAge ELSE StartPeriod

\* Mutant: the heartbeat is touched by a thread of its own, also in a batch.
Stale_InBackground(t) == beat[t] = "missing" /\ age[t] > StartPeriod

Stale(t) == age[t] > Allowed(t)

\* Mutant: a check that passes does not clear the count.
Check_Accumulates(t) ==
    /\ status[t] = "running"
    /\ since[t] >= Interval
    /\ since' = [since EXCEPT ![t] = 0]
    /\ fails' = [fails EXCEPT ![t] = IF Stale(t) THEN @ + 1 ELSE @]
    /\ status' = [status EXCEPT ![t] = IF fails'[t] = Retries THEN "unhealthy" ELSE @]
    /\ UNCHANGED <<queueVars, loopVars>>

Check(t) ==
    /\ status[t] = "running"
    /\ since[t] >= Interval
    /\ since' = [since EXCEPT ![t] = 0]
    /\ fails' = [fails EXCEPT ![t] = IF Stale(t) THEN @ + 1 ELSE 0]
    /\ status' = [status EXCEPT ![t] = IF fails'[t] = Retries THEN "unhealthy" ELSE @]
    /\ UNCHANGED <<queueVars, loopVars>>

(* SIGTERM: to replace an unhealthy task, to scale in, or to deploy.  The  *)
(* loop sees it at its next head.                                          *)
Sigterm(t) ==
    /\ status[t] \in {"running", "unhealthy"}
    /\ status' = [status EXCEPT ![t] = "draining"]
    /\ since' = [since EXCEPT ![t] = 0]
    /\ fails' = [fails EXCEPT ![t] = 0]
    /\ UNCHANGED <<queueVars, loopVars>>

(* SIGKILL, unless run returned in time; either way the task is gone.      *)
\* Mutant: a task that does not return is waited for.
Gone_Waits(t) ==
    /\ status[t] = "draining"
    /\ loop[t] = "done"
    /\ status' = [status EXCEPT ![t] = "stopped"]
    /\ loop' = [loop EXCEPT ![t] = "done"]
    /\ batch' = [batch EXCEPT ![t] = {}]
    /\ beat' = [beat EXCEPT ![t] = "missing"]
    /\ age' = [age EXCEPT ![t] = 0]
    /\ waited' = [waited EXCEPT ![t] = 0]
    /\ since' = [since EXCEPT ![t] = 0]
    /\ UNCHANGED <<queueVars, fails>>

Gone(t) ==
    /\ status[t] = "draining"
    /\ loop[t] = "done" \/ since[t] = StopTimeout
    /\ status' = [status EXCEPT ![t] = "stopped"]
    /\ loop' = [loop EXCEPT ![t] = "done"]
    /\ batch' = [batch EXCEPT ![t] = {}]
    /\ beat' = [beat EXCEPT ![t] = "missing"]
    /\ age' = [age EXCEPT ![t] = 0]
    /\ waited' = [waited EXCEPT ![t] = 0]
    /\ since' = [since EXCEPT ![t] = 0]
    /\ UNCHANGED <<queueVars, fails>>

(* The service starts a task for one that is gone.                         *)
Replace(t) ==
    /\ status[t] = "stopped"
    /\ status' = [status EXCEPT ![t] = "running"]
    /\ loop' = [loop EXCEPT ![t] = "booting"]
    /\ UNCHANGED <<queueVars, batch, beat, age, waited, since, fails>>

----------------------------------------------------------------------------
(* The queue and the clock.                                                *)

Reappear(r) ==
    /\ hidden[r] = Visibility
    /\ MessageReappears(r)
    /\ hidden' = [hidden EXCEPT ![r] = 0]
    /\ UNCHANGED <<loopVars, ecsVars>>

Park(r) == RedriveMessage(r) /\ UNCHANGED <<hidden, loopVars, ecsVars>>

(* What may not be put off any longer.                                     *)
Due(t) ==
    \/ loop[t] = "polling" /\ waited[t] = Wait
    \/ loop[t] = "backoff" /\ waited[t] = Backoff
    \/ status[t] = "running" /\ since[t] = Interval + Timeout
    \/ status[t] = "unhealthy" /\ since[t] = Reaction
    \/ status[t] = "draining" /\ (since[t] = StopTimeout \/ loop[t] = "done")

Tick ==
    /\ \A t \in Tasks : ~Due(t)
    /\ hidden' = [r \in Requests |->
                    IF msg[r].state = "inflight" /\ hidden[r] < Visibility
                    THEN hidden[r] + 1 ELSE hidden[r]]
    /\ age' = [t \in Tasks |-> IF loop[t] = "done" THEN age[t] ELSE age[t] + 1]
    /\ waited' = [t \in Tasks |-> IF loop[t] \in {"polling", "backoff"}
                                  THEN waited[t] + 1 ELSE waited[t]]
    /\ since' = [t \in Tasks |-> IF status[t] = "stopped" THEN since[t] ELSE since[t] + 1]
    /\ UNCHANGED <<msg, loop, batch, beat, status, fails>>

Next ==
    \/ \E t \in Tasks :
          \/ Boot(t)
          \/ \E R \in SUBSET Requests : Take(t, R)
          \/ \E D \in SUBSET batch[t] : BatchDone(t, D)
          \/ PollRaises(t)
          \/ PollEmpty(t) \/ WakeUp(t)
          \/ Check(t) \/ Sigterm(t) \/ Gone(t) \/ Replace(t)
    \/ \E r \in Requests : Reappear(r) \/ Park(r)
    \/ Tick

Spec == Init /\ [][Next]_vars

(* What ECS does when it is due.                                           *)
EcsActs(t) ==
    \/ Check(t)
    \/ status[t] = "unhealthy" /\ since[t] = Reaction /\ Sigterm(t)
    \/ Gone(t) \/ Replace(t)

(* Time goes on and what is due happens.  A batch may hang; a container    *)
(* may be slow to start or told to stop before it has, but not every time. *)
FairSpec ==
    /\ Spec
    /\ SF_vars(Tick)
    /\ \A t \in Tasks :
          /\ WF_vars(PollEmpty(t) \/ WakeUp(t))
          /\ WF_vars(EcsActs(t))
          /\ SF_vars(status[t] = "running" /\ Boot(t))

----------------------------------------------------------------------------
(* No message is in the hands of two tasks at a time, however long a model *)
(* takes or hangs: the health check has the slow task replaced before the  *)
(* visibility timeout gives its messages to another.  This is what the     *)
(* template wants of VisibilityTimeoutSeconds, "to avoid duplicate         *)
(* processing"; the health check is what makes it true for a whole batch.  *)
HeldBy(t) == {r \in Requests : \E n \in Deliveries : <<r, n>> \in batch[t]}

HeldAlone == \A t, u \in Tasks : t # u => HeldBy(t) \cap HeldBy(u) = {}

(* A task becomes unhealthy only by a silence of its heartbeat that        *)
(* outlasts the limit by all the retries: one touch that succeeds in time  *)
(* is enough, so neither backing off nor any number of batches that are    *)
(* slow one by one gets it there, and idling ("one long-poll cycle plus    *)
(* margin", healthcheck.py) only if the touch before the poll failed,      *)
(* which the worker itself takes for "non-fatal".                          *)
Untouched(t) == beat[t] = "missing" \/ age[t] > waited[t]

ReplacedOnlyWhenSilent ==
    [][\A t \in Tasks :
          status[t] = "running" /\ status'[t] = "unhealthy" =>
             /\ age[t] > Allowed(t) + (Retries - 1) * Interval
             /\ loop[t] = "polling" => Untouched(t)]_vars

(* Whatever hangs, a slot polls again and again: no batch, backoff, drain  *)
(* or replacement keeps it from there for ever.                            *)
TasksPoll == \A t \in Tasks : []<>(loop[t] = "polling")

(* The inductive invariant behind them.                                    *)

Period == Interval + Timeout

(* What each timer measures starts from 0, and a gone task holds nothing.  *)
Fresh(t) ==
    /\ status[t] = "stopped" =>
          loop[t] = "done" /\ since[t] = 0
    /\ status[t] \in {"draining", "stopped"} => fails[t] = 0
    /\ loop[t] = "done" =>
          status[t] \in {"draining", "stopped"} /\ beat[t] = "missing" /\ age[t] = 0
    /\ loop[t] # "handling" => batch[t] = {}
    /\ loop[t] = "polling" => waited[t] <= Wait
    /\ loop[t] = "backoff" => waited[t] <= Backoff
    /\ loop[t] \notin {"polling", "backoff"} => waited[t] = 0

(* A live task's heartbeat is no older than the failed checks, and then    *)
(* ECS, have given it time for.                                            *)
NotOlder(t) ==
    /\ status[t] = "running" =>
          /\ fails[t] < Retries
          /\ since[t] <= Period
          /\ \/ age[t] <= Allowed(t)
             \/ age[t] <= Allowed(t) + fails[t] * Period + since[t]
    /\ status[t] = "unhealthy" =>
          /\ since[t] <= Reaction
          /\ age[t] <= MaxAge + Retries * Period + since[t]
    /\ status[t] = "draining" =>
          /\ since[t] <= StopTimeout
          /\ age[t] <= MaxAge + Retries * Period + Reaction + since[t]

(* Nor is it younger than its failed checks say, unless it was touched     *)
(* since the last of them.                                                 *)
NotYounger(t) ==
    status[t] = "running" /\ fails[t] > 0 =>
        \/ beat[t] = "written" /\ age[t] <= since[t]
        \/ age[t] > Allowed(t) + (fails[t] - 1) * Interval + since[t]

(* What a task holds is hidden, and not for longer than the age of the     *)
(* task's heartbeat.                                                       *)
HeldIsHidden(t) ==
    \A r \in Requests, n \in Deliveries :
        <<r, n>> \in batch[t] =>
            msg[r].state = "inflight" /\ msg[r].receives = n /\ hidden[r] <= age[t]

Inv ==
    /\ \A t \in Tasks : Fresh(t) /\ NotOlder(t) /\ NotYounger(t) /\ HeldIsHidden(t)
    /\ \A r \in Requests : msg[r].state # "inflight" => hidden[r] = 0
    /\ HeldAlone
=============================================================================
