-------------------------- MODULE TaskHealthProofs --------------------------
(***************************************************************************)
(* For any clocks that satisfy the assumptions of TaskHealth, and any      *)
(* number of tasks and messages: no message is in the hands of two tasks,  *)
(* and a task is replaced only when no touch of its heartbeat succeeded     *)
(* while all the retries lasted.                                           *)
(***************************************************************************)
EXTENDS TaskHealth, TLAPS

(* What the invariants say of one task, whatever the message.              *)
TaskInv(t) == Fresh(t) /\ NotOlder(t) /\ NotYounger(t)

TimersInv == TypeOK /\ \A t \in Tasks : TaskInv(t)

(* A live task's heartbeat is younger than a hung batch can last.          *)
LEMMA AgeBelowLongest ==
    ASSUME TimersInv, NEW t \in Tasks
    PROVE  age[t] \in Nat /\ age[t] <= LongestBatch
  BY DEF TimersInv, TypeOK, LongestBatch

(* Products of the clocks are numbers, and grow with the failed checks.    *)
LEMMA MoreFails ==
    ASSUME NEW p \in Nat, NEW k \in Nat
    PROVE  /\ k * p \in Nat
           /\ (k + 1) * p = k * p + p
  OBVIOUS

LEMMA FewerFails ==
    ASSUME NEW p \in Nat, NEW k \in Nat, NEW n \in Nat, k < n
    PROVE  k * p + p <= n * p
<1>1. n * p = (n - 1 - k) * p + (k + 1) * p
  OBVIOUS
<1>2. (n - 1 - k) * p \in Nat
  BY MoreFails
<1> QED BY <1>1, <1>2, MoreFails

LEMMA InitTimers == Init => TimersInv
BY ClockAssumption, HeartbeatAssumption, MaxReceiveAssumption
   DEF Init, TimersInv, TypeOK, TaskInv, Fresh, NotOlder, NotYounger, Allowed,
       Messages, MsgStates, Loops, Statuses, LongestBatch, Period

(* A step of one task leaves what the invariants say of the others alone.  *)
Others(t) ==
    \A u \in Tasks \ {t} :
        /\ loop'[u] = loop[u] /\ batch'[u] = batch[u] /\ age'[u] = age[u]
        /\ beat'[u] = beat[u] /\ waited'[u] = waited[u] /\ status'[u] = status[u]
        /\ since'[u] = since[u] /\ fails'[u] = fails[u]

Timers(t) ==
    /\ loop[t] \in Loops
    /\ beat[t] \in {"missing", "written"}
    /\ age[t] \in 0..LongestBatch
    /\ waited[t] \in 0..(Wait + Backoff)
    /\ status[t] \in Statuses
    /\ since[t] \in Nat
    /\ fails[t] \in 0..Retries

(* The step of a task, for its own timers.                                 *)
TaskStep(t) ==
    \/ Boot(t)
    \/ \E R \in SUBSET Requests : Take(t, R)
    \/ \E D \in SUBSET batch[t] : BatchDone(t, D)
    \/ PollRaises(t)
    \/ PollEmpty(t) \/ WakeUp(t)
    \/ Check(t) \/ Sigterm(t) \/ Gone(t) \/ Replace(t)

LEMMA TaskStepFrame ==
    ASSUME TypeOK, NEW t \in Tasks, TaskStep(t)
    PROVE  Others(t)
  BY DEF TypeOK, TaskStep, Others, Boot, Take, BatchDone, PollRaises, PollEmpty,
         WakeUp, Check, Sigterm, Gone, Replace, NextLoop, Touch, ecsVars, loopVars

LEMMA TaskStepTimers ==
    ASSUME TimersInv, NEW t \in Tasks, TaskStep(t)
    PROVE  Timers(t)' /\ TaskInv(t)'
<1> USE ClockAssumption, HeartbeatAssumption
<1>0. TypeOK /\ Timers(t) /\ TaskInv(t)
  BY DEF TimersInv, TypeOK, Timers
<1>v. /\ age[t] \in Nat /\ since[t] \in Nat /\ waited[t] \in Nat
      /\ fails[t] \in Nat /\ Retries \in Nat /\ Allowed(t) \in Nat /\ Allowed(t) <= MaxAge
  BY <1>0 DEF Timers, Allowed
<1>p. Period \in Nat /\ Retries * Period \in Nat /\ fails[t] * Period \in Nat
  <2>1. Period \in Nat
    BY DEF Period
  <2>2. QED
    BY <1>v, <2>1, MoreFails
<1>n. ASSUME NextLoop(t), UNCHANGED ecsVars, batch'[t] = {}, loop[t] # "done"
      PROVE  Timers(t)' /\ TaskInv(t)'
  <2>1. status'[t] = status[t] /\ since'[t] = since[t] /\ fails'[t] = fails[t]
    BY <1>n DEF ecsVars
  <2>2. /\ waited'[t] = 0
        /\ loop'[t] = IF status[t] = "draining" THEN "done" ELSE "polling"
        /\ \/ beat'[t] = "written" /\ age'[t] = 0
           \/ beat'[t] = beat[t] /\ age'[t] = age[t]
           \/ beat'[t] = "missing" /\ age'[t] = 0 /\ status[t] = "draining"
        /\ status[t] = "draining" => beat'[t] = "missing" /\ age'[t] = 0
    BY <1>0, <1>n DEF NextLoop, Touch, TypeOK
  <2>3. Timers(t)' /\ Fresh(t)'
    BY <1>0, <1>n, <1>p, <2>1, <2>2 DEF Timers, TaskInv, Fresh, Loops, LongestBatch, Period
  <2>4. NotOlder(t)' /\ NotYounger(t)'
    <3>1. CASE beat'[t] = beat[t] /\ age'[t] = age[t]
      BY <1>0, <2>1, <3>1 DEF TaskInv, NotOlder, NotYounger, Allowed
    <3>2. CASE beat'[t] = "written" /\ age'[t] = 0
      BY <1>0, <1>p, <2>1, <3>2 DEF Timers, TaskInv, NotOlder, NotYounger, Allowed
    <3>3. CASE age'[t] = 0 /\ status[t] = "draining"
      BY <1>0, <1>p, <2>1, <3>3 DEF Timers, TaskInv, NotOlder, NotYounger, Allowed
    <3>4. QED
      BY <2>2, <3>1, <3>2, <3>3
  <2>5. QED
    BY <2>3, <2>4 DEF TaskInv
<1>1. CASE Boot(t)
  BY <1>0, <1>1, <1>n DEF Boot, TaskInv, Fresh
<1>2. ASSUME NEW R \in SUBSET Requests, Take(t, R)
      PROVE  Timers(t)' /\ TaskInv(t)'
  BY <1>0, <1>2 DEF TypeOK, Timers, TaskInv, Fresh, NotOlder, NotYounger, Allowed, Take,
     ecsVars, Loops
<1>3. ASSUME NEW D \in SUBSET batch[t], BatchDone(t, D)
      PROVE  Timers(t)' /\ TaskInv(t)'
  BY <1>0, <1>3, <1>n DEF TypeOK, BatchDone
<1>4. CASE PollRaises(t)
  BY <1>0, <1>4 DEF TypeOK, Timers, TaskInv, Fresh, NotOlder, NotYounger, Allowed, PollRaises,
     ecsVars, Loops
<1>5. CASE PollEmpty(t) \/ WakeUp(t)
  BY <1>0, <1>5, <1>n DEF TypeOK, TaskInv, Fresh, PollEmpty, WakeUp
<1>6. CASE Check(t)
  <2>1. loop'[t] = loop[t] /\ batch'[t] = batch[t] /\ age'[t] = age[t]
        /\ beat'[t] = beat[t] /\ waited'[t] = waited[t]
    BY <1>6 DEF Check, loopVars
  <2>2. /\ status[t] = "running" /\ since[t] >= Interval /\ since'[t] = 0
        /\ fails'[t] = IF Stale(t) THEN fails[t] + 1 ELSE 0
        /\ status'[t] = IF fails'[t] = Retries THEN "unhealthy" ELSE "running"
    BY <1>0, <1>6 DEF Check, TypeOK
  <2>3. Timers(t)' /\ Fresh(t)'
    BY <1>0, <2>1, <2>2 DEF Timers, TaskInv, Fresh, NotOlder, Statuses
  <2>4. NotOlder(t)'
    <3>1. CASE ~Stale(t)
      BY <1>0, <1>p, <2>1, <2>2, <3>1 DEF Timers, TaskInv, NotOlder, Stale, Allowed
    <3>2. CASE Stale(t)
      <4>1. age[t] <= Allowed(t) + (fails[t] + 1) * Period
        <5>1. age[t] <= Allowed(t) + fails[t] * Period + since[t] /\ since[t] <= Period
          BY <1>0, <1>v, <2>2, <3>2 DEF TaskInv, NotOlder, Stale
        <5>2. (fails[t] + 1) * Period = fails[t] * Period + Period
          BY <1>p, <1>v, MoreFails
        <5>3. QED
          BY <1>p, <1>v, <5>1, <5>2
      <4>2. CASE fails[t] + 1 = Retries
        <5>1. status'[t] = "unhealthy" /\ since'[t] = 0 /\ age'[t] = age[t]
          BY <2>1, <2>2, <3>2, <4>2
        <5>2. age[t] <= MaxAge + Retries * Period
          BY <1>p, <1>v, <4>1, <4>2
        <5>3. QED
          BY <1>p, <1>v, <5>1, <5>2 DEF NotOlder
      <4>3. CASE fails[t] + 1 # Retries
        <5>1. /\ status'[t] = "running" /\ since'[t] = 0 /\ age'[t] = age[t]
              /\ fails'[t] = fails[t] + 1 /\ fails[t] + 1 < Retries
              /\ Allowed(t)' = Allowed(t)
          BY <1>0, <1>v, <2>1, <2>2, <3>2, <4>3 DEF TaskInv, NotOlder, Allowed
        <5>2. QED
          BY <1>p, <1>v, <4>1, <5>1 DEF NotOlder
      <4>4. QED
        BY <4>2, <4>3
    <3>3. QED
      BY <3>1, <3>2
  <2>5. NotYounger(t)'
    <3>1. CASE ~Stale(t)
      BY <2>2, <3>1 DEF NotYounger
    <3>2. CASE Stale(t)
      <4>1. age[t] > Allowed(t) + fails[t] * Interval
        <5>1. CASE fails[t] = 0
          BY <1>0, <3>2, <5>1 DEF Timers, Stale, Allowed
        <5>2. CASE fails[t] > 0
          <6>1. age[t] > Allowed(t) + (fails[t] - 1) * Interval + since[t]
            BY <1>0, <2>2, <3>2, <5>2 DEF Timers, TaskInv, NotOlder, NotYounger, Stale,
               Allowed, Period
          <6>2. fails[t] * Interval = (fails[t] - 1) * Interval + Interval
            BY <1>0, <5>2 DEF Timers
          <6>3. (fails[t] - 1) * Interval \in Nat
            BY <1>0, <5>2, MoreFails DEF Timers
          <6>4. QED
            BY <1>0, <2>2, <6>1, <6>2, <6>3 DEF Timers, Allowed
        <5>3. QED
          BY <1>0, <5>1, <5>2 DEF Timers
      <4>2. QED
        BY <1>0, <2>1, <2>2, <3>2, <4>1 DEF Timers, NotYounger, Allowed
    <3>3. QED
      BY <3>1, <3>2
  <2>6. QED
    BY <2>3, <2>4, <2>5 DEF TaskInv
<1>7. CASE Sigterm(t)
  <2>1. age[t] <= MaxAge + Retries * Period + Reaction
    <3>1. CASE status[t] = "unhealthy"
      BY <1>0, <3>1, MoreFails DEF Timers, TaskInv, NotOlder, Period
    <3>2. CASE status[t] = "running"
      <4>1. fails[t] * Period + Period <= Retries * Period
        BY <1>0, <3>2, FewerFails DEF Timers, TaskInv, NotOlder, Period
      <4>2. fails[t] * Period \in Nat /\ Retries * Period \in Nat
        BY <1>0, MoreFails DEF Timers, Period
      <4>3. QED
        BY <1>0, <3>2, <4>1, <4>2 DEF Timers, TaskInv, NotOlder, Allowed, Period
    <3>3. QED
      BY <1>7, <3>1, <3>2 DEF Sigterm
  <2>2. QED
    BY <1>0, <1>7, <1>p, <2>1 DEF TypeOK, Timers, TaskInv, Fresh, NotOlder, NotYounger, Sigterm,
       loopVars, Statuses
<1>8. CASE Gone(t)
  BY <1>0, <1>8 DEF TypeOK, Timers, TaskInv, Fresh, NotOlder, NotYounger, Gone, Loops,
     Statuses, LongestBatch
<1>9. CASE Replace(t)
  BY <1>0, <1>9 DEF TypeOK, Timers, TaskInv, Fresh, NotOlder, NotYounger, Replace, Allowed,
     Loops, Statuses, Period
<1>10. QED
  BY <1>1, <1>2, <1>3, <1>4, <1>5, <1>6, <1>7, <1>8, <1>9 DEF TaskStep

(* A tick of the clock, which is put off while something is due.           *)
LEMMA TickTimers ==
    ASSUME TimersInv, Tick, NEW t \in Tasks
    PROVE  Timers(t)' /\ TaskInv(t)'
<1> USE ClockAssumption, HeartbeatAssumption
<1>0. TypeOK /\ Timers(t) /\ TaskInv(t)
  BY DEF TimersInv, TypeOK, Timers
<1>v. /\ age[t] \in Nat /\ since[t] \in Nat /\ waited[t] \in Nat
      /\ fails[t] \in Nat /\ Retries \in Nat /\ Allowed(t) \in Nat /\ Allowed(t) <= MaxAge
  BY <1>0 DEF Timers, Allowed
<1>1. ~Due(t) /\ UNCHANGED <<loop, batch, beat, status, fails>>
  BY DEF Tick
<1>2. /\ age'[t] = IF loop[t] = "done" THEN age[t] ELSE age[t] + 1
      /\ waited'[t] = IF loop[t] \in {"polling", "backoff"} THEN waited[t] + 1 ELSE waited[t]
      /\ since'[t] = IF status[t] = "stopped" THEN since[t] ELSE since[t] + 1
  BY DEF Tick
<1>p. Period \in Nat
  BY DEF Period
<1>3. Retries * Period \in Nat /\ fails[t] * Period \in Nat
  BY <1>p, <1>v, MoreFails
<1>a. status[t] = "running" => fails[t] * Period + Period <= Retries * Period
  BY <1>0, <1>p, <1>v, FewerFails DEF TaskInv, NotOlder
<1>b. status[t] = "running" => since[t] # Period
  BY <1>1 DEF Due, Period
<1>4. NotOlder(t)'
  <2>1. CASE status[t] = "running"
    <3>0. fails[t] < Retries /\ since[t] <= Period /\ since[t] # Period /\ since'[t] = since[t] + 1
      BY <1>0, <1>2, <1>b, <2>1 DEF TaskInv, NotOlder
    <3>1. fails[t] < Retries /\ since'[t] <= Period
      BY <1>v, <1>p, <3>0
    <3>2. Allowed(t)' = Allowed(t) /\ Allowed(t) \in Nat
      BY <1>1 DEF Allowed
    <3>3. \/ age'[t] <= Allowed(t)
          \/ age'[t] <= Allowed(t) + fails[t] * Period + since'[t]
      BY <1>0, <1>2, <1>3, <2>1, <3>2 DEF Timers, TaskInv, NotOlder, Fresh
    <3>4. QED
      BY <1>1, <2>1, <3>1, <3>2, <3>3 DEF NotOlder
  <2>2. CASE status[t] = "unhealthy"
    <3>1. /\ age'[t] = age[t] + 1 /\ since'[t] = since[t] + 1 /\ since[t] # Reaction
          /\ status'[t] = "unhealthy"
      BY <1>0, <1>1, <1>2, <2>2 DEF Due, TaskInv, Fresh
    <3>2. since[t] <= Reaction /\ age[t] <= MaxAge + Retries * Period + since[t]
      BY <1>0, <2>2 DEF TaskInv, NotOlder
    <3>3. {MaxAge, Reaction} \subseteq Nat
      OBVIOUS
    <3>4. /\ since[t] + 1 <= Reaction
          /\ age[t] + 1 <= MaxAge + Retries * Period + (since[t] + 1)
      BY <1>v, <1>3, <3>2, <3>1, <3>3
    <3>5. QED
      BY <3>1, <3>4 DEF NotOlder
  <2>3. CASE status[t] = "draining"
    <3>1. /\ age'[t] = age[t] + 1 /\ since'[t] = since[t] + 1 /\ since[t] # StopTimeout
          /\ status'[t] = "draining"
      BY <1>0, <1>1, <1>2, <2>3 DEF Due
    <3>2. since[t] <= StopTimeout /\ age[t] <= MaxAge + Retries * Period + Reaction + since[t]
      BY <1>0, <2>3 DEF TaskInv, NotOlder
    <3>3. age[t] \in Nat /\ since[t] \in Nat /\ {MaxAge, Reaction, StopTimeout} \subseteq Nat
      BY <1>0 DEF Timers
    <3>4. /\ since[t] + 1 <= StopTimeout
          /\ age[t] + 1 <= MaxAge + Retries * Period + Reaction + (since[t] + 1)
      BY <1>3, <3>1, <3>2, <3>3
    <3>5. QED
      BY <3>1, <3>4 DEF NotOlder
  <2>4. CASE status[t] = "stopped"
    BY <1>1, <2>4 DEF NotOlder
  <2>5. QED
    BY <1>0, <2>1, <2>2, <2>3, <2>4 DEF Timers, Statuses
<1>5. NotYounger(t)'
  <2>1. status[t] = "running" => loop[t] # "done"
    BY <1>0 DEF TaskInv, Fresh
  <2>2. fails[t] > 0 => (fails[t] - 1) * Interval \in Nat
    BY <1>0, MoreFails DEF Timers
  <2>3. QED
    BY <1>0, <1>1, <1>2, <2>1, <2>2 DEF Timers, TaskInv, NotYounger, Allowed
<1>6. Fresh(t)'
  BY <1>0, <1>1, <1>2 DEF Timers, TaskInv, Fresh, Due
<1>7. Timers(t)'
  <2>1. age'[t] <= LongestBatch
    <3>1. LongestBatch = MaxAge + Retries * Period + Reaction + StopTimeout
      BY DEF LongestBatch, Period
    <3>2. QED
      BY <1>0, <1>1, <1>2, <1>p, <1>3, <1>4, <1>a, <3>1
         DEF Timers, TaskInv, Fresh, NotOlder, Allowed, Statuses
  <2>2. QED
    <3>1. age'[t] \in 0..LongestBatch
      <4>1. age'[t] \in Nat
        BY <1>v, <1>2
      <4>2. LongestBatch \in Nat
        BY <1>3 DEF LongestBatch, Period
      <4>3. QED
        BY <2>1, <4>1, <4>2
    <3>2. waited'[t] \in 0..(Wait + Backoff)
      BY <1>v, <1>6, <1>1, <1>2 DEF Fresh
    <3>3. since'[t] \in Nat
      BY <1>v, <1>2
    <3>4. QED
      BY <1>0, <1>1, <3>1, <3>2, <3>3 DEF Timers
<1>8. QED
  BY <1>4, <1>5, <1>6, <1>7 DEF TaskInv

(* What the tasks and the queue do to a message.                           *)
LEMMA QueueTypes ==
    ASSUME TypeOK, [Next]_vars
    PROVE  /\ msg' \in [Requests -> Messages]
           /\ hidden' \in [Requests -> 0..Visibility]
<1> USE MaxReceiveAssumption, ClockAssumption
<1>1. ASSUME NEW t \in Tasks, TaskStep(t)
      PROVE  msg' \in [Requests -> Messages] /\ hidden' \in [Requests -> 0..Visibility]
  <2>0. \A r \in Requests : msg[r].state \in MsgStates /\ msg[r].receives \in 0..MaxReceive
    BY DEF TypeOK, Messages
  <2>1. ASSUME NEW R \in SUBSET Requests, Take(t, R)
        PROVE  msg' \in [Requests -> Messages] /\ hidden' \in [Requests -> 0..Visibility]
    BY <2>0, <2>1 DEF TypeOK, Take, Receivable, Messages, MsgStates
  <2>2. ASSUME NEW D \in SUBSET batch[t], BatchDone(t, D)
        PROVE  msg' \in [Requests -> Messages] /\ hidden' \in [Requests -> 0..Visibility]
    <3>1. \A r \in Requests : [msg[r] EXCEPT !.state = "deleted"] \in Messages
      BY <2>0 DEF TypeOK, Messages, MsgStates
    <3>2. msg \in [Requests -> Messages] /\ hidden \in [Requests -> 0..Visibility]
      BY DEF TypeOK
    <3>3. QED
      BY <2>2, <3>1, <3>2 DEF BatchDone
  <2>3. CASE UNCHANGED queueVars
    BY <2>3 DEF TypeOK, queueVars
  <2>4. QED
    BY <1>1, <2>1, <2>2, <2>3 DEF TaskStep, Boot, PollRaises, PollEmpty, WakeUp, Check,
       Sigterm, Gone, Replace
<1>2. ASSUME NEW r \in Requests, Reappear(r) \/ Park(r)
      PROVE  msg' \in [Requests -> Messages] /\ hidden' \in [Requests -> 0..Visibility]
  <2>1. \A s \in {"visible", "dlq"} : [msg[r] EXCEPT !.state = s] \in Messages
    BY DEF TypeOK, Messages, MsgStates
  <2>2. QED
    BY <1>2, <2>1 DEF TypeOK, Reappear, Park, MessageReappears, RedriveMessage
<1>3. CASE Tick
  BY <1>3 DEF TypeOK, Tick
<1>4. CASE UNCHANGED vars
  BY <1>4 DEF TypeOK, vars
<1>5. QED
  BY <1>1, <1>2, <1>3, <1>4 DEF Next, TaskStep

(* A batch is a set of deliveries.                                         *)
LEMMA BatchTypes ==
    ASSUME TypeOK, [Next]_vars
    PROVE  batch' \in [Tasks -> SUBSET (Requests \X Deliveries)]
<1> USE MaxReceiveAssumption
<1>1. ASSUME NEW t \in Tasks, NEW R \in SUBSET Requests, Take(t, R)
      PROVE  batch' \in [Tasks -> SUBSET (Requests \X Deliveries)]
  <2>1. {<<r, msg[r].receives + 1>> : r \in R} \subseteq Requests \X Deliveries
    BY <1>1 DEF TypeOK, Take, Receivable, Messages, Deliveries
  <2>2. QED
    BY <1>1, <2>1 DEF TypeOK, Take
<1>2. ASSUME NEW t \in Tasks, TaskStep(t), \A R \in SUBSET Requests : ~Take(t, R)
      PROVE  batch' \in [Tasks -> SUBSET (Requests \X Deliveries)]
  BY <1>2 DEF TypeOK, TaskStep, Boot, BatchDone, PollRaises, PollEmpty, WakeUp, Check,
     Sigterm, Gone, Replace, loopVars
<1>3. ASSUME NEW r \in Requests, Reappear(r) \/ Park(r)
      PROVE  batch' \in [Tasks -> SUBSET (Requests \X Deliveries)]
  BY <1>3 DEF TypeOK, Reappear, Park, loopVars
<1>4. CASE Tick \/ UNCHANGED vars
  BY <1>4 DEF TypeOK, Tick, vars
<1>5. QED
  BY <1>1, <1>2, <1>3, <1>4 DEF Next, TaskStep

LEMMA StepTimers == TimersInv /\ [Next]_vars => TimersInv'
<1> SUFFICES ASSUME TimersInv, [Next]_vars PROVE TimersInv'
  OBVIOUS
<1>1. ASSUME NEW u \in Tasks
      PROVE  Timers(u)' /\ TaskInv(u)'
  <2>1. Timers(u) /\ TaskInv(u) /\ TypeOK
    BY DEF TimersInv, TypeOK, Timers
  <2>2. ASSUME NEW t \in Tasks, TaskStep(t)
        PROVE  Timers(u)' /\ TaskInv(u)'
    <3>1. CASE t = u
      BY <2>2, <3>1, TaskStepTimers
    <3>2. CASE t # u
      BY <2>1, <2>2, <3>2, TaskStepFrame
         DEF Others, Timers, TaskInv, Fresh, NotOlder, NotYounger, Allowed
    <3>3. QED
      BY <3>1, <3>2
  <2>3. CASE Tick
    BY <2>3, TickTimers
  <2>4. CASE UNCHANGED <<loopVars, ecsVars>>
    BY <2>1, <2>4
       DEF loopVars, ecsVars, Timers, TaskInv, Fresh, NotOlder, NotYounger, Allowed
  <2>5. QED
    BY <2>2, <2>3, <2>4 DEF Next, TaskStep, Reappear, Park, vars, loopVars, ecsVars
<1>2. TypeOK'
  <2> DEFINE Functions ==
        /\ loop' = [t \in Tasks |-> loop'[t]] /\ age' = [t \in Tasks |-> age'[t]]
        /\ beat' = [t \in Tasks |-> beat'[t]] /\ waited' = [t \in Tasks |-> waited'[t]]
        /\ status' = [t \in Tasks |-> status'[t]]
        /\ since' = [t \in Tasks |-> since'[t]] /\ fails' = [t \in Tasks |-> fails'[t]]
  <2>1. Functions
    <3>1. TypeOK
      BY DEF TimersInv
    <3>2. ASSUME NEW t \in Tasks, TaskStep(t) PROVE Functions
      BY <3>1, <3>2 DEF TypeOK, TaskStep, Boot, Take, BatchDone, PollRaises, PollEmpty,
         WakeUp, Check, Sigterm, Gone, Replace, NextLoop, Touch, loopVars, ecsVars
    <3>3. CASE Tick
      BY <3>1, <3>3 DEF TypeOK, Tick
    <3>4. CASE UNCHANGED <<loopVars, ecsVars>>
      BY <3>1, <3>4 DEF TypeOK, loopVars, ecsVars
    <3>5. CASE UNCHANGED vars
      BY <3>4, <3>5 DEF vars, loopVars, ecsVars
    <3>6. ASSUME NEW r \in Requests, Reappear(r) \/ Park(r) PROVE Functions
      BY <3>4, <3>6 DEF Reappear, Park, loopVars, ecsVars
    <3>7. QED
      BY <3>2, <3>3, <3>5, <3>6 DEF Next, TaskStep
  <2>2. QED
    BY <1>1, <2>1, QueueTypes, BatchTypes DEF TimersInv, TypeOK, Timers
<1>3. QED
  BY <1>1, <1>2 DEF TimersInv

(* What a task holds stays hidden: the visibility timeout is longer than   *)
(* its heartbeat can be old.                                               *)
Bound ==
    /\ \A t \in Tasks : HeldIsHidden(t)
    /\ \A r \in Requests : msg[r].state # "inflight" => hidden[r] = 0
    /\ HeldAlone

LEMMA BoundTask ==
    ASSUME TimersInv, Bound, NEW t \in Tasks, TaskStep(t)
    PROVE  Bound'
<1> USE MaxReceiveAssumption, ClockAssumption
<1>0. /\ TypeOK /\ Others(t) /\ age[t] \in Nat /\ age'[t] \in Nat
      /\ \A u \in Tasks \ {t} : batch'[u] = batch[u] /\ age'[u] = age[u]
  BY TaskStepFrame, TaskStepTimers DEF TimersInv, TypeOK, Others, Timers
<1>1. ASSUME NEW R \in SUBSET Requests, Take(t, R)
      PROVE  Bound'
  <2>1. \A u \in Tasks : HeldBy(u) \cap R = {}
    BY <1>0, <1>1 DEF Bound, HeldIsHidden, HeldBy, Take, Receivable, TypeOK
  <2>2. HeldBy(t)' = R
    <3>1. batch'[t] = {<<r, msg[r].receives + 1>> : r \in R}
      BY <1>0, <1>1 DEF Take, TypeOK
    <3>2. \A r \in R : msg[r].receives + 1 \in Deliveries
      BY <1>0, <1>1 DEF Take, Receivable, TypeOK, Messages, Deliveries
    <3>3. QED
      BY <3>1, <3>2 DEF HeldBy
  <2>3. HeldAlone'
    BY <1>0, <2>1, <2>2 DEF Bound, HeldAlone, HeldBy
  <2>4. ASSUME NEW u \in Tasks PROVE HeldIsHidden(u)'
    <3>1. CASE u = t
      BY <1>0, <1>1, <3>1 DEF Bound, HeldIsHidden, Take, Receivable, TypeOK
    <3>2. CASE u # t
      <4>1. \A r \in HeldBy(u) : msg'[r] = msg[r] /\ hidden'[r] = hidden[r]
        BY <1>1, <2>1 DEF HeldBy, Take
      <4>2. QED
        BY <1>0, <3>2, <4>1 DEF Bound, HeldIsHidden, HeldBy
    <3>3. QED
      BY <3>1, <3>2
  <2>5. \A r \in Requests : msg'[r].state # "inflight" => hidden'[r] = 0
    BY <1>0, <1>1 DEF Bound, Take, TypeOK
  <2>6. QED
    BY <2>3, <2>4, <2>5 DEF Bound
<1>2. ASSUME NEW D \in SUBSET batch[t], BatchDone(t, D)
      PROVE  Bound'
  <2>1. HeldBy(t)' = {} /\ batch'[t] = {}
    BY <1>0, <1>2 DEF BatchDone, HeldBy, TypeOK
  <2>2. HeldAlone'
    BY <1>0, <2>1 DEF Bound, HeldAlone, HeldBy
  <2>3. ASSUME NEW u \in Tasks PROVE HeldIsHidden(u)'
    <3>1. CASE u = t
      BY <2>1, <3>1 DEF HeldIsHidden
    <3>2. ASSUME u # t, NEW r \in Requests, r \in HeldBy(u)
          PROVE  msg'[r] = msg[r] /\ hidden'[r] = hidden[r]
      <4>1. \A n \in Deliveries : <<r, n>> \notin D
        BY <1>0, <1>2, <3>2 DEF Bound, HeldAlone, HeldBy
      <4>2. msg[r].state = "inflight"
        BY <3>2 DEF Bound, HeldIsHidden, HeldBy
      <4>3. QED
        BY <1>0, <1>2, <4>1, <4>2 DEF BatchDone, TypeOK
    <3>3. QED
      BY <1>0, <3>1, <3>2 DEF Bound, HeldIsHidden, HeldBy
  <2>4. \A r \in Requests : msg'[r].state # "inflight" => hidden'[r] = 0
    BY <1>0, <1>2 DEF Bound, BatchDone, TypeOK
  <2>5. QED
    BY <2>2, <2>3, <2>4 DEF Bound
<1>3. ASSUME UNCHANGED queueVars,
             batch'[t] = {} \/ (batch'[t] = batch[t] /\ age'[t] = age[t])
      PROVE  Bound'
  <2>1. ASSUME NEW u \in Tasks
        PROVE  batch'[u] = {} \/ (batch'[u] = batch[u] /\ age'[u] = age[u])
    <3>1. CASE u = t
      BY <1>3, <3>1
    <3>2. CASE u # t
      BY <1>0, <3>2
    <3>3. QED
      BY <3>1, <3>2
  <2>2. HeldAlone'
    BY <2>1 DEF Bound, HeldAlone, HeldBy
  <2>3. QED
    BY <1>3, <2>1, <2>2 DEF Bound, HeldIsHidden, queueVars
<1>4. QED
  <2>1. CASE Boot(t) \/ PollEmpty(t) \/ WakeUp(t) \/ Replace(t)
    <3>1. batch[t] = {}
      BY <2>1 DEF TimersInv, TaskInv, Fresh, Boot, PollEmpty, WakeUp, Replace
    <3>2. UNCHANGED queueVars /\ batch'[t] = {}
      BY <2>1, <3>1 DEF Boot, PollEmpty, WakeUp, Replace, queueVars
    <3>3. QED
      BY <1>3, <3>2
  <2>2. CASE PollRaises(t) \/ Gone(t)
    <3>1. UNCHANGED queueVars /\ batch'[t] = {}
      BY <1>0, <2>2 DEF PollRaises, Gone, TypeOK, queueVars
    <3>2. QED
      BY <1>3, <3>1
  <2>3. CASE Check(t) \/ Sigterm(t)
    BY <1>3, <2>3 DEF Check, Sigterm, loopVars
  <2>4. QED
    BY <1>1, <1>2, <2>1, <2>2, <2>3 DEF TaskStep

LEMMA BoundStep == TimersInv /\ Bound /\ [Next]_vars => Bound'
<1> SUFFICES ASSUME TimersInv, Bound, [Next]_vars PROVE Bound'
  OBVIOUS
<1> USE ClockAssumption
<1>0. TypeOK
  BY DEF TimersInv
<1>1. ASSUME NEW t \in Tasks, TaskStep(t) PROVE Bound'
  BY <1>1, BoundTask
<1>2. ASSUME NEW r \in Requests, Reappear(r) \/ Park(r) PROVE Bound'
  <2>1. \A t \in Tasks : r \notin HeldBy(t)
    <3>1. SUFFICES ASSUME NEW t \in Tasks, r \in HeldBy(t) PROVE FALSE
      OBVIOUS
    <3>2. age[t] \in Nat /\ LongestBatch \in Nat /\ age[t] < Visibility
      BY AgeBelowLongest, VisibilityAssumption, MoreFails DEF LongestBatch
    <3>3. msg[r].state = "inflight" /\ hidden[r] <= age[t]
      BY <3>1 DEF Bound, HeldIsHidden, HeldBy
    <3>4. QED
      BY <1>0, <1>2, <3>2, <3>3
         DEF TypeOK, Reappear, Park, RedriveMessage
  <2>2. /\ UNCHANGED <<batch, age>>
        /\ \A q \in Requests \ {r} : msg'[q] = msg[q] /\ hidden'[q] = hidden[q]
        /\ hidden'[r] = 0
    BY <1>0, <1>2 DEF TypeOK, Bound, Reappear, Park, MessageReappears, RedriveMessage, loopVars
  <2>3. ASSUME NEW t \in Tasks PROVE HeldIsHidden(t)'
    <3>1. \A q \in HeldBy(t) : msg'[q] = msg[q] /\ hidden'[q] = hidden[q]
      BY <2>1, <2>2 DEF HeldBy
    <3>2. QED
      BY <2>2, <3>1 DEF Bound, HeldIsHidden, HeldBy
  <2>4. QED
    BY <2>2, <2>3 DEF Bound, HeldAlone, HeldBy
<1>3. CASE Tick
  <2>1. UNCHANGED <<msg, batch>>
    BY <1>3 DEF Tick
  <2>2. ASSUME NEW t \in Tasks, NEW r \in Requests, r \in HeldBy(t)
        PROVE  hidden'[r] <= age'[t]
    <3>1. loop[t] # "done"
      BY <1>0, <2>2 DEF TimersInv, TaskInv, Fresh, HeldBy
    <3>2. age'[t] = age[t] + 1 /\ hidden'[r] \in {hidden[r], hidden[r] + 1}
      BY <1>3, <3>1 DEF Tick
    <3>3. hidden[r] <= age[t]
      BY <2>2 DEF Bound, HeldIsHidden, HeldBy
    <3>a. age[t] \in Nat /\ hidden[r] \in Nat
      BY <1>0, AgeBelowLongest DEF TypeOK
    <3>4. QED
      BY <3>2, <3>3, <3>a
  <2>3. \A r \in Requests : msg'[r].state # "inflight" => hidden'[r] = 0
    BY <1>3, <2>1 DEF Bound, Tick
  <2>4. QED
    BY <2>1, <2>2, <2>3 DEF Bound, HeldIsHidden, HeldAlone, HeldBy
<1>4. CASE UNCHANGED vars
  BY <1>4 DEF vars, Bound, HeldIsHidden, HeldAlone, HeldBy
<1>5. QED
  BY <1>1, <1>2, <1>3, <1>4 DEF Next, TaskStep

(* The clocks keep their bounds: in particular, no heartbeat of a live     *)
(* task is older than LongestBatch.                                        *)
THEOREM TypeCorrect == Spec => []TypeOK
<1>1. TimersInv => TypeOK
  BY DEF TimersInv
<1>2. QED
  BY <1>1, InitTimers, StepTimers, PTL DEF Spec

(* The inductive invariant holds of every reachable state.                 *)
THEOREM Invariance == Spec => []Inv
<1>1. Init => Bound
  BY DEF Init, Bound, HeldIsHidden, HeldAlone, HeldBy
<1>2. TimersInv /\ Bound => Inv
  BY DEF TimersInv, TaskInv, Bound, Inv
<1>3. QED
  BY <1>1, <1>2, InitTimers, StepTimers, BoundStep, PTL DEF Spec

(* No message is in the hands of two tasks at a time, whatever hangs.      *)
THEOREM HeldByOne == Spec => []HeldAlone
<1>1. Inv => HeldAlone
  BY DEF Inv
<1>2. QED
  BY <1>1, Invariance, PTL

(* A task becomes unhealthy only when no touch succeeded while all the     *)
(* retries lasted, and in a poll only if the touch before that poll failed.*)
THEOREM ReplacedSilent == Spec => ReplacedOnlyWhenSilent
<1> DEFINE Silent(t) == /\ age[t] > Allowed(t) + (Retries - 1) * Interval
                        /\ loop[t] = "polling" => Untouched(t)
<1>1. ASSUME TypeOK, Inv, [Next]_vars, NEW u \in Tasks,
             status[u] = "running", status'[u] = "unhealthy"
      PROVE  Silent(u)
  <2>1. Check(u)
    <3>1. ASSUME NEW t \in Tasks, TaskStep(t), t # u PROVE FALSE
      BY <1>1, <3>1, TaskStepFrame DEF Others
    <3>2. ASSUME TaskStep(u), ~Check(u) PROVE FALSE
      BY <1>1, <3>2 DEF TypeOK, TaskStep, Boot, Take, BatchDone, PollRaises, PollEmpty,
         WakeUp, Sigterm, Gone, Replace, ecsVars
    <3>3. ~UNCHANGED status
      BY <1>1
    <3>4. QED
      BY <1>1, <3>1, <3>2, <3>3
         DEF Next, TaskStep, Reappear, Park, Tick, vars, ecsVars
  <2>2. Fresh(u) /\ NotOlder(u) /\ NotYounger(u)
    BY <1>1 DEF Inv
  <2>3. Stale(u) /\ Retries = fails[u] + 1 /\ since[u] >= Interval
    BY <1>1, <2>1, ClockAssumption DEF Check, TypeOK
  <2>4. age[u] \in Nat /\ waited[u] \in Nat /\ since[u] \in Nat /\ fails[u] \in Nat /\ Allowed(u) \in Nat
    BY <1>1, ClockAssumption DEF TypeOK, Allowed
  <2>5. loop[u] = "polling" => Untouched(u)
    <3>1. loop[u] = "polling" /\ beat[u] = "written" => age[u] > MaxAge /\ waited[u] <= Wait
      BY <2>2, <2>3 DEF Fresh, Stale, Allowed
    <3>2. beat[u] \in {"missing", "written"}
      BY <1>1 DEF TypeOK
    <3>3. QED
      BY <2>4, <3>1, <3>2, ClockAssumption, HeartbeatAssumption DEF Untouched
  <2>6. age[u] > Allowed(u) + (Retries - 1) * Interval
    <3>1. CASE fails[u] = 0
      BY <2>3, <2>4, <3>1, ClockAssumption DEF Stale
    <3>2. CASE fails[u] > 0
      <4>1. age[u] > Allowed(u) + (fails[u] - 1) * Interval + since[u]
        BY <1>1, <2>2, <2>3, <2>4, <3>2, ClockAssumption, HeartbeatAssumption
           DEF NotOlder, NotYounger, Stale, Allowed, Period
      <4>2. fails[u] * Interval = (fails[u] - 1) * Interval + Interval
        BY <2>4, ClockAssumption
      <4>3. (fails[u] - 1) * Interval \in Nat
        BY <2>4, <3>2, ClockAssumption, MoreFails
      <4>4. QED
        BY <2>3, <2>4, <4>1, <4>2, <4>3, ClockAssumption
    <3>3. QED
      BY <2>4, <3>1, <3>2
  <2>7. QED
    BY <2>5, <2>6
<1>2. TypeOK /\ Inv /\ [Next]_vars
        => [\A t \in Tasks : status[t] = "running" /\ status'[t] = "unhealthy" => Silent(t)]_vars
  BY <1>1
<1>3. QED
  BY <1>2, TypeCorrect, Invariance, PTL DEF Spec, ReplacedOnlyWhenSilent
=============================================================================
