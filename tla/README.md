# TLA+ models of the multi-model inference system

This directory holds TLA+ specifications of the asynchronous inference service
in `src/app/backend`, of the pipeline that delivers it (`src/app/cdk`, `src/app/cicd`)
and of the notebooks that train and host models beside it (`src/notebooks`), the
TLC configurations that check them, and TLAPS proofs. `PROJECT.json` maps every
definition to the lines it translates.

## 1. The system

A client posts an inference request to API Gateway. A Lambda (`api/router.py`)
validates it, saves a record in a DynamoDB table, puts a message on the SQS queue
of the chosen backend (`lambda` or `ecs-fargate`) and answers 202 with a request
id. A worker of that backend receives the message, runs the model, and writes the
outcome to the record, which the client polls.

### Components

| Component | State | Operations | Interaction |
|---|---|---|---|
| Request table (`common/repository.py`, `schemas.py`) | one item per request: status, attempts, input, output, error, ttl | `save`, `mark_processing`, `mark_completed`, `mark_failed`, `get` | written by the API and by both workers, with unconditional updates |
| Queues (`common/queue.py`, `infrastructure/00-core.yaml`) | per message: visible, in flight, deleted, parked, expired; receive count | send, receive, delete, visibility timeout, redrive, retention | between API and workers; at-least-once |
| Inference service (`common/inference_service.py`) | none of its own | `submit`, `process`, `get_status` | calls the registry, the table and the queue |
| API router (`api/router.py`, `handler.py`) | none | dispatch, parse, map exceptions to 200/202/400/404/500 | calls the service |
| ECS worker (`ecs_worker/worker.py`) | `_running`, the batch, the pool's threads, the heartbeat file | `run`, `poll_once`, `handle_message`, `request_stop` | receives, processes in threads, deletes after the batch |
| Health check and service (`healthcheck.py`, `20-ecs-fargate.yaml`) | age of the heartbeat | kill and replace a task | ECS and the worker |
| Lambda worker (`lambda_worker/handler.py`) | the batch, the list of failures | `lambda_handler` | event source mapping; deletes what it did not report |
| Model registry (`models/registry.py`, `base.py`) | `_CACHE`, per instance `_loaded`, `_artifact` | `get_model`, `ensure_loaded`, `predict` | shared by the threads of a worker, without a lock |
| Validation and scoring (`features.py`, `weighted.py`, `timeseries.py`, ...) | none | `validate_input`, `predict` | run by `submit` and again by `process` |
| Configuration (`config.py`) | environment | queue URL per backend | read everywhere |
| Smoke and load tests (`cicd/`) | polled status | submit and poll | client of the API |
| Delivery pipeline (`30-cicd.yaml`, `cdk/stacks/cicd_stack.py`) | artifacts, image tag, stage | build, test, approve, deploy | deploys the stacks |
| Infrastructure and deploy scripts | - | - | settings of the above |
| Hosting notebooks (`notebooks/*.ipynb`) | the kernel's variables, the disk, S3, ECR, ECS | one cell after the other | a user, who may go back or restart the kernel |
| Flask inference servers (`notebooks/scripts`) | the model loaded at start | health check, prediction | run as ECS tasks by the notebooks |

### What is hard

*Delivery.* A message may be delivered again while its first worker is still
running it, because the visibility timeout is never extended; both then update
one record, unconditionally, in any order. The delete uses the handle of one
receive and may come too late. `save`, `publish`, `mark_*` and the delete are
separate calls, each of which may fail, applied or not, and the process may die
between any two.

*Retries.* `process` tells permanent from transient failures by exception type
and by where the `try` begins. What is mistaken for transient is repeated up to
`maxReceiveCount` times and then parked with its record in whatever state.

*Batches.* An ECS task shares a batch among threads, deletes only when all are
done, must finish the batch on SIGTERM, and is killed when one of them hangs.

*Shared state.* The model cache and lazy loading are check-then-act without a
lock, while a deployment may be replacing the artifact.

*Two validations.* The input is validated on submission and again by the worker
on the normalised form; if the two disagreed, an accepted request would fail as
invalid. Numbers have three notions of "valid": JSON's, Python's and DynamoDB's.

*Clocks.* The heartbeat's age limit, the health check's retries, SIGTERM's grace
and the visibility timeout are set in three files, and nothing compares them. A
batch slower than some of them is a hung task, a message in two hands, or neither.

*Delivery.* The pipeline names what it deploys by a mutable tag, its executions
share stages and environments, and a service rolls while the next execution
tests it. The smoke test polls a record that a retry may still change.

*Notebooks.* State is spread over kernel, disk and account; only the kernel's is
lost on a restart. Cells overwrite their own inputs, and half of the shell
commands cannot raise.

### What makes each component correct

- Service, table and queue: 202 means tracked and sent; a message goes away only
  with an outcome in the table; an outcome is never erased; the status tells the
  truth about the record; every message settles; every accepted request ends.
- ECS worker: batching, threads, draining and replacement allow nothing that
  single deliveries do not; a stop loses no work; neighbours in a batch do not harm
  each other.
- Registry: no thread predicts with a half-loaded instance, races cost a bounded
  number of loads, a failed load is retried until the artifact is there.
- Router and validation: the answer says what was done; what submission accepts
  the worker accepts, unchanged, and can compute with, exog's entries apart.

- Lambda worker: what is not reported was dealt with, and nobody is parked for
  what a neighbour in the batch did.
- Clocks: a message is held by one task at a time; only a task whose heartbeat has been
  silent too long is replaced.
- Pipeline: executions keep their order, what is released was tested, an execution
  that succeeded is live, the approver is asked; a passed smoke test is true.
- Notebooks and servers: the search finds the best order, a model is trained on
  data of one scale, requests go to the task just started, only sensible requests
  are answered, and a finished notebook leaves nothing behind that costs.

The `hazards` of `PROJECT.json` list these at the lines where they bite, with the
properties that cover them or the reason none does.

## 2. The modules

```
BackendConstants --- RequestTable --.
        |        `-- Sqs -----------+-- InferenceService --- EcsWorker
        |             |            /       |  (Spec)  <-- refines --'
        |             |           /        `-------------- LambdaWorker
        |             |          /            (Spec)  <-- refines --'
        |             |   AtLeastOnce <-- refines -- InferenceService
        |             `-- TaskHealth
Validation --- Router        ModelCache         SmokeTest --- Delivery

NotebookAccount --- XgboostNotebook --.
                `-- SarimaNotebook ---+-- Hosting     (FlaskServers below all three)
```

| Module | Models | Notes on the correspondence |
|---|---|---|
| `BackendConstants` | request ids, receive limit, kinds of submission | A payload is abstracted to what the code makes of it: valid, unstorable output, invalid, unknown model, unrouted, malformed, not an object. |
| `RequestTable` | `repository.py` | One operator per write, each one atomic item update. `mark_*` on a missing item creates it, as `update_item` does. |
| `Sqs` | queue and dead-letter queue | Handle n is that of the n-th receive. A delete with a superseded handle may or may not delete. |
| `InferenceService` | `submit`, `process`, one delivery of either worker | `api[r]` is how far the API got, `delivery[r][n]` how far the worker of the n-th receive got. Failures are actions of their own (`Failure`): a raising save, publish or write, applied or not; a crash; a lost delete. |
| `AtLeastOnce` | the abstract promise | Phase, tries, answered, accepted; no table, handles or workers. |
| `EcsWorker` | `worker.py`, health check, replacement of tasks | Adds which task holds which deliveries (`batch`), where its loop is (`phase`) and the stop flag; what a thread does is an action of `InferenceService`. |
| `LambdaWorker` | `lambda_worker/handler.py`, the event source mapping of `10-api-lambda.yaml` | An invocation collects a batch, handles its records in order, and the mapping deletes what was not reported. One record is `InferenceService`'s worker. A cut-off invocation reports nothing. |
| `TaskHealth` | the clocks of `worker.py`, `healthcheck.py`, `20-ecs-fargate.yaml` and the queue | `Tick` is time; every timer is the age of something (heartbeat, poll, last check, SIGTERM, receive), and `Tick` waits for what is due. What a batch computes is left out, its length is not. A touch may fail (`Touch`): the loop goes on and the heartbeat stays as old, or as missing, as it was. |
| `ModelCache` | `registry.py`, `base.py`, XGBoost artifact loading | One action per access to shared state. An instance bears its constructing thread's name. The directory may hold no, a partial or a complete artifact. |
| `Validation` | `validate_input` of the four models, `parse_features` | Operators. Of a JSON value: its type, length and how its deciding element converts. `Computes` says what `predict` gets through with. |
| `Router` | `router.py`, `handler.py`, the way of one event through `submit` to the worker's validation | Every call succeeds here, except that DynamoDB refuses numbers it cannot hold; failing calls are `InferenceService`'s. |
| `SmokeTest` | `cicd/apitest/smoke_test.py` | Its cases one after the other, polling a record that workers still write and whose read may miss the last write. |
| `Delivery` | `cicd_stack.py`, the buildspecs, `evaluate.py`, `notify_approval.py`, the services of `ecs_fargate_stack.py` | Executions wait for, run and leave the stages; images are numbered by their pushes; a deployment takes what the tag points to when it begins. `verified` and `released` are history. |
| `NotebookAccount` | what both notebooks work on, and ECS | The next cell, the kernel, disk, S3, ECR, cluster, task definition, tasks. A cell is enabled when it can succeed; one that raises may be run again. What the searches come to is chosen once, with the data set (`fits`). |
| `XgboostNotebook`, `SarimaNotebook` | the cells of one notebook each | One action per cell with an effect. They differ in what they check. |
| `FlaskServers` | `container_*_inference.py` | Operators: the HTTP status of every kind of request. |
| `Hosting` | a user with one of the notebooks | Cells, going back, kernel restarts, tasks that die; and the list of places where a notebook stops for good (`Stuck`). |

`MC*.tla` define the sets TLC enumerates; `*Proofs.tla` hold the proofs.
Definitions named `X_Something` with the comment "Mutant" are wrong variants of
`X`, used to confirm that a property notices the bug; no specification uses them.

## 3. What is model-checked

| Run | States | Shows |
|---|---|---|
| `lifecycle` | 36 107 | One request of every possible kind, three receives, every crash, failing call, lost delete and timeout: `AcceptedIsTracked`; `DeletedIsAnswered`; `QueuedIsUntouched`; `AttemptsCounted`; `OutcomeKept`; `KeepsPromise`: the design implements `AtLeastOnce`. |
| `orderly` | 6 498 | Without failures, with overlapping deliveries and raising models: an accepted storable request ends COMPLETED or FAILED for good (`ValidEndsTerminal`), invalid input is never requeued (`InvalidIsNotRequeued`). |
| `ecs_task` | 184 095 | One ECS task, two messages in a batch (one of which may be JSON `null`, which makes `poll_once` raise), one thread, every failure, threads that hang, SIGTERM, kill, replacement: it implements `InferenceService` (`ImplementsService`), every message settles (`EveryMessageSettles`). |
| `ecs_prompt` | 38 512 | Two tasks, SIGTERM at any point, visibility timeout respected: work in flight finishes (`DrainFinishes`), nothing completed is parked (`CompletedIsNotParked`). |
| `lambda_worker` | 212 820 | Two messages in batches, raising writes, cut-off invocations: it implements `InferenceService`; what is parked is parked for a reason of its own (`ParkedIsExplained`); the hopeless end in the dead-letter queue (`EndsWhereItShould`). |
| `task_health` | 266 216 | Two tasks, on one of which touches may fail, a message, batches of any length, the clocks of the templates with a shorter visibility timeout: `HeldAlone`, `ReplacedOnlyWhenSilent`, and every slot polls again (`TasksPoll`). |
| `model_cache` | 6 504 | Two threads while the artifact is replaced: `PredictsWithArtifact`, `LoadsBounded`, `RetryFindsArtifact`. |
| `submission` | 48 411 | 15 517 events: every shape of path, encoding and body next to a limit. `RevalidationStable`, `AnswerTellsTrace`, `PredictableInput` (with the exception of exog that is named below). |
| `delivery` | 430 467 | Three executions over two images, failing in any stage, while the tag moves and services roll: `NoOvertaking`, `ReleaseIsTested`, `SucceededIsLive`, `PassIsSound`, `EveryExecutionEnds`. |
| `hosting` | 49 536 | Both notebooks, with one step back or restart while tasks come and go: `SearchFindsLeast`, `InvokesOwnTask`, `TrainsOnOneScale`, `GoodAnswer`, `FinishedIsClean`, `EndsOrIsStuck`. |

Each component's type invariant (`TypeOK`, `EcsTypeOK`, ...) is checked with it,
except where it is proved instead (section 4). Two runs show a claim of the
repository that the code does not keep; `findings` in `PROJECT.json` quotes it:

| Run | Claim and counterexample |
|---|---|
| `model_absent` | The artifact "may become available", so retry. An absent file counts as loaded, and the process never looks again. |
| `metrics_script` | `notify_approval.py` runs "right before the manual approval gate". Its build project gets the SAST reports as only input, so the script is not there, the stage fails, and nobody is asked. |

`Delivery` has the constant `MetricsInput` for that reason: with "SastOutput", what
the stack has, no execution reaches the last two stages. The `delivery` run gives
the project the source bundle it needs, so that the rest of the pipeline is
checked as well; the same properties hold without.

### Observed while modelling

These follow from the models, or from the reading they took, and have no run.

The service:

- A retry or a duplicate delivery marks a finished record PROCESSING again,
  although the lifecycle ends with COMPLETED or FAILED. `AtLeastOnce` therefore
  promises that an outcome is kept, not the status.
- `get_model` stands before the `try` of `process`: an unknown model in a message is
  retried and parked, its record PROCESSING. So is a prediction that DynamoDB
  refuses, which raises out of `mark_completed`, after the `try`.
- The elements of `exog` are not validated, though `openapi.yaml:154-159` asks for rows of
  numbers: text in it is answered 202, raises in `predict` and is retried to the
  dead-letter queue. `PredictableInput` states this as the one exception.
- A message whose body is `null` raises `TypeError` out of `poll_once`; its batch
  neighbours are completed at each delivery and parked all the same.
- The Lambda worker requeues a malformed message that the ECS worker deletes.
- A heartbeat that cannot be written is "non-fatal" to the worker (`worker.py:68`), but not
  to its task: an idle or working task is replaced for it. `ReplacedOnlyWhenSilent`
  says that nothing but such a silence, or a batch as long, gets a task replaced.
- `NaN`, `Infinity`, integers beyond a float, an infinite step count and undecodable
  base64 are answered 500 where 400 is documented; a backend without queue URL is
  answered 404 after its record was saved.
- Racing threads load an artifact more than once although the registry's docstring
  speaks of one load per environment (`LoadsBounded` states what does hold).

The pipeline:

- Even with the script there, the approver gets the security findings only: the
  smoke and load test's results are no input of PublishMetrics ("n/a" in the text),
  though the notification is to carry them (`cicd_stack.py:240-243`).
- An approved execution releases whatever `latest` is by then, also an image that
  was pushed after its tests (`ReleaseIsTested` says only what does hold).
- `cicd_stack.py:144` speaks of updating the Lambda code; only ECS is rolled.
- The API requires IAM signatures (`api_lambda_stack.py:142-144`); the smoke test and
  Locust send unsigned requests.
- Locust exits 1 on any failed request, so `evaluate.py`'s 1 % is never reached; a
  missing 95th percentile counts as 0 and passes.
- `deploy-app.sh` run again with the same key and tag gives an empty change set.
- The load test runs beside the smoke test, whose 60 s per case then compete with
  its backlog.

The notebooks:

- The training job whose model is staged is named in the cell
  (`sm_xgboost_...ipynb:1088`): the model just trained is never the one hosted.
- A search in which no order can be fitted swallows every exception and then raises on its
  empty table (`sarima_...ipynb:611`, `763`), at every run: `NothingFits`.
- Where ARIMA wins, `fit(disp=False, maxiter=200)` raises `TypeError`
  (`sarima_...ipynb:928`): `ArimaWon`.
- A task started before a kernel restart, or by a first run of the same cell, is not
  stopped, and its cluster then cannot be deleted: `TaskLeftBehind`.
- The XGBoost notebook keeps the last address when a task has no network
  interface, so it may ask a stopped or an older task (`InvokesOwnTask` is about
  the other notebook).
- `!docker build` and `!docker push` fail in silence, and an earlier image is hosted.
- Only the last task-definition revision is deregistered; an artifact staged for
  the other route stays.
- `container_sm_xgboost_ca_housing_inference.py` parses JSON outside any `try`: 500.

### Bounds

- *Requests.* In `InferenceService` requests share nothing but a worker's batch,
  and that is left open (any delivery may pause anywhere), so one request is
  enough; the proofs are for any set. `EcsWorker`, where a batch couples
  requests, has two.
- *Receives.* `MaxReceive` is 3 in `lifecycle` and `orderly` (5 in production):
  three deliveries overlap, and the limit is reached. It was also run
  with 4 (256 953 states). In the `ecs_*` runs 1 or 2: the point is the batch.
- *Tasks, batch, pool.* `BatchSize = 2`, `MaxWorkers` 1 or 2 and one or two tasks give a
  full pool, a message waiting for a thread, and two tasks on one message.
  `MaxStops = 1` bounds the number of SIGTERMs.
- *Threads.* Two in `model_cache`; the invariants were also run with three.
  `MaxChanges = 2` bounds how often the artifact is disturbed.
- *Validation.* `NumFeatures = 1` and `MaxSteps = 2` have a length or count
  below, at and above every limit; the proofs are for every value.
- *Lambda batches.* `BatchSize = 2`, two receives and one invocation: a record ahead
  of, or behind, one that raises or cannot be parsed, and a second chance for both.
- *Clocks.* A unit is half a minute; each duration is rounded to the nearest
  (`MCTaskHealth`), and `Reaction` to 0. The templates' own three retries and 300 s were
  run once (594 104 states); the run has two retries, and the least visibility timeout
  that they allow, so that a message comes back as early as it may. The proofs take any durations that meet the
  module's three assumptions. Two tasks and one message, received twice, are what
  one message in two hands takes. `Unwritable` names the tasks whose touches may fail,
  one of the two; in the proofs it is any set.
- *Pipeline.* `Executions = 3` puts one in a stage, one waiting and one
  superseding it; `Pushes = 2` lets the tag move between any two steps. One test case; two
  executions with a case for each backend were also run (57 748 states).
- *Notebooks.* `MaxBacks = 1`, so `MaxRuns = 2` models and two tasks (the module assumes
  both greater than `MaxBacks`, so that no bound blocks a cell). One return or
  restart is what each of the divergences above takes. `Grid = 2` orders, each of
  four outcomes.

`CHECK_DEADLOCK FALSE` stands where a system may be at its end: a settled
message, an answered event, an emptied queue, executions that are over, a finished
or stuck notebook. ECS tasks and threads loop for ever, so the other runs check
deadlock.

### Fairness

- `OrderlySpec`: workers, API and queue go on and the visibility timeout
  elapses; models may always raise. It assumes no failure, so it is used only
  for what the code promises in that case.
- `EcsFairSpec`: the loop of a task goes on (`while self._running`; ECS replaces
  what stopped); a batch that does not end has the task killed (weak fairness of
  `Kill`: the heartbeat goes stale); `receive_message` does not fail for ever
  (strong fairness of `Take`, because a failing poll is repeated every second);
  SQS times out and redrives. A thread need not go on: a model may hang.
- `PromptSpec`: threads go on as well and the visibility timeout is longer than
  a batch (`00-core.yaml` asks that it exceed the longest inference).
- `ModelCache.FairSpec`: threads go on, a started deployment completes.
- `LambdaFairSpec`: the mapping polls, invokes and deletes; an invocation that does
  not return is cut off by the function timeout. The handler may hang.
- `TaskHealth.FairSpec`: time goes on, and what is due happens (timeouts of the poll
  and the back-off, checks, SIGKILL, replacement). Strong for `Tick`, which other
  steps may disable for a moment, and for `Boot`, because a container may be told to
  stop before it has started, but not every time. A batch may hang.
- `Delivery.FairSpec`: the pipeline goes on with something it has to do, because
  builds time out and approvals expire. Nobody need push, no worker need work, no
  deployment need end.
- `Hosting.FairSpec`: the user runs the next cell when it can succeed, and ECS does
  what it was asked. Returns, restarts and deaths need not happen. So `EndsOrIsStuck`
  takes it that AWS answers, the data set is read, and a model that could be fitted is
  evaluated; what a search comes to is not assumed, but is the same at every run.

## 4. What is proved

All proofs hold for every value of the constants, under the named assumptions on
them (`MaxReceive`, `BatchSize`, ... positive; finitely many threads; submissions a
producer can create). Every invariant and every action property that a run checks is
proved, and two refinements.

| Theorem | Says |
|---|---|
| `TypeCorrect`, `Invariance` | `TypeOK` and `Inv` of `InferenceService` |
| `AcceptedTracked`, `DeletedAnswered`, `QueuedUntouched`, `RunningCounted` | the safety invariants of `lifecycle`, `AttemptsCounted` with them |
| `RecordsCoherent` | a record's status agrees with its output and error |
| `OutcomesKept`, `InvalidNeverRequeued` | the action properties `OutcomeKept` and, of `OrderlySpec`, `InvalidIsNotRequeued` |
| `PromiseKept` | `InferenceService` implements `AtLeastOnce` |
| `EcsImplementsService` | `EcsWorker` implements `InferenceService`, for any tasks, batch size, pool |
| `EcsDeletedAnswered` | hence the tasks keep the promise and lose no outcome |
| `EcsTypeCorrect` | `EcsTypeOK`: batches of started deliveries, no larger than allowed, and none kept |
| `CompletedNotParked` | `CompletedIsNotParked` of `PromptSpec`, if no message raises out of `handle_message` |
| `CacheTyped`, `ArtifactPresent` | `ModelCache`: no thread without an instance; none predicts without an artifact |
| `LoadsStayBounded` | `LoadsBounded`: n threads read at most n(n+1)/2 artifacts |
| `ValidationIdempotent` | for all four models, validating a validated input returns it unchanged |
| `Revalidation`, `Predictable`, `AnswersTellTheTrace`, `RouterTypeCorrect` | `RevalidationStable`, `PredictableInput`, `AnswerTellsTrace` and `RouterTypeOK`, for any events |
| `HeldByOne`, `ReplacedSilent` | `HeldAlone` and `ReplacedOnlyWhenSilent`, for any tasks, messages, failing touches and clocks that meet the assumptions of `TaskHealth`; with its `TypeCorrect` and `Invariance` |
| `LambdaImplementsService`, `LambdaDeletedAnswered` | `LambdaWorker` implements `InferenceService`, and so keeps the promise |
| `ParkedExplained`, `LambdaTypeCorrect` | `ParkedIsExplained` and `LambdaTypeOK`, for any batches and invocations |
| `NoneOvertakes`, `PassSound`, `ReleaseTested`, `SucceededLive` | the safety invariants of `delivery`, for any executions, pushes and test cases (`ReleaseTested` if there is one for ECS), and its `TypeCorrect` |
| `HostingTypeCorrect`, `RequestsGoToOwnTask`, `OneScale`, `AnswersAreGood`, `FinishedNotebookIsClean` | `TypeOK` and the invariants of `hosting`, for any tasks, models and steps back |
| `SearchKeepsLeast` | `SearchFindsLeast`, for a grid of any size |

The assumptions of `TaskHealth` are what the templates must respect and do:
`HeartbeatAssumption` (a check, a long poll and a start each fit in
`HEARTBEAT_MAX_AGE`) and `VisibilityAssumption` (the visibility timeout exceeds
`LongestBatch`, the time from a batch's beginning to the SIGKILL of a task that hangs
in it: 60 + 3 * (30 + 5) + 30 s, and ECS's reaction, against 300 s).
`CompletedNotParked` assumes that no ECS message is `not_an_object`: `submit` sends
objects only, and of a foreign sender's other bodies `handle_message` raises, which
leaves its whole batch undeleted, the completed messages too.

Proved, and not an invariant of any run: `TypeOK`, `Inv` and `RecordCoherent` of
`InferenceService`, `TypeOK`, `CacheInv` and `LedgerInv` of `ModelCache`, `TypeOK` and
`Inv` of `TaskHealth`, `ParkedInv` of `LambdaWorker`, `Inv` of `HostingProofs`.

## 5. How the proofs go

`InferenceService`. The safety invariants are not inductive: that a delete finds
an outcome depends on the worker's having stored one, and that on nobody's
having erased it. `Inv` is the conjunction, per request, of
`UnsentIsUntouched` (before the send only `submit` touches a request, and
deliveries are numbered by receives), `WorkerHasRecorded` (a worker past
`mark_processing` has moved the record off QUEUED, one about to delete has stored
an outcome), `StatusIsTrue` and `QueueIsAnswered`. `StepFrame` shows that an
action of r changes nothing of another request, so `FrameKeepsOthers` reduces
each step to one request; `InvStep` then has one step per action. The safety
theorems follow from `Inv`. `PromiseStep` maps each action to an action of
`AtLeastOnce` or a stutter, with `Inv` for the step that finishes a message.

`AttemptsCounted` follows the set of deliveries that run a request
(`RunningDeliveries`): `StepRuns` says that only the step that adds to `attempts` adds
to the set, and one member. `InvalidTakesOneWay` is the action property of one step.

`EcsWorker`. Every action of a task is one of `InferenceService` or leaves its
variables alone (`EcsStep`), so no invariant is needed and its theorems carry over.
`EcsTypeOK` is inductive with the finiteness of the batches; each step does one of a
few things to one batch (`BatchEffect`). `CompletedIsNotParked` is not inductive:
`PromptInv` says that what a task holds is its message's last delivery, in flight and
held by nobody else (`HeldIsCurrent`), that no delivery is abandoned (`BusyIsHeld`),
and that a completed message is deleted or about to be (`CompletedIsAcked`); so it is
never receivable again.

`ModelCache`. `CacheInv` says what each place in a thread's program knows: at
"store" it read an artifact, at "mark" the instance has one. It holds where
the file is always there, complete or not (`"absent" \notin DiskStates`); without
that assumption the property fails, which is the finding of `model_absent`.
`LoadsBounded` counts something no variable remembers. `LedgerInv` says that there is
a set of pairs, thread and instance, as large as `loads`, and a ranking of the
instances by age: a thread reads for an instance once at most, and never for one
older than its own. So of two threads only one can have read for the other's
instance, and `HalfOfThePairs` counts such sets. No assumption on the disk is needed.

`Validation`. `Normal` describes what a validation returns. `ValidatedIsNormal`
shows every result has that form, `NormalIsStable` that validating it changes
nothing. `RouterInv` carries the record from `Save` to the message. The theorem
also justifies an abstraction: in `InferenceService` a valid payload is never
refused by the worker. `AnswerTellsTrace` is inductive with where the event is
(`TraceInv`): what each step of `submit` has done before it can refuse.

`TaskHealth`. `HeldAlone` is not inductive: that nobody receives a held message
depends on how old its holder's heartbeat can be. `Inv` bounds this age by the
failed checks (`NotOlder`) and says that a held message has been hidden for no longer
than that (`HeldIsHidden`); with `VisibilityAssumption` a message cannot reappear
while it is held. `NotYounger` is the opposite bound, which `ReplacedOnlyWhenSilent`
needs: after a failed check the heartbeat is old, or was written since. A touch that fails
leaves the heartbeat alone, so neither bound notices it. That a task in its poll can be unhealthy
only by a failed touch follows from `HeartbeatAssumption`: a poll ends within `MaxAge`. Each step is reduced to the task that takes it (`TaskStepFrame`).

`LambdaWorker`. The refinement needs no invariant. `ParkedInv` says that a held
delivery is its message's last (`HeldIsCurrent`), and that from the end of a delivery
until the next there is a reason it failed (`ReasonKept`); typing comes from
`InferenceService`'s theorem by the refinement. `LambdaTypeOK` rests on the order
within a batch (`Ordered`): one record moves at a time (`OneMoves`), and a record that
is behind one not done with was not begun (`OrderKept`).

`Delivery`. `NoOvertaking` is inductive with typing and `StartedInOrder`: every step
does one of five things to one execution (`Moves`), and `MovesOrdered` takes these
one by one. `ReleaseIsTested` is not: it rests on QA's still running what the
execution deployed when its cases are processed. `QaHasIt` says that it does, as
long as the image is the newest, because whoever deploys meanwhile deploys the
same; `CasesSeen` and the smoke test's `CaseInv` say that a passed test has used it.
A step is that of nobody, of another execution or of the execution itself
(`NobodysStep`, `OthersStep`, `OwnStep`).

`Hosting`. The cells run in order and the user may go back, so what a cell made true
is true from the next cell on, as long as no later cell undoes it: `XgboostPlaces` and
`SarimaPlaces` say what that is (the frames are standardised after "Standardize", no
task is alive after "DeleteCluster", ...), `Types` what every variable holds. The
operations that both notebooks share are treated once (`SharedTypes`, `SharedKeeps`);
`XgboostShares` and `SarimaShares` carry that over to the two instances.
`FinishedIsClean` needs no knowledge of the tasks an earlier kernel started: a cluster
with a task alive is not deleted, and `OthersKeepPlaces` says that no task comes alive
later. `SearchFindsLeast` is about a recursive function. That it exists at all is
proved first (`BestExists`), then what it is after n orders (`BestIsFirstLeast`), both
by induction over a set of numbers (`UpTo`), from the library's theorem that a
nonempty set has a minimal member in a well-founded relation.

Only model-checked: liveness (`ValidEndsTerminal`, `EveryMessageSettles`,
`DrainFinishes`, `RetryFindsArtifact`, `TasksPoll`, `EndsWhereItShould`,
`EveryExecutionEnds`, `EndsOrIsStuck`), which needs fairness and is out of the
prover's reach.

## 6. Assumptions and what is not modelled

- SQS, DynamoDB, CodePipeline, ECS, ECR, S3 and Docker are external, modelled as the
  code uses them: atomic item updates, at-least-once delivery, one execution per
  stage. Not modelled: a redelivery after a successful delete, and SDK retries that
  apply an `ADD attempts` twice (so `AttemptsCounted` bounds from below only).
- The TTL deletes a record days after anybody polls it; a `mark_*` after that would
  create it anew. Nothing in the code waits that long, so it is left out.
- The eventually consistent `get_item` is modelled where a program of the
  repository polls (`SmokeTest`), not for any other client.
- Target tracking is AWS's; in the models a task may be told to stop, or be started,
  at any time.
- IAM, networks, keys and the other CloudFormation resources are declarative;
  `deploy.sh`, `deploy-app.sh` but for its push, and `entrypoint.sh` call one command
  after the other.
- The load that `locustfile.py` makes and its latencies are measurements; of the load
  test its verdict is modelled.
- Numerics: what the models and the notebooks compute, but for which order a search
  chooses and on which scale the data is. Cells that install, explore, plot or
  print, and the checkpoint demonstration, have no state the rest depends on.
- Logging, formatting and CloudWatch metrics.

## 7. Plan

Done: the modules of section 2, in the order of the table, and the proof of every
invariant and action property that is checked. What is left:

1. What the liveness proofs would rest on, as far as it is safety: for `EcsWorker` and
   `LambdaWorker`, that a message not yet settled always has a step ahead of it.
2. The properties of `InferenceService` that `EcsWorker` and `LambdaWorker` inherit by
   refinement, stated of each of them, beyond `EcsDeletedAnswered` and its like.
