# CheckFlow in TLA+

CheckFlow runs plans: ordered lists of HTTP checks. An API process accepts
requests, Kafka carries them, a dispatcher turns them into Celery tasks one step
at a time, workers run the steps, and a realtime process shows what happens and
takes commands. This directory holds TLA+ modules of that machinery, the TLC
configurations that check them on small instances, and proofs of the most
important invariants for every size of instance. All definitions are read from
the Python source; `PROJECT.json` names the lines each one stands for.

## 1. Inventory

| Component | Source | State it keeps | Operations |
|---|---|---|---|
| Execution endpoints, scheduling service | `app/controllers/plan_controller.py`, `app/services/plan_execution_scheduler.py` | nothing between requests | schedule, cancel, retry; each writes a row or reads one, then publishes |
| Kafka event bus | `adapters/kafka/event_bus.py` | topic `checkflow.execution-events` (3 partitions, keyed by execution id), committed offset per consumer group | produce and flush; poll, handle, commit |
| Scheduler process | `consumers/scheduler.py` | APScheduler jobs, in memory | turns a scheduled event into a job, the job into a request |
| Dispatcher, orchestrator | `consumers/task_dispatcher.py`, `app/services/plan_execution_orchestrator.py` | none of its own; `plan_executions.status`, the broker | start, step_completed, step_failed, stop, restart |
| Step worker | `consumers/step_executer.py`, `tasks.py`, `celery_app.py` | Celery broker and node memory; rows of `step_executions` | notify, start_step, run, finish_step, merge_variables |
| Execution repository | `adapters/postgres/execution_repository.py` | `plan_executions`, `step_executions` | create, set_plan_status, start_step, finish_step, merge_variables |
| Latest-state cache | `adapters/redis/cache.py` | one entry per execution, with a TTL | set (by the step), get (by the stop) |
| Plan and step catalogue | `adapters/postgres/plan_repository.py`, `step_repository.py`, `app/services/*_service.py` | `plans`, `steps` with a unique index on live sequences | create, update, delete (soft), reorder |
| Realtime process | `consumers/realtime.py` | open connections | connect, disconnect, broadcast, command |
| Variables, step evaluation | `domain/services/*.py` | none (pure) | render, extract, evaluate assertions |
| Migrations | `migrations/versions/*.py` | the schema | upgrade, downgrade (renumbers steps) |
| HTTP runner, SQLite log, schemas, settings, health | `adapters/http`, `adapters/sqlite`, `app/schemas`, `config`, `app/main.py` | no state the others read | pure I/O and wiring |

How they interact: all coupling is through Kafka, PostgreSQL, Redis and the
Celery broker. The Procfile starts the five processes in one container under
honcho: when one ends, all end, and `restart: unless-stopped` starts them again.
Kafka, Redis and PostgreSQL are containers of their own with volumes and survive.

What is hard here:

- **No transaction spans two stores.** A handler of the dispatcher writes the
  database, publishes and enqueues; a crash between any two of these, or before
  the offset is committed, repeats the whole handler. Nothing is idempotent.
- **Checks and their effects are apart.** Cancel reads the status in the API and
  takes effect in the dispatcher; a stop revokes the task the cache mentions,
  which is the step that reported last, not the one queued last.
- **The plan is live.** The dispatcher looks every completed step up in the plan
  as it is now.
- **Delivery is at least once and at most once at the same time**: the consumer
  repeats, the producer never learns whether a message arrived, and Celery
  acknowledges late but drops the task of a killed pool process.

Correctness, per component: the orchestration must release steps in order and
only when earned, complete only what has passed, end at a failure, honour stops,
answer every request and finish; the scheduler must request each scheduled
execution once, at or after its time; the catalogue must keep the live sequences
of a plan unique and reorder atomically; the realtime process must deliver to
every live subscriber; rendering must be total on defined variables.

`PROJECT.json` lists the hazards one by one, each at its line.

## 2. The modules

| Module | Contents | Extends, uses |
|---|---|---|
| `Orchestration` | API, topic, dispatcher, workers, cache, crashes | `AbstractRun` as an instance |
| `AbstractRun` | what the executions of a plan promise, whatever does the work | |
| `LiveEdits` | edits of the plan while its executions are under way | `Orchestration` |
| `Scheduler` | scheduled events, in-memory jobs, misfires, restarts | |
| `PlanCatalog` | sessions, unique index, soft delete, reorder; the intermediate states of the transactions | `SequenceMigration` |
| `SequenceMigration` | the index of the upgrade, the renumbering of the downgrade | |
| `StepEvaluation` | rendering, extraction and assertions, as operators | |
| `VariableFlow` | the variables of an execution through its steps, retries and repeated tasks | `StepEvaluation` |
| `Realtime` | the consumer thread, broadcasts, connections that come, go and die | |
| `MC...` | instances of each for TLC | the module they are named after |
| `OrchestrationProofs` | type correctness; inductive invariant of progress and completion | `Orchestration` |
| `RunProofs` | what follows a request, a stop and a failure; the refinement of `AbstractRun` | `OrchestrationProofs` |
| `SchedulerProofs` | the scheduler's invariants | `Scheduler` |
| `DeliveryProofs` | what holds as long as nothing is delivered twice: one step at a time, rows, stops, the transcript | `RunProofs` |
| `LiveEditProofs` | what holds however the plan is edited meanwhile | `LiveEdits`, `DeliveryProofs` |
| `RealtimeProofs` | what the clients of the realtime process see | `Realtime` |
| `CatalogProofs` | what every session reads is a plan; deletions are final; the downgrade restores the old constraint at any moment; reorders, deadlocks, requests without company | `PlanCatalog` |
| `VariableProofs` | what the readers of a body and the rendering compute; whole, known and unchanged variables | `VariableFlow` |

## 3. What is modelled, and how

### `Orchestration`

State and where it lives in the program:

| Variables | Program |
|---|---|
| `log`, `offset` | the partitions of the topic, never truncated; the committed offset of group `checkflow-task-dispatcher` |
| `mode`, `current`, `todo` | the dispatcher's consumer loop: the partition of the event in hand and the effects of its handler still to happen |
| `status`, `rows` | `plan_executions.status` (`"absent"`: no row) and `step_executions` in insertion order |
| `plan`, `deleted` | the steps `_active_steps` returns, and those with `deleted_at` set |
| `unpublished`, `cancelling` | API requests between the database and Kafka |
| `queued` | copies of each task in the broker |
| `pc`, `task` | the pool processes and the line of `execute_step` they are at |
| `cache` | `step_id` under `plan-execution:<id>` |
| `revoking`, `revoked` | revoke broadcasts under way; ids the node remembers |
| `faults`, `commands` | counters of the bounds, no program state |

A handler is translated to the sequence of its effects (`StartEffects`,
`StepCompletedEffects`, `StepFailedEffects`, `StopEffects`), computed from what
it reads when the event is polled; each effect is then one action
(`DoSetStatus`, `DoPublish`, `DoEnqueue`, `DoRevoke`, `DoRestart`) and `Commit`
ends the handler. Everything else may happen between two effects, a crash
included. Reading at the poll loses nothing: the status is written by the
dispatcher alone (the API only inserts new rows), and the plan is read in one
query, before the first effect that depends on it. An event whose handler does
nothing is committed in one action (`Skip`); a crash in between would be the same
as one before. A step the plan does not list makes the handler raise, which ends
the process with nothing committed: `PollRaises` of `LiveEdits`, since it takes an
edit of the plan to get there.

`execute_step` is one action per call: `NotifyStarted`, `StartStep`, the request
(`Passes`, `Fails`, `RunRaises`: every outcome is always possible, but a deleted
step is not found), `NotifyCompleted`, `NotifyFailed`, the except block
(`Recover`) and the acknowledgement (`Ack`). `notify` writes the cache and
publishes in one action: nobody can tell which came first but the dispatcher's
stop, which reads the cache only.

Faults, admitted per run by `FaultKinds` and bounded by `MaxFaults`:

| Kind | Action | Why it can happen |
|---|---|---|
| `crash` | `Crash`, then `Restart` | one process ends, honcho ends the others, docker restarts; the broker redelivers what was not acknowledged |
| `lost` | `Copies(0)` | `flush(5)` returns with the message undelivered; nobody reads the report |
| `duplicated` | `Copies(2)` | a producer without idempotence retries |
| `child` | `ChildLost` | a pool process dies; the message is acknowledged all the same |
| `raise` | `CallRaises` | a database, Redis or Kafka call of the task raises |
| `cache` | `CacheExpires` | the entry's TTL |

Abstractions: one plan (executions of different plans share only partitions and
workers); the broker is a bag of tasks rather than a queue, which admits every
order first-in-first-out does and more; the bodies, results, names, timestamps
and variables are left out; a redelivery after a crash happens at `Restart`,
when it may come as late as the broker's visibility timeout (nothing else
depends on the time); a publish appends in the step of its caller, while a message
that is still being retried when `flush(5)` gives up comes later (in `Scheduler`,
where the time matters, the two are apart). `revoked` is never forgotten within one life of the node.

Bounds: `MaxFaults`, `MaxCommands`, the finite pool of execution ids (`DoRestart`
has no effect when it is used up), and that WebSocket clients name executions
they have seen.

### `AbstractRun`, and how `Orchestration` implements it

For each execution its phase, whether somebody asked to stop it, and the sets of
steps that are worked on, passed and failed. There are no processes, events,
queues or faults in it: `Release` lets a step be worked on when the run has begun,
is not cancelled and all steps before it have passed; `Complete` asks for every
step, `Fail` for a failed one, `Cancel` for a request to stop.

`Run` in `Orchestration` is the refinement mapping, from the state alone: the phase
is the status; the steps worked on are those of which a copy waits in the broker
or is held by a worker (`InHand`), so that a crash, which puts the copies back,
is invisible; passed, failed and stopped is what the topic tells (`Told`).
`OrchestrationRuns` holds under every fault; `RunProofs` proves it.

What the abstract run leaves open is what the program leaves open: a finished run
may be started again (a redelivered request), a stop may come after completion,
a step may be released twice.

### `LiveEdits`

Extends `Orchestration` with the edits of the catalogue that change the list the
dispatcher reads: `Reorder`, `SetActive`, `Delete`, `Create`, each one
transaction. `order` lists the steps that are not deleted, `active` is their active
flag, and `plan`, what the dispatcher reads, is the active ones in that order
(`ActiveSteps`); the rest is unchanged. `PollRaises` is the exception of
`step_completed` that ends the dispatcher on the event of a step the plan no longer
lists; `raised` remembers it. It behaves as a crash then: the restart puts back the
tasks the workers held, and the event is still the next one.

### `Scheduler`

Executions scheduled for later, in three processes: the API (`Schedule`, then
`PublishScheduled`; `Cancel`), the scheduler's consumer loop (`Skip`, `AddJob`,
`Commit`) with the APScheduler thread (`Wake`), its executor (`RunJob`) and the
producer the job publishes with (`PublishRequest`), and the dispatcher
(`Dispatch`). `scheduled` and `dispatched` are the committed offsets of the two
consumer groups on one topic, `jobs` the memory job store, `firing` the jobs
handed to the executor, `sending` the requests produced and not yet appended to
the topic, `started` the offset the current process started from, `missed` the
executions a job of which ended without a request.

Three points need care:

- `add_job` with a moment that has passed is accepted; the job is then due at
  once. Only the executor's `run_job` compares the time with the misfire grace
  time (one second by default, `Grace`) and drops what is later.
- After that check nothing looks at the time again: `produce` only fills the
  producer's buffer, `flush(5)` may give up, and the producer retries in the
  background. `PublishRequest` may therefore come at any later moment, and no
  property bounds how late a request is. A job whose last run has not returned is
  dropped by `Wake` (`max_instances`); one whose run has left its request in the
  buffer may be run again.
- The dispatcher is reduced to what it does to an execution that has not been
  started: `StatusAfter` turns PENDING into `"started"` at a request and into
  `"cancelled"` at a stop. What becomes of a started execution is the subject of
  `Orchestration`, so `"started"` is never left here.

Time advances in units of the grace time. `Tick` may outrun an execution that is
on its way (`Underway`) only as a fault of kind `late`; the other fault kinds are
`crash`, `lost` and `duplicated`, as above.

### `PlanCatalog`

The steps of one plan under concurrent requests of the API. Each client's request
(`req`) runs session by session, as the code opens them: `FindPlan`
(`plan_service.get`), `ListSteps` (the next position), `Add`, `Get` (the
service's lookup), `Load` (the SELECT of the session that writes). The statements of
the writing session (`todo`) then run one by one: `LockRow` writes the row's
version under its lock, `EnterIndex` passes the unique index of live sequences,
`Violate` is the IntegrityError no endpoint catches (500), `Commit` publishes the
versions. A statement waits for a row another transaction has locked and for an
index entry another transaction may still withdraw; PostgreSQL breaks circles
(`AbortDeadlock`). A reorder parks each of its steps at the negative of its place
in the list it selected; that SELECT has no ORDER BY, so `Load` admits every
listing (`Listings`), and two reorders may park at the same sequence. Row locks, index waits and the order of a flush are those of
PostgreSQL and SQLAlchemy and are marked external.

Of a step only its sequence and its deletion are kept, of the plan whether it is
deleted. What a read sees is always committed; that it is a plan
(`SequencesAreUnique`) is what lets `LiveEdits` take an edit as one step.

The downgrade of the migration is the operator `Downgraded` of `SequenceMigration`, on
any table of ids, positions and deletion marks and any order of the deletion
times; `DowngradeSucceeds` applies it to every table the API can leave behind.
The index of the upgrade is the one `EnterIndex` and `Duplicates` maintain.

### `StepEvaluation` and `VariableFlow`

A JSON value is a function from the paths of its nodes to the nodes, each a tag and a
payload: what the program does by recursion over a value is here one function of
its nodes, and `Below` is the value at a path. (`IsValue` says which functions are
values: every node but the root lies below lists and dicts alone. The elements of
a list are numbered as paths name them.) A string is a sequence of tokens: literals,
placeholders, and `str()` of a value. `Render` puts what `InPlaceOf` says in the place
of each node: of a string that is one placeholder the variable's value, with its
type; any other string is joined as text. `ReadPath` (of `Extract`) and
`ReadBodyPath` are the two readers of a path, part by part as the code reads them; only
the first enters lists. `Compare` has the two operators of the assertions, with
Python's equality of numbers and booleans.

`VariableFlow` follows the map of variables in the execution's row. An attempt at a
step is one action per session or call: `RenderRequest` reads the row, `Run` has the
request, the assertions and the extraction, `MergeRead` and `MergeWrite` are the two
halves of `merge_variables`, `ReportCompleted` and `ReportFailed` the end. What
`Orchestration` says about events and rows is folded into the reports: one releases
the next step or ends the execution. A task may be queued twice, a call may raise,
the node may restart. `Schedule`, `Retry` and `WsRestart` differ in the map a row starts
with: the client's, the previous row's as it is then, none.

### `Realtime`

The thread (`Poll`, `Commit`) hands every event to the event loop as a broadcast of its
own; `Start` takes the connections of the plan as they are then and sends to the
first, `Continue` sends to the next when the socket has drained. Several
broadcasts are under way at a time (`sending`). A connection is `"broken"` between
the loss of its client and the moment the endpoint notices, `"dead"` when the
endpoint ended with an exception that leaves it in the manager. A restart loses
connections and broadcasts and polls again what was not committed.

The manager keeps the connections of a plan in a dictionary, whose order is that of
insertion. Here they are a set, `connections`, and each connection has the number it
was accepted at (`arrival`): a broadcast sends to the foremost of those it has
left (`rest`), which is what iterating over a copy of the dictionary does, and
removing a connection disturbs nobody's place.

Taken from the libraries, not from this repository: tasks of the loop start in
the order they were created, and those that wait at one socket go on in the
order they arrived. The topic is one partition here: order across partitions is
nowhere promised.

## 4. Runs

All runs use `CHECK_DEADLOCK FALSE`: a system with nothing to do is idle, and
clients need not ask for anything.

| Run | Module | Instance | Shows |
|---|---|---|---|
| `Faults` | `MCOrchestration` | 1 execution, plans of 1 and 2 steps, 1 worker, 1 command, 1 fault of any of the six kinds | `TypeOK`, `CommittedRequestsAreAnswered`, `CompletionIsEarned`, `ProgressIsEarned`, `CancelledReleasesNothing`, `CancelledIsLeftOnlyToFailed`, `OrchestrationRuns` |
| `Delivery` | `MCOrchestration` | 1 execution, plans of 0 to 3 steps, 2 workers, 2 commands, 1 of killed process / raising call / expired entry | `OneStepAtATime`, `FailureEndsExecution`, `RowsAreAPlanPrefix`, `StopsAreKept`, `TranscriptIsARun` |
| `Liveness` | `MCOrchestration` | 2 executions, plans of 1 and 2 steps, 1 worker, 1 command or 1 crash / duplicate / expiry, fair | `Settles`, `RestartsRunAgain`, `StopsTakeEffect` |
| `LiveEdits` | `MCLiveEdits` | 1 execution, plan of 2 and a spare step, 2 workers, 1 command, 2 edits of any of the four kinds | `CommittedRequestsAreAnswered`, `SequentialUntilRaised` |
| `Scheduler` | `MCScheduler` | 1 execution, moments 0 to 4, 3 faults of any of the four kinds, fair | `TypeOK`, `KeptSinceTheStart`, `CancelledSchedulesDoNotRun`, `FaultsRepeatRequests`, `RequestsAreDue`, `FutureSchedulesAreRequested` |
| `PlanCatalog` | `MCPlanCatalog` | 2 API threads, 4 requests of 15 payloads, up to 3 steps, three initial plans, fair | `TypeOK`, `SequencesAreUnique`, `DowngradeSucceeds`, `DeadlocksHaveACause`, `DeletionsAreFinal`, `LoneRequestsSucceed`, `ReorderedAsAsked`, `RequestsAreAnswered` |
| `Variables` | `MCVariableFlow` | 2 executions, a plan of 3 steps, 4 responses, 2 workers, 1 repeated task / restart / raising call | `TypeOK`, `ExtractsAreWhole`, `CompletedStepsAreKnown`, `ValuesTravelUnchanged`, `ReadersAgree` |
| `Realtime` | `MCRealtime` | 3 connections to 2 plans, 3 events, 1 fault of any of the four kinds, fair | `TypeOK`, `FollowersSeeARun`, `NobodyIsToldTwice`, `FollowersAreTold` |

The bounds and why they are enough for the question each run asks:

- **One partition.** Executions interact only through the order of their
  partition and the pool of workers; sharing one partition is the worst case.
- **A plan of two steps** has a first, a last and one hand-over between steps;
  `Delivery` goes to three, so that there is a step that is neither, and to
  zero, the branch of `start` that completes at once.
- **One fault** already allows every placement of it between any two calls of
  any process. `Faults` combines it with a command, because a stop under
  redelivery is where the status is overwritten: both in plans of one step, either
  in plans of two (`CommandOrFault`).
- **Two executions, one after the other** in `Liveness` (`OnceE1IsOver`): a restart
  needs a second id. Without it, two executions only wait for each other in the
  partition, and `PoisonEvent` has those. `OneAtATime` keeps command and fault apart, as
  `StopsTakeEffect` and `RestartsRunAgain` promise nothing after a fault; both cut
  only actions that no fairness asks for.
- **A plan of three steps** in `Variables`: a value is extracted by the first, used by
  the second and still there for the third, which extracts one of the names again, as
  a refreshed token would be. The responses lack a body value, lack a
  header, fail, or contain text that looks like a placeholder. Executions share
  nothing but workers, so the second starts when the first is over and the view
  then leaves the first out (`SecondView`).
- **Three connections** in `Realtime`: one that ends, one after it on the same plan, one
  on another plan. Three events: one before, during and after.
- **Two workers** where two copies of a step could run at the same time;
  one where the properties do not look at workers.
- **Two commands** in `Delivery`: a stop after a stop, a stop after a restart.
- **Three faults** in `Scheduler`: a duplicate, a crash and a delay in one
  behaviour. One execution is enough there, since executions share nothing but
  the topic and the clock; the proofs of section 6 cover any number.
- **Two threads and four requests** in `PlanCatalog`: each pair of requests meets
  at every statement, from a state two others have prepared (a deleted step, a
  gap, a step more than the reorder names). Four are needed to see the deadlock
  of two reorders (section 5). The payloads hold one of each kind that
  is treated differently: reorders of all steps, of some, and with a repeated
  position; moves to taken and free positions and to where the step is.
- **Two edits** in `LiveEdits`: one may undo or complete what the other did (withdraw a
  step and give it back, move one and add another) with any work between them.
- `LiveEdits` cuts the topic at `MaxEvents` events (`ShortTopic`): a withdrawn
  step is polled again after every restart without end.

`FutureView` (in `MCOrchestration`) identifies states that differ only in the
committed part of the topic and in the rows. Nothing reads either again, so the
behaviours that follow are the same; `Decided` keeps of the committed part what
the properties of the runs that use the view read, the refinement mapping
included: requests, passed and failed steps, reported completions and commands.
`Delivery` reads rows and transcripts and uses no view. `AlikeWorkers` is a symmetry of
the safety runs only.

**Fairness** (`Fairness` in each module) and its grounds in the code. The
consumer loop is `while True`, and its handlers make calls that return: weak
fairness of `Skip \/ Poll` for each partition (librdkafka polls the partitions in
turn), of `DoEffect \/ Commit` and of `Restart` (`restart: unless-stopped`). Pool
processes take what is in the broker and go on: weak fairness of each process,
and for each task that it is taken or discarded. A broadcast revoke arrives. An API
handler that has written its row goes on to publish. In `Scheduler` the clock
and the APScheduler thread go on too. No client is assumed to do anything, no
fault is assumed to happen or to stop happening (their number is bounded by
`MaxFaults`), and strong fairness is used nowhere. In
`PlanCatalog` each API thread goes on, and PostgreSQL aborts a transaction of every
deadlock. In `Realtime` the event loop runs what is ready, and a socket drains or
is ended by the server's keepalive; a thread that has died stays dead.

## 5. Where the program differs from what is said of it

Four runs expect a violation; each checks one statement taken from the
repository and finds a behaviour of the code that contradicts it.

| Run | Statement | What happens |
|---|---|---|
| `Redelivery` | README: "a failure ends the plan execution" | a step fails and is reported, and the dispatcher sets FAILED; a crash before its worker has acknowledged the task gives the task back to the broker (`task_acks_late`), and it runs again in the failed execution, whose status nobody checks. (A request polled again after a crash, which queues its first step a second time, is another way there.) |
| `PoisonEvent` | summary of the execution endpoint: the next step is released "automaticamente" | a step deactivated while it runs makes the dispatcher raise, restart and poll the same event for ever; other executions of the partition are not served |
| `LostJobs` | README: the scheduler "turns scheduled events into execution requests" | a restart before a job has fired loses it, and its event, being committed, is not read again |
| `DeafSubscribers` | README: "Connect to the WebSocket to follow an entire plan `Execution`" | a message that is no command ends the endpoint and leaves the connection in the manager; every broadcast raises at it, and the clients accepted after it hear nothing more |

More of the code's behaviour shows in what the passing properties do *not* promise:

- A cancel accepted in time may be handled after the completion: COMPLETED becomes
  CANCELLED. `AbstractRun!Cancel` therefore asks only that somebody asked to stop.
- A stop revokes the task of the step the cache names, which is the one that
  reported last: a step queued since runs to its end after the stop was
  reported, so `StopsTakeEffect` promises the status and not that nothing runs.
- Under redelivery a stopped execution may become FAILED and a second copy of its step
  may carry it on: `StopsAreKept` is checked without a crash or a duplicate, and
  `CancelledIsLeftOnlyToFailed` is what holds with them.
- An execution whose row was written and whose request never published stays
  PENDING (`CommittedRequestsAreAnswered` speaks of requests that reached the topic).
- After a reorder the position of the finished step is another, and an execution may
  complete without one of its steps: `CompletionIsEarned` is a property of
  `Orchestration` and not of `LiveEdits`, and `SequentialUntilRaised` is what is left. It
  says nothing after the dispatcher has raised, since the restart that follows
  redelivers the workers' tasks as after a crash.
- Two reorders can deadlock although each locks rows in the order of their ids:
  ids are drawn when a creation flushes and steps appear when it commits. A creation
  draws id 1, another draws 2 and commits, a reorder lists step 2 alone, the first
  creation commits, and a reorder of both steps locks 1 and waits for 2, while the
  first one waits for the index entry of step 1, which the second has replaced but
  not committed. `DeadlocksHaveACause` therefore names two causes: a move by update,
  and a reorder that overlooks a step of a smaller id than one of its own.
- Two copies of a step that merge their variables at a time may lose each other's
  update: `CompletedStepsAreKnown` excepts the executions in `raced`.
- A retry starts with all variables of the previous execution, the extracted ones
  included, although the README calls the context isolated; a restart from the
  WebSocket starts with none, not even those the client gave.
- A subscriber misses events when a connection accepted before its own ends, even
  in an orderly way: the broadcasts waiting there end with it (`disturbed`).

## 6. Proofs

The theorems hold for every set of executions and steps, every finite pool of
workers, every plan in `InitialPlans` without repeated steps and every number of
faults. They assume only the `ASSUME`s of the modules: partitions are assigned by
`PartitionOf`, plans are sequences of distinct steps, workers are finitely many, the absent values
(`NoStep`, `NoTask`, `NoPartition`, `NoTime`) are no members of the sets they
complement, bounds are naturals. Those of the catalogue hold for any finite set of
clients, any payloads the schemas accept, any initial rows that are a plan.

**`OrchestrationProofs`**: `TypeCorrect` and completion. `TypeOK` is inductive; one lemma for
each group of actions (API, dispatcher, execution of a task, node, environment),
and `HandleType` for the effects a handler computes.

`ProgressIsEarned` is the strengthening that makes
`CompletionIsEarned` inductive. Completion is decided from one event, the
completion of the last step; that the *other* steps have passed is nowhere in the
state but in the history, so the invariant must say of everything that carries
work forward, in the order it flows, that it was earned: a queued or running
task rests on the completions of all steps before it (`ReleasedInOrder`), an
event in the topic on what it reports (`EventsAreEarned`), an effect still to
happen likewise (`EffectsAreEarned`), and so does the status (`StatusIsEarned`).
Every step keeps each part because the topic only grows: `Remembered` says that
passed steps remain passed, and the lemmas `ReleasedKept`, `EffectsKept` and
`StatusKept` reduce each action to what it adds. `HandleIsEarned` is the heart:
the effects of handling an earned event are earned, which uses that the plan
lists each step once (with the index of its *first* occurrence the code would
otherwise jump back). From it follow `EarnedIsInductive`, `ProgressCorrect` and
`CompletionCorrect`, under all six kinds of faults.

**`RunProofs`**: what surrounds a run, and the refinement. The invariant `RunInv`
has four parts, each there because a handler's effects happen one by one, some
time after they were computed:

- `Known`: whatever the topic, the API or the queue says is about an execution
  that exists, and what they report is about one that has begun. A late copy of a
  task or event can therefore not be the first that is heard of a run.
- `HandlerIsGuarded`: every effect still to happen agrees with the status *now*,
  although it was computed from an earlier one: a run or a task of a cancelled
  execution is never still to come, since the effects of a stop are never queued
  together with others. This gives `CancelledReleasesCorrect`, and
  `CancelledIsLeftCorrect`: only a failed task, reported later, changes a
  cancelled execution.
- `RequestInHand` and `CommittedIsBegun`: the offset moves past a request only
  when its `running` has been written. Commit and effects are separate steps
  with crashes between them, so neither is inductive without the other;
  together they give `CommittedAnsweredCorrect`.

`RunInv` does not mention the plan, so that it serves `LiveEditProofs` too. That a
handler queues only tasks of listed steps is kept apart (`ReleasesListed`).

`ImplementsAbstractRun` is `Spec => OrchestrationRuns`. An abstract execution
holds the tasks that are queued or on a worker (`Held`) and has been told the
results the topic reports (`Told`). Most steps are silent (`SilentStep`: neither
changes); a task enters (`EnterStep`) when the dispatcher queues it, also when it
queues it a second time; a redelivered copy or a node that dies moves a task that
is held anyway; it leaves (`LeaveStep`) when its last copy does. Of each action
there is one lemma, `Runs...`, that says which abstract step it is.

**`DeliveryProofs`**: the properties of the run `Delivery`. They fail when a crash
or a duplicated message repeats what was done, which `Redelivery` shows, and are
therefore stated under `NoRedelivery` (`FaultKinds` has neither `"crash"` nor
`"duplicated"`), as the run checks them; tasks may still raise, pool processes die,
cache entries expire and messages get lost. The invariant `TurnInv` says
that an execution has one *turn*, and where it is:

- `OneTurn`: of its request not yet published, a request or report the dispatcher
  has not taken up (`Due`), an effect that queues or requests (`Carries`), a task
  in the broker and a task with a worker, there is at most one, in one copy.
- `TurnFits`: what status and rows are then, place by place: the worker at
  `start_step` of the step at place k finds k - 1 passed rows, a report of it finds k.
- `HandlerFits`: the effects still to happen are the end of one of a few scripts
  (start, release, complete, fail, stop, restart), each with what it takes for granted. The
  handler of a restart publishes for an execution that has had no turn.

`OneStepCorrect`, `FailureCorrect`, `RowsCorrect` and `StopsCorrect` are read off
it. For the transcript, also `NoLoss` is needed: a lost event is a gap in it.
`TalkInv` adds to each place of the turn what subscribers were told last
(`TurnTold`), to each effect that a handler may say it now (`EffectTold`), and
that what was told so far is a run (`RunSoFar`); `TranscriptCorrect` follows.

**`LiveEditProofs`**: `EditSpec` lets the plan become another between any two steps of
the processes, so nothing that ties work to its place in the plan is left
(`ProgressIsEarned`, `TurnFits`, `HandlerFits`). What is left does not mention the plan:

- `KnownInv` is `RunInv` with `Keyed`, that an event is in the partition of its execution.
  `KnownStep` reuses `RunStep`; an edit leaves all it speaks of as it was (`Edited`), and so does
  the exception but for the mode (`Failed`). `EditTypesCorrect` and
  `CommittedAnsweredUnderEdits` follow, under every fault.
- `CalmInv` keeps of `TurnInv` that an execution has one turn, wherever the released step stands, and
  that a failed one has none. `HandlerIsCalm` says what that takes of a handler
  in the middle: at most one of its effects gives a turn (`Turning`), a restart is all its
  handler does, and `failed` is written only where the turn has ended. `HandleReleases`
  shows it of every handler for every plan. Each step is then `Calm` for all
  executions but the one whose turn moves. Under `NoRedelivery` it is inductive until
  the dispatcher raises (`SteadyInvIsInductive`), which gives `SequentialCorrect`.

**`RealtimeProofs`**: for any connections, plans, events and faults.
`NobodyIsToldTwice` and `FollowersSeeARun` need to know what is on its way:

- `Ordered`: the broadcasts started so far are those of the first `started` events;
  those waiting for the loop are the next ones, without a gap.
- `Walking`: a broadcast has only connections of its plan left, accepted after
  the one it is at, and no event is broadcast twice at a time.
- `Follows`, for a client none before whom has ended: broadcasts on their way to it come to it
  (`Comes`: nobody ahead of it ends them), do not overtake each other (`InTurn`: an earlier one is
  further along, or earlier in the queue of the same socket), and leave nothing out (`NoGap`).

A restart ends all connections at once, so that events polled again reach only
clients that have not seen them; this is why `Heard` speaks of open connections alone.

**`SchedulerProofs`**: `SchedulerTypeCorrect` needs that the event in hand exists
(`InHand`). `KeptCorrect` adds that it is kept as soon as its job is added
(`HandIsKept`), since the commit comes later; `OnlyRestartsForget` then
shows that in a process that is never restarted *no* committed schedule is
forgotten, so the restart is the only cause of what `LostJobs` finds.
`RequestsDueCorrect` rests on `Jobs`: a job exists only for a published
schedule, and is handed to the executor, and its request to the producer, only
when due; existence of its moment comes from the row, which is written before
anything is published. `RequestsCounted` counts what may still become a request of
an execution (the row not yet written or published, scheduled events not read, the job, its run,
what is being sent) together with its requests in the topic: their sum exceeds one
by the number of faults at most. The event in hand and the job made of it count
once, which is where `add_job` with `replace_existing`, and a crash that loses the
job but not the event, come in. `CancelledCorrect` needs that only a
handled request makes an execution started (`StartedWereRequested`).

**`VariableProofs`**: first what the definitions of `StepEvaluation` compute.
`ReadPathIs` and `ReadBodyPathIs` say what the two recursive readers return on *every*
value and path. The induction is a least counterexample: the recursion has one
solution, and where a candidate differs from it there is a first place
(`SmallestExists`) where it does, the part before it being right.
`RenderKeeps`: a node that is one placeholder is replaced by the whole value of its
variable, and no other node's replacement reaches into its place (`OnePlace`: a text has
nothing below it, so neither of two nodes at overlapping places can be above the other).

The invariant `FlowInv` is about rows and about what workers hold of them:

- `Whole`, `Sourced`: every row, and the map a worker has read and not yet written
  (`base`), is the given variables overlaid, in *some* order of the steps, by the
  extractions of one passed response per step; and each value has a source. An order
  is needed because steps may extract a name in common, and the last to write it has
  it. A merge makes its step the last of the order (`LaysOver`, `LastInOrder`),
  whatever it was before. `base` is included because a racing merge writes it
  back, however old it is. Both only need the history to grow (`Grows`), which a new
  row, whose execution nobody works on, is the only exception from.
- what a worker is about to merge is the extraction of one recorded response;
- while a row is not `raced`, the map read is the row as it is, and there is one
  writer (`WritersRace`): a merge then only adds names, so that a step about to be reported is
  known, and stays so.

Nothing is assumed of the names the steps extract; bodies of plans and responses
are JSON values (`IsValue`), and the number of workers is finite.

**`CatalogProofs`**: `CatalogInv` adds to the types what the unique index and the
row locks keep, in the middle of transactions as well as between them:

- `Locks`: a row version has one writer, and only open transactions have any.
- `Entries`: no two entries of the index are equal, those of committed rows and
  those of open transactions together; only the entry a transaction replaces is
  exempt. `EnterIndexKeeps` is where PostgreSQL's two checks (`Duplicates` against
  what has ended, `Undecided` against what has not) add up to this.
- `Detours`: a reorder parks steps at negative sequences, so "positive" is not
  inductive. Every version without a position is followed, in the same flush, by a
  statement that gives it one (`Settled` of what is still to be flushed,
  `Positioned` of what has been). It rests on `PermuteSettles`: the flush, ordered
  by primary key, lists every step once in each half, and parks no two at one
  sequence, however the SELECT listed them (`ListingLists`, `ReorderingBy`).
- `Finality`: a version of a deleted row is deleted, since an UPDATE starts from
  the version committed last and writes only the columns it changes.
- `Asked`, `Room`, `PerClient`: what a session still has of its request; that
  there is room for the rows being inserted (a matter of the model's bound only).

The second invariant, `WorkInv`, is about what a request has still to do and has
done, statement by statement:

- `Reordering`: the statements left to a reorder park steps in the order of their ids before
  they place any, each step locked is placed or still to be, each one not locked still to be parked.
  Hence `ReorderCorrect`: at the commit all are placed.
- `OneRow`, `OwnRows`, `Kept`: any other request writes one row; an insert's row is its own; a
  statement without a position leaves the committed one.
- `Undisturbed`: a request that has had the plan to itself so far finds it as it read it, so
  that no lookup fails, no position it drew is taken and nobody is waited for
  (`LoneRequestsCorrect`), and a reorder names exactly the live steps.

`DeadlocksCorrect` holds for circles of any size. Suppose nobody in the circle moves a step
or overlooks one. Whoever is waited for waits itself, so it is a reorder: a request that
writes one row and waits has locked that row alone and is in the way of nobody unless it moves
the step (`WaitersReorderOrMove`). A reorder that waits for another waits for one that
holds a larger id than all of its own (`ReordersWaitUpwards`: the row it waits at, or whose index entry it waits for, is one of its
own still to be parked, which happens in the order of the ids, or one that is not its own, whose id
is larger since it overlooks none), and the one that holds the largest id of the circle cannot.

`SequencesCorrect` and `DeletionsCorrect` follow directly from `CatalogInv`, `DowngradeCorrect` with
`RenumberedIsDistinct`: renumbering leaves no two rows of
a plan with one sequence, for every table whose live sequences are distinct and every
order of the deletions. `RankIsPosition`, `LargestExists` and `LargestPosition` are
the facts about finite sets of naturals it takes.

Only model-checked are the liveness properties (`Settles`, `StopsTakeEffect`,
`RestartsRunAgain`, `FutureSchedulesAreRequested`, `FollowersAreTold`,
`RequestsAreAnswered`), since neither fairness nor ENABLED is within the prover's
reach. Every safety property of a passing run is proved.

## 7. Not modelled

- The HTTP request itself (`HttpxActionRunner`): its result is left open.
- The API's wiring, settings, health check and OpenAPI; the SQLite log of internal
  errors: no state that another part reads.
- Validation of single payloads, and names, bodies, timestamps and result columns
  of rows and events. With it the percent-encoding that pydantic's `AnyHttpUrl`
  applies to a `{{name}}` in a URL's path before the step is stored.
- The DDL of the migrations but for the unique index of `0bfa86158762`, whose
  upgrade and downgrade are modelled.
- Creation of plans (an insert that conflicts with nothing).
- WebSocket commands that name an execution that does not exist.
- Kafka rebalances and truncation, the visibility timeout of the Redis broker, more
  than one container: the deployment has one consumer per group, and its compose
  file sets no retention.
