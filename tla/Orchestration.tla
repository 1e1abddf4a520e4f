--------------------------- MODULE Orchestration ---------------------------
(***************************************************************************)
(* The execution of a CheckFlow plan, from the request an API process      *)
(* publishes to the terminal status of the execution.  Four processes take *)
(* part:                                                                   *)
(*                                                                         *)
(*   - the API creates execution rows and publishes requests and stop      *)
(*     commands; the realtime process publishes stop and restart commands  *)
(*     received on a WebSocket;                                            *)
(*   - Kafka keeps the events of one topic, in order per partition, for    *)
(*     ever; a partition is chosen by the execution id;                    *)
(*   - the dispatcher handles one event at a time, as a sequence of        *)
(*     effects on the database, the topic and the Celery broker, and       *)
(*     commits the offset of the event afterwards;                         *)
(*   - Celery worker processes run the queued steps and publish how each   *)
(*     one ended.                                                          *)
(*                                                                         *)
(* All executions here are of one plan: executions of different plans      *)
(* share nothing but the partitions and the workers.                       *)
(***************************************************************************)
EXTENDS Integers, Sequences, FiniteSets

CONSTANTS
    Executions,     \* execution ids that may come to exist
    Steps,          \* step ids
    Workers,        \* the processes of the Celery pool
    Partitions,     \* partitions of checkflow.execution-events
    PartitionOf,    \* the partition the producer picks for an execution id
    InitialPlans,   \* active steps, in order, the plan may have
    NoStep,         \* no step: a cache miss, an event about the whole plan
    NoTask,         \* what a worker runs when it is idle
    NoPartition,    \* what the dispatcher handles when it handles nothing
    FaultKinds,     \* the kinds of faults a run admits
    MaxFaults,      \* bound: faults per behaviour
    MaxCommands     \* bound: stop and restart commands per behaviour

Statuses == {"absent", "pending", "running", "completed", "failed", "cancelled"}
RowStatuses == {"running", "completed", "failed"}
PCs == {"idle", "notify_started", "start_step", "run", "notify_completed",
        "notify_failed", "recover", "notify_error", "ack"}
EventTypes == {"requested", "stop-requested", "restart-requested",
               "plan-started", "plan-progressed", "plan-completed",
               "plan-failed", "plan-stopped",
               "step-started", "step-completed", "step-failed"}
AllFaultKinds == {"crash", "lost", "duplicated", "child", "raise", "cache"}

Event == [type : EventTypes, exec : Executions, step : Steps \cup {NoStep}, done : Nat]
Row == [step : Steps, status : RowStatuses]
Tasks == Executions \X Steps

Effect == [op : {"set-status"}, exec : Executions, status : Statuses]
     \cup [op : {"publish"}, event : Event]
     \cup [op : {"enqueue"}, task : Tasks]
     \cup [op : {"revoke"}, exec : Executions]
     \cup [op : {"restart"}]

ASSUME ConstantsAreDistinct ==
    /\ NoStep \notin Steps
    /\ NoTask \notin Tasks
    /\ NoPartition \notin Partitions

(* --concurrency=2 *)
ASSUME WorkersAssumption == IsFiniteSet(Workers)

ASSUME PartitionOfAssumption == PartitionOf \in [Executions -> Partitions]

(* A plan lists each of its active steps once: id is the primary key. *)
ASSUME InitialPlansAssumption ==
    \A p \in InitialPlans :
        /\ p \in Seq(Steps)
        /\ \A i, j \in DOMAIN p : p[i] = p[j] => i = j

ASSUME BoundsAssumption ==
    /\ FaultKinds \subseteq AllFaultKinds
    /\ MaxFaults \in Nat
    /\ MaxCommands \in Nat

VARIABLES
    log,            \* per partition, every event published, in order
    offset,         \* per partition, the dispatcher's committed offset
    mode,           \* the dispatcher is "polling", "handling" or "down"
    current,        \* the partition of the event being handled
    todo,           \* effects of that event still to happen
    status,         \* plan_executions.status
    rows,           \* step_executions, per execution, in insertion order
    plan,           \* the plan's active steps, by sequence
    deleted,        \* steps whose deleted_at is set
    unpublished,    \* rows the API created and has not published yet
    cancelling,     \* cancels the API accepted and has not published yet
    queued,         \* copies of each task waiting in the Celery broker
    pc, task,       \* where each worker is, and in which task
    cache,          \* step id under plan-execution:<id> in Redis
    revoking,       \* revoke broadcasts not yet received
    revoked,        \* ids the Celery node remembers as revoked
    faults,         \* faults so far
    commands        \* commands so far

kafkaVars == <<log, offset>>
dispatcherVars == <<mode, current, todo>>
dbVars == <<status, rows>>
catalogVars == <<plan, deleted>>
apiVars == <<unpublished, cancelling>>
outsideVars == <<catalogVars, apiVars>>
workerVars == <<pc, task>>
controlVars == <<revoking, revoked>>
nodeVars == <<queued, workerVars, cache, controlVars>>
boundVars == <<faults, commands>>
vars == <<log, offset, mode, current, todo, status, rows, plan, deleted,
          unpublished, cancelling, queued, pc, task, cache, revoking, revoked,
          faults, commands>>

-----------------------------------------------------------------------------
(* Events, and publishing them. *)

Notice(type, e, s, done) == [type |-> type, exec |-> e, step |-> s, done |-> done]
Requested(e) == Notice("requested", e, NoStep, 0)

(* produce and flush: the caller never learns how many copies arrive.  A   *)
(* delivery report is not read, so none may; the producer retries without  *)
(* idempotence, so two may.                                                *)
Copies(n) ==
    \/ n = 1 /\ UNCHANGED faults
    \/ /\ \/ n = 0 /\ "lost" \in FaultKinds
          \/ n = 2 /\ "duplicated" \in FaultKinds
       /\ faults < MaxFaults
       /\ faults' = faults + 1

Publish(ev, n) ==
    /\ Copies(n)
    /\ log' = [log EXCEPT ![PartitionOf[ev.exec]] = @ \o [i \in 1..n |-> ev]]

Fault(kind) ==
    /\ kind \in FaultKinds
    /\ faults < MaxFaults
    /\ faults' = faults + 1

Command ==
    /\ commands < MaxCommands
    /\ commands' = commands + 1

Init ==
    /\ log = [p \in Partitions |-> <<>>]
    /\ offset = [p \in Partitions |-> 0]
    /\ mode = "polling" /\ current = NoPartition /\ todo = <<>>
    /\ status = [e \in Executions |-> "absent"]
    /\ rows = [e \in Executions |-> <<>>]
    /\ plan \in InitialPlans /\ deleted = {}
    /\ unpublished = {} /\ cancelling = {}
    /\ queued = [t \in Tasks |-> 0]
    /\ pc = [w \in Workers |-> "idle"] /\ task = [w \in Workers |-> NoTask]
    /\ cache = [e \in Executions |-> NoStep]
    /\ revoking = {} /\ revoked = {}
    /\ faults = 0 /\ commands = 0

-----------------------------------------------------------------------------
(* The API and the realtime process. *)

(* PlanExecutionScheduler.schedule, first half: the row is created ... *)
CreateExecution(e) ==
    /\ status[e] = "absent"
    /\ status' = [status EXCEPT ![e] = "pending"]
    /\ unpublished' = unpublished \cup {e}
    /\ UNCHANGED <<kafkaVars, dispatcherVars, rows, catalogVars, cancelling,
                   nodeVars, boundVars>>

(* POST /executions with no scheduled_for. *)
Schedule(e) == CreateExecution(e)

(* POST /executions/{old}/retry: a new execution of the same plan. *)
Retry(old, e) ==
    /\ status[old] \in {"failed", "cancelled"}
    /\ CreateExecution(e)

(* ... second half: and then, in no transaction with it, the request. *)
PublishRequest(e, n) ==
    /\ e \in unpublished
    /\ unpublished' = unpublished \ {e}
    /\ Publish(Requested(e), n)
    /\ UNCHANGED <<offset, dispatcherVars, dbVars, catalogVars, cancelling,
                   nodeVars, commands>>

(* POST /executions/{e}/cancel reads the status and answers 409 when it is *)
(* terminal ...                                                            *)
CancelCheck(e) ==
    /\ Command
    /\ status[e] \in {"pending", "running"}
    /\ cancelling' = cancelling \cup {e}
    /\ UNCHANGED <<kafkaVars, dispatcherVars, dbVars, catalogVars, unpublished,
                   nodeVars, faults>>

(* ... and publishes the command later. *)
CancelPublish(e, n) ==
    /\ e \in cancelling
    /\ cancelling' = cancelling \ {e}
    /\ Publish(Notice("stop-requested", e, NoStep, 0), n)
    /\ UNCHANGED <<offset, dispatcherVars, dbVars, catalogVars, unpublished,
                   nodeVars, commands>>

(* A stop or restart received on the WebSocket is published unchecked.     *)
(* Bound: a client names an execution it has seen.                         *)
WsCommand(type, e, n) ==
    /\ Command
    /\ status[e] # "absent" /\ e \notin unpublished
    /\ Publish(Notice(type, e, NoStep, 0), n)
    /\ UNCHANGED <<offset, dispatcherVars, dbVars, outsideVars, nodeVars>>

-----------------------------------------------------------------------------
(* The dispatcher.  A handler is the sequence of effects it has; what it   *)
(* reads first is only written by the dispatcher itself (the status) or    *)
(* read in one query (the plan), so reading it at the poll loses nothing.  *)

SetStatus(e, s) == [op |-> "set-status", exec |-> e, status |-> s]
Publishing(ev) == [op |-> "publish", event |-> ev]
Enqueue(e, s) == [op |-> "enqueue", task |-> <<e, s>>]

Position(s) == CHOOSE i \in DOMAIN plan : plan[i] = s

(* Seeded bug: the released step is counted as completed. *)
ReleaseMiscounted(type, e, i) ==
    <<Publishing(Notice(type, e, plan[i], i)), Enqueue(e, plan[i])>>

(* Release step i of the plan: tell the subscribers, then queue the task. *)
Release(type, e, i) ==
    <<Publishing(Notice(type, e, plan[i], i - 1)), Enqueue(e, plan[i])>>

Complete(e, done) ==
    <<SetStatus(e, "completed"), Publishing(Notice("plan-completed", e, NoStep, done))>>

(* Seeded bugs: a request is started whatever the status; without setting  *)
(* it; or all steps are released at once.                                  *)
StartUnchecked(e) ==
    <<SetStatus(e, "running")>> \o
    IF plan = <<>> THEN Complete(e, 0) ELSE Release("plan-started", e, 1)

StartWithoutStatus(e) ==
    IF status[e] = "cancelled" THEN <<>>
    ELSE IF plan = <<>> THEN Complete(e, 0) ELSE Release("plan-started", e, 1)

StartReleasesAll(e) ==
    IF status[e] = "cancelled" THEN <<>>
    ELSE <<SetStatus(e, "running")>> \o [i \in DOMAIN plan |-> Enqueue(e, plan[i])]

StartEffects(e) ==
    IF status[e] = "cancelled" THEN <<>>
    ELSE <<SetStatus(e, "running")>> \o
         IF plan = <<>> THEN Complete(e, 0) ELSE Release("plan-started", e, 1)

(* Seeded bugs: the status is not looked at; the last step but one         *)
(* completes the plan.                                                     *)
StepCompletedUnchecked(e, s) ==
    IF Position(s) = Len(plan) THEN Complete(e, Len(plan))
    ELSE Release("plan-progressed", e, Position(s) + 1)

StepCompletedEarly(e, s) ==
    IF status[e] = "cancelled" THEN <<>>
    ELSE IF Position(s) + 1 >= Len(plan) THEN Complete(e, Len(plan))
    ELSE Release("plan-progressed", e, Position(s) + 1)

StepCompletedEffects(e, s) ==
    IF status[e] = "cancelled" THEN <<>>
    ELSE IF Position(s) = Len(plan) THEN Complete(e, Len(plan))
    ELSE Release("plan-progressed", e, Position(s) + 1)

(* Seeded bug: the next step is released after a failure as well. *)
StepFailedContinues(e, s) ==
    <<SetStatus(e, "failed"), Publishing(Notice("plan-failed", e, s, 0))>> \o
    IF Position(s) = Len(plan) THEN <<>>
    ELSE Release("plan-progressed", e, Position(s) + 1)

StepFailedEffects(e, s) ==
    <<SetStatus(e, "failed"), Publishing(Notice("plan-failed", e, s, 0))>>

(* Seeded bug: the stop is reported and the status left as it was. *)
StopOnlyReports(e) == <<Publishing(Notice("plan-stopped", e, NoStep, 0))>>

StopEffects(e) ==
    <<SetStatus(e, "cancelled"),
      [op |-> "revoke", exec |-> e],
      Publishing(Notice("plan-stopped", e, NoStep, 0))>>

(* handle: every other event type is ignored, and then committed. *)
Handle(ev) ==
    CASE ev.type = "requested"         -> StartEffects(ev.exec)
      [] ev.type = "step-completed"    -> StepCompletedEffects(ev.exec, ev.step)
      [] ev.type = "step-failed"       -> StepFailedEffects(ev.exec, ev.step)
      [] ev.type = "stop-requested"    -> StopEffects(ev.exec)
      [] ev.type = "restart-requested" -> <<[op |-> "restart"]>>
      [] OTHER                         -> <<>>

(* step_completed raises when the live plan no longer lists the step.  Here *)
(* the plan is not edited and it never does; see LiveEdits.                *)
Raises(ev) ==
    /\ ev.type = "step-completed"
    /\ status[ev.exec] # "cancelled"
    /\ \A i \in DOMAIN plan : plan[i] # ev.step

NextEvent(p) == log[p][offset[p] + 1]

HasNext(p) == mode = "polling" /\ offset[p] < Len(log[p])

(* An event the handler does nothing about is committed at once: a crash   *)
(* in between would be no different from one before.                       *)
Skip(p) ==
    /\ HasNext(p)
    /\ ~Raises(NextEvent(p)) /\ Handle(NextEvent(p)) = <<>>
    /\ offset' = [offset EXCEPT ![p] = @ + 1]
    /\ UNCHANGED <<log, dispatcherVars, dbVars, outsideVars, nodeVars, boundVars>>

Poll(p) ==
    /\ HasNext(p)
    /\ ~Raises(NextEvent(p)) /\ Handle(NextEvent(p)) # <<>>
    /\ mode' = "handling" /\ current' = p /\ todo' = Handle(NextEvent(p))
    /\ UNCHANGED <<kafkaVars, dbVars, outsideVars, nodeVars, boundVars>>

NextEffectIs(op) == mode = "handling" /\ todo # <<>> /\ Head(todo).op = op

DoSetStatus ==
    /\ NextEffectIs("set-status")
    /\ status' = [status EXCEPT ![Head(todo).exec] = Head(todo).status]
    /\ todo' = Tail(todo)
    /\ UNCHANGED <<kafkaVars, mode, current, rows, outsideVars, nodeVars, boundVars>>

DoPublish(n) ==
    /\ NextEffectIs("publish")
    /\ Publish(Head(todo).event, n)
    /\ todo' = Tail(todo)
    /\ UNCHANGED <<offset, mode, current, dbVars, outsideVars, nodeVars, commands>>

DoEnqueue ==
    /\ NextEffectIs("enqueue")
    /\ queued' = [queued EXCEPT ![Head(todo).task] = @ + 1]
    /\ todo' = Tail(todo)
    /\ UNCHANGED <<kafkaVars, mode, current, dbVars, outsideVars, workerVars, cache,
                   controlVars, boundVars>>

(* The task to revoke is the one the cache mentions last, if any. *)
DoRevoke ==
    /\ NextEffectIs("revoke")
    /\ LET e == Head(todo).exec IN
       revoking' = revoking \cup {t \in Tasks : t[1] = e /\ t[2] = cache[e]}
    /\ todo' = Tail(todo)
    /\ UNCHANGED <<kafkaVars, mode, current, dbVars, outsideVars, queued,
                   workerVars, cache, revoked, boundVars>>

(* Seeded bug: the new execution is stored and its request never published. *)
RestartUnpublished ==
    /\ NextEffectIs("restart")
    /\ \/ \E e \in Executions :
              /\ status[e] = "absent"
              /\ status' = [status EXCEPT ![e] = "pending"]
       \/ /\ \A e \in Executions : status[e] # "absent"
          /\ UNCHANGED status
    /\ todo' = Tail(todo)
    /\ UNCHANGED <<kafkaVars, mode, current, rows, outsideVars, nodeVars, boundVars>>

(* A restart creates a new execution and then publishes its request.       *)
(* Bound: it has no effect once every execution id is used.                *)
DoRestart ==
    /\ NextEffectIs("restart")
    /\ \/ \E e \in Executions :
              /\ status[e] = "absent"
              /\ status' = [status EXCEPT ![e] = "pending"]
              /\ todo' = <<Publishing(Requested(e))>> \o Tail(todo)
       \/ /\ \A e \in Executions : status[e] # "absent"
          /\ todo' = Tail(todo)
          /\ UNCHANGED status
    /\ UNCHANGED <<kafkaVars, mode, current, rows, outsideVars, nodeVars, boundVars>>

Commit ==
    /\ mode = "handling" /\ todo = <<>>
    /\ offset' = [offset EXCEPT ![current] = @ + 1]
    /\ mode' = "polling" /\ current' = NoPartition
    /\ UNCHANGED <<log, todo, dbVars, outsideVars, nodeVars, boundVars>>

DoEffect == DoSetStatus \/ (\E n \in 0..2 : DoPublish(n)) \/ DoEnqueue \/ DoRevoke \/ DoRestart

-----------------------------------------------------------------------------
(* The Celery node.  acks_late: a message leaves the broker for good only  *)
(* when its task has ended, so a copy a worker holds is one Restart can    *)
(* put back.                                                               *)

Exec(w) == task[w][1]
Step(w) == task[w][2]

(* Seeded bug: a message is delivered that the broker no longer holds. *)
TakeAgain(w, t) ==
    /\ pc[w] = "idle" /\ t \notin revoked
    /\ queued' = [queued EXCEPT ![t] = @ - 1]
    /\ pc' = [pc EXCEPT ![w] = "notify_started"]
    /\ task' = [task EXCEPT ![w] = t]
    /\ UNCHANGED <<kafkaVars, dispatcherVars, dbVars, outsideVars, cache,
                   controlVars, boundVars>>

Take(w, t) ==
    /\ pc[w] = "idle" /\ queued[t] > 0 /\ t \notin revoked
    /\ queued' = [queued EXCEPT ![t] = @ - 1]
    /\ pc' = [pc EXCEPT ![w] = "notify_started"]
    /\ task' = [task EXCEPT ![w] = t]
    /\ UNCHANGED <<kafkaVars, dispatcherVars, dbVars, outsideVars, cache,
                   controlVars, boundVars>>

(* A revoked task is acknowledged without being run. *)
Discard(t) ==
    /\ queued[t] > 0 /\ t \in revoked
    /\ queued' = [queued EXCEPT ![t] = @ - 1]
    /\ UNCHANGED <<kafkaVars, dispatcherVars, dbVars, outsideVars, workerVars,
                   cache, controlVars, boundVars>>

Goto(w, next) == pc' = [pc EXCEPT ![w] = next]

(* notify: the cache is written first, then the event is published. *)
Notify(w, type, n) ==
    /\ cache' = [cache EXCEPT ![Exec(w)] = Step(w)]
    /\ Publish(Notice(type, Exec(w), Step(w), 0), n)

NotifyStarted(w, n) ==
    /\ pc[w] = "notify_started"
    /\ Notify(w, "step-started", n)
    /\ Goto(w, "start_step")
    /\ UNCHANGED <<offset, dispatcherVars, dbVars, outsideVars, queued, task,
                   controlVars, commands>>

(* start_step inserts a row: one per attempt, not one per step. *)
StartStep(w) ==
    /\ pc[w] = "start_step"
    /\ rows' = [rows EXCEPT ![Exec(w)] = Append(@, [step |-> Step(w), status |-> "running"])]
    /\ Goto(w, "run")
    /\ UNCHANGED <<kafkaVars, dispatcherVars, status, outsideVars, queued, task,
                   cache, controlVars, boundVars>>

(* finish_step updates the step's newest row, whoever inserted it. *)
IsNewest(e, s, i) ==
    /\ rows[e][i].step = s
    /\ \A j \in DOMAIN rows[e] : j > i => rows[e][j].step # s

(* Seeded bug: the query forgets to filter by step. *)
FinishEveryRow(e, s, result) ==
    rows' = [rows EXCEPT ![e] = [i \in DOMAIN @ |-> [@[i] EXCEPT !.status = result]]]

FinishStep(e, s, result) ==
    rows' = [rows EXCEPT ![e] =
        [i \in DOMAIN @ |-> IF IsNewest(e, s, i) THEN [step |-> s, status |-> result]
                                                 ELSE @[i]]]

(* The request and its assertions: both results are always possible but    *)
(* for a deleted step, which repository.get does not find.                 *)
Passes(w) ==
    /\ pc[w] = "run" /\ Step(w) \notin deleted
    /\ FinishStep(Exec(w), Step(w), "completed")
    /\ Goto(w, "notify_completed")
    /\ UNCHANGED <<kafkaVars, dispatcherVars, status, outsideVars, queued, task,
                   cache, controlVars, boundVars>>

Fails(w) ==
    /\ pc[w] = "run" /\ Step(w) \notin deleted
    /\ FinishStep(Exec(w), Step(w), "failed")
    /\ Goto(w, "notify_failed")
    /\ UNCHANGED <<kafkaVars, dispatcherVars, status, outsideVars, queued, task,
                   cache, controlVars, boundVars>>

(* No step, no connection, no variable of that name, no path in the body. *)
RunRaises(w) ==
    /\ pc[w] = "run"
    /\ Goto(w, "recover")
    /\ UNCHANGED <<kafkaVars, dispatcherVars, dbVars, outsideVars, queued, task,
                   cache, controlVars, boundVars>>

(* A database, Redis or Kafka call of the task raises.  Inside the try it  *)
(* leads to the except block; inside that block it ends the task.          *)
CallRaises(w) ==
    /\ Fault("raise")
    /\ \/ /\ pc[w] \in {"notify_started", "start_step", "notify_completed", "notify_failed"}
          /\ Goto(w, "recover")
       \/ /\ pc[w] \in {"recover", "notify_error"}
          /\ Goto(w, "ack")
    /\ UNCHANGED <<kafkaVars, dispatcherVars, dbVars, outsideVars, queued, task,
                   cache, controlVars, commands>>

(* except: fail the newest row of the step, if there is one. *)
Recover(w) ==
    /\ pc[w] = "recover"
    /\ FinishStep(Exec(w), Step(w), "failed")
    /\ Goto(w, "notify_error")
    /\ UNCHANGED <<kafkaVars, dispatcherVars, status, outsideVars, queued, task,
                   cache, controlVars, boundVars>>

NotifyCompleted(w, n) ==
    /\ pc[w] = "notify_completed"
    /\ Notify(w, "step-completed", n)
    /\ Goto(w, "ack")
    /\ UNCHANGED <<offset, dispatcherVars, dbVars, outsideVars, queued, task,
                   controlVars, commands>>

NotifyFailed(w, n) ==
    /\ pc[w] \in {"notify_failed", "notify_error"}
    /\ Notify(w, "step-failed", n)
    /\ Goto(w, "ack")
    /\ UNCHANGED <<offset, dispatcherVars, dbVars, outsideVars, queued, task,
                   controlVars, commands>>

GoIdle(w) ==
    /\ pc' = [pc EXCEPT ![w] = "idle"]
    /\ task' = [task EXCEPT ![w] = NoTask]

Ack(w) ==
    /\ pc[w] = "ack"
    /\ GoIdle(w)
    /\ UNCHANGED <<kafkaVars, dispatcherVars, dbVars, outsideVars, queued, cache,
                   controlVars, boundVars>>

(* The pool process dies: the message is acknowledged all the same,        *)
(* because task_reject_on_worker_lost is not set.                          *)
ChildLost(w) ==
    /\ Fault("child")
    /\ pc[w] # "idle"
    /\ GoIdle(w)
    /\ UNCHANGED <<kafkaVars, dispatcherVars, dbVars, outsideVars, queued, cache,
                   controlVars, commands>>

(* revoke(terminate=True): the node remembers the id, and one process that *)
(* runs it is terminated; SystemExit passes by `except Exception`.         *)
RevokeArrives(t) ==
    /\ t \in revoking
    /\ revoking' = revoking \ {t}
    /\ revoked' = revoked \cup {t}
    /\ \/ \E w \in Workers : pc[w] # "idle" /\ task[w] = t /\ GoIdle(w)
       \/ /\ \A w \in Workers : pc[w] = "idle" \/ task[w] # t
          /\ UNCHANGED workerVars
    /\ UNCHANGED <<kafkaVars, dispatcherVars, dbVars, outsideVars, queued, cache, boundVars>>

-----------------------------------------------------------------------------
(* The environment. *)

(* setex: the entry expires; a later notify writes it again. *)
CacheExpires(e) ==
    /\ Fault("cache")
    /\ cache[e] # NoStep
    /\ cache' = [cache EXCEPT ![e] = NoStep]
    /\ UNCHANGED <<kafkaVars, dispatcherVars, dbVars, outsideVars, queued,
                   workerVars, controlVars, commands>>

(* Seeded bug: enable.auto.commit, which commits when the consumer closes. *)
CrashCommitting ==
    /\ Fault("crash")
    /\ mode # "down"
    /\ mode' = "down" /\ current' = NoPartition /\ todo' = <<>>
    /\ offset' = [p \in Partitions |-> IF p = current THEN offset[p] + 1 ELSE offset[p]]
    /\ UNCHANGED <<log, dbVars, outsideVars, nodeVars, commands>>

(* One process of the container ends, and honcho ends the others.  The     *)
(* dispatcher stops first; the others may still act until Restart.         *)
Crash ==
    /\ Fault("crash")
    /\ mode # "down"
    /\ mode' = "down" /\ current' = NoPartition /\ todo' = <<>>
    /\ UNCHANGED <<kafkaVars, dbVars, outsideVars, nodeVars, commands>>

(* restart: unless-stopped.  The database, the topic, the cache and the    *)
(* broker are other containers; what the API and the node held in memory   *)
(* is gone, and the broker redelivers what the workers had not             *)
(* acknowledged.                                                           *)
Restart ==
    /\ mode = "down"
    /\ mode' = "polling"
    /\ unpublished' = {} /\ cancelling' = {}
    /\ queued' = [t \in Tasks |->
                     queued[t] + Cardinality({w \in Workers : pc[w] # "idle" /\ task[w] = t})]
    /\ pc' = [w \in Workers |-> "idle"] /\ task' = [w \in Workers |-> NoTask]
    /\ revoking' = {} /\ revoked' = {}
    /\ UNCHANGED <<kafkaVars, current, todo, dbVars, catalogVars, cache, boundVars>>

-----------------------------------------------------------------------------
ApiStep ==
    \/ \E e \in Executions :
          \/ Schedule(e)
          \/ \E old \in Executions : Retry(old, e)
          \/ CancelCheck(e)
          \/ \E n \in 0..2 :
                \/ PublishRequest(e, n)
                \/ CancelPublish(e, n)
                \/ WsCommand("stop-requested", e, n)
                \/ WsCommand("restart-requested", e, n)

DispatcherStep == (\E p \in Partitions : Skip(p) \/ Poll(p)) \/ DoEffect \/ Commit

Execute(w) ==
    \/ \E n \in 0..2 : NotifyStarted(w, n) \/ NotifyCompleted(w, n) \/ NotifyFailed(w, n)
    \/ StartStep(w) \/ Passes(w) \/ Fails(w) \/ RunRaises(w) \/ Recover(w) \/ Ack(w)

NodeStep ==
    \/ \E w \in Workers : Execute(w) \/ CallRaises(w) \/ ChildLost(w)
    \/ \E t \in Tasks : Discard(t) \/ RevokeArrives(t) \/ (\E w \in Workers : Take(w, t))

Environment == (\E e \in Executions : CacheExpires(e)) \/ Crash \/ Restart

Next == ApiStep \/ DispatcherStep \/ NodeStep \/ Environment

Spec == Init /\ [][Next]_vars

(***************************************************************************)
(* Fairness.  The consumer loop polls for ever and its handler calls       *)
(* return (each has a client timeout); a task's request has a timeout;     *)
(* the broker is first in first out, so that no task waits for ever; the   *)
(* API publishes what it accepted; docker restarts the container.  Nobody  *)
(* has to request anything, and no fault has to happen.                    *)
(***************************************************************************)
Fairness ==
    /\ \A p \in Partitions : WF_vars(Skip(p) \/ Poll(p))
    /\ WF_vars(DoEffect \/ Commit) /\ WF_vars(Restart)
    /\ \A w \in Workers : WF_vars(Execute(w))
    /\ \A t \in Tasks : WF_vars(Discard(t) \/ \E w \in Workers : Take(w, t))
    /\ WF_vars(\E t \in Tasks : RevokeArrives(t))
    /\ \A e \in Executions :
          WF_vars(\E n \in 0..2 : PublishRequest(e, n) \/ CancelPublish(e, n))

FairSpec == Spec /\ Fairness

-----------------------------------------------------------------------------
(* What can be seen of an execution. *)

History(e) == log[PartitionOf[e]]

Logged(type, e, s) ==
    \E i \in DOMAIN History(e) :
        History(e)[i].type = type /\ History(e)[i].exec = e /\ History(e)[i].step = s

Passed(e, s) == Logged("step-completed", e, s)

(* Workers that have taken a task of e and not yet told how it ended. *)
Running(e) == {w \in Workers : pc[w] \notin {"idle", "ack"} /\ Exec(w) = e}

Waiting(e) == {s \in Steps : queued[<<e, s>>] > 0}

(* Every step before s in the plan has passed, in this execution. *)
PredecessorsPassed(e, s) ==
    \A i, j \in DOMAIN plan : plan[i] = s /\ j < i => Passed(e, plan[j])

TypeOK ==
    /\ log \in [Partitions -> Seq(Event)]
    /\ offset \in [Partitions -> Nat]
    /\ mode \in {"polling", "handling", "down"}
    /\ current \in Partitions \cup {NoPartition}
    /\ mode = "handling" => current \in Partitions
    /\ todo \in Seq(Effect)
    /\ status \in [Executions -> Statuses]
    /\ rows \in [Executions -> Seq(Row)]
    /\ plan \in Seq(Steps) /\ deleted \subseteq Steps
    /\ unpublished \subseteq Executions /\ cancelling \subseteq Executions
    /\ queued \in [Tasks -> Nat]
    /\ pc \in [Workers -> PCs]
    /\ task \in [Workers -> Tasks \cup {NoTask}]
    /\ \A w \in Workers : pc[w] # "idle" => task[w] \in Tasks
    /\ cache \in [Executions -> Steps \cup {NoStep}]
    /\ revoking \subseteq Tasks /\ revoked \subseteq Tasks
    /\ faults \in Nat /\ commands \in Nat

(* An execution is COMPLETED, or reported as completed, only when every    *)
(* step of its plan has passed in it: no crash, duplicate or loss makes    *)
(* the dispatcher count a step it has no event for (the plan is not edited *)
(* here).                                                                  *)
CompletionIsEarned ==
    \A e \in Executions :
        status[e] = "completed" \/ Logged("plan-completed", e, NoStep) =>
            \A i \in DOMAIN plan : Passed(e, plan[i])

(* A task waits in the broker or runs only if every earlier step of the    *)
(* plan has passed in its execution: "the next step is only enqueued after *)
(* step.execution.completed.v1", under every fault.                        *)
ReleasedInOrder ==
    \A t \in Tasks :
        queued[t] > 0 \/ (\E w \in Workers : pc[w] # "idle" /\ task[w] = t)
            => PredecessorsPassed(t[1], t[2])

(* Why it is so, effect by effect: an event that reports a step, or the     *)
(* whole plan, as passed, an effect the dispatcher is about to have and a   *)
(* completed status all rest on the events of the steps before.  Together   *)
(* with ReleasedInOrder this is inductive.                                  *)
AllPassed(e) == \A i \in DOMAIN plan : Passed(e, plan[i])

EventsAreEarned ==
    /\ \A p \in Partitions : \A i \in DOMAIN log[p] : PartitionOf[log[p][i].exec] = p
    /\ \A e \in Executions :
          /\ \A s \in Steps : Passed(e, s) => PredecessorsPassed(e, s)
          /\ Logged("plan-completed", e, NoStep) => AllPassed(e)

EffectsAreEarned ==
    \A i \in DOMAIN todo : \A e \in Executions :
        /\ \A s \in Steps : todo[i] = Enqueue(e, s) => PredecessorsPassed(e, s)
        /\ todo[i] = SetStatus(e, "completed") => AllPassed(e)
        /\ todo[i].op = "publish" =>
              /\ todo[i].event.type # "step-completed"
              /\ todo[i].event.type = "plan-completed" /\ todo[i].event.exec = e => AllPassed(e)

StatusIsEarned == \A e \in Executions : status[e] = "completed" => AllPassed(e)

ProgressIsEarned ==
    ReleasedInOrder /\ EventsAreEarned /\ EffectsAreEarned /\ StatusIsEarned

(* The offset of a request is committed only after the request was         *)
(* answered, whatever crashed in between: no execution waits in PENDING    *)
(* behind a committed request.                                             *)
CommittedRequestsAreAnswered ==
    \A p \in Partitions : \A i \in 1..offset[p] :
        log[p][i].type = "requested" => status[log[p][i].exec] \notin {"absent", "pending"}

(* Without a redelivery, a stop once handled is never undone: the          *)
(* execution stays cancelled, or failed if the step that was running       *)
(* failed.  (With one, a failure overwrites CANCELLED and a second copy of *)
(* the step may then carry on.)                                            *)
StopsAreKept ==
    \A p \in Partitions : \A i \in 1..offset[p] :
        log[p][i].type = "stop-requested" => status[log[p][i].exec] \in {"cancelled", "failed"}

(* The dispatcher queues no task of a cancelled execution: start and       *)
(* step_completed look at the status before they release a step.           *)
CancelledReleasesNothing ==
    [][\A t \in Tasks : mode = "handling" /\ queued'[t] > queued[t]
                            => status[t[1]] # "cancelled"]_vars

(* A cancelled execution stays so, unless a step that was still running    *)
(* reports that it failed.                                                 *)
CancelledIsLeftOnlyToFailed ==
    [][\A e \in Executions :
          status[e] = "cancelled" => status'[e] \in {"cancelled", "failed"}]_vars

(* Without a redelivery, an execution has one step in flight at a time.    *)
OneStepAtATime ==
    \A e \in Executions :
        /\ \A s \in Steps : queued[<<e, s>>] <= 1
        /\ Cardinality(Waiting(e)) + Cardinality(Running(e)) <= 1

(* A failure ends the execution: nothing of a failed execution is queued   *)
(* or running.                                                             *)
FailureEndsExecution ==
    \A e \in Executions : status[e] = "failed" => Waiting(e) = {} /\ Running(e) = {}

(* Without a redelivery, the rows the history endpoint returns are the     *)
(* plan as far as it went: its first steps in order, once each, and all    *)
(* but the last one passed.                                                *)
RowsAreAPlanPrefix ==
    \A e \in Executions :
        /\ Len(rows[e]) <= Len(plan)
        /\ \A i \in DOMAIN rows[e] :
              /\ rows[e][i].step = plan[i]
              /\ i < Len(rows[e]) => rows[e][i].status = "completed"

(* What a subscriber of the execution sees, commands left out. *)
IsProgress(ev) ==
    ev.type \notin {"requested", "stop-requested", "restart-requested", "plan-stopped"}

(* Where the topic tells it. *)
Transcript(e) ==
    {i \in DOMAIN History(e) : History(e)[i].exec = e /\ IsProgress(History(e)[i])}

(* The events that may come first in the transcript of a plan p ... *)
MayOpen(p, a) ==
    IF p = <<>> THEN a.type = "plan-completed"
    ELSE a.type = "plan-started" /\ a.step = p[1] /\ a.done = 0

(* ... and right after a.                                                   *)
MayFollow(p, a, b) ==
    \/ /\ a.type \in {"plan-started", "plan-progressed"}
       /\ b.type \in {"step-started", "step-failed"} /\ b.step = a.step
    \/ /\ a.type = "step-started"
       /\ b.type \in {"step-completed", "step-failed"} /\ b.step = a.step
    \/ /\ a.type = "step-failed"
       /\ b.type = "plan-failed" /\ b.step = a.step
    \/ /\ a.type = "step-completed"
       /\ \E i \in DOMAIN p :
             /\ p[i] = a.step /\ b.done = i
             /\ IF i = Len(p) THEN b.type = "plan-completed"
                ELSE b.type = "plan-progressed" /\ b.step = p[i + 1]

(* Without a redelivery or a loss, the events of an execution tell one     *)
(* sequential run of its plan: each step started, ended and counted before *)
(* the next one, and nothing after the plan has completed or failed.       *)
TranscriptIsARun ==
    \A e \in Executions :
        LET h == History(e)
            told == Transcript(e)
        IN
        \A i \in told :
            LET before == {j \in told : j < i} IN
            /\ before = {} => MayOpen(plan, h[i])
            /\ \A j \in before : (\A k \in before : k <= j) => MayFollow(plan, h[j], h[i])

Terminal(e) == status[e] \in {"completed", "failed", "cancelled"}

(* Every execution whose request was published reaches a terminal status   *)
(* and keeps one, crashes and redeliveries included: a redelivered request *)
(* may set a finished execution back to RUNNING, but not for ever.         *)
Settles ==
    <>[](\A e \in Executions : Logged("requested", e, NoStep) => Terminal(e))

(* Every published stop is handled: the execution ends and is never        *)
(* resumed, unless a fault repeats something (a redelivered failure and a   *)
(* second copy of its step may carry it on).                                *)
StopsTakeEffect ==
    \A e \in Executions :
        Logged("stop-requested", e, NoStep)
            ~> [](status[e] \in {"cancelled", "failed"} \/ faults > 0)

(* A restart command leads to another execution that runs to its end, if no *)
(* fault comes between (as long as there are execution ids left, see        *)
(* DoRestart).                                                              *)
RestartsRunAgain ==
    \A e \in Executions :
        Logged("restart-requested", e, NoStep)
            ~> \E f \in Executions \ {e} :
                   faults > 0 \/ (Logged("requested", f, NoStep) /\ Terminal(f))

-----------------------------------------------------------------------------
(* The machine as its users see it.  A step is being worked on as long as a *)
(* copy of its task waits in the broker or is held by a worker: a crash,    *)
(* which puts the copies back, changes nothing of it.                       *)
InHand(e) ==
    {s \in Steps : queued[<<e, s>>] > 0
                      \/ \E w \in Workers : pc[w] # "idle" /\ task[w] = <<e, s>>}

(* The steps the topic names in events of a type. *)
Told(type, e) ==
    LET h == log[PartitionOf[e]] IN
    {h[i].step : i \in {i \in DOMAIN h : h[i].type = type /\ h[i].exec = e}}

Run == INSTANCE AbstractRun WITH
    phase   <- status,
    stops   <- {e \in Executions : Told("stop-requested", e) # {}},
    working <- [e \in Executions |-> InHand(e)],
    passed  <- [e \in Executions |-> Told("step-completed", e)],
    failed  <- [e \in Executions |-> Told("step-failed", e)]

(* Every step of the processes is a step of AbstractRun or invisible in it, *)
(* under every fault: redelivered and lost events included.                 *)
OrchestrationRuns == Run!Spec
=============================================================================
