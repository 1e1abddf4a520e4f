------------------------ MODULE OrchestrationProofs ------------------------
(* Theorems about Orchestration, for every value of its constants. *)
EXTENDS Orchestration, FiniteSetTheorems, TLAPS

-----------------------------------------------------------------------------
(* What a handler may do is well typed.  Where it places a completed step,  *)
(* the plan lists that step: otherwise it raises.                           *)
LEMMA HandleType ==
    ASSUME TypeOK, NEW ev \in Event, ~Raises(ev)
    PROVE  Handle(ev) \in Seq(Effect)
<1> DEFINE e == ev.exec
<1>0. /\ e \in Executions /\ ev.type \in EventTypes /\ ev.step \in Steps \cup {NoStep}
      /\ plan \in Seq(Steps)
  BY DEF Event, TypeOK
<1>1. ASSUME NEW type \in EventTypes, NEW s \in Steps \cup {NoStep}, NEW n \in Nat
      PROVE  Publishing(Notice(type, e, s, n)) \in Effect
  BY <1>0 DEF Publishing, Notice, Effect, Event
<1>2. ASSUME NEW st \in Statuses
      PROVE  SetStatus(e, st) \in Effect
  BY <1>0 DEF SetStatus, Effect
<1>3. ASSUME NEW type \in EventTypes, NEW i \in DOMAIN plan
      PROVE  Release(type, e, i) \in Seq(Effect)
  <2>1. plan[i] \in Steps /\ i - 1 \in Nat
    BY <1>0
  <2>2. Enqueue(e, plan[i]) \in Effect
    BY <1>0, <2>1 DEF Enqueue, Effect, Tasks
  <2> QED
    BY <1>1, <2>1, <2>2 DEF Release
<1>4. ASSUME NEW n \in Nat
      PROVE  Complete(e, n) \in Seq(Effect)
  BY <1>1, <1>2 DEF Complete, Statuses, EventTypes
<1>5. StartEffects(e) \in Seq(Effect)
  <2>1. <<SetStatus(e, "running")>> \in Seq(Effect)
    BY <1>2 DEF Statuses
  <2>2. plan # <<>> => 1 \in DOMAIN plan
    BY <1>0
  <2>3. "plan-started" \in EventTypes
    BY DEF EventTypes
  <2>4. (IF plan = <<>> THEN Complete(e, 0) ELSE Release("plan-started", e, 1)) \in Seq(Effect)
    BY <1>3, <1>4, <2>2, <2>3
  <2> QED
    BY <2>1, <2>4 DEF StartEffects
<1>6. CASE ev.type = "step-completed"
  <2>1. CASE status[e] = "cancelled"
    BY <1>6, <2>1 DEF Handle, StepCompletedEffects
  <2>2. CASE status[e] # "cancelled"
    <3>1. PICK i \in DOMAIN plan : plan[i] = ev.step
      BY <1>6, <2>2 DEF Raises
    <3>2. Position(ev.step) \in DOMAIN plan
      BY <3>1 DEF Position
    <3>3. Position(ev.step) # Len(plan) => Position(ev.step) + 1 \in DOMAIN plan
      BY <1>0, <3>2
    <3>4. "plan-progressed" \in EventTypes
      BY DEF EventTypes
    <3>5. Len(plan) \in Nat
      BY <1>0
    <3>6. StepCompletedEffects(e, ev.step) \in Seq(Effect)
      BY <1>3, <1>4, <2>2, <3>3, <3>4, <3>5 DEF StepCompletedEffects
    <3> QED
      BY <1>6, <3>6 DEF Handle
  <2> QED
    BY <2>1, <2>2
<1>7. StepFailedEffects(e, ev.step) \in Seq(Effect)
  <2>1. SetStatus(e, "failed") \in Effect
    BY <1>2 DEF Statuses
  <2>2. Publishing(Notice("plan-failed", e, ev.step, 0)) \in Effect
    BY <1>0, <1>1 DEF EventTypes
  <2> QED
    BY <2>1, <2>2 DEF StepFailedEffects
<1>8. StopEffects(e) \in Seq(Effect)
  <2>1. [op |-> "revoke", exec |-> e] \in Effect
    BY <1>0 DEF Effect
  <2> QED
    BY <1>1, <1>2, <2>1 DEF StopEffects, Statuses, EventTypes
<1>9. <<[op |-> "restart"]>> \in Seq(Effect)
  BY DEF Effect
<1> QED
  BY <1>5, <1>6, <1>7, <1>8, <1>9 DEF Handle

(* Publishing keeps the topic well typed, however many copies arrive. *)
LEMMA PublishType ==
    ASSUME TypeOK, NEW ev \in Event, NEW n \in 0..2, Publish(ev, n)
    PROVE  /\ log' \in [Partitions -> Seq(Event)]
           /\ faults' \in Nat
<1>1. [i \in 1..n |-> ev] \in Seq(Event)
  OBVIOUS
<1>2. PartitionOf[ev.exec] \in Partitions
  BY PartitionOfAssumption DEF Event
<1>3. log[PartitionOf[ev.exec]] \o [i \in 1..n |-> ev] \in Seq(Event)
  BY <1>1, <1>2 DEF TypeOK
<1>4. log' \in [Partitions -> Seq(Event)]
  BY <1>2, <1>3 DEF TypeOK, Publish
<1>5. faults' \in Nat
  BY DEF TypeOK, Publish, Copies
<1> QED
  BY <1>4, <1>5

(* An event the dispatcher reads next is one somebody published. *)
LEMMA NextEventType ==
    ASSUME TypeOK, NEW p \in Partitions, HasNext(p)
    PROVE  NextEvent(p) \in Event
BY DEF TypeOK, HasNext, NextEvent

(* The effect a handler has next, and those after it, are well typed. *)
LEMMA HeadType ==
    ASSUME TypeOK, todo # <<>>
    PROVE  Head(todo) \in Effect /\ Tail(todo) \in Seq(Effect)
BY DEF TypeOK

(* Updating the newest row of a step leaves a sequence of rows. *)
LEMMA FinishStepType ==
    ASSUME TypeOK, NEW e \in Executions, NEW s \in Steps,
           NEW result \in RowStatuses, FinishStep(e, s, result)
    PROVE  rows' \in [Executions -> Seq(Row)]
<1>1. rows[e] \in Seq(Row)
  BY DEF TypeOK
<1>2. [step |-> s, status |-> result] \in Row
  BY DEF Row
<1>3. [i \in DOMAIN rows[e] |-> IF IsNewest(e, s, i) THEN [step |-> s, status |-> result]
                                                     ELSE rows[e][i]] \in Seq(Row)
  BY <1>1, <1>2
<1> QED
  BY <1>3 DEF TypeOK, FinishStep

(* A task is queued once more, or once less, and the others as often. *)
LEMMA OneMoreQueued ==
    ASSUME TypeOK, NEW t \in Tasks, queued' = [queued EXCEPT ![t] = @ + 1]
    PROVE  /\ queued' \in [Tasks -> Nat]
           /\ queued[t] \in Nat /\ queued'[t] = queued[t] + 1
           /\ \A u \in Tasks : u # t => queued'[u] = queued[u]
<1>1. queued \in [Tasks -> Nat]
  BY DEF TypeOK
<1> QED
  BY <1>1

LEMMA OneLessQueued ==
    ASSUME TypeOK, NEW t \in Tasks, queued[t] > 0, queued' = [queued EXCEPT ![t] = @ - 1]
    PROVE  /\ queued' \in [Tasks -> Nat]
           /\ queued[t] \in Nat /\ queued'[t] = queued[t] - 1
           /\ \A u \in Tasks : u # t => queued'[u] = queued[u]
<1>1. queued \in [Tasks -> Nat]
  BY DEF TypeOK
<1>2. queued[t] - 1 \in Nat
  BY <1>1
<1> QED
  BY <1>1, <1>2

(* A worker that is not idle holds a task. *)
LEMMA BusyWorker ==
    ASSUME TypeOK, NEW w \in Workers, pc[w] # "idle"
    PROVE  /\ task[w] \in Tasks /\ task[w] = <<Exec(w), Step(w)>>
           /\ Exec(w) \in Executions /\ Step(w) \in Steps
BY DEF TypeOK, Tasks, Exec, Step

LEMMA NoticeType ==
    ASSUME NEW type \in EventTypes, NEW e \in Executions, NEW s \in Steps \cup {NoStep}
    PROVE  Notice(type, e, s, 0) \in Event
BY DEF Notice, Event

LEMMA TypeInit == Init => TypeOK
<1> SUFFICES ASSUME Init PROVE TypeOK
  OBVIOUS
<1>1. plan \in Seq(Steps)
  BY InitialPlansAssumption DEF Init
<1> QED
  BY <1>1 DEF Init, TypeOK, Statuses, PCs

LEMMA TypeApi ==
    ASSUME TypeOK, ApiStep
    PROVE  TypeOK'
<1> USE DEF kafkaVars, dispatcherVars, dbVars, outsideVars, catalogVars, apiVars,
            nodeVars, workerVars, controlVars, boundVars
<1>1. ASSUME NEW e \in Executions, CreateExecution(e)
      PROVE  TypeOK'
  BY <1>1 DEF CreateExecution, TypeOK, Statuses
<1>2. ASSUME NEW e \in Executions, CancelCheck(e)
      PROVE  TypeOK'
  BY <1>2 DEF CancelCheck, Command, TypeOK
<1>3. ASSUME NEW e \in Executions, NEW n \in 0..2, PublishRequest(e, n)
      PROVE  TypeOK'
  <2>1. Requested(e) \in Event
    BY NoticeType DEF Requested, EventTypes
  <2>2. log' \in [Partitions -> Seq(Event)] /\ faults' \in Nat
    BY <1>3, <2>1, PublishType DEF PublishRequest
  <2> QED
    BY <1>3, <2>2 DEF PublishRequest, TypeOK
<1>4. ASSUME NEW e \in Executions, NEW n \in 0..2, CancelPublish(e, n)
      PROVE  TypeOK'
  <2>1. Notice("stop-requested", e, NoStep, 0) \in Event
    BY NoticeType DEF EventTypes
  <2>2. log' \in [Partitions -> Seq(Event)] /\ faults' \in Nat
    BY <1>4, <2>1, PublishType DEF CancelPublish
  <2> QED
    BY <1>4, <2>2 DEF CancelPublish, TypeOK
<1>5. ASSUME NEW e \in Executions, NEW n \in 0..2,
             NEW type \in {"stop-requested", "restart-requested"}, WsCommand(type, e, n)
      PROVE  TypeOK'
  <2>1. Notice(type, e, NoStep, 0) \in Event
    BY NoticeType DEF EventTypes
  <2>2. log' \in [Partitions -> Seq(Event)] /\ faults' \in Nat
    BY <1>5, <2>1, PublishType DEF WsCommand
  <2> QED
    BY <1>5, <2>2 DEF WsCommand, Command, TypeOK
<1> QED
  BY <1>1, <1>2, <1>3, <1>4, <1>5 DEF ApiStep, Schedule, Retry

LEMMA TypeDispatcher ==
    ASSUME TypeOK, DispatcherStep
    PROVE  TypeOK'
<1> USE DEF kafkaVars, dispatcherVars, dbVars, outsideVars, catalogVars, apiVars,
            nodeVars, workerVars, controlVars, boundVars
<1>1. ASSUME NEW p \in Partitions, Skip(p)
      PROVE  TypeOK'
  BY <1>1 DEF Skip, TypeOK
<1>2. ASSUME NEW p \in Partitions, Poll(p)
      PROVE  TypeOK'
  <2>1. Handle(NextEvent(p)) \in Seq(Effect)
    BY <1>2, NextEventType, HandleType DEF Poll
  <2> QED
    BY <1>2, <2>1 DEF Poll, TypeOK
<1>3. CASE DoSetStatus
  <2>1. /\ Tail(todo) \in Seq(Effect)
        /\ Head(todo).exec \in Executions /\ Head(todo).status \in Statuses
    BY <1>3, HeadType DEF DoSetStatus, NextEffectIs, Effect
  <2> QED
    BY <1>3, <2>1 DEF DoSetStatus, NextEffectIs, TypeOK
<1>4. ASSUME NEW n \in 0..2, DoPublish(n)
      PROVE  TypeOK'
  <2>1. Tail(todo) \in Seq(Effect) /\ Head(todo).event \in Event
    BY <1>4, HeadType DEF DoPublish, NextEffectIs, Effect
  <2>2. log' \in [Partitions -> Seq(Event)] /\ faults' \in Nat
    BY <1>4, <2>1, PublishType DEF DoPublish
  <2> QED
    BY <1>4, <2>1, <2>2 DEF DoPublish, NextEffectIs, TypeOK
<1>5. CASE DoEnqueue
  <2>1. Tail(todo) \in Seq(Effect) /\ Head(todo).task \in Tasks
    BY <1>5, HeadType DEF DoEnqueue, NextEffectIs, Effect
  <2>2. queued' \in [Tasks -> Nat]
    BY <1>5, <2>1, OneMoreQueued DEF DoEnqueue
  <2> QED
    BY <1>5, <2>1, <2>2 DEF DoEnqueue, NextEffectIs, TypeOK
<1>6. CASE DoRevoke
  <2>1. Tail(todo) \in Seq(Effect)
    BY <1>6, HeadType DEF DoRevoke, NextEffectIs
  <2> QED
    BY <1>6, <2>1 DEF DoRevoke, NextEffectIs, TypeOK
<1>7. CASE DoRestart
  <2>1. Tail(todo) \in Seq(Effect)
    BY <1>7, HeadType DEF DoRestart, NextEffectIs
  <2>2. ASSUME NEW e \in Executions
        PROVE  <<Publishing(Requested(e))>> \o Tail(todo) \in Seq(Effect)
    <3>1. Requested(e) \in Event
      BY NoticeType DEF Requested, EventTypes
    <3> QED
      BY <2>1, <3>1 DEF Publishing, Effect
  <2>3. todo' \in Seq(Effect)
    BY <1>7, <2>1, <2>2 DEF DoRestart
  <2>4. status' \in [Executions -> Statuses]
    BY <1>7 DEF DoRestart, TypeOK, Statuses
  <2> QED
    BY <1>7, <2>3, <2>4 DEF DoRestart, NextEffectIs, TypeOK
<1>8. CASE Commit
  BY <1>8 DEF Commit, TypeOK
<1> QED
  BY <1>1, <1>2, <1>3, <1>4, <1>5, <1>6, <1>7, <1>8 DEF DispatcherStep, DoEffect

LEMMA TypeExecute ==
    ASSUME TypeOK, NEW w \in Workers, Execute(w)
    PROVE  TypeOK'
<1> USE DEF kafkaVars, dispatcherVars, dbVars, outsideVars, catalogVars, apiVars,
            nodeVars, workerVars, controlVars, boundVars
<1>1. pc[w] # "idle"
  BY DEF Execute, NotifyStarted, NotifyCompleted, NotifyFailed, StartStep, Passes, Fails,
         RunRaises, Recover, Ack
<1>2. /\ task[w] \in Tasks
      /\ Exec(w) \in Executions /\ Step(w) \in Steps
  BY <1>1, BusyWorker
<1>3. ASSUME NEW n \in 0..2, NEW type \in EventTypes, NEW next \in PCs,
             Notify(w, type, n), Goto(w, next),
             UNCHANGED <<offset, dispatcherVars, status, rows, catalogVars, apiVars,
                         queued, task, controlVars, commands>>
      PROVE  TypeOK'
  <2>1. Notice(type, Exec(w), Step(w), 0) \in Event
    BY <1>2, NoticeType
  <2>2. log' \in [Partitions -> Seq(Event)] /\ faults' \in Nat
    BY <1>3, <2>1, PublishType DEF Notify
  <2>3. cache' \in [Executions -> Steps \cup {NoStep}]
    BY <1>2, <1>3 DEF Notify, TypeOK
  <2> QED
    BY <1>2, <1>3, <2>2, <2>3 DEF Goto, TypeOK
<1>4. ASSUME NEW n \in 0..2, NotifyStarted(w, n)
      PROVE  TypeOK'
  <2>1. "step-started" \in EventTypes /\ "start_step" \in PCs
    BY DEF EventTypes, PCs
  <2> QED
    BY <1>3, <1>4, <2>1 DEF NotifyStarted
<1>5. ASSUME NEW n \in 0..2, NotifyCompleted(w, n)
      PROVE  TypeOK'
  <2>1. "step-completed" \in EventTypes /\ "ack" \in PCs
    BY DEF EventTypes, PCs
  <2> QED
    BY <1>3, <1>5, <2>1 DEF NotifyCompleted
<1>6. ASSUME NEW n \in 0..2, NotifyFailed(w, n)
      PROVE  TypeOK'
  <2>1. "step-failed" \in EventTypes /\ "ack" \in PCs
    BY DEF EventTypes, PCs
  <2> QED
    BY <1>3, <1>6, <2>1 DEF NotifyFailed
<1>7. CASE StartStep(w)
  <2>1. Append(rows[Exec(w)], [step |-> Step(w), status |-> "running"]) \in Seq(Row)
    <3>1. rows[Exec(w)] \in Seq(Row)
      BY <1>2 DEF TypeOK
    <3>2. [step |-> Step(w), status |-> "running"] \in Row
      BY <1>2 DEF Row, RowStatuses
    <3> QED
      BY <3>1, <3>2
  <2>2. rows' \in [Executions -> Seq(Row)]
    BY <1>7, <2>1 DEF StartStep, TypeOK
  <2> QED
    BY <1>2, <1>7, <2>2 DEF StartStep, Goto, TypeOK, PCs
<1>8. ASSUME NEW result \in RowStatuses, FinishStep(Exec(w), Step(w), result),
             NEW next \in PCs, Goto(w, next),
             UNCHANGED <<kafkaVars, dispatcherVars, status, catalogVars, apiVars,
                         queued, task, cache, controlVars, faults, commands>>
      PROVE  TypeOK'
  <2>1. rows' \in [Executions -> Seq(Row)]
    BY <1>2, <1>8, FinishStepType
  <2> QED
    BY <1>2, <1>8, <2>1 DEF Goto, TypeOK
<1>9. CASE Passes(w)
  BY <1>8, <1>9 DEF Passes, RowStatuses, PCs
<1>10. CASE Fails(w)
  BY <1>8, <1>10 DEF Fails, RowStatuses, PCs
<1>11. CASE Recover(w)
  BY <1>8, <1>11 DEF Recover, RowStatuses, PCs
<1>12. CASE RunRaises(w)
  BY <1>2, <1>12 DEF RunRaises, Goto, TypeOK, PCs
<1>13. CASE Ack(w)
  BY <1>13 DEF Ack, GoIdle, TypeOK, PCs
<1> QED
  BY <1>4, <1>5, <1>6, <1>7, <1>9, <1>10, <1>11, <1>12, <1>13 DEF Execute

LEMMA TypeNode ==
    ASSUME TypeOK, NodeStep
    PROVE  TypeOK'
<1> USE DEF kafkaVars, dispatcherVars, dbVars, outsideVars, catalogVars, apiVars,
            nodeVars, workerVars, controlVars, boundVars
<1>1. ASSUME NEW w \in Workers, CallRaises(w)
      PROVE  TypeOK'
  <2>1. pc' \in [Workers -> PCs] /\ pc[w] # "idle"
    BY <1>1 DEF CallRaises, Goto, TypeOK, PCs
  <2>2. \A v \in Workers : pc'[v] # "idle" => task'[v] \in Tasks
    BY <1>1, <2>1 DEF CallRaises, Goto, TypeOK
  <2> QED
    BY <1>1, <2>1, <2>2 DEF CallRaises, Fault, TypeOK
<1>2. ASSUME NEW w \in Workers, ChildLost(w)
      PROVE  TypeOK'
  BY <1>2 DEF ChildLost, Fault, GoIdle, TypeOK, PCs
<1>3. ASSUME NEW t \in Tasks, Discard(t)
      PROVE  TypeOK'
  BY <1>3 DEF Discard, TypeOK
<1>4. ASSUME NEW t \in Tasks, RevokeArrives(t)
      PROVE  TypeOK'
  <2>1. revoking' \subseteq Tasks /\ revoked' \subseteq Tasks
    BY <1>4 DEF RevokeArrives, TypeOK
  <2>2. /\ pc' \in [Workers -> PCs] /\ task' \in [Workers -> Tasks \cup {NoTask}]
        /\ \A w \in Workers : pc'[w] # "idle" => task'[w] \in Tasks
    BY <1>4 DEF RevokeArrives, GoIdle, TypeOK, PCs
  <2> QED
    BY <1>4, <2>1, <2>2 DEF RevokeArrives, TypeOK
<1>5. ASSUME NEW t \in Tasks, NEW w \in Workers, Take(w, t)
      PROVE  TypeOK'
  <2>1. queued' \in [Tasks -> Nat]
    BY <1>5 DEF Take, TypeOK
  <2>2. /\ pc' \in [Workers -> PCs] /\ task' \in [Workers -> Tasks \cup {NoTask}]
        /\ \A v \in Workers : pc'[v] # "idle" => task'[v] \in Tasks
    BY <1>5 DEF Take, TypeOK, PCs
  <2> QED
    BY <1>5, <2>1, <2>2 DEF Take, TypeOK
<1> QED
  BY <1>1, <1>2, <1>3, <1>4, <1>5, TypeExecute DEF NodeStep

(* The copies of a task the broker redelivers are finitely many. *)
LEMMA HeldCopies ==
    ASSUME NEW t \in Tasks
    PROVE  LET held == {w \in Workers : pc[w] # "idle" /\ task[w] = t} IN
           /\ Cardinality(held) \in Nat
           /\ Cardinality(held) > 0 => held # {}
<1> DEFINE held == {w \in Workers : pc[w] # "idle" /\ task[w] = t}
<1>1. IsFiniteSet(held)
  BY WorkersAssumption, FS_Subset
<1> QED
  BY <1>1, FS_CardinalityType, FS_EmptySet

LEMMA TypeEnvironment ==
    ASSUME TypeOK, Environment
    PROVE  TypeOK'
<1> USE DEF kafkaVars, dispatcherVars, dbVars, outsideVars, catalogVars, apiVars,
            nodeVars, workerVars, controlVars, boundVars
<1>1. ASSUME NEW e \in Executions, CacheExpires(e)
      PROVE  TypeOK'
  BY <1>1 DEF CacheExpires, Fault, TypeOK
<1>2. CASE Crash
  BY <1>2 DEF Crash, Fault, TypeOK
<1>3. CASE Restart
  <2>1. ASSUME NEW t \in Tasks
        PROVE  queued[t] + Cardinality({w \in Workers : pc[w] # "idle" /\ task[w] = t}) \in Nat
    BY HeldCopies DEF TypeOK
  <2>2. queued' \in [Tasks -> Nat]
    BY <1>3, <2>1 DEF Restart
  <2> QED
    BY <1>3, <2>2 DEF Restart, TypeOK, PCs
<1> QED
  BY <1>1, <1>2, <1>3 DEF Environment

(* Every variable keeps the shape its table, topic or queue gives it; in    *)
(* particular the broker never counts below zero and no handler has an      *)
(* effect on a step outside the plan's.                                     *)
THEOREM TypeCorrect == Spec => []TypeOK
<1>1. TypeOK /\ [Next]_vars => TypeOK'
  <2> SUFFICES ASSUME TypeOK, [Next]_vars PROVE TypeOK'
    OBVIOUS
  <2>1. CASE UNCHANGED vars
    BY <2>1 DEF vars, TypeOK
  <2> QED
    BY <2>1, TypeApi, TypeDispatcher, TypeNode, TypeEnvironment DEF Next
<1> QED
  BY TypeInit, <1>1, PTL DEF Spec

-----------------------------------------------------------------------------
(* An execution of a plan nobody edits is completed only when all its steps *)
(* have passed, whatever crashes, is lost or comes twice.                   *)

(* What is known of the plan besides its type. *)
PlanIsInjective == \A i, j \in DOMAIN plan : plan[i] = plan[j] => i = j

Earned == PlanIsInjective /\ ProgressIsEarned

(* What the topic says of an execution it says for ever. *)
Remembered ==
    /\ plan' = plan
    /\ \A e \in Executions :
          /\ AllPassed(e) => AllPassed(e)'
          /\ \A s \in Steps \cup {NoStep} :
                PredecessorsPassed(e, s) => PredecessorsPassed(e, s)'

LEMMA TopicGrows ==
    ASSUME TypeOK, plan' = plan,
           \A p \in Partitions : \A i \in DOMAIN log[p] :
               i \in DOMAIN log'[p] /\ log'[p][i] = log[p][i]
    PROVE  Remembered
<1>1. ASSUME NEW e \in Executions, NEW s, Passed(e, s)
      PROVE  Passed(e, s)'
  <2>1. PICK i \in DOMAIN History(e) :
            /\ History(e)[i].type = "step-completed"
            /\ History(e)[i].exec = e /\ History(e)[i].step = s
    BY <1>1 DEF Passed, Logged
  <2>2. PartitionOf[e] \in Partitions
    BY PartitionOfAssumption
  <2>3. i \in DOMAIN (History(e)') /\ (History(e)')[i] = History(e)[i]
    BY <2>1, <2>2 DEF History
  <2> QED
    BY <2>1, <2>3 DEF Passed, Logged
<1> QED
  BY <1>1 DEF Remembered, AllPassed, PredecessorsPassed

(* Each place of a joined sequence is a place of one of its parts. *)
LEMMA Concatenated ==
    ASSUME NEW a \in Seq(Event), NEW b \in Seq(Event), NEW c, c = a \o b
    PROVE  /\ Len(a) \in Nat /\ DOMAIN c = 1..(Len(a) + Len(b))
           /\ \A i \in DOMAIN a : i \in DOMAIN c /\ c[i] = a[i]
           /\ \A i \in DOMAIN c :
                 \/ i \in DOMAIN a /\ c[i] = a[i]
                 \/ i - Len(a) \in DOMAIN b /\ c[i] = b[i - Len(a)]
<1>1. /\ Len(a) \in Nat /\ DOMAIN a = 1..Len(a) /\ Len(b) \in Nat /\ DOMAIN b = 1..Len(b)
      /\ DOMAIN c = 1..(Len(a) + Len(b))
  OBVIOUS
<1>2. ASSUME NEW i \in DOMAIN a
      PROVE  i \in DOMAIN c /\ c[i] = a[i]
  BY <1>1, <1>2
<1>3. ASSUME NEW i \in DOMAIN c, i \notin DOMAIN a
      PROVE  i - Len(a) \in DOMAIN b /\ c[i] = b[i - Len(a)]
  BY <1>1, <1>3
<1> QED
  BY <1>1, <1>2, <1>3

LEMMA PublishedIsAppended ==
    ASSUME TypeOK, NEW ev \in Event, NEW n \in 0..2, Publish(ev, n)
    PROVE  /\ \A p \in Partitions : \A i \in DOMAIN log[p] :
                  i \in DOMAIN log'[p] /\ log'[p][i] = log[p][i]
           /\ \A p \in Partitions : \A i \in DOMAIN log'[p] :
                  \/ i \in DOMAIN log[p] /\ log'[p][i] = log[p][i]
                  \/ p = PartitionOf[ev.exec] /\ log'[p][i] = ev
<1> DEFINE q == PartitionOf[ev.exec]
           copies == [i \in 1..n |-> ev]
<1>1. q \in Partitions /\ log[q] \in Seq(Event) /\ copies \in Seq(Event)
  <2>1. copies \in Seq(Event)
    OBVIOUS
  <2>2. q \in Partitions
    BY PartitionOfAssumption DEF Event
  <2> QED
    BY <2>1, <2>2 DEF TypeOK
<1>2. log' = [log EXCEPT ![q] = log[q] \o copies]
  BY DEF Publish
<1>3. \A p \in Partitions : p # q => log'[p] = log[p]
  BY <1>2 DEF TypeOK
<1>4. log'[q] = log[q] \o copies
  BY <1>1, <1>2 DEF TypeOK
<1>5. \A i \in DOMAIN log[q] : i \in DOMAIN log'[q] /\ log'[q][i] = log[q][i]
  <2>1. PICK old, more, new : old = log[q] /\ more = copies /\ new = log'[q]
    OBVIOUS
  <2>2. old \in Seq(Event) /\ more \in Seq(Event) /\ new = old \o more
    BY <1>1, <1>4, <2>1
  <2>3. \A i \in DOMAIN old : i \in DOMAIN new /\ new[i] = old[i]
    BY <2>2, Concatenated
  <2> QED
    BY <2>1, <2>3
<1>6. \A i \in DOMAIN log'[q] :
          \/ i \in DOMAIN log[q] /\ log'[q][i] = log[q][i]
          \/ log'[q][i] = ev
  <2>1. \A j \in DOMAIN copies : copies[j] = ev
    OBVIOUS
  <2>2. PICK old, more, new : old = log[q] /\ more = copies /\ new = log'[q]
    OBVIOUS
  <2> HIDE DEF copies
  <2>3. old \in Seq(Event) /\ more \in Seq(Event) /\ new = old \o more
    BY <1>1, <1>4, <2>2
  <2>4. \A i \in DOMAIN new :
            \/ i \in DOMAIN old /\ new[i] = old[i]
            \/ i - Len(old) \in DOMAIN more /\ new[i] = more[i - Len(old)]
    BY <2>3, Concatenated
  <2> QED
    BY <2>1, <2>2, <2>4
<1> QED
  BY <1>3, <1>5, <1>6

(* Publishing an event says nothing new but that event. *)
LEMMA PublishedIsNew ==
    ASSUME TypeOK, NEW ev \in Event, NEW n \in 0..2, Publish(ev, n),
           NEW e \in Executions, NEW s, NEW type, Logged(type, e, s)'
    PROVE  Logged(type, e, s) \/ (ev.type = type /\ ev.exec = e /\ ev.step = s)
<1>1. PICK i \in DOMAIN log'[PartitionOf[e]] :
          /\ log'[PartitionOf[e]][i].type = type
          /\ log'[PartitionOf[e]][i].exec = e /\ log'[PartitionOf[e]][i].step = s
  BY DEF Logged, History
<1>2. PartitionOf[e] \in Partitions
  BY PartitionOfAssumption
<1> QED
  BY <1>1, <1>2, PublishedIsAppended DEF Logged, History

(* Publishing an event that is itself earned. *)
LEMMA PublishKeepsEarned ==
    ASSUME TypeOK, EventsAreEarned, NEW ev \in Event, NEW n \in 0..2, Publish(ev, n),
           plan' = plan,
           ev.type = "step-completed" => PredecessorsPassed(ev.exec, ev.step),
           ev.type = "plan-completed" => AllPassed(ev.exec)
    PROVE  Remembered /\ EventsAreEarned'
<1>1. Remembered
  BY PublishedIsAppended, TopicGrows
<1>2. ASSUME NEW p \in Partitions, NEW i \in DOMAIN log'[p]
      PROVE  PartitionOf[log'[p][i].exec] = p
  BY <1>2, PublishedIsAppended DEF EventsAreEarned
<1>3. ASSUME NEW e \in Executions, NEW s \in Steps, Passed(e, s)'
      PROVE  PredecessorsPassed(e, s)'
  <2>1. Passed(e, s) \/ (ev.type = "step-completed" /\ ev.exec = e /\ ev.step = s)
    BY <1>3, PublishedIsNew DEF Passed
  <2>2. PredecessorsPassed(e, s)
    BY <2>1 DEF EventsAreEarned
  <2> QED
    BY <1>1, <2>2 DEF Remembered
<1>4. ASSUME NEW e \in Executions, Logged("plan-completed", e, NoStep)'
      PROVE  AllPassed(e)'
  <2>1. Logged("plan-completed", e, NoStep) \/ (ev.type = "plan-completed" /\ ev.exec = e)
    BY <1>4, PublishedIsNew
  <2>2. AllPassed(e)
    BY <2>1 DEF EventsAreEarned
  <2> QED
    BY <1>1, <2>2 DEF Remembered
<1> QED
  BY <1>1, <1>2, <1>3, <1>4 DEF EventsAreEarned

(* The four parts of the invariant, each under what leaves it intact. *)
LEMMA QuietTopic ==
    ASSUME TypeOK, EventsAreEarned, plan' = plan, log' = log
    PROVE  Remembered /\ EventsAreEarned'
<1>1. Remembered
  BY TopicGrows
<1>2. \A e, s, type : Logged(type, e, s)' <=> Logged(type, e, s)
  BY DEF Logged, History
<1>3. \A e \in Executions, s \in Steps : Passed(e, s)' => PredecessorsPassed(e, s)'
  BY <1>1, <1>2 DEF EventsAreEarned, Remembered, Passed
<1>4. \A e \in Executions : Logged("plan-completed", e, NoStep)' => AllPassed(e)'
  BY <1>1, <1>2 DEF EventsAreEarned, Remembered
<1> QED
  BY <1>1, <1>3, <1>4 DEF EventsAreEarned

LEMMA ReleasedKept ==
    ASSUME Remembered, ReleasedInOrder,
           \A t \in Tasks :
              queued'[t] > 0 \/ (\E w \in Workers : pc'[w] # "idle" /\ task'[w] = t)
                  => \/ queued[t] > 0 \/ (\E w \in Workers : pc[w] # "idle" /\ task[w] = t)
                     \/ PredecessorsPassed(t[1], t[2])
    PROVE  ReleasedInOrder'
<1>1. ASSUME NEW t \in Tasks,
             queued'[t] > 0 \/ (\E w \in Workers : pc'[w] # "idle" /\ task'[w] = t)
      PROVE  PredecessorsPassed(t[1], t[2])'
  <2>1. PredecessorsPassed(t[1], t[2])
    BY <1>1 DEF ReleasedInOrder
  <2>2. t[1] \in Executions /\ t[2] \in Steps
    BY DEF Tasks
  <2> QED
    BY <2>1, <2>2 DEF Remembered
<1> QED
  BY <1>1 DEF ReleasedInOrder

LEMMA EffectsKept ==
    ASSUME Remembered, EffectsAreEarned,
           \A i \in DOMAIN todo' : \E j \in DOMAIN todo : todo'[i] = todo[j]
    PROVE  EffectsAreEarned'
<1>1. ASSUME NEW i \in DOMAIN todo', NEW e \in Executions
      PROVE  /\ \A s \in Steps : todo'[i] = Enqueue(e, s) => PredecessorsPassed(e, s)'
             /\ todo'[i] = SetStatus(e, "completed") => AllPassed(e)'
             /\ todo'[i].op = "publish" =>
                   /\ todo'[i].event.type # "step-completed"
                   /\ todo'[i].event.type = "plan-completed" /\ todo'[i].event.exec = e
                         => AllPassed(e)'
  BY <1>1 DEF EffectsAreEarned, Remembered
<1> QED
  BY <1>1 DEF EffectsAreEarned, Enqueue, SetStatus

LEMMA StatusKept ==
    ASSUME Remembered, StatusIsEarned,
           \A e \in Executions :
              status'[e] = "completed" => status[e] = "completed" \/ AllPassed(e)
    PROVE  StatusIsEarned'
BY DEF Remembered, StatusIsEarned

LEMMA PlanKept ==
    ASSUME PlanIsInjective, Remembered
    PROVE  PlanIsInjective'
BY DEF PlanIsInjective, Remembered

LEMMA EarnedInit == Init => Earned
<1> SUFFICES ASSUME Init PROVE Earned
  OBVIOUS
<1>1. PlanIsInjective
  BY InitialPlansAssumption DEF Init, PlanIsInjective
<1>2. \A e \in Executions : \A type, s : ~Logged(type, e, s)
  BY PartitionOfAssumption DEF Init, Logged, History
<1>3. EventsAreEarned
  BY <1>2 DEF Init, EventsAreEarned, Passed
<1>4. ReleasedInOrder
  BY DEF Init, ReleasedInOrder
<1>5. EffectsAreEarned /\ StatusIsEarned
  BY DEF Init, EffectsAreEarned, StatusIsEarned
<1> QED
  BY <1>1, <1>3, <1>4, <1>5 DEF Earned, ProgressIsEarned

LEMMA EarnedApi ==
    ASSUME TypeOK, Earned, ApiStep
    PROVE  Earned'
<1> USE DEF kafkaVars, dispatcherVars, dbVars, outsideVars, catalogVars, apiVars,
            nodeVars, workerVars, controlVars, boundVars
<1>1. PlanIsInjective /\ ReleasedInOrder /\ EventsAreEarned /\ EffectsAreEarned /\ StatusIsEarned
  BY DEF Earned, ProgressIsEarned
<1>2. Remembered /\ EventsAreEarned'
  <2>1. ASSUME NEW e \in Executions, CreateExecution(e) \/ CancelCheck(e)
        PROVE  Remembered /\ EventsAreEarned'
    BY <1>1, <2>1, QuietTopic DEF CreateExecution, CancelCheck
  <2>2. ASSUME NEW e \in Executions, NEW n \in 0..2,
               NEW type \in {"requested", "stop-requested", "restart-requested"},
               Publish(Notice(type, e, NoStep, 0), n), plan' = plan
        PROVE  Remembered /\ EventsAreEarned'
    <3>1. Notice(type, e, NoStep, 0) \in Event
      BY NoticeType DEF EventTypes
    <3>2. Notice(type, e, NoStep, 0).type = type
      BY DEF Notice
    <3> QED
      BY <1>1, <2>2, <3>1, <3>2, PublishKeepsEarned
  <2>3. ASSUME NEW e \in Executions, NEW n \in 0..2,
               \/ PublishRequest(e, n) \/ CancelPublish(e, n)
               \/ WsCommand("stop-requested", e, n) \/ WsCommand("restart-requested", e, n)
        PROVE  Remembered /\ EventsAreEarned'
    BY <2>2, <2>3 DEF PublishRequest, CancelPublish, WsCommand, Requested
  <2> QED
    BY <2>1, <2>3 DEF ApiStep, Schedule, Retry
<1>3. UNCHANGED <<queued, pc, task, todo>>
  BY DEF ApiStep, Schedule, Retry, CreateExecution, CancelCheck, PublishRequest,
         CancelPublish, WsCommand
<1>4. \A e \in Executions : status'[e] = "completed" => status[e] = "completed"
  BY DEF ApiStep, Schedule, Retry, CreateExecution, CancelCheck, PublishRequest,
         CancelPublish, WsCommand, TypeOK
<1> QED
  BY <1>1, <1>2, <1>3, <1>4, PlanKept, ReleasedKept, EffectsKept, StatusKept
     DEF Earned, ProgressIsEarned

(* A handler's effects are earned by the event it handles: the heart of the *)
(* matter.  step_completed releases the step after one that has passed.     *)
LEMMA HandleIsEarned ==
    ASSUME TypeOK, Earned, NEW p \in Partitions, HasNext(p), ~Raises(NextEvent(p)),
           NEW i \in DOMAIN Handle(NextEvent(p)), NEW e \in Executions
    PROVE  LET f == Handle(NextEvent(p))[i] IN
           /\ \A s \in Steps : f = Enqueue(e, s) => PredecessorsPassed(e, s)
           /\ f = SetStatus(e, "completed") => AllPassed(e)
           /\ f.op = "publish" =>
                 /\ f.event.type # "step-completed"
                 /\ f.event.type = "plan-completed" /\ f.event.exec = e => AllPassed(e)
<1> DEFINE ev == NextEvent(p)
           x == ev.exec
           Good(f) ==
             /\ \A s \in Steps : f = Enqueue(e, s) => PredecessorsPassed(e, s)
             /\ f = SetStatus(e, "completed") => AllPassed(e)
             /\ f.op = "publish" =>
                   /\ f.event.type # "step-completed"
                   /\ f.event.type = "plan-completed" /\ f.event.exec = e => AllPassed(e)
<1>0. /\ ev \in Event /\ x \in Executions /\ plan \in Seq(Steps)
      /\ PlanIsInjective /\ EventsAreEarned
  BY NextEventType DEF Event, TypeOK, Earned, ProgressIsEarned
<1>1. ASSUME NEW type \in EventTypes, type \notin {"step-completed", "plan-completed"},
             NEW s, NEW n
      PROVE  Good(Publishing(Notice(type, x, s, n)))
  BY <1>1 DEF Publishing, Notice, Enqueue, SetStatus
<1>2. ASSUME NEW st \in Statuses, st = "completed" => AllPassed(x)
      PROVE  Good(SetStatus(x, st))
  BY <1>2 DEF Publishing, Notice, Enqueue, SetStatus
<1>3. ASSUME NEW k \in DOMAIN plan, \A j \in DOMAIN plan : j < k => Passed(x, plan[j]),
             NEW type \in {"plan-started", "plan-progressed"},
             NEW j \in DOMAIN Release(type, x, k)
      PROVE  Good(Release(type, x, k)[j])
  <2>1. PredecessorsPassed(x, plan[k])
    BY <1>0, <1>3 DEF PlanIsInjective, PredecessorsPassed
  <2>2. Good(Enqueue(x, plan[k]))
    <3>1. ASSUME NEW s \in Steps, Enqueue(x, plan[k]) = Enqueue(e, s)
          PROVE  x = e /\ plan[k] = s
      BY <3>1 DEF Enqueue
    <3> QED
      BY <2>1, <3>1 DEF Enqueue, SetStatus
  <2>3. Good(Publishing(Notice(type, x, plan[k], k - 1)))
    BY <1>1 DEF EventTypes
  <2> HIDE DEF Good
  <2> QED
    BY <2>2, <2>3 DEF Release
<1>4. ASSUME AllPassed(x), NEW n, NEW j \in DOMAIN Complete(x, n)
      PROVE  Good(Complete(x, n)[j])
  <2>1. Good(SetStatus(x, "completed"))
    BY <1>2, <1>4 DEF Statuses
  <2>2. Good(Publishing(Notice("plan-completed", x, NoStep, n)))
    BY <1>4 DEF Publishing, Notice, Enqueue, SetStatus
  <2> HIDE DEF Good
  <2> QED
    BY <2>1, <2>2 DEF Complete
<1>5. CASE ev.type = "requested"
  <2> DEFINE rest == IF plan = <<>> THEN Complete(x, 0) ELSE Release("plan-started", x, 1)
  <2>1. CASE status[x] = "cancelled"
    BY <1>5, <2>1 DEF Handle, StartEffects
  <2>2. CASE status[x] # "cancelled"
    <3>1. Handle(ev) = <<SetStatus(x, "running")>> \o rest
      BY <1>5, <2>2 DEF Handle, StartEffects
    <3>2. Good(SetStatus(x, "running"))
      BY <1>2 DEF Statuses
    <3>3. ASSUME NEW j \in DOMAIN rest
          PROVE  Good(rest[j])
      <4>1. CASE plan = <<>>
        <5>1. AllPassed(x)
          BY <4>1 DEF AllPassed
        <5> HIDE DEF Good
        <5> QED
          BY <1>4, <3>3, <4>1, <5>1
      <4>2. CASE plan # <<>>
        <5>1. 1 \in DOMAIN plan /\ \A k \in DOMAIN plan : ~(k < 1)
          BY <1>0, <4>2
        <5> HIDE DEF Good
        <5> QED
          BY <1>3, <3>3, <4>2, <5>1
      <4> QED
        BY <4>1, <4>2
    <3>4. Len(rest) = 2 /\ DOMAIN rest = 1..2
      BY DEF Complete, Release
    <3>5. \/ i = 1 /\ Handle(ev)[i] = SetStatus(x, "running")
          \/ i - 1 \in DOMAIN rest /\ Handle(ev)[i] = rest[i - 1]
      BY <3>1, <3>4
    <3> HIDE DEF Good, rest
    <3>6. Good(Handle(ev)[i])
      BY <3>2, <3>3, <3>5
    <3> QED
      BY <3>6 DEF Good
  <2> QED
    BY <2>1, <2>2
<1>6. CASE ev.type = "step-completed"
  <2>1. CASE status[x] = "cancelled"
    BY <1>6, <2>1 DEF Handle, StepCompletedEffects
  <2>2. CASE status[x] # "cancelled"
    <3> DEFINE k == Position(ev.step)
    <3>1. k \in DOMAIN plan /\ plan[k] = ev.step
      BY <1>6, <2>2 DEF Raises, Position
    <3>2. ev.step \in Steps
      BY <1>0, <3>1
    <3>3. Passed(x, ev.step)
      <4>1. offset[p] + 1 \in DOMAIN log[p] /\ ev = log[p][offset[p] + 1]
        BY DEF HasNext, NextEvent, TypeOK
      <4>2. PartitionOf[x] = p
        BY <1>0, <4>1 DEF EventsAreEarned
      <4> QED
        BY <1>6, <4>1, <4>2 DEF Passed, Logged, History
    <3>4. PredecessorsPassed(x, ev.step)
      BY <1>0, <3>2, <3>3 DEF EventsAreEarned
    <3>5. \A j \in DOMAIN plan : j < k + 1 => Passed(x, plan[j])
      BY <1>0, <3>1, <3>3, <3>4 DEF PredecessorsPassed
    <3>6. CASE k = Len(plan)
      <4>1. AllPassed(x)
        BY <1>0, <3>5, <3>6 DEF AllPassed
      <4>2. Handle(ev) = Complete(x, Len(plan))
        BY <1>6, <2>2, <3>6 DEF Handle, StepCompletedEffects
      <4> QED
        BY <1>4, <4>1, <4>2
    <3>7. CASE k # Len(plan)
      <4>1. k + 1 \in DOMAIN plan
        BY <1>0, <3>1, <3>7
      <4>2. Handle(ev) = Release("plan-progressed", x, k + 1)
        BY <1>6, <2>2, <3>7 DEF Handle, StepCompletedEffects
      <4> HIDE DEF k
      <4> QED
        BY <1>3, <3>5, <4>1, <4>2
    <3> QED
      BY <3>6, <3>7
  <2> QED
    BY <2>1, <2>2
<1>7. CASE ev.type = "step-failed"
  <2>1. Handle(ev) = <<SetStatus(x, "failed"), Publishing(Notice("plan-failed", x, ev.step, 0))>>
    BY <1>7 DEF Handle, StepFailedEffects
  <2>2. Good(SetStatus(x, "failed")) /\ Good(Publishing(Notice("plan-failed", x, ev.step, 0)))
    BY <1>1, <1>2 DEF Statuses, EventTypes
  <2> HIDE DEF Good
  <2>3. Good(Handle(ev)[i])
    BY <2>1, <2>2
  <2> QED
    BY <2>3 DEF Good
<1>8. CASE ev.type = "stop-requested"
  <2>1. Handle(ev) = <<SetStatus(x, "cancelled"), [op |-> "revoke", exec |-> x],
                       Publishing(Notice("plan-stopped", x, NoStep, 0))>>
    BY <1>8 DEF Handle, StopEffects
  <2>2. Good(SetStatus(x, "cancelled")) /\ Good(Publishing(Notice("plan-stopped", x, NoStep, 0)))
    BY <1>1, <1>2 DEF Statuses, EventTypes
  <2>3. Good([op |-> "revoke", exec |-> x])
    BY DEF Enqueue, SetStatus
  <2> HIDE DEF Good
  <2>4. Good(Handle(ev)[i])
    BY <2>1, <2>2, <2>3
  <2> QED
    BY <2>4 DEF Good
<1>9. CASE ev.type = "restart-requested"
  BY <1>9 DEF Handle, Enqueue, SetStatus
<1>10. CASE ev.type \notin {"requested", "step-completed", "step-failed", "stop-requested",
                            "restart-requested"}
  <2>1. Handle(ev) = <<>>
    BY <1>10 DEF Handle
  <2> QED
    BY <2>1
<1> QED
  BY <1>5, <1>6, <1>7, <1>8, <1>9, <1>10

LEMMA EarnedDispatcher ==
    ASSUME TypeOK, Earned, DispatcherStep
    PROVE  Earned'
<1> USE DEF kafkaVars, dispatcherVars, dbVars, outsideVars, catalogVars, apiVars,
            nodeVars, workerVars, controlVars, boundVars
<1>1. PlanIsInjective /\ ReleasedInOrder /\ EventsAreEarned /\ EffectsAreEarned /\ StatusIsEarned
  BY DEF Earned, ProgressIsEarned
<1>2. ASSUME Remembered, EventsAreEarned', UNCHANGED <<queued, pc, task, status>>,
             \A i \in DOMAIN todo' : \E j \in DOMAIN todo : todo'[i] = todo[j]
      PROVE  Earned'
  BY <1>1, <1>2, PlanKept, ReleasedKept, EffectsKept, StatusKept DEF Earned, ProgressIsEarned
<1>3. ASSUME todo # <<>>, todo' = Tail(todo)
      PROVE  \A i \in DOMAIN todo' : \E j \in DOMAIN todo : todo'[i] = todo[j]
  <2>1. todo \in Seq(Effect)
    BY DEF TypeOK
  <2>2. \A i \in DOMAIN Tail(todo) : i + 1 \in DOMAIN todo /\ Tail(todo)[i] = todo[i + 1]
    BY <1>3, <2>1
  <2> QED
    BY <1>3, <2>2
<1>4. todo # <<>> => 1 \in DOMAIN todo /\ Head(todo) = todo[1]
  BY DEF TypeOK
<1>5. ASSUME NEW p \in Partitions, Skip(p)
      PROVE  Earned'
  BY <1>1, <1>2, <1>5, QuietTopic DEF Skip
<1>6. ASSUME NEW p \in Partitions, Poll(p)
      PROVE  Earned'
  <2>1. Remembered /\ EventsAreEarned'
    BY <1>1, <1>6, QuietTopic DEF Poll
  <2>2. UNCHANGED <<queued, pc, task, status>> /\ todo' = Handle(NextEvent(p))
    BY <1>6 DEF Poll
  <2>3. ASSUME NEW i \in DOMAIN todo', NEW e \in Executions
        PROVE  /\ \A s \in Steps : todo'[i] = Enqueue(e, s) => PredecessorsPassed(e, s)'
               /\ todo'[i] = SetStatus(e, "completed") => AllPassed(e)'
               /\ todo'[i].op = "publish" =>
                     /\ todo'[i].event.type # "step-completed"
                     /\ todo'[i].event.type = "plan-completed" /\ todo'[i].event.exec = e
                           => AllPassed(e)'
    BY <1>6, <2>1, <2>2, <2>3, HandleIsEarned DEF Poll, Remembered
  <2>4. EffectsAreEarned'
    BY <2>3 DEF EffectsAreEarned, Enqueue, SetStatus
  <2> QED
    BY <1>1, <2>1, <2>2, <2>4, PlanKept, ReleasedKept, StatusKept DEF Earned, ProgressIsEarned
<1>7. CASE DoSetStatus
  <2>1. Remembered /\ EventsAreEarned'
    BY <1>1, <1>7, QuietTopic DEF DoSetStatus
  <2>2. \A i \in DOMAIN todo' : \E j \in DOMAIN todo : todo'[i] = todo[j]
    BY <1>3, <1>7 DEF DoSetStatus, NextEffectIs
  <2>3. ASSUME NEW e \in Executions, status'[e] = "completed", status[e] # "completed"
        PROVE  AllPassed(e)
    <3>1. Head(todo) \in Effect /\ Head(todo).op = "set-status"
      BY <1>7, HeadType DEF DoSetStatus, NextEffectIs
    <3>2. Head(todo).exec = e /\ Head(todo).status = "completed"
      BY <1>7, <2>3 DEF DoSetStatus, TypeOK
    <3>3. Head(todo) = SetStatus(e, "completed")
      BY <3>1, <3>2 DEF Effect, SetStatus
    <3> QED
      BY <1>1, <1>4, <1>7, <3>3 DEF EffectsAreEarned, DoSetStatus, NextEffectIs
  <2> QED
    BY <1>1, <1>7, <2>1, <2>2, <2>3, PlanKept, ReleasedKept, EffectsKept, StatusKept
       DEF Earned, ProgressIsEarned, DoSetStatus
<1>8. ASSUME NEW n \in 0..2, DoPublish(n)
      PROVE  Earned'
  <2>1. Head(todo).event \in Event /\ Head(todo).event.exec \in Executions
    BY <1>8, HeadType DEF DoPublish, NextEffectIs, Effect, Event
  <2>2. /\ Head(todo).event.type # "step-completed"
        /\ Head(todo).event.type = "plan-completed" => AllPassed(Head(todo).event.exec)
    BY <1>1, <1>4, <1>8, <2>1 DEF EffectsAreEarned, DoPublish, NextEffectIs
  <2>3. Remembered /\ EventsAreEarned'
    BY <1>1, <1>8, <2>1, <2>2, PublishKeepsEarned DEF DoPublish
  <2> QED
    BY <1>2, <1>3, <1>8, <2>3 DEF DoPublish, NextEffectIs
<1>9. CASE DoEnqueue
  <2>1. Remembered /\ EventsAreEarned'
    BY <1>1, <1>9, QuietTopic DEF DoEnqueue
  <2>2. \A i \in DOMAIN todo' : \E j \in DOMAIN todo : todo'[i] = todo[j]
    BY <1>3, <1>9 DEF DoEnqueue, NextEffectIs
  <2>3. ASSUME NEW t \in Tasks, queued'[t] > 0, ~(queued[t] > 0)
        PROVE  PredecessorsPassed(t[1], t[2])
    <3>1. Head(todo) \in Effect /\ Head(todo).op = "enqueue"
      BY <1>9, HeadType DEF DoEnqueue, NextEffectIs
    <3>2. Head(todo).task = t
      BY <1>9, <2>3 DEF DoEnqueue, TypeOK
    <3>3. t[1] \in Executions /\ t[2] \in Steps /\ t = <<t[1], t[2]>>
      BY DEF Tasks
    <3>4. Head(todo) = Enqueue(t[1], t[2])
      BY <3>1, <3>2, <3>3 DEF Effect, Enqueue
    <3> QED
      BY <1>1, <1>4, <1>9, <3>3, <3>4 DEF EffectsAreEarned, DoEnqueue, NextEffectIs
  <2>4. UNCHANGED <<pc, task, status>>
    BY <1>9 DEF DoEnqueue
  <2>5. ReleasedInOrder'
    BY <1>1, <2>1, <2>3, <2>4, ReleasedKept
  <2> QED
    BY <1>1, <2>1, <2>2, <2>4, <2>5, PlanKept, EffectsKept, StatusKept
       DEF Earned, ProgressIsEarned
<1>10. CASE DoRevoke
  <2>1. Remembered /\ EventsAreEarned'
    BY <1>1, <1>10, QuietTopic DEF DoRevoke
  <2> QED
    BY <1>2, <1>3, <1>10, <2>1 DEF DoRevoke, NextEffectIs
<1>11. CASE DoRestart
  <2>1. Remembered /\ EventsAreEarned'
    BY <1>1, <1>11, QuietTopic DEF DoRestart
  <2>2. UNCHANGED <<queued, pc, task>> /\ todo # <<>> /\ todo \in Seq(Effect)
    BY <1>11 DEF DoRestart, NextEffectIs, TypeOK
  <2>3. \A e \in Executions : status'[e] = "completed" => status[e] = "completed"
    BY <1>11 DEF DoRestart, TypeOK
  <2>4. CASE todo' = Tail(todo)
    BY <1>1, <1>3, <2>1, <2>2, <2>3, <2>4, PlanKept, ReleasedKept, EffectsKept, StatusKept
       DEF Earned, ProgressIsEarned
  <2>5. ASSUME NEW f \in Executions, todo' = <<Publishing(Requested(f))>> \o Tail(todo)
        PROVE  EffectsAreEarned'
    <3>1. \A i \in DOMAIN todo' :
              \/ todo'[i] = Publishing(Requested(f))
              \/ \E j \in DOMAIN todo : todo'[i] = todo[j]
      <4> HIDE DEF Publishing, Requested
      <4>1. Tail(todo) \in Seq(Effect)
        BY <2>2
      <4>2. ASSUME NEW i \in DOMAIN todo', i # 1
            PROVE  i \in DOMAIN todo /\ todo'[i] = todo[i]
        <5>1. i \in Nat /\ i - 1 \in DOMAIN Tail(todo) /\ todo'[i] = Tail(todo)[i - 1]
          BY <2>2, <2>5, <4>1, <4>2
        <5>2. \A j \in DOMAIN Tail(todo) : j + 1 \in DOMAIN todo /\ Tail(todo)[j] = todo[j + 1]
          BY <2>2
        <5> QED
          BY <5>1, <5>2
      <4>3. 1 \in DOMAIN todo' => todo'[1] = Publishing(Requested(f))
        BY <2>5, <4>1
      <4> QED
        BY <4>2, <4>3
    <3>2. ASSUME NEW i \in DOMAIN todo', NEW e \in Executions
          PROVE  /\ \A s \in Steps : todo'[i] = Enqueue(e, s) => PredecessorsPassed(e, s)'
                 /\ todo'[i] = SetStatus(e, "completed") => AllPassed(e)'
                 /\ todo'[i].op = "publish" =>
                       /\ todo'[i].event.type # "step-completed"
                       /\ todo'[i].event.type = "plan-completed" /\ todo'[i].event.exec = e
                             => AllPassed(e)'
      <4>1. CASE todo'[i] = Publishing(Requested(f))
        BY <4>1 DEF Publishing, Requested, Notice, Enqueue, SetStatus
      <4>2. CASE \E j \in DOMAIN todo : todo'[i] = todo[j]
        BY <1>1, <2>1, <4>2 DEF EffectsAreEarned, Remembered
      <4> QED
        BY <3>1, <4>1, <4>2
    <3> QED
      BY <3>2 DEF EffectsAreEarned, Enqueue, SetStatus
  <2>6. EffectsAreEarned'
    BY <1>1, <1>3, <1>11, <2>1, <2>2, <2>5, EffectsKept DEF DoRestart
  <2> QED
    BY <1>1, <2>1, <2>2, <2>3, <2>6, PlanKept, ReleasedKept, StatusKept
       DEF Earned, ProgressIsEarned
<1>12. CASE Commit
  <2>1. Remembered /\ EventsAreEarned'
    BY <1>1, <1>12, QuietTopic DEF Commit
  <2> QED
    BY <1>2, <1>12, <2>1 DEF Commit
<1> QED
  BY <1>5, <1>6, <1>7, <1>8, <1>9, <1>10, <1>11, <1>12 DEF DispatcherStep, DoEffect

LEMMA EarnedNode ==
    ASSUME TypeOK, Earned, NodeStep
    PROVE  Earned'
<1> USE DEF kafkaVars, dispatcherVars, dbVars, outsideVars, catalogVars, apiVars,
            nodeVars, workerVars, controlVars, boundVars
<1>1. PlanIsInjective /\ ReleasedInOrder /\ EventsAreEarned /\ EffectsAreEarned /\ StatusIsEarned
  BY DEF Earned, ProgressIsEarned
<1>2. ASSUME Remembered, EventsAreEarned', UNCHANGED <<todo, status>>,
             \A t \in Tasks : queued'[t] > 0 =>
                 queued[t] > 0 \/ (\E w \in Workers : pc[w] # "idle" /\ task[w] = t),
             \A w \in Workers : pc'[w] # "idle" =>
                 \/ pc[w] # "idle" /\ task'[w] = task[w]
                 \/ queued[task'[w]] > 0
      PROVE  Earned'
  BY <1>1, <1>2, PlanKept, ReleasedKept, EffectsKept, StatusKept DEF Earned, ProgressIsEarned
<1>3. ASSUME NEW w \in Workers, Execute(w)
      PROVE  Earned'
  <2>1. pc[w] # "idle" /\ Exec(w) \in Executions /\ Step(w) \in Steps
        /\ task[w] \in Tasks /\ task[w] = <<Exec(w), Step(w)>>
    <3>1. pc[w] # "idle"
      BY <1>3 DEF Execute, NotifyStarted, NotifyCompleted, NotifyFailed, StartStep, Passes,
                  Fails, RunRaises, Recover, Ack
    <3> QED
      BY <3>1, BusyWorker
  <2>2. PredecessorsPassed(Exec(w), Step(w))
    BY <1>1, <2>1 DEF ReleasedInOrder, Exec, Step
  <2>3. ASSUME NEW n \in 0..2, NEW type \in {"step-started", "step-completed", "step-failed"},
               Notify(w, type, n), plan' = plan
        PROVE  Remembered /\ EventsAreEarned'
    <3> DEFINE ev == Notice(type, Exec(w), Step(w), 0)
    <3>1. ev \in Event
      BY <2>1, NoticeType DEF EventTypes
    <3>2. ev.exec = Exec(w) /\ ev.step = Step(w) /\ ev.type # "plan-completed"
      BY DEF Notice
    <3>3. Publish(ev, n)
      BY <2>3 DEF Notify
    <3> HIDE DEF ev
    <3> QED
      BY <1>1, <2>2, <2>3, <3>1, <3>2, <3>3, PublishKeepsEarned
  <2>4. CASE \E n \in 0..2 : NotifyStarted(w, n) \/ NotifyCompleted(w, n) \/ NotifyFailed(w, n)
    <3>1. Remembered /\ EventsAreEarned'
      BY <2>3, <2>4 DEF NotifyStarted, NotifyCompleted, NotifyFailed
    <3>2. /\ UNCHANGED <<todo, status, queued, task>>
          /\ \A v \in Workers : pc'[v] # "idle" => pc[v] # "idle"
      BY <2>1, <2>4 DEF NotifyStarted, NotifyCompleted, NotifyFailed, Goto, TypeOK
    <3> QED
      BY <1>2, <3>1, <3>2
  <2>5. CASE StartStep(w) \/ Passes(w) \/ Fails(w) \/ RunRaises(w) \/ Recover(w) \/ Ack(w)
    <3>1. UNCHANGED <<log, plan, todo, status, queued>>
      BY <2>5 DEF StartStep, Passes, Fails, RunRaises, Recover, Ack
    <3>2. \A v \in Workers : pc'[v] # "idle" => pc[v] # "idle" /\ task'[v] = task[v]
      BY <2>1, <2>5 DEF StartStep, Passes, Fails, RunRaises, Recover, Ack, Goto, GoIdle, TypeOK
    <3> QED
      BY <1>1, <1>2, <3>1, <3>2, QuietTopic
  <2> QED
    BY <1>3, <2>4, <2>5 DEF Execute
<1>4. ASSUME NEW w \in Workers, CallRaises(w) \/ ChildLost(w)
      PROVE  Earned'
  <2>1. UNCHANGED <<log, plan, todo, status, queued>>
    BY <1>4 DEF CallRaises, ChildLost
  <2>2. \A v \in Workers : pc'[v] # "idle" => pc[v] # "idle" /\ task'[v] = task[v]
    BY <1>4 DEF CallRaises, ChildLost, Goto, GoIdle, TypeOK
  <2> QED
    BY <1>1, <1>2, <2>1, <2>2, QuietTopic
<1>5. ASSUME NEW t \in Tasks, Discard(t)
      PROVE  Earned'
  <2>1. UNCHANGED <<log, plan, todo, status, pc, task>>
    BY <1>5 DEF Discard
  <2>2. \A u \in Tasks : queued'[u] > 0 => queued[u] > 0
    BY <1>5 DEF Discard, TypeOK
  <2> QED
    BY <1>1, <1>2, <2>1, <2>2, QuietTopic
<1>6. ASSUME NEW t \in Tasks, RevokeArrives(t)
      PROVE  Earned'
  <2>1. UNCHANGED <<log, plan, todo, status, queued>>
    BY <1>6 DEF RevokeArrives
  <2>2. \A v \in Workers : pc'[v] # "idle" => pc[v] # "idle" /\ task'[v] = task[v]
    BY <1>6 DEF RevokeArrives, GoIdle, TypeOK
  <2> QED
    BY <1>1, <1>2, <2>1, <2>2, QuietTopic
<1>7. ASSUME NEW t \in Tasks, NEW w \in Workers, Take(w, t)
      PROVE  Earned'
  <2>1. UNCHANGED <<log, plan, todo, status>>
    BY <1>7 DEF Take
  <2>2. \A u \in Tasks : queued'[u] > 0 => queued[u] > 0
    BY <1>7 DEF Take, TypeOK
  <2>3. \A v \in Workers : pc'[v] # "idle" =>
            (pc[v] # "idle" /\ task'[v] = task[v]) \/ queued[task'[v]] > 0
    BY <1>7 DEF Take, TypeOK
  <2> QED
    BY <1>1, <1>2, <2>1, <2>2, <2>3, QuietTopic
<1> QED
  BY <1>3, <1>4, <1>5, <1>6, <1>7 DEF NodeStep

LEMMA EarnedEnvironment ==
    ASSUME TypeOK, Earned, Environment
    PROVE  Earned'
<1> USE DEF kafkaVars, dispatcherVars, dbVars, outsideVars, catalogVars, apiVars,
            nodeVars, workerVars, controlVars, boundVars
<1>1. PlanIsInjective /\ ReleasedInOrder /\ EventsAreEarned /\ EffectsAreEarned /\ StatusIsEarned
  BY DEF Earned, ProgressIsEarned
<1>2. log' = log /\ plan' = plan /\ status' = status
  BY DEF Environment, CacheExpires, Crash, Restart
<1>3. Remembered /\ EventsAreEarned'
  BY <1>1, <1>2, QuietTopic
<1>4. \A i \in DOMAIN todo' : \E j \in DOMAIN todo : todo'[i] = todo[j]
  BY DEF Environment, CacheExpires, Crash, Restart
<1>5. ASSUME NEW t \in Tasks,
             queued'[t] > 0 \/ (\E w \in Workers : pc'[w] # "idle" /\ task'[w] = t)
      PROVE  queued[t] > 0 \/ (\E w \in Workers : pc[w] # "idle" /\ task[w] = t)
  <2>1. CASE (\E e \in Executions : CacheExpires(e)) \/ Crash
    BY <1>5, <2>1 DEF CacheExpires, Crash
  <2>2. CASE Restart
    <3> DEFINE held == {w \in Workers : pc[w] # "idle" /\ task[w] = t}
    <3>1. queued'[t] = queued[t] + Cardinality(held) /\ queued'[t] > 0
      BY <1>5, <2>2 DEF Restart
    <3>2. Cardinality(held) \in Nat /\ (Cardinality(held) > 0 => held # {})
      BY HeldCopies
    <3>3. queued[t] \in Nat
      BY DEF TypeOK
    <3> QED
      BY <3>1, <3>2, <3>3
  <2> QED
    BY <2>1, <2>2 DEF Environment
<1>6. ReleasedInOrder'
  BY <1>1, <1>3, <1>5, ReleasedKept
<1> QED
  BY <1>1, <1>2, <1>3, <1>4, <1>6, PlanKept, EffectsKept, StatusKept
     DEF Earned, ProgressIsEarned

(* Tasks, events, effects and statuses rest on steps that passed, and the   *)
(* plan lists each step once: what makes completion inductive.              *)
THEOREM EarnedIsInductive == Spec => []Earned
<1>1. TypeOK /\ Earned /\ [Next]_vars => Earned'
  <2> SUFFICES ASSUME TypeOK, Earned, [Next]_vars PROVE Earned'
    OBVIOUS
  <2>1. CASE UNCHANGED vars
    <3>1. UNCHANGED <<log, plan, todo, status, queued, pc, task>>
      BY <2>1 DEF vars
    <3>2. PlanIsInjective /\ ReleasedInOrder /\ EventsAreEarned /\ EffectsAreEarned /\ StatusIsEarned
      BY DEF Earned, ProgressIsEarned
    <3>3. Remembered /\ EventsAreEarned'
      BY <3>1, <3>2, QuietTopic
    <3> QED
      BY <3>1, <3>2, <3>3, PlanKept, ReleasedKept, EffectsKept, StatusKept
         DEF Earned, ProgressIsEarned
  <2> QED
    BY <2>1, EarnedApi, EarnedDispatcher, EarnedNode, EarnedEnvironment DEF Next
<1> QED
  BY EarnedInit, <1>1, TypeCorrect, PTL DEF Spec

(* No crash, redelivery, loss or error makes an execution COMPLETED, or     *)
(* reported as completed, while a step of its plan has not passed in it.    *)
THEOREM CompletionCorrect == Spec => []CompletionIsEarned
<1>1. Earned => CompletionIsEarned
  BY DEF Earned, ProgressIsEarned, EventsAreEarned, StatusIsEarned, CompletionIsEarned, AllPassed
<1> QED
  BY <1>1, EarnedIsInductive, PTL

(* The invariant itself, as the runs check it: tasks, events, effects and   *)
(* statuses all rest on the steps before having passed.                     *)
THEOREM ProgressCorrect == Spec => []ProgressIsEarned
<1>1. Earned => ProgressIsEarned
  BY DEF Earned
<1> QED
  BY <1>1, EarnedIsInductive, PTL
=============================================================================
