--------------------------- MODULE LiveEditProofs ---------------------------
(* Theorems about LiveEdits: what stays true of an execution whatever is    *)
(* done to its plan meanwhile, and however often.                           *)
EXTENDS LiveEdits, DeliveryProofs

EditTypeOK ==
    /\ order \in Seq(Steps) /\ active \subseteq Steps
    /\ edits \in Nat /\ raised \in BOOLEAN

(* A step of the processes, of the dispatcher that fails, or of an editor,   *)
(* who leaves everything but the plan as it is.                              *)
EditStep ==
    UNCHANGED <<log, offset, mode, current, todo, status, rows, unpublished, cancelling,
                queued, pc, task, cache, revoking, revoked, faults, commands, raised>>

LEMMA ListedType ==
    ASSUME NEW o \in Seq(Steps), NEW set, set \subseteq Steps, NEW p \in InOrder(set, o)
    PROVE  p \in Seq(Steps)
<1>1. Len(o) \in Nat
  OBVIOUS
<1>2. PICK n \in 0..Len(o) : p \in [1..n -> set]
  BY DEF InOrder
<1>3. n \in Nat /\ p \in [1..n -> Steps]
  BY <1>1, <1>2
<1> QED
  BY <1>3

LEMMA Edited ==
    ASSUME TypeOK, EditTypeOK,
           Reorder \/ \E s \in Steps : SetActive(s) \/ Delete(s) \/ Create(s)
    PROVE  TypeOK' /\ EditTypeOK' /\ EditStep
<1> USE DEF kafkaVars, dispatcherVars, dbVars, apiVars, nodeVars, workerVars, controlVars, boundVars
<1>1. ASSUME NEW kind, Edit(kind), order' \in Seq(Steps), active' \subseteq Steps,
             deleted' \subseteq Steps
      PROVE  TypeOK' /\ EditTypeOK' /\ EditStep
  <2>1. EditStep
    BY <1>1 DEF Edit, EditStep
  <2>2. plan' \in Seq(Steps)
    <3>1. Listed(order') \cap active' \subseteq Steps
      BY <1>1
    <3> QED
      BY <1>1, <3>1, ListedType DEF Edit, ActiveSteps
  <2>3. EditTypeOK'
    BY <1>1, <2>1 DEF Edit, EditStep, EditTypeOK
  <2>4. TypeOK'
    BY <1>1, <2>1, <2>2 DEF EditStep, TypeOK
  <2> QED
    BY <2>1, <2>3, <2>4
<1>2. order \in Seq(Steps) /\ active \subseteq Steps /\ deleted \subseteq Steps
  BY DEF TypeOK, EditTypeOK
<1>3. CASE Reorder
  <2>1. PICK o \in [DOMAIN order -> Listed(order)] : order' = o
    BY <1>3 DEF Reorder
  <2>2. Listed(order) \subseteq Steps /\ DOMAIN order = 1..Len(order) /\ Len(order) \in Nat
    BY <1>2 DEF Listed
  <2>3. o \in Seq(Steps)
    BY <2>1, <2>2
  <2> QED
    BY <1>1, <1>2, <1>3, <2>1, <2>3 DEF Reorder
<1>4. ASSUME NEW s \in Steps, SetActive(s)
      PROVE  TypeOK' /\ EditTypeOK' /\ EditStep
  BY <1>1, <1>2, <1>4 DEF SetActive
<1>5. ASSUME NEW s \in Steps, Delete(s)
      PROVE  TypeOK' /\ EditTypeOK' /\ EditStep
  <2>1. Listed(order) \ {s} \subseteq Steps
    BY <1>2 DEF Listed
  <2>2. order' \in Seq(Steps)
    BY <1>2, <1>5, <2>1, ListedType DEF Delete
  <2> QED
    BY <1>1, <1>2, <1>5, <2>2 DEF Delete
<1>6. ASSUME NEW s \in Steps, Create(s)
      PROVE  TypeOK' /\ EditTypeOK' /\ EditStep
  BY <1>1, <1>2, <1>6 DEF Create
<1> QED
  BY <1>3, <1>4, <1>5, <1>6

(* The dispatcher's failure changes nothing but its mode. *)
LEMMA Failed ==
    ASSUME TypeOK, EditTypeOK, NEW p \in Partitions, PollRaises(p)
    PROVE  /\ TypeOK' /\ EditTypeOK' /\ raised' /\ mode' = "down"
           /\ UNCHANGED <<log, offset, todo, status, plan, unpublished, cancelling, queued, pc, task>>
<1> USE DEF kafkaVars, dbVars, outsideVars, catalogVars, apiVars, nodeVars, workerVars, controlVars,
            boundVars
<1>1. /\ mode' = "down" /\ raised' = TRUE
      /\ UNCHANGED <<log, offset, current, todo, status, rows, plan, deleted, unpublished,
                     cancelling, queued, pc, task, cache, revoking, revoked, faults, commands,
                     order, active, edits>>
  BY DEF PollRaises
<1> QED
  BY <1>1 DEF TypeOK, EditTypeOK

(* The topic grows by one event at a time, in its execution's partition. *)
LEMMA QuietOrPublished ==
    ASSUME TypeOK, Next
    PROVE  log' = log \/ \E ev \in Event, n \in 0..2 : Publish(ev, n)
<1> USE DEF kafkaVars
<1>1. CASE ApiStep
  <2>1. ASSUME NEW e \in Executions, NEW type \in EventTypes
        PROVE  Notice(type, e, NoStep, 0) \in Event
    BY NoticeType
  <2>2. {"requested", "stop-requested", "restart-requested"} \subseteq EventTypes
    BY DEF EventTypes
  <2>3. ASSUME NEW e \in Executions, NEW n \in 0..2,
               \/ PublishRequest(e, n) \/ CancelPublish(e, n)
               \/ WsCommand("stop-requested", e, n) \/ WsCommand("restart-requested", e, n)
        PROVE  \E ev \in Event : Publish(ev, n)
    BY <2>1, <2>2, <2>3 DEF PublishRequest, CancelPublish, WsCommand, Requested
  <2> QED
    BY <1>1, <2>3 DEF ApiStep, Schedule, Retry, CreateExecution, CancelCheck
<1>2. CASE DispatcherStep
  <2>1. ASSUME NEW n \in 0..2, DoPublish(n)
        PROVE  \E ev \in Event : Publish(ev, n)
    <3>1. Head(todo).event \in Event
      BY <2>1, HeadType DEF DoPublish, NextEffectIs, Effect
    <3> QED
      BY <2>1, <3>1 DEF DoPublish
  <2> QED
    BY <1>2, <2>1 DEF DispatcherStep, DoEffect, Skip, Poll, DoSetStatus, DoEnqueue, DoRevoke,
       DoRestart, Commit
<1>3. CASE NodeStep
  <2>1. ASSUME NEW w \in Workers, NEW n \in 0..2,
               NotifyStarted(w, n) \/ NotifyCompleted(w, n) \/ NotifyFailed(w, n)
        PROVE  \E ev \in Event : Publish(ev, n)
    <3>1. pc[w] # "idle"
      BY <2>1 DEF NotifyStarted, NotifyCompleted, NotifyFailed
    <3>2. PICK type \in {"step-started", "step-completed", "step-failed"} :
              Publish(Notice(type, Exec(w), Step(w), 0), n)
      BY <2>1 DEF NotifyStarted, NotifyCompleted, NotifyFailed, Notify
    <3>3. Notice(type, Exec(w), Step(w), 0) \in Event
      BY <3>1, BusyWorker, NoticeType DEF EventTypes
    <3> QED
      BY <3>2, <3>3
  <2>2. ASSUME NEW w \in Workers, Execute(w)
        PROVE  log' = log \/ \E ev \in Event, n \in 0..2 : Publish(ev, n)
    BY <2>1, <2>2 DEF Execute, StartStep, Passes, Fails, RunRaises, Recover, Ack
  <2>3. ASSUME NEW t \in Tasks, RevokeArrives(t)
        PROVE  log' = log
    BY <2>3 DEF RevokeArrives
  <2> QED
    BY <1>3, <2>2, <2>3 DEF NodeStep, CallRaises, ChildLost, Discard, Take
<1>4. CASE Environment
  BY <1>4 DEF Environment, CacheExpires, Crash, Restart
<1> QED
  BY <1>1, <1>2, <1>3, <1>4 DEF Next

LEMMA KeyedStep ==
    ASSUME TypeOK, Keyed, Next
    PROVE  Keyed'
<1>1. CASE log' = log
  BY <1>1 DEF Keyed
<1>2. ASSUME NEW ev \in Event, NEW n \in 0..2, Publish(ev, n)
      PROVE  Keyed'
  <2>1. \A p \in Partitions : \A i \in DOMAIN log'[p] :
            \/ i \in DOMAIN log[p] /\ log'[p][i] = log[p][i]
            \/ p = PartitionOf[ev.exec] /\ log'[p][i] = ev
    BY <1>2, PublishedIsAppended
  <2> QED
    BY <2>1 DEF Keyed
<1> QED
  BY <1>1, <1>2, QuietOrPublished

(* What is said and done is about runs that exist and have begun, however   *)
(* the plan is edited: none of it mentions the plan.                        *)
KnownInv == TypeOK /\ EditTypeOK /\ Keyed /\ RunInv

LEMMA KnownInit == EditInit => KnownInv
<1> SUFFICES ASSUME EditInit PROVE KnownInv
  OBVIOUS
<1>1. Init /\ TypeOK /\ RunInv
  BY TypeInit, RunInit DEF EditInit
<1>2. Keyed
  BY <1>1 DEF Init, Keyed
<1>3. EditTypeOK
  <2>1. plan \in Seq(Steps)
    BY <1>1 DEF TypeOK
  <2>2. order = plan /\ active = Listed(plan) /\ edits = 0 /\ raised = FALSE
    BY DEF EditInit
  <2>3. \A i \in DOMAIN plan : plan[i] \in Steps
    BY <2>1
  <2>4. active \subseteq Steps
    BY <2>2, <2>3 DEF Listed
  <2> QED
    BY <2>1, <2>2, <2>4 DEF EditTypeOK
<1> QED
  BY <1>1, <1>2, <1>3 DEF KnownInv

LEMMA KnownStep ==
    ASSUME KnownInv, [EditNext]_editVars
    PROVE  KnownInv'
<1> USE DEF KnownInv
<1>1. CASE Next /\ UNCHANGED <<order, active, edits, raised>>
  <2>1. TypeOK'
    BY <1>1, TypeApi, TypeDispatcher, TypeNode, TypeEnvironment DEF Next
  <2>2. EditTypeOK'
    BY <1>1 DEF EditTypeOK
  <2> QED
    BY <1>1, <2>1, <2>2, KeyedStep, RunStep
<1>2. ASSUME NEW p \in Partitions, PollRaises(p)
      PROVE  KnownInv'
  <2>1. /\ TypeOK' /\ EditTypeOK' /\ mode' = "down" /\ mode = "polling"
        /\ UNCHANGED <<log, offset, todo, status, plan, unpublished, cancelling, queued, pc, task>>
    BY <1>2, Failed DEF PollRaises, HasNext
  <2>2. Keyed' /\ Known' /\ CommittedIsBegun'
    BY <2>1 DEF Keyed, RunInv, Known, CommittedIsBegun, EventIsKnown, Begun, Held
  <2>3. todo' = <<>>
    BY <2>1 DEF RunInv, HandlerIsGuarded
  <2>4. HandlerIsGuarded' /\ RequestInHand'
    BY <2>1, <2>3 DEF HandlerIsGuarded, RequestInHand
  <2> QED
    BY <2>1, <2>2, <2>4 DEF RunInv
<1>3. CASE Reorder \/ \E s \in Steps : SetActive(s) \/ Delete(s) \/ Create(s)
  <2>1. TypeOK' /\ EditTypeOK' /\ EditStep
    BY <1>3, Edited
  <2>2. Keyed' /\ Known' /\ CommittedIsBegun'
    BY <2>1 DEF EditStep, Keyed, RunInv, Known, CommittedIsBegun, EventIsKnown, Begun, Held
  <2>3. RequestInHand'
    BY <2>1 DEF EditStep, RunInv, RequestInHand, NextEvent, Begun, SetStatus
  <2>4. HandlerIsGuarded'
    <3>1. UNCHANGED <<mode, todo, status, log>>
      BY <2>1 DEF EditStep
    <3>2. \A type, e : HasEvent(type, e)' <=> HasEvent(type, e)
      BY <3>1 DEF HasEvent, History
    <3>3. \A i, f : Guarded(i, f) => Guarded(i, f)'
      BY <3>1, <3>2 DEF Guarded, EventIsKnown, Begun, StartsBefore, SetStatus
    <3> QED
      BY <3>1, <3>3 DEF RunInv, HandlerIsGuarded
  <2> QED
    BY <2>1, <2>2, <2>3, <2>4 DEF RunInv
<1>4. CASE UNCHANGED editVars
  <2>1. UNCHANGED <<log, offset, mode, current, todo, status, unpublished, cancelling, queued,
                    pc, task>> /\ UNCHANGED vars /\ UNCHANGED <<order, active, edits, raised>>
    BY <1>4 DEF editVars, vars
  <2>2. TypeOK' /\ EditTypeOK' /\ Keyed'
    BY <2>1 DEF vars, TypeOK, EditTypeOK, Keyed
  <2> QED
    BY <2>1, <2>2, RunStep
<1> QED
  BY <1>1, <1>2, <1>3, <1>4 DEF EditNext

THEOREM KnownInvIsInductive == EditSpec => []KnownInv
BY KnownInit, KnownStep, PTL DEF EditSpec

(* Every variable keeps its type when the plan is edited: the dispatcher    *)
(* never has an effect on a step that is not one, for it raises on an event *)
(* it cannot place.                                                         *)
THEOREM EditTypesCorrect == EditSpec => []TypeOK
<1>1. KnownInv => TypeOK
  BY DEF KnownInv
<1> QED
  BY <1>1, KnownInvIsInductive, PTL

(* No committed request is left in PENDING, whatever the plan became between *)
(* the request and its handling.                                            *)
THEOREM CommittedAnsweredUnderEdits == EditSpec => []CommittedRequestsAreAnswered
<1>1. KnownInv => CommittedRequestsAreAnswered
  BY DEF KnownInv, RunInv, CommittedIsBegun, CommittedRequestsAreAnswered, Begun
<1> QED
  BY <1>1, KnownInvIsInductive, PTL

-----------------------------------------------------------------------------
(* Until the dispatcher raises, an execution has one turn, as in            *)
(* DeliveryProofs, though its plan is not the one it was begun with: each    *)
(* event taken up releases at most one step, whichever the plan says then.   *)
Turning(f) == f.op = "enqueue" \/ (f.op = "publish" /\ f.event.type = "requested")

HandlerIsCalm ==
    /\ mode # "down"
    /\ \A i, j \in DOMAIN todo : Turning(todo[i]) /\ Turning(todo[j]) => i = j
    /\ \A i \in DOMAIN todo :
          /\ Turning(todo[i]) /\ todo[i].op = "publish" =>
                todo[i] = Publishing(Requested(todo[i].event.exec))
          /\ todo[i].op = "restart" => DOMAIN todo = {1}
          /\ \A e \in Executions : todo[i] = SetStatus(e, "failed") => Idle(e)

CalmInv ==
    /\ HandlerIsCalm
    /\ \A e \in Executions : OneTurn(e) /\ (status[e] = "failed" => Idle(e))

(* A step that gives the turn of an execution to nobody. *)
Calm(e) ==
    /\ e \in unpublished' => e \in unpublished
    /\ Carries(e)' => Carries(e)
    /\ Due(e)' \subseteq Due(e)
    /\ \A s \in Steps : queued'[<<e, s>>] <= queued[<<e, s>>]
    /\ Running(e)' \subseteq Running(e)

LEMMA CalmTurn ==
    ASSUME TypeOK, TypeOK', NEW e \in Executions, OneTurn(e), Calm(e)
    PROVE  OneTurn(e)' /\ (Idle(e) => Idle(e)')
<1> USE Quantities DEF Calm
<1>1. Waiting(e)' \subseteq Waiting(e)
  <2>1. ASSUME NEW s \in Steps, queued'[<<e, s>>] > 0
        PROVE  queued[<<e, s>>] > 0
    BY <2>1 DEF TypeOK, Tasks
  <2> QED
    BY <2>1 DEF Waiting
<1>2. \A s \in Steps : queued'[<<e, s>>] <= 1
  BY DEF OneTurn, TypeOK, Tasks
<1>3. OneTurn(e)'
  BY <1>1, <1>2 DEF OneTurn
<1> QED
  BY <1>1, <1>3 DEF Idle

(* Of an execution that does not exist yet there is nothing about. *)
LEMMA AbsentIsIdle ==
    ASSUME TypeOK, RunInv, NEW e \in Executions, status[e] = "absent"
    PROVE  Idle(e)
<1>1. e \notin unpublished
  BY DEF RunInv, Known
<1>2. Due(e) = {}
  <2>1. PartitionOf[e] \in Partitions
    BY PartitionOfAssumption
  <2> QED
    BY <2>1 DEF RunInv, Known, EventIsKnown, Due, History
<1>3. Waiting(e) = {} /\ Running(e) = {}
  <2>1. \A t \in Tasks : t[1] = e => ~Held(t)
    BY DEF RunInv, Known, Begun
  <2>2. ASSUME NEW s \in Steps
        PROVE  ~(queued[<<e, s>>] > 0)
    BY <2>1 DEF Held, Tasks
  <2>3. ASSUME NEW w \in Workers, pc[w] # "idle"
        PROVE  Exec(w) # e
    BY <2>1, <2>3, BusyWorker DEF Held, Exec
  <2> QED
    BY <2>2, <2>3 DEF Waiting, Running
<1>4. ~Carries(e)
  <2>1. ASSUME NEW i \in DOMAIN todo, todo[i] = Publishing(Requested(e))
        PROVE  FALSE
    <3>1. todo[i].op = "publish" /\ todo[i].event.exec = e
      BY <2>1 DEF Publishing, Requested, Notice
    <3> QED
      BY <3>1 DEF RunInv, HandlerIsGuarded, Guarded, EventIsKnown
  <2>2. ASSUME NEW i \in DOMAIN todo, NEW s \in Steps, todo[i] = Enqueue(e, s)
        PROVE  FALSE
    <3>1. todo[i].op = "enqueue" /\ todo[i].task[1] = e
      BY <2>2 DEF Enqueue
    <3>2. StartsBefore(i, e)
      BY <3>1 DEF RunInv, HandlerIsGuarded, Guarded, Begun
    <3>3. PICK j \in DOMAIN todo : todo[j] = SetStatus(e, "running")
      BY <3>2 DEF StartsBefore
    <3>4. todo[j].op = "set-status" /\ todo[j].exec = e
      BY <3>3 DEF SetStatus
    <3> QED
      BY <3>4 DEF RunInv, HandlerIsGuarded, Guarded
  <2> QED
    BY <2>1, <2>2 DEF Carries
<1> QED
  BY <1>1, <1>2, <1>3, <1>4 DEF Idle

(* What every step has to show of the executions it does not leave calm. *)
LEMMA CalmKept ==
    ASSUME TypeOK, TypeOK', RunInv, CalmInv,
           mode' \in {mode, "polling"}, UNCHANGED todo,
           \A e \in Executions :
               /\ Calm(e) \/ (OneTurn(e)' /\ ~Idle(e)) \/ (OneTurn(e)' /\ status[e] = "absent")
               /\ status'[e] = status[e] \/ status'[e] # "failed"
    PROVE  CalmInv'
<1>1. ASSUME NEW e \in Executions
      PROVE  /\ OneTurn(e)'
             /\ status'[e] = "failed" => Idle(e)'
             /\ Idle(e) /\ status[e] # "absent" => Idle(e)'
  <2>1. OneTurn(e) /\ (status[e] = "failed" => Idle(e))
    BY DEF CalmInv
  <2>2. CASE Calm(e)
    BY <2>1, <2>2, CalmTurn
  <2>3. CASE ~Calm(e)
    BY <2>1, <2>3
  <2> QED
    BY <2>2, <2>3
<1>2. ASSUME NEW i \in DOMAIN todo, NEW e \in Executions, todo[i] = SetStatus(e, "failed")
      PROVE  Idle(e)'
  <2>1. Idle(e)
    BY <1>2 DEF CalmInv, HandlerIsCalm
  <2>2. status[e] # "absent"
    BY <1>2 DEF RunInv, HandlerIsGuarded, Guarded, SetStatus
  <2> QED
    BY <1>1, <2>1, <2>2
<1>3. HandlerIsCalm'
  <2>1. \A i \in DOMAIN todo', e \in Executions : todo'[i] = SetStatus(e, "failed") => Idle(e)'
    BY <1>2
  <2> QED
    BY <2>1 DEF CalmInv, HandlerIsCalm, Turning, Publishing, Requested, Notice, SetStatus
<1> QED
  BY <1>1, <1>3 DEF CalmInv

LEMMA CalmApi ==
    ASSUME KnownInv, TypeOK', NoRedelivery, CalmInv, ApiStep
    PROVE  CalmInv'
<1> USE DEF KnownInv, kafkaVars, dispatcherVars, dbVars, outsideVars, catalogVars, apiVars,
            nodeVars, workerVars
<1>1. UNCHANGED <<mode, current, todo, offset, queued, pc, task>>
  BY DEF ApiStep, Schedule, Retry, CreateExecution, PublishRequest, CancelCheck, CancelPublish,
         WsCommand
<1>2. \A e \in Executions :
          (Carries(e)' <=> Carries(e)) /\ Waiting(e)' = Waiting(e) /\ Running(e)' = Running(e)
  BY <1>1 DEF Carries, Waiting, Running, Exec
<1>3. \A e \in Executions, s \in Steps : queued'[<<e, s>>] <= queued[<<e, s>>]
  BY <1>1 DEF TypeOK, Tasks
<1>4. ASSUME NEW x \in Executions, CreateExecution(x)
      PROVE  CalmInv'
  <2>1. /\ status[x] = "absent" /\ log' = log /\ unpublished' = unpublished \cup {x}
        /\ status'[x] = "pending" /\ \A e \in Executions : e # x => status'[e] = status[e]
    BY <1>4 DEF CreateExecution, TypeOK
  <2>2. \A e \in Executions : Due(e)' = Due(e)
    BY <1>1, <2>1, SameTopic
  <2>3. \A e \in Executions : e # x => Calm(e)
    BY <1>2, <1>3, <2>1, <2>2 DEF Calm
  <2>4. Idle(x)
    BY <2>1, AbsentIsIdle
  <2>5. OneTurn(x)'
    BY <1>1, <1>2, <2>2, <2>4 DEF Idle, OneTurn, CalmInv
  <2> QED
    BY <1>1, <2>1, <2>3, <2>5, CalmKept
<1>5. ASSUME NEW x \in Executions, NEW n \in 0..2, PublishRequest(x, n)
      PROVE  CalmInv'
  <2>1. PICK ev : ev = Requested(x)
    OBVIOUS
  <2>2. /\ x \in unpublished /\ unpublished' = unpublished \ {x} /\ status' = status
        /\ Publish(ev, n)
    BY <1>5, <2>1 DEF PublishRequest
  <2>3. ev \in Event /\ ev.exec = x
    BY <2>1, NoticeType DEF Requested, Notice, EventTypes
  <2>4. /\ \A e \in Executions : e # x => Due(e)' = Due(e)
        /\ Due(x) = {} => \A i \in Due(x)' : i = Len(History(x)) + 1
    BY <1>1, <2>2, <2>3, PublishedMoves
  <2>5. \A e \in Executions : e # x => Calm(e)
    BY <1>2, <1>3, <2>2, <2>4 DEF Calm
  <2>6. OneTurn(x)
    BY DEF CalmInv
  <2>7. OneTurn(x)'
    BY <1>1, <1>2, <2>2, <2>4, <2>6 DEF OneTurn
  <2>8. ~Idle(x)
    BY <2>2 DEF Idle
  <2> QED
    BY <1>1, <2>2, <2>5, <2>7, <2>8, CalmKept
<1>6. ASSUME NEW x \in Executions, NEW n \in 0..2,
             NEW type \in {"stop-requested", "restart-requested"},
             Publish(Notice(type, x, NoStep, 0), n), UNCHANGED <<unpublished, status>>
      PROVE  CalmInv'
  <2>1. PICK ev : ev = Notice(type, x, NoStep, 0)
    OBVIOUS
  <2>2. ev \in Event /\ ev.type \notin Moves /\ Publish(ev, n)
    BY <1>6, <2>1, NoticeType DEF Notice, EventTypes, Moves
  <2>3. \A e \in Executions : Due(e)' = Due(e)
    BY <1>1, <2>2, PublishedMoves
  <2>4. \A e \in Executions : Calm(e)
    BY <1>2, <1>3, <1>6, <2>3 DEF Calm
  <2> QED
    BY <1>1, <1>6, <2>4, CalmKept
<1>7. ASSUME NEW x \in Executions, CancelCheck(x)
      PROVE  CalmInv'
  <2>1. UNCHANGED <<log, unpublished, status>>
    BY <1>7 DEF CancelCheck
  <2>2. \A e \in Executions : Due(e)' = Due(e)
    BY <1>1, <2>1, SameTopic
  <2>3. \A e \in Executions : Calm(e)
    BY <1>2, <1>3, <2>1, <2>2 DEF Calm
  <2> QED
    BY <1>1, <2>1, <2>3, CalmKept
<1>8. ASSUME NEW x \in Executions, NEW n \in 0..2,
             \/ CancelPublish(x, n)
             \/ WsCommand("stop-requested", x, n) \/ WsCommand("restart-requested", x, n)
      PROVE  CalmInv'
  BY <1>6, <1>8 DEF CancelPublish, WsCommand
<1> QED
  BY <1>4, <1>5, <1>7, <1>8 DEF ApiStep, Schedule, Retry

(* A worker goes on with its task or lets it go. *)
LEMMA CalmWorkers ==
    ASSUME KnownInv, TypeOK', CalmInv,
           UNCHANGED <<mode, current, todo, offset, status, unpublished>>,
           \A e \in Executions : Due(e)' = Due(e),
           \A t \in Tasks : queued'[t] <= queued[t],
           \A w \in Workers : pc'[w] \notin {"idle", "ack"} =>
                                  pc[w] \notin {"idle", "ack"} /\ task'[w] = task[w]
    PROVE  CalmInv'
<1>1. ASSUME NEW e \in Executions
      PROVE  Calm(e)
  <2>1. Running(e)' \subseteq Running(e)
    BY DEF Running, Exec
  <2>2. Carries(e)' => Carries(e)
    BY DEF Carries
  <2>3. \A s \in Steps : queued'[<<e, s>>] <= queued[<<e, s>>]
    BY DEF Tasks
  <2> QED
    BY <2>1, <2>2, <2>3 DEF Calm
<1> QED
  BY <1>1, CalmKept DEF KnownInv

(* The turn goes from a queued task to the worker that takes it. *)
LEMMA CalmTake ==
    ASSUME KnownInv, TypeOK', CalmInv, NEW w \in Workers, NEW t \in Tasks, Take(w, t)
    PROVE  CalmInv'
<1>1. /\ UNCHANGED <<mode, current, todo, offset, log, status, unpublished>>
      /\ pc[w] = "idle" /\ queued[t] > 0
      /\ queued' = [queued EXCEPT ![t] = @ - 1]
      /\ pc' = [pc EXCEPT ![w] = "notify_started"] /\ task' = [task EXCEPT ![w] = t]
  BY DEF Take, kafkaVars, dispatcherVars, dbVars, outsideVars, apiVars
<1>2. PICK e \in Executions, s \in Steps : t = <<e, s>>
  BY DEF Tasks
<1>3. \A f \in Executions : Due(f)' = Due(f) /\ (Carries(f)' <=> Carries(f))
  BY <1>1, SameTopic DEF Carries
<1>4. /\ queued'[t] = queued[t] - 1 /\ \A u \in Tasks : u # t => queued'[u] = queued[u]
      /\ \A u \in Tasks : queued[u] \in Nat
  BY <1>1 DEF KnownInv, TypeOK
<1>5. /\ pc'[w] = "notify_started" /\ task'[w] = t
      /\ \A v \in Workers : v # w => pc'[v] = pc[v] /\ task'[v] = task[v]
  BY <1>1 DEF KnownInv, TypeOK
<1>6. Exec(w)' = e
  BY <1>2, <1>5 DEF Exec
<1>7. \A f \in Executions : f # e => Running(f)' = Running(f)
  BY <1>1, <1>5, <1>6 DEF Running, Exec
<1>8. \A f \in Executions : f # e => Calm(f)
  <2>1. \A f \in Executions, r \in Steps : f # e =>
            <<f, r>> \in Tasks /\ queued'[<<f, r>>] <= queued[<<f, r>>]
    BY <1>2, <1>4 DEF Tasks
  <2> QED
    BY <1>1, <1>3, <1>7, <2>1 DEF Calm
<1>9. OneTurn(e) /\ s \in Waiting(e)
  BY <1>1, <1>2 DEF CalmInv, Waiting
<1>10. /\ Running(e) = {} /\ Due(e) = {} /\ ~Carries(e) /\ e \notin unpublished /\ ~Idle(e)
       /\ queued[t] <= 1 /\ \A r \in Steps : r # s => ~(queued[<<e, r>>] > 0)
  BY <1>2, <1>9 DEF OneTurn, Idle, Waiting
<1>11. \A r \in Steps : <<e, r>> \in Tasks /\ queued'[<<e, r>>] = 0
  BY <1>1, <1>2, <1>4, <1>10 DEF Tasks
<1>12. Waiting(e)' = {} /\ Running(e)' = {w}
  <2>1. Waiting(e)' = {}
    BY <1>11 DEF Waiting
  <2>2. Running(e)' = {w}
    BY <1>5, <1>6, <1>10 DEF Running, Exec
  <2> QED
    BY <2>1, <2>2
<1>13. OneTurn(e)'
  BY <1>1, <1>3, <1>10, <1>11, <1>12 DEF OneTurn
<1> QED
  BY <1>1, <1>8, <1>10, <1>13, CalmKept DEF KnownInv

(* The turn goes from a worker to its report, unless that is lost. *)
LEMMA CalmReport ==
    ASSUME KnownInv, TypeOK', NoRedelivery, CalmInv, NEW w \in Workers, NEW n \in 0..2,
           NotifyCompleted(w, n) \/ NotifyFailed(w, n)
    PROVE  CalmInv'
<1>1. /\ UNCHANGED <<mode, current, todo, offset, status, unpublished, queued, task>>
      /\ pc[w] \notin {"idle", "ack"} /\ pc' = [pc EXCEPT ![w] = "ack"]
  BY DEF NotifyCompleted, NotifyFailed, Goto, dispatcherVars, dbVars, outsideVars, apiVars
<1>2. PICK e \in Executions, s \in Steps : e = Exec(w) /\ s = Step(w)
  BY <1>1, BusyWorker DEF KnownInv
<1>3. PICK type \in {"step-completed", "step-failed"} : Publish(Notice(type, e, s, 0), n)
  BY <1>2 DEF NotifyCompleted, NotifyFailed, Notify
<1>4. PICK ev : ev = Notice(type, e, s, 0)
  OBVIOUS
<1>5. ev \in Event /\ ev.exec = e /\ Publish(ev, n)
  BY <1>3, <1>4, NoticeType DEF Notice, EventTypes
<1>6. /\ \A f \in Executions : f # e => Due(f)' = Due(f)
      /\ Due(e) = {} => \A i \in Due(e)' : i = Len(History(e)) + 1
  BY <1>1, <1>5, PublishedMoves DEF KnownInv
<1>7. pc'[w] = "ack" /\ \A v \in Workers : v # w => pc'[v] = pc[v]
  BY <1>1 DEF KnownInv, TypeOK
<1>8. \A f \in Executions :
          /\ (Carries(f)' <=> Carries(f)) /\ Waiting(f)' = Waiting(f)
          /\ Running(f)' = Running(f) \ {w}
  BY <1>1, <1>7 DEF Carries, Waiting, Running, Exec
<1>9. \A f \in Executions, r \in Steps : queued'[<<f, r>>] <= queued[<<f, r>>]
  BY <1>1 DEF KnownInv, TypeOK, Tasks
<1>10. \A f \in Executions : f # e => Calm(f)
  BY <1>1, <1>6, <1>8, <1>9 DEF Calm
<1>11. OneTurn(e) /\ w \in Running(e)
  BY <1>1, <1>2 DEF CalmInv, Running
<1>12. /\ Running(e) = {w} /\ Due(e) = {} /\ ~Carries(e) /\ Waiting(e) = {}
       /\ e \notin unpublished /\ ~Idle(e) /\ \A r \in Steps : queued[<<e, r>>] <= 1
  BY <1>11 DEF OneTurn, Idle
<1>13. OneTurn(e)'
  BY <1>1, <1>6, <1>8, <1>12 DEF OneTurn
<1> QED
  BY <1>1, <1>10, <1>12, <1>13, CalmKept DEF KnownInv

LEMMA CalmNode ==
    ASSUME KnownInv, TypeOK', NoRedelivery, CalmInv, NodeStep
    PROVE  CalmInv'
<1> USE DEF kafkaVars, dispatcherVars, dbVars, outsideVars, catalogVars, apiVars
<1>1. ASSUME NEW w \in Workers, NEW n \in 0..2, NotifyStarted(w, n)
      PROVE  CalmInv'
  <2>1. /\ UNCHANGED <<mode, current, todo, offset, status, unpublished, queued, task>>
        /\ pc[w] = "notify_started" /\ pc' = [pc EXCEPT ![w] = "start_step"]
        /\ Publish(Notice("step-started", Exec(w), Step(w), 0), n)
    BY <1>1 DEF NotifyStarted, Notify, Goto
  <2>2. PICK ev : ev = Notice("step-started", Exec(w), Step(w), 0)
    OBVIOUS
  <2>3. ev \in Event /\ ev.type \notin Moves /\ Publish(ev, n)
    BY <2>1, <2>2, BusyWorker, NoticeType DEF KnownInv, Notice, EventTypes, Moves
  <2>4. \A e \in Executions : Due(e)' = Due(e)
    BY <2>1, <2>3, PublishedMoves DEF KnownInv
  <2>5. \A t \in Tasks : queued'[t] <= queued[t]
    BY <2>1 DEF KnownInv, TypeOK
  <2>6. \A v \in Workers : pc'[v] \notin {"idle", "ack"} =>
                               pc[v] \notin {"idle", "ack"} /\ task'[v] = task[v]
    BY <2>1 DEF KnownInv, TypeOK
  <2> QED
    BY <2>1, <2>4, <2>5, <2>6, CalmWorkers
<1>2. ASSUME UNCHANGED <<log, mode, current, todo, offset, status, unpublished>>,
             \A t \in Tasks : queued'[t] <= queued[t],
             \A w \in Workers : pc'[w] \notin {"idle", "ack"} =>
                                    pc[w] \notin {"idle", "ack"} /\ task'[w] = task[w]
      PROVE  CalmInv'
  BY <1>2, SameTopic, CalmWorkers
<1>3. \A t \in Tasks : queued[t] \in Nat /\ queued[t] <= queued[t]
  BY DEF KnownInv, TypeOK
<1>4. ASSUME NEW w \in Workers,
             StartStep(w) \/ Passes(w) \/ Fails(w) \/ RunRaises(w) \/ Recover(w) \/ CallRaises(w)
      PROVE  CalmInv'
  <2>1. /\ UNCHANGED <<log, mode, current, todo, offset, status, unpublished, queued, task>>
        /\ pc[w] \notin {"idle", "ack"} /\ \E next \in PCs : Goto(w, next)
    BY <1>4 DEF StartStep, Passes, Fails, RunRaises, Recover, CallRaises, PCs
  <2>2. \A v \in Workers : pc'[v] \notin {"idle", "ack"} =>
                               pc[v] \notin {"idle", "ack"} /\ task'[v] = task[v]
    BY <2>1 DEF Goto, KnownInv, TypeOK
  <2> QED
    BY <1>2, <1>3, <2>1, <2>2
<1>5. ASSUME NEW w \in Workers, Ack(w) \/ ChildLost(w)
      PROVE  CalmInv'
  <2>1. /\ UNCHANGED <<log, mode, current, todo, offset, status, unpublished, queued>>
        /\ GoIdle(w)
    BY <1>5 DEF Ack, ChildLost
  <2>2. \A v \in Workers : pc'[v] \notin {"idle", "ack"} =>
                               pc[v] \notin {"idle", "ack"} /\ task'[v] = task[v]
    BY <2>1 DEF GoIdle, KnownInv, TypeOK
  <2> QED
    BY <1>2, <1>3, <2>1, <2>2
<1>6. ASSUME NEW t \in Tasks, Discard(t)
      PROVE  CalmInv'
  <2>1. /\ UNCHANGED <<log, mode, current, todo, offset, status, unpublished, pc, task>>
        /\ queued' = [queued EXCEPT ![t] = @ - 1]
    BY <1>6 DEF Discard, workerVars
  <2>2. \A u \in Tasks : queued'[u] <= queued[u]
    BY <1>3, <2>1 DEF KnownInv, TypeOK
  <2> QED
    BY <1>2, <2>1, <2>2
<1>7. ASSUME NEW t \in Tasks, RevokeArrives(t)
      PROVE  CalmInv'
  <2>1. UNCHANGED <<log, mode, current, todo, offset, status, unpublished, queued>>
    BY <1>7 DEF RevokeArrives
  <2>2. \A v \in Workers : pc'[v] \notin {"idle", "ack"} =>
                               pc[v] \notin {"idle", "ack"} /\ task'[v] = task[v]
    BY <1>7 DEF RevokeArrives, GoIdle, workerVars, KnownInv, TypeOK
  <2> QED
    BY <1>2, <1>3, <2>1, <2>2
<1> QED
  BY <1>1, <1>4, <1>5, <1>6, <1>7, CalmTake, CalmReport DEF NodeStep, Execute

LEMMA CalmEnvironment ==
    ASSUME KnownInv, TypeOK', NoRedelivery, CalmInv, Environment
    PROVE  CalmInv'
<1>1. PICK x \in Executions : CacheExpires(x)
  BY DEF Environment, Crash, Fault, NoRedelivery, Restart, CalmInv, HandlerIsCalm
<1>2. UNCHANGED <<log, mode, current, todo, offset, status, unpublished, queued, pc, task>>
  BY <1>1 DEF CacheExpires, kafkaVars, dispatcherVars, dbVars, outsideVars, apiVars, workerVars
<1>3. \A t \in Tasks : queued'[t] <= queued[t]
  BY <1>2 DEF KnownInv, TypeOK
<1> QED
  BY <1>2, <1>3, SameTopic, CalmWorkers

-----------------------------------------------------------------------------
(* The first effect of a handler happens. *)
LEMMA Popped ==
    ASSUME TypeOK, todo # <<>>, todo' = Tail(todo)
    PROVE  /\ 1 \in DOMAIN todo /\ Head(todo) = todo[1]
           /\ \A i \in DOMAIN todo' :
                  i + 1 \in DOMAIN todo /\ i + 1 # 1 /\ todo'[i] = todo[i + 1]
           /\ todo = <<todo[1]>> => todo' = <<>>
<1>1. todo \in Seq(Effect)
  BY DEF TypeOK
<1> QED
  BY <1>1

LEMMA CalmPopped ==
    ASSUME TypeOK, TypeOK', CalmInv, mode' = mode, todo # <<>>, todo' = Tail(todo),
           \A e \in Executions :
               /\ Calm(e) \/ (OneTurn(e)' /\ ~Idle(e))
               /\ status'[e] = status[e] \/ status'[e] # "failed" \/ Idle(e)
    PROVE  CalmInv'
<1>1. ASSUME NEW e \in Executions
      PROVE  /\ OneTurn(e)'
             /\ status'[e] = "failed" => Idle(e)'
             /\ Idle(e) => Idle(e)'
  <2>1. OneTurn(e) /\ (status[e] = "failed" => Idle(e))
    BY DEF CalmInv
  <2>2. CASE Calm(e)
    BY <2>1, <2>2, CalmTurn
  <2>3. CASE ~Calm(e)
    BY <2>1, <2>3
  <2> QED
    BY <2>2, <2>3
<1>2. \A i \in DOMAIN todo' :
          i + 1 \in DOMAIN todo /\ i + 1 # 1 /\ todo'[i] = todo[i + 1] /\ i \in Nat
  <2>1. todo' \in Seq(Effect)
    BY DEF TypeOK
  <2> QED
    BY <2>1, Popped
<1>3. mode' # "down"
  BY DEF CalmInv, HandlerIsCalm
<1>4. ASSUME NEW i \in DOMAIN todo', NEW j \in DOMAIN todo', Turning(todo'[i]), Turning(todo'[j])
      PROVE  i = j
  <2>1. i + 1 = j + 1
    BY <1>2, <1>4 DEF CalmInv, HandlerIsCalm
  <2> QED
    BY <1>2, <2>1
<1>5. ASSUME NEW i \in DOMAIN todo'
      PROVE  /\ Turning(todo'[i]) /\ todo'[i].op = "publish" =>
                    todo'[i] = Publishing(Requested(todo'[i].event.exec))
             /\ todo'[i].op # "restart"
             /\ \A e \in Executions : todo'[i] = SetStatus(e, "failed") => Idle(e)'
  <2>1. todo'[i] = todo[i + 1] /\ i + 1 \in DOMAIN todo /\ i + 1 # 1
    BY <1>2
  <2>2. /\ Turning(todo[i + 1]) /\ todo[i + 1].op = "publish" =>
               todo[i + 1] = Publishing(Requested(todo[i + 1].event.exec))
        /\ todo[i + 1].op # "restart"
        /\ \A e \in Executions : todo[i + 1] = SetStatus(e, "failed") => Idle(e)
    BY <2>1 DEF CalmInv, HandlerIsCalm
  <2> QED
    BY <1>1, <2>1, <2>2
<1>6. HandlerIsCalm'
  BY <1>3, <1>4, <1>5 DEF HandlerIsCalm, Turning, Publishing, Requested, Notice, SetStatus
<1> QED
  BY <1>1, <1>6 DEF CalmInv

LEMMA CarriersTurn ==
    ASSUME NEW f, NEW e, f = Publishing(Requested(e)) \/ \E s \in Steps : f = Enqueue(e, s)
    PROVE  Turning(f)
BY DEF Turning, Publishing, Requested, Notice, Enqueue

(* The head of a handler carries the turn of e: nothing is left that does. *)
LEMMA CarriedOff ==
    ASSUME TypeOK, CalmInv, todo # <<>>, todo' = Tail(todo), NEW e \in Executions,
           todo[1] = Publishing(Requested(e)) \/ \E s \in Steps : todo[1] = Enqueue(e, s)
    PROVE  /\ Carries(e) /\ ~Idle(e) /\ e \notin unpublished
           /\ Due(e) = {} /\ Waiting(e) = {} /\ Running(e) = {}
           /\ \A f \in Executions : ~Carries(f)'
<1>1. Carries(e)
  BY Popped DEF Carries
<1>2. 1 \in DOMAIN todo /\ Turning(todo[1])
  BY Popped, CarriersTurn
<1>3. ASSUME NEW f \in Executions, Carries(f)'
      PROVE  FALSE
  <2>1. PICK i \in DOMAIN todo' :
            todo'[i] = Publishing(Requested(f)) \/ \E s \in Steps : todo'[i] = Enqueue(f, s)
    BY <1>3 DEF Carries
  <2>2. i + 1 \in DOMAIN todo /\ i + 1 # 1 /\ todo'[i] = todo[i + 1]
    BY Popped
  <2>3. Turning(todo[i + 1])
    BY <2>1, <2>2, CarriersTurn
  <2> QED
    BY <1>2, <2>2, <2>3 DEF CalmInv, HandlerIsCalm
<1>4. OneTurn(e)
  BY DEF CalmInv
<1> QED
  BY <1>1, <1>3, <1>4 DEF OneTurn, Idle

(* The head of a handler is not about the turn of e. *)
LEMMA LessCarried ==
    ASSUME TypeOK, todo # <<>>, todo' = Tail(todo), NEW e \in Executions, Carries(e)'
    PROVE  Carries(e)
<1>1. PICK i \in DOMAIN todo' :
          todo'[i] = Publishing(Requested(e)) \/ \E s \in Steps : todo'[i] = Enqueue(e, s)
  BY DEF Carries
<1>2. i + 1 \in DOMAIN todo /\ todo'[i] = todo[i + 1]
  BY Popped
<1> QED
  BY <1>1, <1>2 DEF Carries

LEMMA CalmPlain ==
    ASSUME KnownInv, TypeOK', CalmInv, todo # <<>>, todo' = Tail(todo),
           UNCHANGED <<mode, unpublished, queued, pc, task>>,
           \A e \in Executions : Due(e)' = Due(e),
           \A e \in Executions : status'[e] = status[e] \/ status'[e] # "failed" \/ Idle(e)
    PROVE  CalmInv'
<1>1. ASSUME NEW e \in Executions
      PROVE  Calm(e)
  <2>1. \A s \in Steps : queued'[<<e, s>>] <= queued[<<e, s>>]
    BY DEF KnownInv, TypeOK, Tasks
  <2>2. Running(e)' = Running(e)
    BY DEF Running, Exec
  <2>3. Carries(e)' => Carries(e)
    BY LessCarried DEF KnownInv
  <2> QED
    BY <2>1, <2>2, <2>3 DEF Calm
<1> QED
  BY <1>1, CalmPopped DEF KnownInv

LEMMA CalmSetStatus ==
    ASSUME KnownInv, TypeOK', CalmInv, DoSetStatus
    PROVE  CalmInv'
<1>1. /\ todo # <<>> /\ todo' = Tail(todo)
      /\ UNCHANGED <<log, offset, mode, current, unpublished, queued, pc, task>>
      /\ Head(todo).op = "set-status"
      /\ status' = [status EXCEPT ![Head(todo).exec] = Head(todo).status]
  BY DEF DoSetStatus, NextEffectIs, kafkaVars, dbVars, outsideVars, apiVars, nodeVars, workerVars
<1>2. 1 \in DOMAIN todo /\ Head(todo) = todo[1]
  BY <1>1, Popped DEF KnownInv
<1>3. PICK s : s = Head(todo).status
  OBVIOUS
<1>4. PICK x \in Executions : todo[1] = SetStatus(x, s) /\ x = Head(todo).exec
  BY <1>1, <1>2, <1>3, EffectType DEF KnownInv
<1>5. s = "failed" => Idle(x)
  BY <1>2, <1>4 DEF CalmInv, HandlerIsCalm
<1>6. status'[x] = s /\ \A e \in Executions : e # x => status'[e] = status[e]
  BY <1>1, <1>3, <1>4 DEF KnownInv, TypeOK
<1> QED
  BY <1>1, <1>5, <1>6, SameTopic, CalmPlain

LEMMA CalmPublish ==
    ASSUME KnownInv, TypeOK', NoRedelivery, CalmInv, NEW n \in 0..2, DoPublish(n)
    PROVE  CalmInv'
<1>1. /\ todo # <<>> /\ todo' = Tail(todo)
      /\ UNCHANGED <<offset, mode, current, status, unpublished, queued, pc, task>>
      /\ Head(todo).op = "publish" /\ Publish(Head(todo).event, n)
  BY DEF DoPublish, NextEffectIs, dbVars, outsideVars, apiVars, nodeVars, workerVars
<1>2. 1 \in DOMAIN todo /\ Head(todo) = todo[1]
  BY <1>1, Popped DEF KnownInv
<1>3. PICK ev \in Event : ev = todo[1].event
  BY <1>1, <1>2, EffectType DEF KnownInv
<1>4. Publish(ev, n) /\ todo[1].op = "publish"
  BY <1>1, <1>2, <1>3
<1>5. CASE ev.type # "requested"
  <2>1. ev.type \notin Moves
    BY <1>2, <1>3, <1>4, <1>5 DEF KnownInv, RunInv, HandlerIsGuarded, Guarded, Reports, Moves
  <2>2. \A e \in Executions : Due(e)' = Due(e)
    BY <1>1, <1>4, <2>1, PublishedMoves DEF KnownInv
  <2> QED
    BY <1>1, <2>2, CalmPlain
<1>6. CASE ev.type = "requested"
  <2>1. PICK x \in Executions : x = ev.exec
    BY DEF Event
  <2>2. todo[1] = Publishing(Requested(x))
    BY <1>2, <1>3, <1>4, <1>6, <2>1 DEF CalmInv, HandlerIsCalm, Turning
  <2>3. /\ ~Idle(x) /\ x \notin unpublished
        /\ Due(x) = {} /\ Waiting(x) = {} /\ Running(x) = {}
        /\ \A f \in Executions : ~Carries(f)'
    BY <1>1, <2>2, CarriedOff DEF KnownInv
  <2>4. /\ \A e \in Executions : e # x => Due(e)' = Due(e)
        /\ \A i \in Due(x)' : i = Len(History(x)) + 1
    BY <1>1, <1>4, <2>1, <2>3, PublishedMoves DEF KnownInv
  <2>5. \A e \in Executions : Waiting(e)' = Waiting(e) /\ Running(e)' = Running(e)
    BY <1>1 DEF Waiting, Running, Exec
  <2>6. \A e \in Executions, s \in Steps : queued'[<<e, s>>] <= queued[<<e, s>>]
    BY <1>1 DEF KnownInv, TypeOK, Tasks
  <2>7. \A e \in Executions : e # x => Calm(e)
    BY <1>1, <2>3, <2>4, <2>5, <2>6 DEF Calm
  <2>8. OneTurn(x)
    BY DEF CalmInv
  <2>9. OneTurn(x)'
    BY <1>1, <2>3, <2>4, <2>5, <2>8 DEF OneTurn
  <2> QED
    BY <1>1, <2>3, <2>7, <2>9, CalmPopped DEF KnownInv
<1> QED
  BY <1>5, <1>6

LEMMA CalmEnqueue ==
    ASSUME KnownInv, TypeOK', CalmInv, DoEnqueue
    PROVE  CalmInv'
<1>1. /\ todo # <<>> /\ todo' = Tail(todo)
      /\ UNCHANGED <<log, offset, mode, current, status, unpublished, pc, task>>
      /\ Head(todo).op = "enqueue" /\ queued' = [queued EXCEPT ![Head(todo).task] = @ + 1]
  BY DEF DoEnqueue, NextEffectIs, kafkaVars, dbVars, outsideVars, apiVars, workerVars
<1>2. 1 \in DOMAIN todo /\ Head(todo) = todo[1]
  BY <1>1, Popped DEF KnownInv
<1>3. todo[1] \in Effect /\ todo[1].op = "enqueue" /\ todo[1].task \in Tasks
  BY <1>1, <1>2, EffectType DEF KnownInv
<1>4. PICK x \in Executions, s \in Steps : todo[1].task = <<x, s>>
  BY <1>3 DEF Tasks
<1>5. todo[1] = Enqueue(x, s)
  BY <1>3, <1>4 DEF Effect, Enqueue
<1>6. /\ ~Idle(x) /\ x \notin unpublished
      /\ Due(x) = {} /\ Waiting(x) = {} /\ Running(x) = {}
      /\ \A f \in Executions : ~Carries(f)'
  BY <1>1, <1>5, CarriedOff DEF KnownInv
<1>7. \A e \in Executions : Due(e)' = Due(e) /\ Running(e)' = Running(e)
  BY <1>1, SameTopic DEF Running, Exec
<1>8. /\ queued'[<<x, s>>] = queued[<<x, s>>] + 1
      /\ \A e \in Executions, r \in Steps :
             <<e, r>> # <<x, s>> => queued'[<<e, r>>] = queued[<<e, r>>]
      /\ \A e \in Executions, r \in Steps : queued[<<e, r>>] \in Nat
  <2>1. PICK u : u = <<x, s>>
    OBVIOUS
  <2>2. u \in Tasks /\ queued' = [queued EXCEPT ![u] = @ + 1]
    BY <1>1, <1>2, <1>4, <2>1 DEF Tasks
  <2>3. \A v \in Tasks : queued[v] \in Nat /\ queued'[v] = IF v = u THEN queued[v] + 1 ELSE queued[v]
    BY <2>2 DEF KnownInv, TypeOK
  <2>4. \A e \in Executions, r \in Steps : <<e, r>> \in Tasks
    BY DEF Tasks
  <2> QED
    BY <2>1, <2>3, <2>4
<1>9. \A e \in Executions : e # x => Calm(e)
  <2>1. \A e \in Executions, r \in Steps : e # x => queued'[<<e, r>>] <= queued[<<e, r>>]
    BY <1>8
  <2> QED
    BY <1>1, <1>6, <1>7, <2>1 DEF Calm
<1>10. \A r \in Steps : queued[<<x, r>>] = 0
  BY <1>6, <1>8 DEF Waiting
<1>11. \A r \in Steps : queued'[<<x, r>>] <= 1 /\ (queued'[<<x, r>>] > 0 => r = s)
  BY <1>8, <1>10
<1>12. \A r \in Waiting(x)' : r = s
  BY <1>11 DEF Waiting
<1>13. OneTurn(x)'
  BY <1>1, <1>6, <1>7, <1>11, <1>12 DEF OneTurn
<1> QED
  BY <1>1, <1>6, <1>9, <1>13, CalmPopped DEF KnownInv

LEMMA CalmRevoke ==
    ASSUME KnownInv, TypeOK', CalmInv, DoRevoke
    PROVE  CalmInv'
<1>1. /\ todo # <<>> /\ todo' = Tail(todo)
      /\ UNCHANGED <<log, offset, mode, current, status, unpublished, queued, pc, task>>
  BY DEF DoRevoke, NextEffectIs, kafkaVars, dbVars, outsideVars, apiVars, workerVars
<1> QED
  BY <1>1, SameTopic, CalmPlain

(* A handler begins, or publishes the request of a new execution: at most   *)
(* one execution is not calm, and it has one turn.                          *)
LEMMA CalmBegun ==
    ASSUME TypeOK, TypeOK', CalmInv, HandlerIsCalm', NEW x \in Executions,
           OneTurn(x)', status'[x] # "failed",
           \A e \in Executions : e # x => Calm(e) /\ status'[e] = status[e]
    PROVE  CalmInv'
<1>1. ASSUME NEW e \in Executions
      PROVE  OneTurn(e)' /\ (status'[e] = "failed" => Idle(e)')
  <2>1. CASE e = x
    BY <2>1
  <2>2. CASE e # x
    BY <2>2, CalmTurn DEF CalmInv
  <2> QED
    BY <2>1, <2>2
<1> QED
  BY <1>1 DEF CalmInv

(* A restart is the whole handler, and so is the request it leads to. *)
LEMMA CalmRestart ==
    ASSUME KnownInv, TypeOK', CalmInv, DoRestart
    PROVE  CalmInv'
<1>1. /\ mode = "handling" /\ todo # <<>> /\ Head(todo).op = "restart"
      /\ UNCHANGED <<log, offset, mode, current, unpublished, queued, pc, task>>
  BY DEF DoRestart, NextEffectIs, kafkaVars, outsideVars, apiVars, nodeVars, workerVars
<1>2. DOMAIN todo = {1} /\ todo[1].op = "restart"
  <2>1. 1 \in DOMAIN todo /\ Head(todo) = todo[1]
    BY <1>1 DEF KnownInv, TypeOK
  <2> QED
    BY <1>1, <2>1 DEF CalmInv, HandlerIsCalm
<1>3. Tail(todo) = <<>>
  <2>1. todo \in Seq(Effect)
    BY DEF KnownInv, TypeOK
  <2>2. Len(todo) = 1
    BY <1>2, <2>1
  <2>3. PICK a : a = todo[1]
    OBVIOUS
  <2>4. todo = <<a>>
    BY <2>1, <2>2, <2>3
  <2> QED
    BY <2>4, ThreeEffects
<1>4. CASE todo' = Tail(todo) /\ UNCHANGED status
  BY <1>1, <1>4, SameTopic, CalmPlain
<1>5. ASSUME NEW x \in Executions, status[x] = "absent",
             status' = [status EXCEPT ![x] = "pending"],
             todo' = <<Publishing(Requested(x))>> \o Tail(todo)
      PROVE  CalmInv'
  <2>1. PICK a : a = Publishing(Requested(x))
    OBVIOUS
  <2>2. todo' = <<a>>
    <3>1. todo' = <<a>> \o <<>>
      BY <1>3, <1>5, <2>1
    <3>2. <<a>> \o <<>> = <<a>>
      OBVIOUS
    <3> QED
      BY <3>1, <3>2
  <2>3. DOMAIN todo' = {1} /\ todo'[1] = a
    BY <2>2
  <2>4. a.op = "publish" /\ a.event.exec = x /\ a = Publishing(Requested(a.event.exec))
    BY <2>1 DEF Publishing, Requested, Notice
  <2>5. HandlerIsCalm'
    <3>1. mode' # "down"
      BY <1>1
    <3>2. \A e \in Executions : a # SetStatus(e, "failed")
      BY <2>4 DEF SetStatus
    <3> QED
      BY <2>3, <2>4, <3>1, <3>2 DEF HandlerIsCalm, Publishing, Requested, Notice, SetStatus
  <2>6. \A e \in Executions : e # x => ~Carries(e)'
    <3>1. \A e \in Executions : e # x =>
              a # Publishing(Requested(e)) /\ \A s \in Steps : a # Enqueue(e, s)
      BY <2>1 DEF Publishing, Requested, Notice, Enqueue
    <3> QED
      BY <2>3, <3>1 DEF Carries
  <2>7. \A e \in Executions :
            Due(e)' = Due(e) /\ Waiting(e)' = Waiting(e) /\ Running(e)' = Running(e)
    BY <1>1, SameTopic DEF Waiting, Running, Exec
  <2>8. \A e \in Executions, s \in Steps : queued'[<<e, s>>] <= queued[<<e, s>>]
    BY <1>1 DEF KnownInv, TypeOK, Tasks
  <2>9. Idle(x) /\ OneTurn(x)
    BY <1>5, AbsentIsIdle DEF KnownInv, CalmInv
  <2>10. OneTurn(x)'
    BY <1>1, <2>7, <2>9 DEF Idle, OneTurn
  <2>11. status'[x] = "pending" /\ \A e \in Executions : e # x => status'[e] = status[e]
    BY <1>5 DEF KnownInv, TypeOK
  <2>12. \A e \in Executions : e # x => Calm(e)
    BY <1>1, <2>6, <2>7, <2>8 DEF Calm
  <2> QED
    BY <2>5, <2>10, <2>11, <2>12, CalmBegun DEF KnownInv
<1> QED
  BY <1>4, <1>5 DEF DoRestart

LEMMA CalmCommit ==
    ASSUME KnownInv, TypeOK', CalmInv, Commit
    PROVE  CalmInv'
<1>1. /\ mode = "handling" /\ mode' = "polling" /\ offset' = [offset EXCEPT ![current] = @ + 1]
      /\ UNCHANGED <<log, todo, status, unpublished, queued, pc, task>>
  BY DEF Commit, dbVars, outsideVars, apiVars, nodeVars, workerVars
<1>2. \A q \in Partitions : Taken(q) <= Taken(q)'
  <2>1. offset \in [Partitions -> Nat]
    BY DEF KnownInv, TypeOK
  <2> QED
    BY <1>1, <2>1 DEF Taken
<1>3. \A e \in Executions : Due(e)' \subseteq Due(e)
  BY <1>1, <1>2, TakenUp DEF KnownInv
<1>4. \A e \in Executions, s \in Steps : queued'[<<e, s>>] <= queued[<<e, s>>]
  BY <1>1 DEF KnownInv, TypeOK, Tasks
<1>5. \A e \in Executions : Calm(e)
  BY <1>1, <1>3, <1>4 DEF Calm, Carries, Running, Exec
<1> QED
  BY <1>1, <1>5, CalmKept DEF KnownInv

LEMMA CalmSkip ==
    ASSUME KnownInv, TypeOK', CalmInv, NEW p \in Partitions, Skip(p)
    PROVE  CalmInv'
<1>1. /\ mode' = mode /\ current' = current /\ offset' = [offset EXCEPT ![p] = @ + 1]
      /\ UNCHANGED <<log, todo, status, unpublished, queued, pc, task>>
  BY DEF Skip, dispatcherVars, dbVars, outsideVars, apiVars, nodeVars, workerVars
<1>2. \A q \in Partitions : Taken(q) <= Taken(q)'
  <2>1. offset \in [Partitions -> Nat]
    BY DEF KnownInv, TypeOK
  <2> QED
    BY <1>1, <2>1 DEF Taken
<1>3. \A e \in Executions : Due(e)' \subseteq Due(e)
  BY <1>1, <1>2, TakenUp DEF KnownInv
<1>4. \A e \in Executions, s \in Steps : queued'[<<e, s>>] <= queued[<<e, s>>]
  BY <1>1 DEF KnownInv, TypeOK, Tasks
<1>5. \A e \in Executions : Calm(e)
  BY <1>1, <1>3, <1>4 DEF Calm, Carries, Running, Exec
<1> QED
  BY <1>1, <1>5, CalmKept DEF KnownInv

(* What a handler does, whatever the plan: it releases one step at most, of *)
(* the execution its event is about, and only an event that moves that      *)
(* execution on makes it do so; a failure is set for a step's failure alone.*)
ReleasesOne(f, ev) ==
    /\ f.op = "publish" => f.event.type # "requested"
    /\ f.op = "enqueue" => f.task[1] = ev.exec /\ ev.type \in {"requested", "step-completed"}
    /\ f.op # "restart"
    /\ \A e \in Executions :
          f = SetStatus(e, "failed") => e = ev.exec /\ ev.type = "step-failed"

LEMMA HandleReleases ==
    ASSUME TypeOK, NEW ev \in Event
    PROVE  \/ Handle(ev) = <<[op |-> "restart"]>>
           \/ /\ \A i \in DOMAIN Handle(ev) : ReleasesOne(Handle(ev)[i], ev)
              /\ \A i, j \in DOMAIN Handle(ev) :
                     Handle(ev)[i].op = "enqueue" /\ Handle(ev)[j].op = "enqueue" => i = j
<1> DEFINE x == ev.exec
           Pair(r) == /\ DOMAIN r = 1..2 /\ r[1].op # "enqueue"
                      /\ ReleasesOne(r[1], ev) /\ ReleasesOne(r[2], ev)
           Done(h) == /\ \A i \in DOMAIN h : ReleasesOne(h[i], ev)
                      /\ \A i, j \in DOMAIN h : h[i].op = "enqueue" /\ h[j].op = "enqueue" => i = j
<1>1. ASSUME NEW n
      PROVE  Pair(Complete(x, n))
  <2>1. PICK a, b : a = SetStatus(x, "completed") /\ b = Publishing(Notice("plan-completed", x, NoStep, n))
    OBVIOUS
  <2>2. ReleasesOne(a, ev) /\ ReleasesOne(b, ev) /\ a.op # "enqueue"
    BY <2>1 DEF ReleasesOne, SetStatus, Publishing, Notice
  <2>3. Complete(x, n) = <<a, b>>
    BY <2>1 DEF Complete
  <2> QED
    BY <2>2, <2>3
<1>2. ASSUME NEW type \in {"plan-started", "plan-progressed"}, NEW k,
             ev.type \in {"requested", "step-completed"}
      PROVE  Pair(Release(type, x, k))
  <2>1. PICK a, b : a = Publishing(Notice(type, x, plan[k], k - 1)) /\ b = Enqueue(x, plan[k])
    OBVIOUS
  <2>2. ReleasesOne(a, ev) /\ ReleasesOne(b, ev) /\ a.op # "enqueue"
    BY <1>2, <2>1 DEF ReleasesOne, SetStatus, Publishing, Notice, Enqueue
  <2>3. Release(type, x, k) = <<a, b>>
    BY <2>1 DEF Release
  <2> QED
    BY <2>2, <2>3
<1>3. ASSUME NEW r, Pair(r)
      PROVE  Done(r)
  BY <1>3
<1>4. Done(<<>>)
  OBVIOUS
<1>5. CASE ev.type = "requested"
  <2> DEFINE rest == IF plan = <<>> THEN Complete(x, 0) ELSE Release("plan-started", x, 1)
  <2>1. PICK h : h = Handle(ev)
    OBVIOUS
  <2>2. \/ h = <<>>
        \/ DOMAIN h = 1..3 /\ h[1] = SetStatus(x, "running") /\ h[2] = rest[1] /\ h[3] = rest[2]
    BY <1>5, <2>1, RequestIsAnswered
  <2>3. Pair(rest)
    <3> HIDE DEF Pair
    <3> QED
      BY <1>1, <1>2, <1>5
  <2>4. ReleasesOne(SetStatus(x, "running"), ev) /\ SetStatus(x, "running").op # "enqueue"
    BY DEF ReleasesOne, SetStatus
  <2>5. Done(h)
    <3> HIDE DEF rest
    <3> QED
      BY <1>4, <2>2, <2>3, <2>4
  <2> QED
    BY <2>1, <2>5
<1>6. CASE ev.type = "step-completed"
  <2>1. PICK h : h = Handle(ev)
    OBVIOUS
  <2>2. \/ h = <<>> \/ h = Complete(x, Len(plan))
        \/ \E k : h = Release("plan-progressed", x, k)
    BY <1>6, <2>1 DEF Handle, StepCompletedEffects
  <2>3. Done(h)
    <3> HIDE DEF Pair, Done
    <3> QED
      BY <1>1, <1>2, <1>3, <1>4, <1>6, <2>2
  <2> QED
    BY <2>1, <2>3
<1>7. CASE ev.type = "step-failed"
  <2>1. PICK a, b : a = SetStatus(x, "failed") /\ b = Publishing(Notice("plan-failed", x, ev.step, 0))
    OBVIOUS
  <2>2. ReleasesOne(a, ev) /\ ReleasesOne(b, ev) /\ a.op # "enqueue" /\ b.op # "enqueue"
    BY <1>7, <2>1 DEF ReleasesOne, SetStatus, Publishing, Notice
  <2>3. Handle(ev) = <<a, b>>
    BY <1>7, <2>1 DEF Handle, StepFailedEffects
  <2> QED
    BY <2>2, <2>3
<1>8. CASE ev.type = "stop-requested"
  <2>1. PICK a, b, c : /\ a = SetStatus(x, "cancelled") /\ b = [op |-> "revoke", exec |-> x]
                       /\ c = Publishing(Notice("plan-stopped", x, NoStep, 0))
    OBVIOUS
  <2>2. /\ ReleasesOne(a, ev) /\ ReleasesOne(b, ev) /\ ReleasesOne(c, ev)
        /\ a.op # "enqueue" /\ b.op # "enqueue" /\ c.op # "enqueue"
    BY <1>8, <2>1 DEF ReleasesOne, SetStatus, Publishing, Notice
  <2>3. Handle(ev) = <<a, b, c>>
    BY <1>8, <2>1 DEF Handle, StopEffects
  <2> QED
    BY <2>2, <2>3
<1>9. CASE ev.type \notin {"requested", "step-completed", "step-failed", "stop-requested"}
  BY <1>4, <1>9 DEF Handle
<1> QED
  BY <1>5, <1>6, <1>7, <1>8, <1>9

(* The dispatcher takes up the report or request that had the turn. *)
LEMMA CalmPoll ==
    ASSUME KnownInv, TypeOK', CalmInv, NEW p \in Partitions, Poll(p)
    PROVE  CalmInv'
<1>1. /\ mode = "polling" /\ mode' = "handling" /\ current' = p
      /\ todo' = Handle(NextEvent(p))
      /\ UNCHANGED <<log, offset, status, unpublished, queued, pc, task>>
  BY DEF Poll, HasNext, kafkaVars, dbVars, nodeVars, workerVars, outsideVars, apiVars
<1>2. PICK x \in Event : x = NextEvent(p)
  BY NextEventType DEF Poll, KnownInv
<1>3. PICK o \in Nat : o = offset[p] /\ o + 1 \in DOMAIN log[p]
  BY DEF Poll, HasNext, KnownInv, TypeOK
<1>4. PICK f \in Executions : f = x.exec
  BY DEF Event
<1>5. log[p][o + 1] = x /\ PartitionOf[f] = p /\ History(f) = log[p]
  BY <1>2, <1>3, <1>4 DEF NextEvent, KnownInv, Keyed, History
<1>6. todo = <<>> /\ \A g \in Executions : ~Carries(g)
  BY <1>1 DEF KnownInv, RunInv, HandlerIsGuarded, Carries
<1>7. Taken(p) = o /\ Taken(p)' = o + 1 /\ \A q \in Partitions : q # p => Taken(q)' = Taken(q)
  BY <1>1, <1>3 DEF Taken
<1>8. \A g \in Executions :
          Due(g)' \subseteq Due(g) /\ Waiting(g)' = Waiting(g) /\ Running(g)' = Running(g)
  <2>1. \A q \in Partitions : Taken(q) \in Nat
    BY TakenType DEF KnownInv
  <2>2. \A q \in Partitions : Taken(q) <= Taken(q)'
    BY <1>3, <1>7, <2>1
  <2> QED
    BY <1>1, <2>2, TakenUp DEF KnownInv, Waiting, Running, Exec
<1>9. \A g \in Executions, s \in Steps : queued'[<<g, s>>] <= queued[<<g, s>>]
  BY <1>1 DEF KnownInv, TypeOK, Tasks
<1>10. \A g \in Executions : ~Carries(g)' => Calm(g)
  BY <1>1, <1>8, <1>9 DEF Calm
<1>11. ASSUME x.type \in Moves
       PROVE  ~Idle(f) /\ OneTurn(f)' /\ (~Carries(f)' => Idle(f)')
  <2>1. o + 1 \in Due(f)
    BY <1>3, <1>4, <1>5, <1>7, <1>11 DEF Due
  <2>2. OneTurn(f)
    BY DEF CalmInv
  <2>3. f \notin unpublished /\ Waiting(f) = {} /\ Running(f) = {} /\ Due(f) = {o + 1} /\ ~Idle(f)
    BY <2>1, <2>2 DEF OneTurn, Idle
  <2>4. o + 1 \notin Due(f)'
    BY <1>5, <1>7 DEF Due
  <2>5. f \notin unpublished' /\ Due(f)' = {} /\ Waiting(f)' = {} /\ Running(f)' = {}
    BY <1>1, <1>8, <2>3, <2>4
  <2>6. \A s \in Steps : queued'[<<f, s>>] <= 1
    BY <1>1, <2>2 DEF OneTurn
  <2> QED
    BY <2>3, <2>5, <2>6 DEF OneTurn, Idle
<1>12. CASE todo' = <<[op |-> "restart"]>>
  <2>1. PICK a : a = [op |-> "restart"]
    OBVIOUS
  <2>2. DOMAIN todo' = {1} /\ todo'[1] = a
    BY <1>12, <2>1
  <2>3. a.op = "restart" /\ \A g \in Executions : NotFor(a, g) /\ a # SetStatus(g, "failed")
    BY <2>1 DEF NotFor, Publishing, Enqueue, SetStatus
  <2>4. \A g \in Executions : ~Carries(g)'
    BY <2>2, <2>3 DEF Carries, NotFor
  <2>5. HandlerIsCalm'
    BY <1>1, <2>2, <2>3 DEF HandlerIsCalm, Turning, SetStatus
  <2>6. \A g \in Executions : OneTurn(g)' /\ (Idle(g) => Idle(g)')
    BY <1>10, <2>4, CalmTurn DEF CalmInv, KnownInv
  <2> QED
    BY <1>1, <2>5, <2>6 DEF CalmInv
<1>13. CASE todo' # <<[op |-> "restart"]>>
  <2>1. PICK h : h = todo'
    OBVIOUS
  <2>2. /\ \A i \in DOMAIN h : ReleasesOne(h[i], x)
        /\ \A i, j \in DOMAIN h : h[i].op = "enqueue" /\ h[j].op = "enqueue" => i = j
    BY <1>1, <1>2, <1>13, <2>1, HandleReleases DEF KnownInv
  <2>3. ASSUME NEW g \in Executions, Carries(g)'
        PROVE  g = f /\ x.type \in Moves
    <3>1. PICK i \in DOMAIN h :
              h[i] = Publishing(Requested(g)) \/ \E s \in Steps : h[i] = Enqueue(g, s)
      BY <2>1, <2>3 DEF Carries
    <3>2. ReleasesOne(h[i], x)
      BY <2>2
    <3>3. PICK k : k = h[i]
      OBVIOUS
    <3>4. \/ (k.op = "publish" /\ k.event.type = "requested")
          \/ (k.op = "enqueue" /\ k.task[1] = g)
      BY <3>1, <3>3 DEF Publishing, Requested, Notice, Enqueue
    <3> QED
      BY <1>4, <3>2, <3>3, <3>4 DEF ReleasesOne, Moves
  <2>4. \A i \in DOMAIN h : Turning(h[i]) => h[i].op = "enqueue"
    BY <2>2 DEF ReleasesOne, Turning
  <2>5. \A i \in DOMAIN h : h[i].op # "restart"
    BY <2>2 DEF ReleasesOne
  <2>6. ASSUME NEW i \in DOMAIN h, NEW g \in Executions, h[i] = SetStatus(g, "failed")
        PROVE  Idle(g)'
    <3>1. g = f /\ x.type = "step-failed"
      BY <1>4, <2>2, <2>6 DEF ReleasesOne
    <3>2. ~Carries(f)'
      <4>1. ASSUME NEW j \in DOMAIN h,
                   h[j] = Publishing(Requested(f)) \/ \E s \in Steps : h[j] = Enqueue(f, s)
            PROVE  FALSE
        <5>1. Turning(h[j])
          BY <4>1, CarriersTurn
        <5>2. h[j].op = "enqueue" /\ ReleasesOne(h[j], x)
          BY <2>2, <2>4, <5>1
        <5> QED
          BY <3>1, <5>2 DEF ReleasesOne
      <4> QED
        BY <2>1, <4>1 DEF Carries
    <3> QED
      BY <1>11, <3>1, <3>2 DEF Moves
  <2>7. HandlerIsCalm'
    <3>1. \A i, j \in DOMAIN h : Turning(h[i]) /\ Turning(h[j]) => i = j
      BY <2>2, <2>4
    <3>2. \A i \in DOMAIN h :
              /\ Turning(h[i]) => h[i].op # "publish"
              /\ h[i].op # "restart"
              /\ \A g \in Executions : h[i] = SetStatus(g, "failed") => Idle(g)'
      BY <2>4, <2>5, <2>6
    <3> QED
      BY <1>1, <2>1, <3>1, <3>2 DEF HandlerIsCalm, Turning, SetStatus
  <2>8. ASSUME NEW g \in Executions
        PROVE  OneTurn(g)' /\ (status'[g] = "failed" => Idle(g)')
    <3>1. CASE g = f /\ x.type \in Moves
      <4>1. status[f] # "failed"
        BY <1>11, <3>1 DEF CalmInv
      <4> QED
        BY <1>1, <1>11, <3>1, <4>1
    <3>2. CASE ~(g = f /\ x.type \in Moves)
      <4>1. Calm(g)
        BY <1>10, <2>3, <3>2
      <4>2. OneTurn(g)' /\ (Idle(g) => Idle(g)')
        BY <4>1, CalmTurn DEF CalmInv, KnownInv
      <4> QED
        BY <1>1, <4>2 DEF CalmInv
    <3> QED
      BY <3>1, <3>2
  <2> QED
    BY <2>7, <2>8 DEF CalmInv
<1> QED
  BY <1>12, <1>13

LEMMA CalmDispatcher ==
    ASSUME KnownInv, TypeOK', NoRedelivery, CalmInv, DispatcherStep
    PROVE  CalmInv'
BY CalmSkip, CalmPoll, CalmSetStatus, CalmPublish, CalmEnqueue, CalmRevoke, CalmRestart, CalmCommit
   DEF DispatcherStep, DoEffect

-----------------------------------------------------------------------------
SteadyInv == KnownInv /\ (raised \/ CalmInv)

LEMMA CalmInit == EditInit => CalmInv
<1> SUFFICES ASSUME EditInit PROVE CalmInv
  OBVIOUS
<1>1. Init
  BY DEF EditInit
<1>2. /\ mode = "polling" /\ todo = <<>> /\ unpublished = {}
      /\ \A p \in Partitions : log[p] = <<>>
      /\ \A e \in Executions : status[e] = "absent"
      /\ \A t \in Tasks : queued[t] = 0
      /\ \A w \in Workers : pc[w] = "idle"
  BY <1>1 DEF Init
<1>3. ASSUME NEW e \in Executions
      PROVE  OneTurn(e)
  <2>1. Due(e) = {}
    BY <1>2, PartitionOfAssumption DEF History, Due
  <2>2. \A s \in Steps : queued[<<e, s>>] = 0
    BY <1>2 DEF Tasks
  <2>3. Waiting(e) = {} /\ Running(e) = {} /\ ~Carries(e)
    BY <1>2, <2>2 DEF Waiting, Running, Carries
  <2> QED
    BY <1>2, <2>1, <2>2, <2>3 DEF OneTurn
<1>4. HandlerIsCalm
  BY <1>2 DEF HandlerIsCalm
<1> QED
  BY <1>2, <1>3, <1>4 DEF CalmInv

LEMMA CalmStep ==
    ASSUME KnownInv, KnownInv', raised \/ CalmInv, NoRedelivery, [EditNext]_editVars
    PROVE  (raised \/ CalmInv)'
<1>1. raised \/ raised' => raised'
  BY DEF EditNext, PollRaises, Reorder, SetActive, Delete, Create, Edit, editVars
<1>2. TypeOK /\ TypeOK' /\ RunInv
  BY DEF KnownInv
<1>3. SUFFICES ASSUME CalmInv, ~raised'
               PROVE  CalmInv'
  BY <1>1
<1>4. ASSUME UNCHANGED <<log, offset, mode, current, todo, status, unpublished, queued, pc, task>>
      PROVE  CalmInv'
  <2>1. \A t \in Tasks : queued'[t] <= queued[t]
    BY <1>2, <1>4 DEF TypeOK
  <2> QED
    BY <1>2, <1>3, <1>4, <2>1, SameTopic, CalmWorkers
<1>5. CASE Next
  BY <1>2, <1>3, <1>5, CalmApi, CalmDispatcher, CalmNode, CalmEnvironment DEF Next
<1>6. CASE \E p \in Partitions : PollRaises(p)
  BY <1>3, <1>6 DEF PollRaises
<1>7. CASE Reorder \/ \E s \in Steps : SetActive(s) \/ Delete(s) \/ Create(s)
  BY <1>2, <1>4, <1>7, Edited DEF EditStep, KnownInv
<1>8. CASE UNCHANGED editVars
  BY <1>4, <1>8 DEF editVars, vars
<1> QED
  BY <1>5, <1>6, <1>7, <1>8 DEF EditNext

(* The turns of the executions stay single until the dispatcher raises.     *)
THEOREM SteadyInvIsInductive ==
    ASSUME NoRedelivery
    PROVE  EditSpec => []SteadyInv
<1>1. EditInit => SteadyInv
  BY KnownInit, CalmInit DEF SteadyInv
<1>2. SteadyInv /\ [EditNext]_editVars => SteadyInv'
  BY KnownStep, CalmStep DEF SteadyInv
<1> QED
  BY <1>1, <1>2, PTL DEF EditSpec

(* Without a redelivery no edit makes an execution have two steps in flight *)
(* or go on after a failure, however many there are and whatever they do to *)
(* the plan, as long as no event names a step that the plan has lost.       *)
THEOREM SequentialCorrect ==
    ASSUME NoRedelivery
    PROVE  EditSpec => []SequentialUntilRaised
<1>1. SteadyInv => SequentialUntilRaised
  <2> SUFFICES ASSUME TypeOK, CalmInv
               PROVE  OneStepAtATime /\ FailureEndsExecution
    BY DEF SteadyInv, KnownInv, SequentialUntilRaised
  <2>1. OneStepAtATime
    BY SingleTurns DEF CalmInv
  <2>2. FailureEndsExecution
    BY DEF CalmInv, Idle, FailureEndsExecution
  <2> QED
    BY <2>1, <2>2
<1> QED
  BY <1>1, SteadyInvIsInductive, PTL
=============================================================================
