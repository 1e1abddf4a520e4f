----------------------------- MODULE RunProofs -----------------------------
(* Orchestration implements AbstractRun, for every value of its constants   *)
(* and under every fault; and what follows from the invariant this takes.   *)
EXTENDS OrchestrationProofs

Begun(e) == status[e] \notin {"absent", "pending"}

Held(t) == queued[t] > 0 \/ \E w \in Workers : pc[w] # "idle" /\ task[w] = t

HasEvent(type, e) ==
    \E i \in DOMAIN History(e) : History(e)[i].type = type /\ History(e)[i].exec = e

(* The request of a run comes before anything else is said or done about it *)
(* ...                                                                      *)
EventIsKnown(ev) ==
    /\ status[ev.exec] # "absent"
    /\ ev.type \in {"step-completed", "step-failed"} => Begun(ev.exec)

Known ==
    /\ \A e \in unpublished \cup cancelling : status[e] # "absent"
    /\ \A p \in Partitions : \A i \in DOMAIN log[p] : EventIsKnown(log[p][i])
    /\ \A t \in Tasks : Held(t) => Begun(t[1])

(* ... and what a handler still has to do agrees with the status, which     *)
(* nobody but the handler changes.                                          *)
Reports == {"stop-requested", "step-completed", "step-failed"}

StartsBefore(i, e) == \E j \in DOMAIN todo : j < i /\ todo[j] = SetStatus(e, "running")

Guarded(i, f) ==
    /\ f.op = "publish" => EventIsKnown(f.event) /\ f.event.type \notin Reports
    /\ f.op = "set-status" =>
          /\ status[f.exec] # "absent"
          /\ f.status \in {"running", "completed", "failed", "cancelled"}
          /\ f.status \in {"running", "completed"} => status[f.exec] # "cancelled"
          /\ f.status = "completed" => Begun(f.exec) \/ StartsBefore(i, f.exec)
          /\ f.status = "failed" => Begun(f.exec) /\ HasEvent("step-failed", f.exec)
          /\ f.status = "cancelled" =>
                /\ HasEvent("stop-requested", f.exec)
                /\ \A j \in DOMAIN todo : j # i => todo[j].op \notin {"set-status", "enqueue"}
    /\ f.op = "enqueue" =>
          /\ status[f.task[1]] # "cancelled"
          /\ Begun(f.task[1]) \/ StartsBefore(i, f.task[1])

HandlerIsGuarded ==
    /\ mode # "handling" => todo = <<>>
    /\ \A i \in DOMAIN todo : Guarded(i, todo[i])

(* A request is committed only when it is answered, and while it is in hand *)
(* its answer is under way.                                                 *)
RequestInHand ==
    mode = "handling" =>
        /\ offset[current] < Len(log[current])
        /\ NextEvent(current).type = "requested" =>
              \/ Begun(NextEvent(current).exec)
              \/ \E j \in DOMAIN todo : todo[j] = SetStatus(NextEvent(current).exec, "running")

CommittedIsBegun ==
    \A p \in Partitions :
        /\ offset[p] <= Len(log[p])
        /\ \A i \in 1..offset[p] : log[p][i].type = "requested" => Begun(log[p][i].exec)

(* An event is in the partition its execution's id chooses. *)
Keyed == \A p \in Partitions : \A i \in DOMAIN log[p] : PartitionOf[log[p][i].exec] = p

RunInv == Known /\ HandlerIsGuarded /\ RequestInHand /\ CommittedIsBegun

-----------------------------------------------------------------------------
(* What no step takes back: an execution that exists or has begun, and what *)
(* the topic says.                                                          *)
Grows ==
    /\ \A e \in Executions :
          /\ Begun(e) => Begun(e)'
          /\ status[e] # "absent" => status'[e] # "absent"
    /\ \A p \in Partitions : \A i \in DOMAIN log[p] :
          i \in DOMAIN log'[p] /\ log'[p][i] = log[p][i]

LEMMA EventType ==
    ASSUME TypeOK, NEW p \in Partitions, NEW i \in DOMAIN log[p]
    PROVE  log[p][i] \in Event /\ log[p][i].exec \in Executions
<1>1. log[p] \in Seq(Event)
  BY DEF TypeOK
<1>2. log[p][i] \in Event
  BY <1>1
<1> QED
  BY <1>2 DEF Event

LEMMA EffectType ==
    ASSUME TypeOK, NEW i \in DOMAIN todo
    PROVE  /\ todo[i] \in Effect
           /\ todo[i].op = "set-status" => /\ todo[i].exec \in Executions
                                          /\ todo[i] = SetStatus(todo[i].exec, todo[i].status)
           /\ todo[i].op = "publish" => todo[i].event \in Event /\ todo[i].event.exec \in Executions
           /\ todo[i].op = "enqueue" => todo[i].task \in Tasks /\ todo[i].task[1] \in Executions
<1>1. todo[i] \in Effect
  BY DEF TypeOK
<1>2. todo[i].op = "set-status" =>
          todo[i].exec \in Executions /\ todo[i] = SetStatus(todo[i].exec, todo[i].status)
  BY <1>1 DEF Effect, SetStatus
<1>3. todo[i].op = "publish" => todo[i].event \in Event /\ todo[i].event.exec \in Executions
  BY <1>1 DEF Effect, Event
<1>4. todo[i].op = "enqueue" => todo[i].task \in Tasks /\ todo[i].task[1] \in Executions
  BY <1>1 DEF Effect, Tasks
<1> QED
  BY <1>1, <1>2, <1>3, <1>4

(* An event stays known, and remains in the topic. *)
LEMMA KnownStays ==
    ASSUME Grows, NEW ev \in Event, EventIsKnown(ev)
    PROVE  EventIsKnown(ev)'
<1>1. ev.exec \in Executions
  BY DEF Event
<1> QED
  BY <1>1 DEF Grows, EventIsKnown

LEMMA HasEventStays ==
    ASSUME Grows, NEW e \in Executions, NEW type, HasEvent(type, e)
    PROVE  HasEvent(type, e)'
<1>1. PartitionOf[e] \in Partitions
  BY PartitionOfAssumption
<1> QED
  BY <1>1 DEF Grows, HasEvent, History

(* The four parts of the invariant, each under what leaves it intact. *)
LEMMA KnownKept ==
    ASSUME TypeOK, TypeOK', Known, Grows,
           \A e \in unpublished' \cup cancelling' :
               e \in unpublished \cup cancelling \/ status'[e] # "absent",
           \A p \in Partitions : \A i \in DOMAIN log'[p] :
               \/ i \in DOMAIN log[p] /\ log'[p][i] = log[p][i]
               \/ EventIsKnown(log[p][i])',
           \A t \in Tasks : Held(t)' => Held(t) \/ Begun(t[1])'
    PROVE  Known'
<1>1. ASSUME NEW e \in unpublished' \cup cancelling'
      PROVE  status'[e] # "absent"
  BY <1>1 DEF Known, Grows, TypeOK
<1>2. ASSUME NEW p \in Partitions, NEW i \in DOMAIN log'[p]
      PROVE  EventIsKnown(log[p][i])'
  <2>1. CASE i \in DOMAIN log[p] /\ log'[p][i] = log[p][i]
    <3>1. log[p][i] \in Event /\ EventIsKnown(log[p][i])
      BY <2>1, EventType DEF Known
    <3>2. log[p][i].exec \in Executions
      BY <3>1 DEF Event
    <3> QED
      BY <2>1, <3>1, <3>2 DEF Grows, EventIsKnown, Begun
  <2> QED
    BY <1>2, <2>1
<1>3. ASSUME NEW t \in Tasks, Held(t)'
      PROVE  Begun(t[1])'
  <2>1. t[1] \in Executions
    BY DEF Tasks
  <2> QED
    BY <1>3, <2>1 DEF Known, Grows
<1> QED
  BY <1>1, <1>2, <1>3 DEF Known

(* What the handler has left agrees with the status as long as nobody else  *)
(* cancels ...                                                              *)
NobodyCancels == \A e \in Executions : status[e] # "cancelled" => status'[e] # "cancelled"

LEMMA GuardedStays ==
    ASSUME TypeOK, Grows, plan' = plan, NEW i \in DOMAIN todo, Guarded(i, todo[i]),
           NEW j \in DOMAIN todo', todo'[j] = todo[i],
           todo[i].op \in {"set-status", "enqueue"} => NobodyCancels,
           \A e \in Executions : StartsBefore(i, e) => StartsBefore(j, e)' \/ Begun(e)',
           \A k \in DOMAIN todo' : k # j =>
               \/ \E l \in DOMAIN todo : l # i /\ todo'[k] = todo[l]
               \/ todo'[k].op = "publish"
    PROVE  Guarded(j, todo[j])'
<1>0. PICK f : f = todo[i] /\ f = (todo[j])'
  OBVIOUS
<1>1. CASE f.op = "publish"
  <2>1. f.event \in Event /\ EventIsKnown(f.event)
    BY <1>0, <1>1, EffectType DEF Guarded
  <2>2. EventIsKnown(f.event)'
    BY <2>1, KnownStays
  <2> QED
    BY <1>0, <1>1, <2>2 DEF Guarded
<1>2. CASE f.op = "set-status"
  <2>1. f.exec \in Executions
    BY <1>0, <1>2, EffectType
  <2>2. /\ status'[f.exec] # "absent"
        /\ f.status \in {"running", "completed", "failed", "cancelled"}
        /\ f.status \in {"running", "completed"} => status'[f.exec] # "cancelled"
        /\ f.status = "completed" => Begun(f.exec)' \/ StartsBefore(j, f.exec)'
    BY <1>0, <1>2, <2>1 DEF Guarded, Grows, NobodyCancels, Begun
  <2>3. f.status = "failed" => Begun(f.exec)' /\ HasEvent("step-failed", f.exec)'
    BY <1>0, <1>2, <2>1, HasEventStays DEF Guarded, Grows, Begun
  <2>4. f.status = "cancelled" =>
            /\ HasEvent("stop-requested", f.exec)'
            /\ \A k \in DOMAIN todo' : k # j => todo'[k].op \notin {"set-status", "enqueue"}
    BY <1>0, <1>2, <2>1, HasEventStays DEF Guarded
  <2> QED
    BY <1>0, <1>2, <2>2, <2>3, <2>4 DEF Guarded
<1>3. CASE f.op = "enqueue"
  <2>1. f.task[1] \in Executions
    BY <1>0, <1>3, EffectType
  <2>2. /\ status'[f.task[1]] # "cancelled"
        /\ Begun(f.task[1])' \/ StartsBefore(j, f.task[1])'
    BY <1>0, <1>3, <2>1 DEF Guarded, Grows, NobodyCancels, Begun
  <2> QED
    BY <1>0, <1>3, <2>2 DEF Guarded
<1>4. CASE f.op \notin {"publish", "set-status", "enqueue"}
  BY <1>0, <1>4 DEF Guarded
<1> QED
  BY <1>1, <1>2, <1>3, <1>4

LEMMA HandlerKept ==
    ASSUME TypeOK, Grows, HandlerIsGuarded, NobodyCancels,
           UNCHANGED <<plan, mode, todo>>
    PROVE  HandlerIsGuarded'
<1>1. \A i \in DOMAIN todo, e \in Executions : StartsBefore(i, e) => StartsBefore(i, e)'
  BY DEF StartsBefore, SetStatus
<1>2. ASSUME NEW i \in DOMAIN todo'
      PROVE  Guarded(i, todo[i])'
  BY <1>1, <1>2, GuardedStays DEF HandlerIsGuarded
<1> QED
  BY <1>2 DEF HandlerIsGuarded

(* ... and the first of its effects is done.                                *)
LEMMA HandlerPopped ==
    ASSUME TypeOK, Grows, HandlerIsGuarded, todo # <<>>, todo' = Tail(todo),
           UNCHANGED <<plan, mode>>,
           \A i \in DOMAIN todo :
               i # 1 /\ todo[i].op \in {"set-status", "enqueue"} => NobodyCancels,
           \A e \in Executions : Head(todo) = SetStatus(e, "running") => Begun(e)'
    PROVE  HandlerIsGuarded'
<1>1. todo \in Seq(Effect) /\ mode = "handling"
  BY DEF TypeOK, HandlerIsGuarded
<1>2. ASSUME NEW i \in DOMAIN todo'
      PROVE  i \in Nat /\ i + 1 \in DOMAIN todo /\ todo'[i] = todo[i + 1]
  BY <1>1, <1>2
<1>3. ASSUME NEW i \in DOMAIN todo', NEW e \in Executions, StartsBefore(i + 1, e)
      PROVE  StartsBefore(i, e)' \/ Begun(e)'
  <2>1. PICK j \in DOMAIN todo : j < i + 1 /\ todo[j] = SetStatus(e, "running")
    BY <1>3 DEF StartsBefore
  <2>2. CASE j = 1
    BY <1>1, <2>1, <2>2
  <2>3. CASE j # 1
    <3>1. j - 1 \in DOMAIN todo' /\ j - 1 < i /\ todo'[j - 1] = SetStatus(e, "running")
      BY <1>1, <1>2, <2>1, <2>3
    <3> QED
      BY <3>1 DEF StartsBefore, SetStatus
  <2> QED
    BY <2>2, <2>3
<1>4. ASSUME NEW i \in DOMAIN todo'
      PROVE  Guarded(i, todo[i])'
  <2>1. PICK j : j = i + 1 /\ j \in DOMAIN todo /\ todo'[i] = todo[j] /\ j # 1
    BY <1>2, <1>4
  <2>2. Guarded(j, todo[j])
    BY <2>1 DEF HandlerIsGuarded
  <2>3. \A k \in DOMAIN todo' : k # i =>
            \E l \in DOMAIN todo : l # j /\ todo'[k] = todo[l]
    BY <1>2, <1>4, <2>1
  <2> QED
    BY <1>3, <1>4, <2>1, <2>2, <2>3, GuardedStays
<1> QED
  BY <1>1, <1>4 DEF HandlerIsGuarded

LEMMA CommittedKept ==
    ASSUME TypeOK, Grows, CommittedIsBegun, offset' = offset, TypeOK'
    PROVE  CommittedIsBegun'
<1>1. ASSUME NEW p \in Partitions
      PROVE  /\ offset[p] <= Len(log'[p])
             /\ \A i \in 1..offset[p] : (log[p][i].type = "requested" => Begun(log[p][i].exec))'
  <2>1. /\ log[p] \in Seq(Event) /\ log'[p] \in Seq(Event) /\ offset[p] \in Nat
        /\ offset[p] <= Len(log[p])
    BY DEF TypeOK, CommittedIsBegun
  <2>2. DOMAIN log[p] \subseteq DOMAIN log'[p]
    BY DEF Grows
  <2>3. Len(log[p]) <= Len(log'[p])
    BY <2>1, <2>2
  <2>4. ASSUME NEW i \in 1..offset[p], log'[p][i].type = "requested"
        PROVE  Begun(log[p][i].exec)'
    <3>1. i \in DOMAIN log[p] /\ log'[p][i] = log[p][i] /\ log[p][i].exec \in Executions
      BY <2>1, EventType DEF Grows
    <3> QED
      BY <2>4, <3>1 DEF CommittedIsBegun, Grows, Begun
  <2> QED
    BY <2>1, <2>3, <2>4
<1> QED
  BY <1>1 DEF CommittedIsBegun, Begun

LEMMA RequestKept ==
    ASSUME TypeOK, Grows, RequestInHand, UNCHANGED <<mode, current, offset>>, TypeOK',
           \A e \in Executions :
              (\E j \in DOMAIN todo : todo[j] = SetStatus(e, "running"))
                 => Begun(e)' \/ (\E j \in DOMAIN todo : todo[j] = SetStatus(e, "running"))'
    PROVE  RequestInHand'
<1> SUFFICES ASSUME mode = "handling"
             PROVE  /\ offset[current] < Len(log'[current])
                    /\ (NextEvent(current).type = "requested" =>
                          \/ Begun(NextEvent(current).exec)
                          \/ \E j \in DOMAIN todo :
                                todo[j] = SetStatus(NextEvent(current).exec, "running"))'
  BY DEF RequestInHand
<1>1. /\ current \in Partitions /\ log[current] \in Seq(Event) /\ log'[current] \in Seq(Event)
      /\ offset[current] \in Nat /\ offset[current] < Len(log[current])
  BY DEF TypeOK, RequestInHand
<1>2. DOMAIN log[current] \subseteq DOMAIN log'[current]
  BY <1>1 DEF Grows
<1>3. offset[current] < Len(log'[current])
  BY <1>1, <1>2
<1>4. NextEvent(current)' = NextEvent(current) /\ NextEvent(current).exec \in Executions
  <2>1. offset[current] + 1 \in DOMAIN log[current]
    BY <1>1
  <2> QED
    BY <1>1, <2>1, EventType DEF Grows, NextEvent
<1>5. PICK x : x = NextEvent(current) /\ x = NextEvent(current)'
  BY <1>4
<1>6. ASSUME x.type = "requested"
      PROVE  Begun(x.exec)' \/ (\E j \in DOMAIN todo : todo[j] = SetStatus(x.exec, "running"))'
  BY <1>4, <1>5, <1>6 DEF RequestInHand, Grows
<1> QED
  BY <1>3, <1>5, <1>6

LEMMA SteadyKept ==
    ASSUME TypeOK, TypeOK', RunInv, Grows, NobodyCancels, Known',
           UNCHANGED <<plan, mode, current, todo, offset>>
    PROVE  RunInv'
<1>1. HandlerIsGuarded'
  BY HandlerKept DEF RunInv
<1>2. RequestInHand'
  BY RequestKept DEF RunInv, SetStatus
<1>3. CommittedIsBegun'
  BY CommittedKept DEF RunInv
<1> QED
  BY <1>1, <1>2, <1>3 DEF RunInv

LEMMA QuietGrows ==
    ASSUME TypeOK, log' = log, \A e \in Executions : Begun(e) => Begun(e)',
           \A e \in Executions : status[e] # "absent" => status'[e] # "absent"
    PROVE  Grows
BY DEF Grows

LEMMA PublishGrows ==
    ASSUME TypeOK, NEW ev \in Event, NEW n \in 0..2, Publish(ev, n), status' = status
    PROVE  Grows /\ NobodyCancels
BY PublishedIsAppended DEF Grows, Begun, NobodyCancels

(* Publishing what is known, with the work as it was. *)
LEMMA PublishKnown ==
    ASSUME TypeOK, TypeOK', Known, NEW ev \in Event, NEW n \in 0..2, Publish(ev, n),
           status' = status, EventIsKnown(ev),
           unpublished' \subseteq unpublished, cancelling' \subseteq cancelling,
           \A t \in Tasks : Held(t)' => Held(t)
    PROVE  Known'
<1>1. Grows
  BY PublishGrows
<1>2. EventIsKnown(ev)'
  BY <1>1, KnownStays
<1>3. ASSUME NEW p \in Partitions, NEW i \in DOMAIN log'[p]
      PROVE  \/ i \in DOMAIN log[p] /\ log'[p][i] = log[p][i]
             \/ EventIsKnown(log[p][i])'
  BY <1>2, <1>3, PublishedIsAppended
<1> QED
  BY <1>1, <1>3, KnownKept

LEMMA RunInit == Init => RunInv
<1> SUFFICES ASSUME Init PROVE RunInv
  OBVIOUS
<1>1. Known
  BY DEF Init, Known, Held
<1>2. HandlerIsGuarded /\ RequestInHand
  BY DEF Init, HandlerIsGuarded, RequestInHand
<1>3. CommittedIsBegun
  BY DEF Init, CommittedIsBegun
<1> QED
  BY <1>1, <1>2, <1>3 DEF RunInv

LEMMA RunApi ==
    ASSUME TypeOK, TypeOK', RunInv, ApiStep
    PROVE  RunInv' /\ Grows /\ NobodyCancels
<1> USE DEF kafkaVars, dispatcherVars, dbVars, outsideVars, catalogVars, apiVars,
            nodeVars, workerVars, controlVars, boundVars
<1>1. UNCHANGED <<plan, mode, current, todo, offset, queued, pc, task>>
  BY DEF ApiStep, Schedule, Retry, CreateExecution, CancelCheck, PublishRequest,
         CancelPublish, WsCommand
<1>2. \A t \in Tasks : Held(t)' => Held(t)
  BY <1>1 DEF Held
<1>3. Known
  BY DEF RunInv
<1>4. ASSUME NEW e \in Executions, CreateExecution(e) \/ CancelCheck(e)
      PROVE  Known' /\ Grows /\ NobodyCancels
  <2>1. \A f \in Executions :
            status'[f] = status[f] \/ (status[f] = "absent" /\ status'[f] = "pending")
    BY <1>4 DEF CreateExecution, CancelCheck, TypeOK
  <2>2. log' = log
    BY <1>4 DEF CreateExecution, CancelCheck
  <2>3. Grows
    BY <2>1, <2>2, QuietGrows DEF Begun
  <2>4. \A f \in unpublished' \cup cancelling' :
            f \in unpublished \cup cancelling \/ status'[f] # "absent"
    BY <1>4 DEF CreateExecution, CancelCheck, TypeOK
  <2>5. Known'
    BY <1>2, <1>3, <2>2, <2>3, <2>4, KnownKept
  <2> QED
    BY <2>1, <2>3, <2>5 DEF NobodyCancels
<1>5. ASSUME NEW e \in Executions, NEW n \in 0..2,
             NEW type \in {"requested", "stop-requested", "restart-requested"},
             Publish(Notice(type, e, NoStep, 0), n), status' = status, status[e] # "absent",
             unpublished' \subseteq unpublished, cancelling' \subseteq cancelling
      PROVE  Known' /\ Grows /\ NobodyCancels
  <2>1. Notice(type, e, NoStep, 0) \in Event
    BY NoticeType DEF EventTypes
  <2>2. EventIsKnown(Notice(type, e, NoStep, 0))
    BY <1>5 DEF EventIsKnown, Notice
  <2> QED
    BY <1>2, <1>3, <1>5, <2>1, <2>2, PublishKnown, PublishGrows
<1>6. ASSUME NEW e \in Executions, NEW n \in 0..2,
             \/ PublishRequest(e, n) \/ CancelPublish(e, n)
             \/ WsCommand("stop-requested", e, n) \/ WsCommand("restart-requested", e, n)
      PROVE  Known' /\ Grows /\ NobodyCancels
  <2>1. status[e] # "absent"
    BY <1>3, <1>6 DEF Known, PublishRequest, CancelPublish, WsCommand
  <2> QED
    BY <1>5, <1>6, <2>1 DEF PublishRequest, CancelPublish, WsCommand, Requested
<1>7. Known' /\ Grows /\ NobodyCancels
  BY <1>4, <1>6 DEF ApiStep, Schedule, Retry
<1> QED
  BY <1>1, <1>7, SteadyKept

(* A request is answered, or the execution was stopped before. *)
LEMMA RequestIsAnswered ==
    ASSUME NEW ev, ev.type = "requested"
    PROVE  \/ status[ev.exec] = "cancelled" /\ Handle(ev) = <<>>
           \/ /\ status[ev.exec] # "cancelled"
              /\ DOMAIN Handle(ev) = 1..3 /\ Handle(ev)[1] = SetStatus(ev.exec, "running")
              /\ LET rest == IF plan = <<>> THEN Complete(ev.exec, 0)
                             ELSE Release("plan-started", ev.exec, 1)
                 IN  Handle(ev)[2] = rest[1] /\ Handle(ev)[3] = rest[2]
<1> DEFINE x == ev.exec
           rest == IF plan = <<>> THEN Complete(x, 0) ELSE Release("plan-started", x, 1)
<1>1. Handle(ev) = IF status[x] = "cancelled" THEN <<>>
                   ELSE <<SetStatus(x, "running")>> \o rest
  BY DEF Handle, StartEffects
<1>2. PICK a, b : rest = <<a, b>>
  <2>1. \E a, b : Complete(x, 0) = <<a, b>>
    BY DEF Complete
  <2>2. \E a, b : Release("plan-started", x, 1) = <<a, b>>
    BY DEF Release
  <2> HIDE DEF x
  <2>3. CASE plan = <<>>
    BY <2>1, <2>3
  <2>4. CASE plan # <<>>
    BY <2>2, <2>4
  <2> QED
    BY <2>3, <2>4
<1> HIDE DEF rest
<1>3. PICK h : h = <<SetStatus(x, "running")>> \o <<a, b>>
  OBVIOUS
<1>4. DOMAIN h = 1..3 /\ h[1] = SetStatus(x, "running") /\ h[2] = rest[1] /\ h[3] = rest[2]
  BY <1>2, <1>3
<1>5. CASE status[x] = "cancelled"
  BY <1>1, <1>5
<1>6. CASE status[x] # "cancelled"
  <2>1. Handle(ev) = h
    BY <1>1, <1>2, <1>3, <1>6
  <2> QED
    BY <1>4, <1>6, <2>1 DEF rest
<1> QED
  BY <1>5, <1>6

(* What a handler does agrees with the status it read, and with the event.  *)
LEMMA PolledIsGuarded ==
    ASSUME TypeOK, RunInv, Keyed, NEW p \in Partitions, Poll(p)
    PROVE  HandlerIsGuarded'
<1> DEFINE ev == NextEvent(p)
           x == ev.exec
<1>0. PICK h : h = Handle(ev) /\ h = todo'
  BY DEF Poll
<1>1. /\ UNCHANGED <<status, plan, log>> /\ mode' = "handling" /\ ~Raises(ev)
      /\ ev \in Event /\ x \in Executions /\ plan \in Seq(Steps)
  BY NextEventType DEF Poll, Event, TypeOK, kafkaVars, dbVars, outsideVars, catalogVars
<1>2. offset[p] + 1 \in DOMAIN log[p] /\ ev = log[p][offset[p] + 1]
  BY DEF Poll, HasNext, NextEvent, TypeOK
<1>3. EventIsKnown(ev) /\ PartitionOf[x] = p
  BY <1>2 DEF RunInv, Known, Keyed
<1>4. HasEvent(ev.type, x)
  BY <1>2, <1>3 DEF HasEvent, History
<1> DEFINE Before(i, e) == \E j \in DOMAIN h : j < i /\ h[j] = SetStatus(e, "running")
           Good(i, f) ==
             /\ f.op = "publish" => EventIsKnown(f.event) /\ f.event.type \notin Reports
             /\ f.op = "set-status" =>
                   /\ status[f.exec] # "absent"
                   /\ f.status \in {"running", "completed", "failed", "cancelled"}
                   /\ f.status \in {"running", "completed"} => status[f.exec] # "cancelled"
                   /\ f.status = "completed" => Begun(f.exec) \/ Before(i, f.exec)
                   /\ f.status = "failed" => Begun(f.exec) /\ HasEvent("step-failed", f.exec)
                   /\ f.status = "cancelled" =>
                         /\ HasEvent("stop-requested", f.exec)
                         /\ \A j \in DOMAIN h : j # i => h[j].op \notin {"set-status", "enqueue"}
             /\ f.op = "enqueue" =>
                   /\ status[f.task[1]] # "cancelled"
                   /\ Begun(f.task[1]) \/ Before(i, f.task[1])
<1>5. ASSUME NEW i \in DOMAIN h, Good(i, h[i])
      PROVE  Guarded(i, todo[i])'
  <2>1. PICK f : f = h[i]
    OBVIOUS
  <2>2. todo'[i] = f /\ Good(i, f)
    BY <1>0, <1>5, <2>1
  <2>3. \A type, e : HasEvent(type, e)' <=> HasEvent(type, e)
    BY <1>1 DEF HasEvent, History
  <2>4. \A e : Before(i, e) => StartsBefore(i, e)'
    BY <1>0 DEF StartsBefore, SetStatus
  <2>5. \A j \in DOMAIN todo' : todo'[j] = h[j] /\ j \in DOMAIN h
    BY <1>0
  <2> HIDE DEF Before
  <2> QED
    BY <1>1, <2>2, <2>3, <2>4, <2>5 DEF Guarded, EventIsKnown, Begun
<1>6. ASSUME NEW i, NEW type, NEW s, NEW n, type \notin Reports
      PROVE  Good(i, Publishing(Notice(type, x, s, n)))
  BY <1>3, <1>6 DEF Publishing, Notice, EventIsKnown, Reports
<1>7. ASSUME NEW i, NEW k \in DOMAIN plan, status[x] # "cancelled", Begun(x) \/ Before(i, x)
      PROVE  Good(i, Enqueue(x, plan[k]))
  BY <1>7 DEF Enqueue
<1>8. ASSUME NEW i, status[x] # "cancelled", Begun(x) \/ Before(i, x)
      PROVE  Good(i, SetStatus(x, "completed"))
  BY <1>3, <1>8 DEF SetStatus, EventIsKnown
<1>9. CASE ev.type = "requested"
  <2> DEFINE rest == IF plan = <<>> THEN Complete(x, 0) ELSE Release("plan-started", x, 1)
  <2>1. status[x] # "cancelled"
    BY <1>0, <1>9, RequestIsAnswered DEF Poll
  <2>3. /\ DOMAIN h = 1..3 /\ h[1] = SetStatus(x, "running")
        /\ h[2] = rest[1] /\ h[3] = rest[2]
    BY <1>0, <1>9, <2>1, RequestIsAnswered
  <2>4. Before(2, x) /\ Before(3, x)
    BY <2>3
  <2>5. Good(1, h[1])
    BY <1>3, <2>1, <2>3 DEF SetStatus, EventIsKnown
  <2>6. Good(2, h[2]) /\ Good(3, h[3])
    <3>1. CASE plan = <<>>
      <4>1. h[2] = SetStatus(x, "completed")
            /\ h[3] = Publishing(Notice("plan-completed", x, NoStep, 0))
        BY <2>3, <3>1 DEF Complete
      <4> HIDE DEF Good, Before
      <4> QED
        BY <1>6, <1>8, <2>1, <2>4, <4>1 DEF Reports
    <3>2. CASE plan # <<>>
      <4>1. 1 \in DOMAIN plan
        BY <1>1, <3>2
      <4>2. h[2] = Publishing(Notice("plan-started", x, plan[1], 1 - 1))
            /\ h[3] = Enqueue(x, plan[1])
        BY <2>3, <3>2 DEF Release
      <4> HIDE DEF Good, Before
      <4> QED
        BY <1>6, <1>7, <2>1, <2>4, <4>1, <4>2 DEF Reports
    <3> QED
      BY <3>1, <3>2
  <2>7. \A i \in DOMAIN h : Good(i, h[i])
    <3> HIDE DEF Good
    <3> QED
      BY <2>3, <2>5, <2>6
  <2> HIDE DEF Good
  <2> QED
    BY <1>0, <1>1, <1>5, <2>7 DEF HandlerIsGuarded
<1>10. CASE ev.type = "step-completed"
  <2>1. status[x] # "cancelled" /\ Begun(x)
    BY <1>0, <1>3, <1>10 DEF Poll, Handle, StepCompletedEffects, EventIsKnown
  <2>2. Position(ev.step) \in DOMAIN plan
    BY <1>1, <1>10, <2>1 DEF Raises, Position
  <2>3. \A i \in DOMAIN h : Good(i, h[i])
    <3>1. CASE Position(ev.step) = Len(plan)
      <4>1. h = <<SetStatus(x, "completed"),
                  Publishing(Notice("plan-completed", x, NoStep, Len(plan)))>>
        BY <1>0, <1>10, <2>1, <3>1 DEF Handle, StepCompletedEffects, Complete
      <4>2. DOMAIN h = 1..2 /\ h[1] = SetStatus(x, "completed")
            /\ h[2] = Publishing(Notice("plan-completed", x, NoStep, Len(plan)))
        BY <4>1
      <4> HIDE DEF Good
      <4> QED
        BY <1>6, <1>8, <2>1, <4>2 DEF Reports
    <3>2. CASE Position(ev.step) # Len(plan)
      <4> DEFINE k == Position(ev.step) + 1
      <4>1. k \in DOMAIN plan
        BY <1>1, <2>2, <3>2
      <4>2. h = Release("plan-progressed", x, k)
        BY <1>0, <1>10, <2>1, <3>2 DEF Handle, StepCompletedEffects
      <4> HIDE DEF k
      <4>3. DOMAIN h = 1..2 /\ h[1] = Publishing(Notice("plan-progressed", x, plan[k], k - 1))
            /\ h[2] = Enqueue(x, plan[k])
        BY <4>2 DEF Release
      <4> HIDE DEF Good
      <4> QED
        BY <1>6, <1>7, <2>1, <4>1, <4>3 DEF Reports
    <3> QED
      BY <3>1, <3>2
  <2> HIDE DEF Good
  <2> QED
    BY <1>0, <1>1, <1>5, <2>3 DEF HandlerIsGuarded
<1>11. CASE ev.type = "step-failed"
  <2>1. DOMAIN h = 1..2 /\ h[1] = SetStatus(x, "failed")
        /\ h[2] = Publishing(Notice("plan-failed", x, ev.step, 0))
    BY <1>0, <1>11 DEF Handle, StepFailedEffects
  <2>2. Good(1, h[1])
    BY <1>3, <1>4, <1>11, <2>1 DEF SetStatus, EventIsKnown
  <2>3. Good(2, h[2])
    <3> HIDE DEF Good
    <3> QED
      BY <1>6, <2>1 DEF Reports
  <2> HIDE DEF Good
  <2> QED
    BY <1>0, <1>1, <1>5, <2>1, <2>2, <2>3 DEF HandlerIsGuarded
<1>12. CASE ev.type = "stop-requested"
  <2>1. DOMAIN h = 1..3 /\ h[1] = SetStatus(x, "cancelled")
        /\ h[2] = [op |-> "revoke", exec |-> x]
        /\ h[3] = Publishing(Notice("plan-stopped", x, NoStep, 0))
    BY <1>0, <1>12 DEF Handle, StopEffects
  <2>2. h[2].op = "revoke" /\ h[3].op = "publish"
    BY <2>1 DEF Publishing
  <2>3. Good(1, h[1])
    BY <1>3, <1>4, <1>12, <2>1, <2>2 DEF SetStatus, EventIsKnown
  <2>4. Good(2, h[2])
    BY <2>2
  <2>5. Good(3, h[3])
    <3> HIDE DEF Good
    <3> QED
      BY <1>6, <2>1 DEF Reports
  <2> HIDE DEF Good
  <2> QED
    BY <1>0, <1>1, <1>5, <2>1, <2>3, <2>4, <2>5 DEF HandlerIsGuarded
<1>13. CASE ev.type = "restart-requested"
  <2>1. DOMAIN h = 1..1 /\ h[1].op = "restart"
    BY <1>0, <1>13 DEF Handle
  <2>2. Good(1, h[1])
    BY <2>1
  <2> HIDE DEF Good
  <2> QED
    BY <1>0, <1>1, <1>5, <2>1, <2>2 DEF HandlerIsGuarded
<1> QED
  <2>1. Handle(ev) # <<>>
    BY DEF Poll
  <2> QED
    BY <1>9, <1>10, <1>11, <1>12, <1>13, <2>1 DEF Handle

LEMMA EffectDone ==
    ASSUME TypeOK, TypeOK', RunInv, Grows, Known', todo # <<>>, todo' = Tail(todo),
           UNCHANGED <<plan, mode, current, offset>>,
           \A i \in DOMAIN todo :
               i # 1 /\ todo[i].op \in {"set-status", "enqueue"} => NobodyCancels,
           \A e \in Executions : Head(todo) = SetStatus(e, "running") => Begun(e)'
    PROVE  RunInv'
<1>1. todo \in Seq(Effect) /\ HandlerIsGuarded /\ RequestInHand /\ CommittedIsBegun
  BY DEF TypeOK, RunInv
<1>2. ASSUME NEW e \in Executions, NEW j \in DOMAIN todo, todo[j] = SetStatus(e, "running")
      PROVE  Begun(e)' \/ (\E i \in DOMAIN todo : todo[i] = SetStatus(e, "running"))'
  <2>1. CASE j = 1
    BY <1>1, <1>2, <2>1
  <2>2. CASE j # 1
    <3>1. j - 1 \in DOMAIN todo' /\ todo'[j - 1] = todo[j]
      BY <1>1, <1>2, <2>2
    <3> QED
      BY <1>2, <3>1 DEF SetStatus
  <2> QED
    BY <2>1, <2>2
<1>3. RequestInHand'
  BY <1>1, <1>2, RequestKept
<1>4. HandlerIsGuarded'
  BY <1>1, HandlerPopped
<1>5. CommittedIsBegun'
  BY <1>1, CommittedKept
<1> QED
  BY <1>3, <1>4, <1>5 DEF RunInv

(* The status an effect sets is that of a run that has begun, and replaces  *)
(* CANCELLED only by CANCELLED or FAILED.                                   *)
LEMMA StatusIsSet ==
    ASSUME TypeOK, RunInv, DoSetStatus
    PROVE  /\ Head(todo) = todo[1] /\ Guarded(1, Head(todo))
           /\ Head(todo).exec \in Executions
           /\ status'[Head(todo).exec] = Head(todo).status
           /\ \A e \in Executions : e # Head(todo).exec => status'[e] = status[e]
<1>1. todo # <<>> /\ todo \in Seq(Effect) /\ Head(todo).op = "set-status"
  BY DEF DoSetStatus, NextEffectIs, TypeOK
<1>2. 1 \in DOMAIN todo /\ Head(todo) = todo[1]
  BY <1>1
<1>3. Guarded(1, Head(todo)) /\ Head(todo).exec \in Executions
  BY <1>1, <1>2, EffectType DEF RunInv, HandlerIsGuarded
<1> QED
  BY <1>2, <1>3 DEF DoSetStatus, TypeOK

LEMMA SetStatusStep ==
    ASSUME TypeOK, TypeOK', RunInv, DoSetStatus
    PROVE  RunInv' /\ Grows
<1>1. PICK f : f = Head(todo)
  OBVIOUS
<1>2. /\ todo # <<>> /\ todo' = Tail(todo) /\ f.op = "set-status"
      /\ UNCHANGED <<log, offset, mode, current, plan, unpublished, cancelling, queued, pc, task>>
  BY <1>1 DEF DoSetStatus, NextEffectIs, kafkaVars, outsideVars, catalogVars, apiVars,
         nodeVars, workerVars
<1>3. /\ f = todo[1] /\ Guarded(1, f) /\ f.exec \in Executions
      /\ status'[f.exec] = f.status
      /\ \A e \in Executions : e # f.exec => status'[e] = status[e]
  BY <1>1, StatusIsSet
<1>4. f.status \in {"running", "completed", "failed", "cancelled"}
  BY <1>2, <1>3 DEF Guarded
<1>5. Begun(f.exec)' /\ Grows
  BY <1>2, <1>3, <1>4, QuietGrows DEF Begun
<1>6. f.status # "cancelled" => NobodyCancels
  BY <1>3 DEF NobodyCancels
<1>7. f.status = "cancelled" =>
          \A i \in DOMAIN todo : i # 1 => todo[i].op \notin {"set-status", "enqueue"}
  BY <1>2, <1>3 DEF Guarded
<1>8. Known'
  <2>1. \A t \in Tasks : Held(t)' => Held(t)
    BY <1>2 DEF Held
  <2> QED
    BY <1>2, <1>5, <2>1, KnownKept DEF RunInv
<1>9. \A e \in Executions : Head(todo) = SetStatus(e, "running") => Begun(e)'
  BY <1>1, <1>5 DEF SetStatus
<1> QED
  BY <1>2, <1>5, <1>6, <1>7, <1>8, <1>9, EffectDone

LEMMA PublishStep ==
    ASSUME TypeOK, TypeOK', RunInv, NEW n \in 0..2, DoPublish(n)
    PROVE  RunInv' /\ Grows
<1>1. /\ todo # <<>> /\ todo' = Tail(todo) /\ Head(todo).op = "publish"
      /\ UNCHANGED <<status, offset, mode, current, plan, unpublished, cancelling,
                     queued, pc, task>>
      /\ Publish(Head(todo).event, n)
  BY DEF DoPublish, NextEffectIs, dbVars, outsideVars, catalogVars, apiVars,
         nodeVars, workerVars
<1>2. 1 \in DOMAIN todo /\ Head(todo) = todo[1]
  BY <1>1 DEF TypeOK
<1>3. Head(todo).event \in Event /\ EventIsKnown(Head(todo).event)
  BY <1>1, <1>2, EffectType DEF RunInv, HandlerIsGuarded, Guarded
<1>4. Grows /\ NobodyCancels
  BY <1>1, <1>3, PublishGrows
<1>5. Known'
  <2>1. \A t \in Tasks : Held(t)' => Held(t)
    BY <1>1 DEF Held
  <2> QED
    BY <1>1, <1>3, <2>1, PublishKnown DEF RunInv
<1>6. \A e \in Executions : Head(todo) # SetStatus(e, "running")
  BY <1>1 DEF SetStatus
<1> QED
  BY <1>1, <1>4, <1>5, <1>6, EffectDone

LEMMA EnqueueStep ==
    ASSUME TypeOK, TypeOK', RunInv, DoEnqueue
    PROVE  /\ RunInv' /\ Grows
           /\ Head(todo).task \in Tasks /\ Guarded(1, Head(todo))
           /\ Begun(Head(todo).task[1])
<1>1. /\ todo # <<>> /\ todo' = Tail(todo) /\ Head(todo).op = "enqueue"
      /\ UNCHANGED <<log, status, offset, mode, current, plan, unpublished, cancelling, pc, task>>
      /\ queued' = [queued EXCEPT ![Head(todo).task] = @ + 1]
  BY DEF DoEnqueue, NextEffectIs, kafkaVars, dbVars, outsideVars, catalogVars, apiVars,
         workerVars
<1>2. 1 \in DOMAIN todo /\ Head(todo) = todo[1] /\ \A j \in DOMAIN todo : ~(j < 1)
  BY <1>1 DEF TypeOK
<1>3. PICK t : t = Head(todo).task
  OBVIOUS
<1>4. Guarded(1, Head(todo)) /\ t \in Tasks /\ t[1] \in Executions
  BY <1>1, <1>2, <1>3, EffectType DEF RunInv, HandlerIsGuarded
<1>5. Begun(t[1])
  BY <1>1, <1>2, <1>3, <1>4 DEF Guarded, StartsBefore
<1>6. Grows /\ NobodyCancels
  BY <1>1, QuietGrows DEF Begun, NobodyCancels
<1>7. Known'
  <2>1. \A u \in Tasks : u # t => queued'[u] = queued[u]
    BY <1>1, <1>3 DEF TypeOK
  <2>2. \A u \in Tasks : Held(u)' => Held(u) \/ u = t
    BY <1>1, <2>1 DEF Held
  <2>3. Begun(t[1])'
    BY <1>1, <1>5 DEF Begun
  <2> QED
    BY <1>1, <1>6, <2>2, <2>3, KnownKept DEF RunInv
<1>8. \A e \in Executions : Head(todo) # SetStatus(e, "running")
  BY <1>1 DEF SetStatus
<1>9. RunInv'
  BY <1>1, <1>6, <1>7, <1>8, EffectDone
<1> QED
  BY <1>3, <1>4, <1>5, <1>6, <1>9

LEMMA RestartStep ==
    ASSUME TypeOK, TypeOK', RunInv, DoRestart
    PROVE  RunInv' /\ Grows
<1>1. /\ todo # <<>> /\ todo \in Seq(Effect) /\ Head(todo).op = "restart"
      /\ UNCHANGED <<log, offset, mode, current, plan, unpublished, cancelling, queued, pc, task>>
  BY DEF DoRestart, NextEffectIs, TypeOK, kafkaVars, outsideVars, catalogVars, apiVars,
         nodeVars, workerVars
<1>2. \A e \in Executions :
          status'[e] = status[e] \/ (status[e] = "absent" /\ status'[e] = "pending")
  BY DEF DoRestart, TypeOK
<1>3. Grows /\ NobodyCancels
  BY <1>1, <1>2, QuietGrows DEF Begun, NobodyCancels
<1>4. Known'
  <2>1. \A t \in Tasks : Held(t)' => Held(t)
    BY <1>1 DEF Held
  <2> QED
    BY <1>1, <1>3, <2>1, KnownKept DEF RunInv
<1>5. 1 \in DOMAIN todo /\ Head(todo) = todo[1]
  BY <1>1
<1>6. \A e \in Executions : todo[1] # SetStatus(e, "running")
  BY <1>1, <1>5 DEF SetStatus
<1>7. CASE todo' = Tail(todo)
  BY <1>1, <1>3, <1>4, <1>5, <1>6, <1>7, EffectDone
<1>8. ASSUME NEW x \in Executions, status'[x] = "pending",
             todo' = <<Publishing(Requested(x))>> \o Tail(todo)
      PROVE  RunInv'
  <2>1. /\ DOMAIN todo' = DOMAIN todo /\ todo'[1] = Publishing(Requested(x))
        /\ \A i \in DOMAIN todo : i # 1 => todo'[i] = todo[i]
    <3> HIDE DEF Publishing, Requested
    <3>1. Tail(todo) \in Seq(Effect) /\ Len(Tail(todo)) = Len(todo) - 1
          /\ \A i \in 1..(Len(todo) - 1) : Tail(todo)[i] = todo[i + 1]
      BY <1>1
    <3>2. Len(todo') = Len(todo) /\ todo' \in Seq(Effect)
      BY <1>1, <1>8, <3>1 DEF TypeOK
    <3>3. todo'[1] = Publishing(Requested(x))
      BY <1>8, <3>1
    <3>4. ASSUME NEW i \in DOMAIN todo, i # 1
          PROVE  todo'[i] = todo[i]
      <4>1. i - 1 \in 1..(Len(todo) - 1) /\ todo'[i] = Tail(todo)[i - 1]
        BY <1>1, <1>8, <3>1, <3>4
      <4> QED
        BY <1>1, <3>1, <4>1
    <3> QED
      BY <1>1, <3>2, <3>3, <3>4
  <2>2. Guarded(1, todo[1])'
    <3>1. EventIsKnown(Requested(x))' /\ Requested(x).type \notin Reports
      BY <1>8 DEF EventIsKnown, Requested, Notice, Reports
    <3>2. PICK f : f = Publishing(Requested(x))
      OBVIOUS
    <3>3. f.op = "publish" /\ f.event = Requested(x) /\ f = todo'[1]
      BY <2>1, <3>2 DEF Publishing
    <3> QED
      BY <3>1, <3>3 DEF Guarded
  <2>3. ASSUME NEW i \in DOMAIN todo, i # 1
        PROVE  Guarded(i, todo[i])'
    <3>1. \A e \in Executions : StartsBefore(i, e) => StartsBefore(i, e)'
      BY <1>6, <2>1 DEF StartsBefore, SetStatus
    <3>2. PICK f : f = todo[i] /\ f = todo'[i]
      BY <2>1, <2>3
    <3>3. Guarded(i, f)
      BY <2>3, <3>2 DEF RunInv, HandlerIsGuarded
    <3>4. \A k \in DOMAIN todo' : k # i =>
              \/ \E l \in DOMAIN todo : l # i /\ todo'[k] = todo[l]
              \/ todo'[k].op = "publish"
      BY <2>1, <2>3 DEF Publishing
    <3> QED
      BY <1>1, <1>3, <2>1, <2>3, <3>1, <3>2, <3>3, <3>4, GuardedStays
  <2>4. HandlerIsGuarded'
    BY <1>1, <1>5, <2>1, <2>2, <2>3 DEF HandlerIsGuarded, RunInv
  <2>5. ASSUME NEW e \in Executions, NEW j \in DOMAIN todo, todo[j] = SetStatus(e, "running")
        PROVE  (\E i \in DOMAIN todo : todo[i] = SetStatus(e, "running"))'
    BY <1>6, <2>1, <2>5 DEF SetStatus
  <2>6. RequestInHand' /\ CommittedIsBegun'
    BY <1>1, <1>3, <2>5, RequestKept, CommittedKept DEF RunInv
  <2> QED
    BY <1>4, <2>4, <2>6 DEF RunInv
<1>9. (\E x \in Executions : status'[x] = "pending"
                            /\ todo' = <<Publishing(Requested(x))>> \o Tail(todo))
      \/ todo' = Tail(todo)
  BY DEF DoRestart, TypeOK
<1> QED
  BY <1>3, <1>7, <1>8, <1>9

LEMMA PollStep ==
    ASSUME TypeOK, TypeOK', RunInv, Keyed, NEW p \in Partitions, Skip(p) \/ Poll(p)
    PROVE  RunInv' /\ Grows
<1> DEFINE ev == NextEvent(p)
<1>1. /\ UNCHANGED <<log, status, plan, unpublished, cancelling, queued, pc, task>>
      /\ mode = "polling" /\ todo = <<>>
  BY DEF Skip, Poll, HasNext, RunInv, HandlerIsGuarded, kafkaVars, dispatcherVars, dbVars,
         outsideVars, catalogVars, apiVars, nodeVars, workerVars
<1>2. Grows
  BY <1>1, QuietGrows DEF Begun
<1>3. Known'
  <2>1. \A t \in Tasks : Held(t)' => Held(t)
    BY <1>1 DEF Held
  <2> QED
    BY <1>1, <1>2, <2>1, KnownKept DEF RunInv
<1>4. offset[p] \in Nat /\ offset[p] < Len(log[p]) /\ log[p] \in Seq(Event)
      /\ ev = log[p][offset[p] + 1] /\ ev \in Event /\ ev.exec \in Executions
  BY NextEventType DEF Skip, Poll, HasNext, TypeOK, NextEvent, Event
<1>5. CASE Skip(p)
  <2>1. offset' = [offset EXCEPT ![p] = @ + 1] /\ Handle(ev) = <<>>
        /\ UNCHANGED <<mode, current, todo>>
    BY <1>5 DEF Skip, dispatcherVars
  <2>2. HandlerIsGuarded' /\ RequestInHand'
    BY <1>1, <2>1 DEF HandlerIsGuarded, RequestInHand
  <2>3. ev.type = "requested" => Begun(ev.exec)
    <3>1. ASSUME ev.type = "requested", status[ev.exec] # "cancelled"
          PROVE  FALSE
      BY <2>1, <3>1, RequestIsAnswered
    <3> QED
      BY <3>1 DEF Begun
  <2>4. CommittedIsBegun'
    <3>1. ASSUME NEW q \in Partitions
          PROVE  /\ offset'[q] <= Len(log[q])
                 /\ \A i \in 1..offset'[q] :
                        log[q][i].type = "requested" => Begun(log[q][i].exec)
      <4>1. CASE q = p
        <5>1. offset'[q] = offset[p] + 1
          BY <2>1, <4>1 DEF TypeOK
        <5> QED
          BY <1>4, <2>3, <4>1, <5>1 DEF RunInv, CommittedIsBegun
      <4>2. CASE q # p
        BY <2>1, <4>2 DEF RunInv, CommittedIsBegun, TypeOK
      <4> QED
        BY <4>1, <4>2
    <3> QED
      BY <1>1, <3>1 DEF CommittedIsBegun, Begun
  <2> QED
    BY <1>2, <1>3, <2>2, <2>4 DEF RunInv
<1>6. CASE Poll(p)
  <2>1. HandlerIsGuarded'
    BY <1>6, PolledIsGuarded
  <2>2. mode' = "handling" /\ current' = p /\ todo' = Handle(ev) /\ offset' = offset
        /\ Handle(ev) # <<>>
    BY <1>6 DEF Poll, kafkaVars
  <2>3. CommittedIsBegun'
    BY <1>2, <2>2, CommittedKept DEF RunInv
  <2>4. ASSUME ev.type = "requested"
        PROVE  1 \in DOMAIN Handle(ev) /\ Handle(ev)[1] = SetStatus(ev.exec, "running")
    BY <2>2, <2>4, RequestIsAnswered
  <2>5. RequestInHand'
    BY <1>1, <1>4, <2>2, <2>4 DEF RequestInHand, NextEvent, SetStatus
  <2> QED
    BY <1>2, <1>3, <2>1, <2>3, <2>5 DEF RunInv
<1> QED
  BY <1>5, <1>6

LEMMA CommitStep ==
    ASSUME TypeOK, TypeOK', RunInv, Commit
    PROVE  RunInv' /\ Grows
<1>1. /\ UNCHANGED <<log, status, plan, unpublished, cancelling, queued, pc, task, todo>>
      /\ mode = "handling" /\ todo = <<>> /\ mode' = "polling"
      /\ offset' = [offset EXCEPT ![current] = @ + 1]
  BY DEF Commit, dbVars, outsideVars, catalogVars, apiVars, nodeVars, workerVars
<1>2. Grows
  BY <1>1, QuietGrows DEF Begun
<1>3. Known'
  <2>1. \A t \in Tasks : Held(t)' => Held(t)
    BY <1>1 DEF Held
  <2> QED
    BY <1>1, <1>2, <2>1, KnownKept DEF RunInv
<1>4. HandlerIsGuarded' /\ RequestInHand'
  BY <1>1 DEF HandlerIsGuarded, RequestInHand
<1>5. /\ current \in Partitions /\ offset[current] \in Nat /\ log[current] \in Seq(Event)
      /\ offset[current] < Len(log[current])
      /\ log[current][offset[current] + 1].type = "requested" =>
             Begun(log[current][offset[current] + 1].exec)
  BY <1>1 DEF TypeOK, RunInv, RequestInHand, NextEvent
<1>6. ASSUME NEW p \in Partitions
      PROVE  /\ offset'[p] <= Len(log[p])
             /\ \A i \in 1..offset'[p] : log[p][i].type = "requested" => Begun(log[p][i].exec)
  <2>1. CASE p = current
    <3>1. offset'[p] = offset[p] + 1
      BY <1>1, <2>1 DEF TypeOK
    <3> QED
      BY <1>5, <2>1, <3>1 DEF RunInv, CommittedIsBegun
  <2>2. CASE p # current
    BY <1>1, <2>2 DEF RunInv, CommittedIsBegun, TypeOK
  <2> QED
    BY <2>1, <2>2
<1>7. CommittedIsBegun'
  BY <1>1, <1>6 DEF CommittedIsBegun, Begun
<1> QED
  BY <1>2, <1>3, <1>4, <1>7 DEF RunInv

LEMMA RevokeStep ==
    ASSUME TypeOK, TypeOK', RunInv, DoRevoke
    PROVE  RunInv' /\ Grows
<1>1. /\ todo # <<>> /\ todo' = Tail(todo) /\ Head(todo).op = "revoke"
      /\ UNCHANGED <<log, status, offset, mode, current, plan, unpublished, cancelling,
                     queued, pc, task>>
  BY DEF DoRevoke, NextEffectIs, kafkaVars, dbVars, outsideVars, catalogVars, apiVars,
         workerVars
<1>2. Grows /\ NobodyCancels
  BY <1>1, QuietGrows DEF Begun, NobodyCancels
<1>3. Known'
  <2>1. \A t \in Tasks : Held(t)' => Held(t)
    BY <1>1 DEF Held
  <2> QED
    BY <1>1, <1>2, <2>1, KnownKept DEF RunInv
<1>4. \A e \in Executions : Head(todo) # SetStatus(e, "running")
  BY <1>1 DEF SetStatus
<1> QED
  BY <1>1, <1>2, <1>3, <1>4, EffectDone

LEMMA RunDispatcher ==
    ASSUME TypeOK, TypeOK', RunInv, Keyed, DispatcherStep
    PROVE  RunInv' /\ Grows
BY PollStep, CommitStep, SetStatusStep, PublishStep, EnqueueStep, RevokeStep, RestartStep
   DEF DispatcherStep, DoEffect

(* What a worker reports it holds, and a held task is one of a run that has *)
(* begun.                                                                   *)
LEMMA NotifyStep ==
    ASSUME TypeOK, TypeOK', RunInv, NEW w \in Workers, NEW n \in 0..2,
           NotifyStarted(w, n) \/ NotifyCompleted(w, n) \/ NotifyFailed(w, n)
    PROVE  RunInv' /\ Grows
<1>1. /\ UNCHANGED <<status, offset, mode, current, todo, plan, unpublished, cancelling,
                     queued, task>>
      /\ pc[w] # "idle" /\ \A v \in Workers : pc'[v] # "idle" => pc[v] # "idle"
  BY DEF NotifyStarted, NotifyCompleted, NotifyFailed, Goto, TypeOK, dispatcherVars, dbVars,
         outsideVars, catalogVars, apiVars
<1>2. task[w] \in Tasks /\ Exec(w) = task[w][1] /\ Exec(w) \in Executions /\ Step(w) \in Steps
  BY <1>1, BusyWorker DEF Exec
<1>3. Begun(Exec(w))
  BY <1>1, <1>2 DEF RunInv, Known, Held
<1>4. PICK type \in {"step-started", "step-completed", "step-failed"} :
          Publish(Notice(type, Exec(w), Step(w), 0), n)
  BY DEF NotifyStarted, NotifyCompleted, NotifyFailed, Notify
<1>5. Notice(type, Exec(w), Step(w), 0) \in Event
  BY <1>2, NoticeType DEF EventTypes
<1>6. EventIsKnown(Notice(type, Exec(w), Step(w), 0))
  BY <1>3 DEF EventIsKnown, Notice, Begun
<1>7. Grows /\ NobodyCancels
  BY <1>1, <1>4, <1>5, PublishGrows
<1>8. Known'
  <2>1. \A t \in Tasks : Held(t)' => Held(t)
    BY <1>1 DEF Held
  <2> QED
    BY <1>1, <1>4, <1>5, <1>6, <2>1, PublishKnown DEF RunInv
<1> QED
  BY <1>1, <1>7, <1>8, SteadyKept

(* What neither publishes nor touches a status keeps everything. *)
LEMMA QuietStep ==
    ASSUME TypeOK, TypeOK', RunInv,
           UNCHANGED <<log, status, offset, mode, current, todo, plan, unpublished, cancelling>>,
           \A t \in Tasks : Held(t)' => Held(t)
    PROVE  RunInv' /\ Grows
<1>1. Grows /\ NobodyCancels
  BY QuietGrows DEF Begun, NobodyCancels
<1>2. Known'
  BY <1>1, KnownKept DEF RunInv
<1> QED
  BY <1>1, <1>2, SteadyKept

LEMMA RunNode ==
    ASSUME TypeOK, TypeOK', RunInv, NodeStep
    PROVE  RunInv' /\ Grows
<1> USE DEF kafkaVars, dispatcherVars, dbVars, outsideVars, catalogVars, apiVars,
            nodeVars, workerVars, controlVars, boundVars
<1>1. ASSUME UNCHANGED <<log, status, offset, mode, current, todo, plan, unpublished, cancelling>>,
             \A t \in Tasks : queued'[t] > 0 => queued[t] > 0,
             \A v \in Workers : pc'[v] # "idle" =>
                 (pc[v] # "idle" /\ task'[v] = task[v]) \/ queued[task'[v]] > 0
      PROVE  RunInv' /\ Grows
  <2>1. \A t \in Tasks : Held(t)' => Held(t)
    BY <1>1 DEF Held
  <2> QED
    BY <1>1, <2>1, QuietStep
<1>2. ASSUME NEW w \in Workers,
             \/ StartStep(w) \/ Passes(w) \/ Fails(w) \/ RunRaises(w) \/ Recover(w) \/ Ack(w)
             \/ CallRaises(w) \/ ChildLost(w)
      PROVE  RunInv' /\ Grows
  <2>1. UNCHANGED <<log, status, offset, mode, current, todo, plan, unpublished, cancelling, queued>>
    BY <1>2 DEF StartStep, Passes, Fails, RunRaises, Recover, Ack, CallRaises, ChildLost
  <2>2. \A v \in Workers : pc'[v] # "idle" => pc[v] # "idle" /\ task'[v] = task[v]
    BY <1>2 DEF StartStep, Passes, Fails, RunRaises, Recover, Ack, CallRaises, ChildLost,
                Goto, GoIdle, TypeOK
  <2> QED
    BY <1>1, <2>1, <2>2
<1>3. ASSUME NEW t \in Tasks, Discard(t)
      PROVE  RunInv' /\ Grows
  <2>1. \A u \in Tasks : queued'[u] > 0 => queued[u] > 0
    BY <1>3 DEF Discard, TypeOK
  <2> QED
    BY <1>1, <1>3, <2>1 DEF Discard
<1>4. ASSUME NEW t \in Tasks, RevokeArrives(t)
      PROVE  RunInv' /\ Grows
  <2>1. \A v \in Workers : pc'[v] # "idle" => pc[v] # "idle" /\ task'[v] = task[v]
    BY <1>4 DEF RevokeArrives, GoIdle, TypeOK
  <2> QED
    BY <1>1, <1>4, <2>1 DEF RevokeArrives
<1>5. ASSUME NEW t \in Tasks, NEW w \in Workers, Take(w, t)
      PROVE  RunInv' /\ Grows
  <2>1. \A u \in Tasks : queued'[u] > 0 => queued[u] > 0
    BY <1>5 DEF Take, TypeOK
  <2>2. \A v \in Workers : pc'[v] # "idle" =>
            (pc[v] # "idle" /\ task'[v] = task[v]) \/ queued[task'[v]] > 0
    BY <1>5 DEF Take, TypeOK
  <2> QED
    BY <1>1, <1>5, <2>1, <2>2 DEF Take
<1> QED
  BY <1>2, <1>3, <1>4, <1>5, NotifyStep DEF NodeStep, Execute

LEMMA RunEnvironment ==
    ASSUME TypeOK, TypeOK', RunInv, Environment
    PROVE  RunInv' /\ Grows
<1> USE DEF kafkaVars, dispatcherVars, dbVars, outsideVars, catalogVars, apiVars,
            nodeVars, workerVars, controlVars, boundVars
<1>1. /\ UNCHANGED <<log, status, offset, plan>>
      /\ unpublished' \subseteq unpublished /\ cancelling' \subseteq cancelling
  BY DEF Environment, CacheExpires, Crash, Restart
<1>2. Grows /\ NobodyCancels
  BY <1>1, QuietGrows DEF Begun, NobodyCancels
<1>3. ASSUME NEW t \in Tasks, Held(t)'
      PROVE  Held(t)
  <2>1. CASE (\E e \in Executions : CacheExpires(e)) \/ Crash
    BY <1>3, <2>1 DEF CacheExpires, Crash, Held
  <2>2. CASE Restart
    <3> DEFINE held == {w \in Workers : pc[w] # "idle" /\ task[w] = t}
    <3>1. queued'[t] = queued[t] + Cardinality(held) /\ queued'[t] > 0
      BY <1>3, <2>2 DEF Restart, Held
    <3>2. Cardinality(held) \in Nat /\ (Cardinality(held) > 0 => held # {})
      BY HeldCopies
    <3>3. queued[t] \in Nat
      BY DEF TypeOK
    <3> QED
      BY <3>1, <3>2, <3>3 DEF Held
  <2> QED
    BY <2>1, <2>2 DEF Environment
<1>4. Known'
  BY <1>1, <1>2, <1>3, KnownKept DEF RunInv
<1>5. CASE \E e \in Executions : CacheExpires(e)
  BY <1>2, <1>4, <1>5, SteadyKept DEF CacheExpires
<1>6. CASE Crash \/ Restart
  <2>1. mode' # "handling" /\ todo' = <<>>
    BY <1>6 DEF Crash, Restart, RunInv, HandlerIsGuarded
  <2>2. HandlerIsGuarded' /\ RequestInHand'
    BY <2>1 DEF HandlerIsGuarded, RequestInHand
  <2>3. CommittedIsBegun'
    BY <1>1, <1>2, CommittedKept DEF RunInv
  <2> QED
    BY <1>2, <1>4, <2>2, <2>3 DEF RunInv
<1> QED
  BY <1>5, <1>6 DEF Environment

LEMMA RunStep ==
    ASSUME TypeOK, TypeOK', RunInv, Keyed, [Next]_vars
    PROVE  RunInv' /\ Grows
<1>1. CASE UNCHANGED vars
  <2>1. UNCHANGED <<log, status, offset, mode, current, todo, plan, unpublished, cancelling,
                    queued, pc, task>>
    BY <1>1 DEF vars
  <2> QED
    BY <2>1, QuietStep DEF Held
<1> QED
  BY <1>1, RunApi, RunDispatcher, RunNode, RunEnvironment DEF Next

(* What is told or still to be done concerns executions that exist and have *)
(* begun, agrees with their status now, and leaves no request behind.       *)
THEOREM RunInvIsInductive == Spec => []RunInv
<1>1. TypeOK /\ TypeOK' /\ RunInv /\ Earned /\ [Next]_vars => RunInv'
  BY RunStep DEF Keyed, Earned, ProgressIsEarned, EventsAreEarned
<1> QED
  BY RunInit, <1>1, TypeCorrect, EarnedIsInductive, PTL DEF Spec

(* No committed request is left in PENDING, whatever crashed between the    *)
(* effects of its handler and the commit: the offset moves only when the    *)
(* execution has begun, and no run is ever set back.                        *)
THEOREM CommittedAnsweredCorrect == Spec => []CommittedRequestsAreAnswered
<1>1. RunInv => CommittedRequestsAreAnswered
  BY DEF RunInv, CommittedIsBegun, CommittedRequestsAreAnswered, Begun
<1> QED
  BY <1>1, RunInvIsInductive, PTL

(* The dispatcher queues no task of a cancelled execution, even if it was   *)
(* cancelled before a redelivered event is handled: what a handler queues   *)
(* was decided on the status of now, since only the handler sets it.        *)
THEOREM CancelledReleasesCorrect == Spec => CancelledReleasesNothing
<1>1. ASSUME TypeOK, TypeOK', RunInv, [Next]_vars
      PROVE  [\A t \in Tasks : mode = "handling" /\ queued'[t] > queued[t]
                                  => status[t[1]] # "cancelled"]_vars
  <2>1. CASE UNCHANGED vars
    BY <2>1
  <2>2. ASSUME Next, NEW t \in Tasks, mode = "handling", queued'[t] > queued[t]
        PROVE  status[t[1]] # "cancelled"
    <3>1. queued[t] \in Nat /\ queued'[t] \in Nat
      BY <1>1 DEF TypeOK
    <3>2. CASE DoEnqueue
      <4>1. Head(todo).task = t /\ Head(todo).op = "enqueue"
        BY <2>2, <3>1, <3>2, <1>1 DEF DoEnqueue, NextEffectIs, TypeOK
      <4> QED
        BY <1>1, <3>2, <4>1, EnqueueStep DEF Guarded
    <3>3. CASE ApiStep
      BY <2>2, <3>1, <3>3 DEF ApiStep, Schedule, Retry, CreateExecution, CancelCheck,
         PublishRequest, CancelPublish, WsCommand, nodeVars
    <3>4. CASE DispatcherStep /\ ~DoEnqueue
      BY <2>2, <3>1, <3>4 DEF DispatcherStep, DoEffect, Skip, Poll, DoSetStatus, DoPublish,
         DoRevoke, DoRestart, Commit, nodeVars
    <3>5. CASE NodeStep
      <4>1. CASE \E u \in Tasks : Discard(u)
        <5>1. PICK u \in Tasks : Discard(u)
          BY <4>1
        <5>2. queued[u] \in Nat /\ queued'[u] = queued[u] - 1 /\ (u # t => queued'[t] = queued[t])
          BY <1>1, <5>1, OneLessQueued DEF Discard
        <5> QED
          BY <2>2, <3>1, <5>2
      <4>2. CASE \E u \in Tasks, w \in Workers : Take(w, u)
        <5>1. PICK u \in Tasks : \E w \in Workers : Take(w, u)
          BY <4>2
        <5>2. queued[u] > 0 /\ queued' = [queued EXCEPT ![u] = @ - 1]
          BY <5>1 DEF Take
        <5>3. queued[u] \in Nat /\ queued'[u] = queued[u] - 1 /\ (u # t => queued'[t] = queued[t])
          BY <1>1, <5>2, OneLessQueued
        <5> QED
          BY <2>2, <3>1, <5>3
      <4>3. CASE \E w \in Workers : Execute(w) \/ CallRaises(w) \/ ChildLost(w)
        BY <2>2, <3>1, <4>3 DEF Execute, NotifyStarted, NotifyCompleted, NotifyFailed,
           StartStep, Passes, Fails, RunRaises, Recover, Ack, CallRaises, ChildLost
      <4>4. CASE \E u \in Tasks : RevokeArrives(u)
        BY <2>2, <3>1, <4>4 DEF RevokeArrives
      <4> QED
        BY <3>5, <4>1, <4>2, <4>3, <4>4 DEF NodeStep
    <3>6. CASE Environment
      BY <2>2, <3>1, <3>6 DEF Environment, CacheExpires, Crash, Restart, nodeVars
    <3> QED
      BY <2>2, <3>2, <3>3, <3>4, <3>5, <3>6 DEF Next
  <2> QED
    BY <1>1, <2>1, <2>2
<1> QED
  BY <1>1, RunInvIsInductive, TypeCorrect, PTL DEF Spec, CancelledReleasesNothing

(* Who changes a status, and how. *)
LEMMA StatusChanges ==
    ASSUME TypeOK, RunInv, [Next]_vars, NEW e \in Executions
    PROVE  \/ status'[e] = status[e]
           \/ status[e] = "absent" /\ status'[e] = "pending"
           \/ /\ DoSetStatus /\ e = Head(todo).exec
              /\ status'[e] = Head(todo).status /\ Guarded(1, Head(todo))
<1>1. CASE DoSetStatus
  BY <1>1, StatusIsSet
<1>2. CASE ApiStep \/ DoRestart
  BY <1>2 DEF ApiStep, Schedule, Retry, CreateExecution, CancelCheck, PublishRequest,
     CancelPublish, WsCommand, DoRestart, dbVars, TypeOK
<1>3. CASE DispatcherStep /\ ~DoSetStatus /\ ~DoRestart
  BY <1>3 DEF DispatcherStep, DoEffect, Skip, Poll, DoPublish, DoEnqueue, DoRevoke, Commit, dbVars
<1>4. CASE NodeStep \/ Environment
  BY <1>4 DEF NodeStep, Execute, NotifyStarted, NotifyCompleted, NotifyFailed, StartStep,
     Passes, Fails, RunRaises, Recover, Ack, CallRaises, ChildLost, Discard, Take,
     RevokeArrives, Environment, CacheExpires, Crash, Restart, dbVars
<1>5. CASE UNCHANGED vars
  BY <1>5 DEF vars
<1> QED
  BY <1>1, <1>2, <1>3, <1>4, <1>5 DEF Next

(* CANCELLED is left only for FAILED, under every fault. *)
THEOREM CancelledIsLeftCorrect == Spec => CancelledIsLeftOnlyToFailed
<1>1. ASSUME TypeOK, RunInv, [Next]_vars, NEW e \in Executions, status[e] = "cancelled"
      PROVE  status'[e] \in {"cancelled", "failed"}
  <2>1. CASE DoSetStatus /\ e = Head(todo).exec
             /\ status'[e] = Head(todo).status /\ Guarded(1, Head(todo))
    <3>1. Head(todo).op = "set-status"
      BY <2>1 DEF DoSetStatus, NextEffectIs
    <3> QED
      BY <1>1, <2>1, <3>1 DEF Guarded
  <2> QED
    BY <1>1, <2>1, StatusChanges
<1>2. TypeOK /\ RunInv /\ [Next]_vars =>
          [\A e \in Executions :
              status[e] = "cancelled" => status'[e] \in {"cancelled", "failed"}]_vars
  BY <1>1
<1> QED
  BY <1>2, RunInvIsInductive, TypeCorrect, PTL DEF Spec, CancelledIsLeftOnlyToFailed

-----------------------------------------------------------------------------
(* The dispatcher releases steps its plan lists (the plan is not edited     *)
(* here).                                                                   *)
ReleasesListed ==
    \A i \in DOMAIN todo :
        todo[i].op = "enqueue" => \E k \in DOMAIN plan : plan[k] = todo[i].task[2]

LEMMA HandleIsListed ==
    ASSUME TypeOK, NEW ev \in Event, ~Raises(ev), NEW i \in DOMAIN Handle(ev),
           Handle(ev)[i].op = "enqueue"
    PROVE  \E k \in DOMAIN plan : plan[k] = Handle(ev)[i].task[2]
<1> DEFINE x == ev.exec
           Good(f) == f.op = "enqueue" => \E k \in DOMAIN plan : plan[k] = f.task[2]
<1>0. plan \in Seq(Steps)
  BY DEF TypeOK
<1>1. ASSUME NEW n, NEW j \in DOMAIN Complete(x, n)
      PROVE  Good(Complete(x, n)[j])
  BY <1>1 DEF Complete, SetStatus, Publishing
<1>2. ASSUME NEW type, NEW k \in DOMAIN plan, NEW j \in DOMAIN Release(type, x, k)
      PROVE  Good(Release(type, x, k)[j])
  BY <1>2 DEF Release, Publishing, Enqueue
<1>3. CASE ev.type = "requested"
  <2> DEFINE rest == IF plan = <<>> THEN Complete(x, 0) ELSE Release("plan-started", x, 1)
  <2>1. status[x] # "cancelled" /\ DOMAIN Handle(ev) = 1..3
        /\ Handle(ev)[1] = SetStatus(x, "running")
        /\ Handle(ev)[2] = rest[1] /\ Handle(ev)[3] = rest[2]
    BY <1>3, RequestIsAnswered
  <2>2. DOMAIN Complete(x, 0) = 1..2 /\ DOMAIN Release("plan-started", x, 1) = 1..2
    BY DEF Complete, Release
  <2>3. plan # <<>> => 1 \in DOMAIN plan
    BY <1>0
  <2>4. Good(rest[1]) /\ Good(rest[2])
    <3> HIDE DEF Good
    <3> QED
      BY <1>1, <1>2, <2>2, <2>3
  <2>5. Good(Handle(ev)[1])
    BY <2>1 DEF SetStatus
  <2>6. Good(Handle(ev)[i])
    <3> HIDE DEF Good, rest
    <3> QED
      BY <2>1, <2>4, <2>5
  <2> QED
    BY <2>6
<1>4. CASE ev.type = "step-completed"
  <2>1. status[x] # "cancelled" /\ Handle(ev) = StepCompletedEffects(x, ev.step)
    BY <1>4 DEF Handle, StepCompletedEffects
  <2>2. Position(ev.step) \in DOMAIN plan
    BY <1>4, <2>1 DEF Raises, Position
  <2>3. CASE Position(ev.step) = Len(plan)
    BY <1>1, <2>1, <2>3 DEF StepCompletedEffects
  <2>4. CASE Position(ev.step) # Len(plan)
    <3>1. PICK k : k = Position(ev.step) + 1
      OBVIOUS
    <3>2. k \in DOMAIN plan
      BY <1>0, <2>2, <2>4, <3>1
    <3>3. Handle(ev) = Release("plan-progressed", x, k)
      BY <2>1, <2>4, <3>1 DEF StepCompletedEffects
    <3> QED
      BY <1>2, <3>2, <3>3
  <2> QED
    BY <2>3, <2>4
<1>5. CASE ev.type \notin {"requested", "step-completed"}
  BY <1>5 DEF Handle, StepFailedEffects, StopEffects, SetStatus, Publishing
<1> QED
  BY <1>3, <1>4, <1>5

LEMMA ListedStep ==
    ASSUME TypeOK, ReleasesListed, [Next]_vars
    PROVE  ReleasesListed'
<1> USE DEF kafkaVars, dispatcherVars, outsideVars, catalogVars
<1>1. plan' = plan
  BY DEF Next, ApiStep, DispatcherStep, DoEffect, NodeStep, Execute, Environment, vars, Schedule,
         Retry, CreateExecution, PublishRequest, CancelCheck, CancelPublish, WsCommand, Skip, Poll,
         DoSetStatus, DoPublish, DoEnqueue, DoRevoke, DoRestart, Commit, NotifyStarted,
         NotifyCompleted, NotifyFailed, StartStep, Passes, Fails, RunRaises, Recover, Ack,
         CallRaises, ChildLost, Discard, RevokeArrives, Take, CacheExpires, Crash, Restart
<1>2. todo \in Seq(Effect)
  BY DEF TypeOK
<1>3. ASSUME NEW p \in Partitions, Poll(p)
      PROVE  ReleasesListed'
  <2>1. NextEvent(p) \in Event /\ ~Raises(NextEvent(p)) /\ todo' = Handle(NextEvent(p))
    BY <1>3, NextEventType DEF Poll
  <2>2. PICK h : h = Handle(NextEvent(p)) /\ todo' = h
    BY <2>1
  <2>3. ASSUME NEW i \in DOMAIN h, h[i].op = "enqueue"
        PROVE  \E k \in DOMAIN plan : plan[k] = h[i].task[2]
    BY <2>1, <2>2, <2>3, HandleIsListed
  <2> QED
    BY <1>1, <2>2, <2>3 DEF ReleasesListed
<1>4. ASSUME \A j \in DOMAIN todo' :
                 (\E i \in DOMAIN todo : todo'[j] = todo[i]) \/ todo'[j].op # "enqueue"
      PROVE  ReleasesListed'
  BY <1>1, <1>4 DEF ReleasesListed
<1>5. ASSUME todo' = Tail(todo), todo # <<>>
      PROVE  ReleasesListed'
  <2>1. \A j \in DOMAIN todo' : j + 1 \in DOMAIN todo /\ todo'[j] = todo[j + 1]
    BY <1>2, <1>5
  <2> QED
    BY <1>4, <2>1
<1>6. CASE DoRestart
  <2>1. ASSUME NEW e \in Executions, todo' = <<Publishing(Requested(e))>> \o Tail(todo)
        PROVE  ReleasesListed'
    <3>1. todo # <<>> /\ Tail(todo) \in Seq(Effect)
      BY <1>2, <1>6 DEF DoRestart, NextEffectIs
    <3>2. PICK f : f = Publishing(Requested(e))
      OBVIOUS
    <3>3. f.op = "publish"
      BY <3>2 DEF Publishing
    <3>4. PICK t \in Seq(Effect) : t = Tail(todo) /\ todo' = <<f>> \o t
      BY <2>1, <3>1, <3>2
    <3>5. \A j \in DOMAIN t : j + 1 \in DOMAIN todo /\ t[j] = todo[j + 1]
      BY <1>2, <3>1, <3>4
    <3>6. \A j \in DOMAIN todo' :
              todo'[j] = f \/ (j - 1 \in DOMAIN t /\ todo'[j] = t[j - 1])
      BY <3>4
    <3> QED
      BY <1>4, <3>3, <3>5, <3>6
  <2> QED
    BY <1>5, <1>6, <2>1 DEF DoRestart, NextEffectIs
<1>7. CASE DoSetStatus \/ (\E n \in 0..2 : DoPublish(n)) \/ DoEnqueue \/ DoRevoke
  BY <1>5, <1>7 DEF DoSetStatus, DoPublish, DoEnqueue, DoRevoke, NextEffectIs
<1>8. CASE UNCHANGED todo
  BY <1>4, <1>8
<1>9. CASE Crash
  BY <1>9 DEF Crash, ReleasesListed
<1>10. CASE (\E p \in Partitions : Skip(p)) \/ Commit
  BY <1>8, <1>10 DEF Skip, Commit
<1>11. CASE ApiStep
  BY <1>8, <1>11 DEF ApiStep, Schedule, Retry, CreateExecution, PublishRequest, CancelCheck,
         CancelPublish, WsCommand
<1>12. CASE NodeStep
  <2>1. ASSUME NEW w \in Workers, Execute(w)
        PROVE  UNCHANGED todo
    BY <2>1 DEF Execute, NotifyStarted, NotifyCompleted, NotifyFailed, StartStep,
           Passes, Fails, RunRaises, Recover, Ack
  <2>2. ASSUME NEW t \in Tasks, RevokeArrives(t)
        PROVE  UNCHANGED todo
    BY <2>2 DEF RevokeArrives
  <2>3. UNCHANGED todo
    BY <1>12, <2>1, <2>2 DEF NodeStep, CallRaises, ChildLost, Discard, Take
  <2> QED
    BY <1>8, <2>3
<1>13. CASE (\E e \in Executions : CacheExpires(e)) \/ Restart
  BY <1>8, <1>13 DEF CacheExpires, Restart
<1>14. CASE UNCHANGED vars
  BY <1>8, <1>14 DEF vars
<1> QED
  BY <1>3, <1>6, <1>7, <1>9, <1>10, <1>11, <1>12, <1>13, <1>14
  DEF Next, DispatcherStep, DoEffect, Environment

LEMMA ListedAlways == Spec => []ReleasesListed
<1>1. Init => ReleasesListed
  BY DEF Init, ReleasesListed
<1> QED
  BY <1>1, ListedStep, TypeCorrect, PTL DEF Spec

(* What an enqueue releases, or releases once more. *)
-----------------------------------------------------------------------------
(* The refinement.  What AbstractRun knows of the topic is what three types *)
(* of events name; of the broker and the workers, which tasks are held.     *)
LEMMA ToldIsLogged ==
    ASSUME NEW e, NEW type, NEW s
    PROVE  s \in Told(type, e) <=> Logged(type, e, s)
BY DEF Told, Logged, History

LEMMA HeldIsInHand ==
    ASSUME \A t \in Tasks : Held(t)' <=> Held(t)
    PROVE  \A e \in Executions : InHand(e)' = InHand(e)
<1>1. ASSUME NEW e \in Executions
      PROVE  InHand(e)' = InHand(e)
  <2>1. \A s \in Steps : <<e, s>> \in Tasks
    BY DEF Tasks
  <2>2. InHand(e) = {s \in Steps : Held(<<e, s>>)}
    BY DEF InHand, Held
  <2>3. InHand(e)' = {s \in Steps : Held(<<e, s>>)'}
    BY DEF InHand, Held
  <2> QED
    BY <2>1, <2>2, <2>3
<1> QED
  BY <1>1

(* What a published event adds to what is told. *)
LEMMA PublishedIsTold ==
    ASSUME TypeOK, NEW ev \in Event, NEW n \in 0..2, Publish(ev, n),
           NEW e \in Executions, NEW type
    PROVE  /\ type # ev.type \/ e # ev.exec \/ n = 0 => Told(type, e)' = Told(type, e)
           /\ type = ev.type /\ e = ev.exec /\ n > 0 => Told(type, e)' = Told(type, e) \cup {ev.step}
<1>1. ASSUME NEW s, Logged(type, e, s)
      PROVE  Logged(type, e, s)'
  <2>1. PartitionOf[e] \in Partitions
    BY PartitionOfAssumption
  <2> QED
    BY <1>1, <2>1, PublishedIsAppended DEF Logged, History
<1>2. ASSUME NEW s, Logged(type, e, s)'
      PROVE  Logged(type, e, s) \/ (ev.type = type /\ ev.exec = e /\ ev.step = s)
  BY <1>2, PublishedIsNew
<1>3. ASSUME n = 0
      PROVE  log' = log
  <2> DEFINE q == PartitionOf[ev.exec]
             copies == [i \in 1..n |-> ev]
  <2>1. q \in Partitions /\ log[q] \in Seq(Event)
    BY PartitionOfAssumption DEF Event, TypeOK
  <2>2. copies = <<>>
    BY <1>3
  <2>3. log' = [log EXCEPT ![q] = log[q] \o copies]
    BY DEF Publish
  <2> HIDE DEF copies
  <2>4. log[q] \o copies = log[q]
    BY <2>1, <2>2
  <2> QED
    BY <2>3, <2>4 DEF TypeOK
<1>4. ASSUME n > 0, type = ev.type, e = ev.exec
      PROVE  Logged(type, e, ev.step)'
  <2> DEFINE q == PartitionOf[e]
             copies == [i \in 1..n |-> ev]
  <2>1. q \in Partitions /\ log[q] \in Seq(Event) /\ copies \in Seq(Event)
        /\ Len(copies) = n /\ copies[1] = ev
    BY <1>4, PartitionOfAssumption DEF TypeOK
  <2>2. log'[q] = log[q] \o copies
    BY <1>4, <2>1 DEF Publish, TypeOK
  <2> HIDE DEF copies
  <2>3. Len(log[q]) + 1 \in DOMAIN (log[q] \o copies) /\ (log[q] \o copies)[Len(log[q]) + 1] = ev
    BY <1>4, <2>1
  <2> QED
    BY <1>4, <2>2, <2>3 DEF Logged, History
<1>5. ASSUME type # ev.type \/ e # ev.exec \/ n = 0
      PROVE  Told(type, e)' = Told(type, e)
  <2>1. CASE n = 0
    BY <1>3, <2>1 DEF Told
  <2>2. CASE type # ev.type \/ e # ev.exec
    <3>1. \A s : Logged(type, e, s)' <=> Logged(type, e, s)
      BY <1>1, <1>2, <2>2
    <3>2. \A s : s \in Told(type, e)' <=> Logged(type, e, s)'
      BY DEF Told, Logged, History
    <3> QED
      BY <3>1, <3>2, ToldIsLogged
  <2> QED
    BY <1>5, <2>1, <2>2
<1>6. ASSUME type = ev.type, e = ev.exec, n > 0
      PROVE  Told(type, e)' = Told(type, e) \cup {ev.step}
  <2>1. \A s : Logged(type, e, s)' <=> Logged(type, e, s) \/ s = ev.step
    BY <1>1, <1>2, <1>4, <1>6
  <2>2. \A s : s \in Told(type, e)' <=> Logged(type, e, s)'
    BY DEF Told, Logged, History
  <2> QED
    BY <2>1, <2>2, ToldIsLogged
<1> QED
  BY <1>5, <1>6

LEMMA InvisibleStep ==
    ASSUME UNCHANGED <<plan, status>>,
           \A e \in Executions : InHand(e)' = InHand(e),
           \A e \in Executions, type \in Reports : Told(type, e)' = Told(type, e)
    PROVE  UNCHANGED Run!runVars
BY DEF Run!runVars, Reports

LEMMA SilentStep ==
    ASSUME UNCHANGED <<plan, status, log>>, \A t \in Tasks : Held(t)' <=> Held(t)
    PROVE  UNCHANGED Run!runVars
<1>1. \A e \in Executions, type \in Reports : Told(type, e)' = Told(type, e)
  BY DEF Told
<1> QED
  BY <1>1, HeldIsInHand, InvisibleStep

(* An event that is no report, published with the work as it was. *)
LEMMA NoticeStep ==
    ASSUME TypeOK, NEW ev \in Event, NEW n \in 0..2, Publish(ev, n),
           n = 0 \/ ev.type \notin Reports,
           UNCHANGED <<plan, status>>, \A t \in Tasks : Held(t)' <=> Held(t)
    PROVE  UNCHANGED Run!runVars
<1>1. \A e \in Executions, type \in Reports : Told(type, e)' = Told(type, e)
  BY PublishedIsTold
<1> QED
  BY <1>1, HeldIsInHand, InvisibleStep

LEMMA RunsInit == Init => Run!Init
<1> SUFFICES ASSUME Init PROVE Run!Init
  OBVIOUS
<1>1. plan \in Seq(Steps)
  BY InitialPlansAssumption DEF Init
<1>2. \A e \in Executions : \A type : Told(type, e) = {}
  BY PartitionOfAssumption DEF Init, Told
<1>3. \A e \in Executions : InHand(e) = {}
  BY DEF Init, InHand, Tasks
<1> QED
  BY <1>1, <1>2, <1>3 DEF Init, Run!Init, Run!Nothing

(* The visible steps, each from what it changes. *)
LEMMA EnterStep ==
    ASSUME NEW e \in Executions, NEW p, status' = [status EXCEPT ![e] = p],
           UNCHANGED <<plan, log>>, \A t \in Tasks : Held(t)' <=> Held(t)
    PROVE  Run!Enter(e, p)
<1>1. \A f \in Executions : InHand(f)' = InHand(f)
  BY HeldIsInHand
<1>2. \A f \in Executions : \A type : Told(type, f)' = Told(type, f)
  BY DEF Told
<1> QED
  BY <1>1, <1>2 DEF Run!Enter

LEMMA LeaveStep ==
    ASSUME NEW t \in Tasks, UNCHANGED <<plan, status, log>>,
           \A u \in Tasks : u # t => (Held(u)' <=> Held(u)), Held(t)' => Held(t)
    PROVE  [Run!Next]_Run!runVars
<1>1. CASE Held(t)'
  BY <1>1, SilentStep
<1>2. CASE ~Held(t)'
  <2>1. t[1] \in Executions /\ t[2] \in Steps /\ t = <<t[1], t[2]>>
    BY DEF Tasks
  <2>2. ASSUME NEW e \in Executions
        PROVE  InHand(e)' = IF e = t[1] THEN InHand(e) \ {t[2]} ELSE InHand(e)
    <3>1. \A s \in Steps : <<e, s>> \in Tasks
      BY DEF Tasks
    <3>2. InHand(e) = {s \in Steps : Held(<<e, s>>)}
      BY DEF InHand, Held
    <3>3. InHand(e)' = {s \in Steps : Held(<<e, s>>)'}
      BY DEF InHand, Held
    <3>4. \A s \in Steps : Held(<<e, s>>)' <=> Held(<<e, s>>) /\ <<e, s>> # t
      BY <1>2, <3>1
    <3>5. \A s \in Steps : <<e, s>> = t <=> e = t[1] /\ s = t[2]
      BY <2>1
    <3> QED
      BY <3>2, <3>3, <3>4, <3>5
  <2>3. \A e \in Executions : \A type : Told(type, e)' = Told(type, e)
    BY DEF Told
  <2>4. Run!Leave(t[1], t[2])
    BY <2>1, <2>2, <2>3 DEF Run!Leave
  <2> QED
    BY <2>1, <2>4 DEF Run!Next
<1> QED
  BY <1>1, <1>2

LEMMA AskToStopStep ==
    ASSUME TypeOK, NEW e \in Executions, NEW n \in 0..2, status[e] # "absent",
           Publish(Notice("stop-requested", e, NoStep, 0), n),
           UNCHANGED <<plan, status>>, \A t \in Tasks : Held(t)' <=> Held(t)
    PROVE  [Run!Next]_Run!runVars
<1> DEFINE ev == Notice("stop-requested", e, NoStep, 0)
<1>1. ev \in Event /\ ev.type = "stop-requested" /\ ev.exec = e /\ ev.step = NoStep
  BY NoticeType DEF EventTypes, Notice
<1> HIDE DEF ev
<1>2. CASE n = 0
  BY <1>1, <1>2, NoticeStep DEF ev
<1>3. CASE n > 0
  <2>1. \A f \in Executions : InHand(f)' = InHand(f)
    BY HeldIsInHand
  <2>2. \A f \in Executions : \A type :
            type # "stop-requested" \/ f # e => Told(type, f)' = Told(type, f)
    BY <1>1, PublishedIsTold DEF ev
  <2>3. Told("stop-requested", e)' # {}
    <3>1. Publish(ev, n)
      BY DEF ev
    <3>2. Told("stop-requested", e)' = Told("stop-requested", e) \cup {ev.step}
      <4>1. "stop-requested" = ev.type /\ e = ev.exec
        BY <1>1
      <4> QED
        BY <1>1, <1>3, <3>1, <4>1, PublishedIsTold, ZenonT(30)
    <3>3. PICK told, s : told = Told("stop-requested", e) /\ s = ev.step
      OBVIOUS
    <3>4. Told("stop-requested", e)' = told \cup {s}
      BY <3>2, <3>3
    <3> QED
      BY <3>4
  <2>4. Run!AskToStop(e)
    BY <2>1, <2>2, <2>3 DEF Run!AskToStop
  <2> QED
    BY <2>4 DEF Run!Next
<1> QED
  BY <1>2, <1>3

LEMMA ReportStep ==
    ASSUME TypeOK, NEW e \in Executions, NEW s \in Steps, s \in InHand(e),
           NEW n \in 0..2, NEW type \in {"step-completed", "step-failed"},
           Publish(Notice(type, e, s, 0), n),
           UNCHANGED <<plan, status>>, \A t \in Tasks : Held(t)' <=> Held(t)
    PROVE  [Run!Next]_Run!runVars
<1>1. PICK ev : ev = Notice(type, e, s, 0)
  OBVIOUS
<1>2. ev \in Event /\ ev.type = type /\ ev.exec = e /\ ev.step = s
  BY <1>1, NoticeType DEF EventTypes, Notice
<1>3. \A f \in Executions : InHand(f)' = InHand(f)
  BY HeldIsInHand
<1>4. Publish(ev, n)
  BY <1>1
<1>5. CASE n = 0
  BY <1>2, <1>4, <1>5, NoticeStep
<1>6. CASE n > 0
  <2>1. \A f \in Executions : \A other :
            other # type \/ f # e => Told(other, f)' = Told(other, f)
    BY <1>2, <1>4, PublishedIsTold
  <2>2. Told(type, e)' = Told(type, e) \cup {s}
    BY <1>2, <1>4, <1>6, PublishedIsTold
  <2>3. CASE type = "step-completed"
    <3>1. [f \in Executions |-> Told("step-completed", f)']
            = [[f \in Executions |-> Told("step-completed", f)] EXCEPT ![e] = @ \cup {s}]
      <4>1. \A f \in Executions : Told("step-completed", f)' =
                IF f = e THEN Told("step-completed", f) \cup {s} ELSE Told("step-completed", f)
        BY <2>1, <2>2, <2>3
      <4> QED
        BY <4>1
    <3>2. /\ [f \in Executions |-> Told("step-failed", f)']
                = [f \in Executions |-> Told("step-failed", f)]
          /\ {f \in Executions : Told("stop-requested", f)' # {}}
                = {f \in Executions : Told("stop-requested", f) # {}}
          /\ [f \in Executions |-> InHand(f)'] = [f \in Executions |-> InHand(f)]
      BY <1>3, <2>1, <2>3
    <3>3. s \in [f \in Executions |-> InHand(f)][e]
      OBVIOUS
    <3>4. Run!Pass(e, s)
      BY <3>1, <3>2, <3>3 DEF Run!Pass
    <3> QED
      BY <3>4 DEF Run!Next
  <2>4. CASE type = "step-failed"
    <3>1. [f \in Executions |-> Told("step-failed", f)']
            = [[f \in Executions |-> Told("step-failed", f)] EXCEPT ![e] = @ \cup {s}]
      <4>1. \A f \in Executions : Told("step-failed", f)' =
                IF f = e THEN Told("step-failed", f) \cup {s} ELSE Told("step-failed", f)
        BY <2>1, <2>2, <2>4
      <4> QED
        BY <4>1
    <3>2. /\ [f \in Executions |-> Told("step-completed", f)']
                = [f \in Executions |-> Told("step-completed", f)]
          /\ {f \in Executions : Told("stop-requested", f)' # {}}
                = {f \in Executions : Told("stop-requested", f) # {}}
          /\ [f \in Executions |-> InHand(f)'] = [f \in Executions |-> InHand(f)]
      BY <1>3, <2>1, <2>4
    <3>3. s \in [f \in Executions |-> InHand(f)][e]
      OBVIOUS
    <3>4. Run!FailStep(e, s)
      BY <3>1, <3>2, <3>3 DEF Run!FailStep
    <3> QED
      BY <3>4 DEF Run!Next
  <2> QED
    BY <2>3, <2>4
<1> QED
  BY <1>5, <1>6

LEMMA RunsApi ==
    ASSUME TypeOK, RunInv, ApiStep
    PROVE  [Run!Next]_Run!runVars
<1> USE DEF kafkaVars, dispatcherVars, dbVars, outsideVars, catalogVars, apiVars,
            nodeVars, workerVars, controlVars, boundVars
<1>1. UNCHANGED <<plan, queued, pc, task>>
  BY DEF ApiStep, Schedule, Retry, CreateExecution, CancelCheck, PublishRequest,
         CancelPublish, WsCommand
<1>2. \A t \in Tasks : Held(t)' <=> Held(t)
  BY <1>1 DEF Held
<1>3. ASSUME NEW e \in Executions, CreateExecution(e)
      PROVE  [Run!Next]_Run!runVars
  <2>1. Run!Enter(e, "pending") /\ status[e] = "absent"
    BY <1>1, <1>2, <1>3, EnterStep DEF CreateExecution
  <2> QED
    BY <2>1 DEF Run!Create, Run!Next
<1>4. ASSUME NEW e \in Executions, CancelCheck(e)
      PROVE  [Run!Next]_Run!runVars
  BY <1>1, <1>2, <1>4, SilentStep DEF CancelCheck
<1>5. ASSUME NEW e \in Executions, NEW n \in 0..2,
             CancelPublish(e, n) \/ WsCommand("stop-requested", e, n)
      PROVE  [Run!Next]_Run!runVars
  <2>1. status[e] # "absent"
    BY <1>5 DEF RunInv, Known, CancelPublish, WsCommand
  <2> QED
    BY <1>1, <1>2, <1>5, <2>1, AskToStopStep DEF CancelPublish, WsCommand
<1>6. ASSUME NEW e \in Executions, NEW n \in 0..2,
             PublishRequest(e, n) \/ WsCommand("restart-requested", e, n)
      PROVE  [Run!Next]_Run!runVars
  <2>1. PICK type \in {"requested", "restart-requested"} : Publish(Notice(type, e, NoStep, 0), n)
    BY <1>6 DEF PublishRequest, WsCommand, Requested
  <2>2. Notice(type, e, NoStep, 0) \in Event
    BY NoticeType DEF EventTypes
  <2>3. Notice(type, e, NoStep, 0).type \notin Reports
    BY DEF Notice, Reports
  <2>4. status' = status
    BY <1>6 DEF PublishRequest, WsCommand
  <2> QED
    BY <1>1, <1>2, <2>1, <2>2, <2>3, <2>4, NoticeStep
<1> QED
  BY <1>3, <1>4, <1>5, <1>6 DEF ApiStep, Schedule, Retry

(* The dispatcher: setting a status is one of four visible steps. *)
LEMMA RunsSetStatus ==
    ASSUME TypeOK, RunInv, Earned, DoSetStatus
    PROVE  [Run!Next]_Run!runVars
<1>1. PICK e, p : e = Head(todo).exec /\ p = Head(todo).status
  OBVIOUS
<1>2. Guarded(1, Head(todo)) /\ e \in Executions /\ Head(todo) = todo[1]
  BY <1>1, StatusIsSet
<1>3. /\ status' = [status EXCEPT ![e] = p] /\ Head(todo).op = "set-status"
      /\ todo # <<>> /\ UNCHANGED <<plan, log, queued, pc, task>>
  BY <1>1 DEF DoSetStatus, NextEffectIs, kafkaVars, outsideVars, catalogVars, nodeVars, workerVars
<1>4. 1 \in DOMAIN todo /\ \A j \in DOMAIN todo : ~(j < 1)
  BY <1>3 DEF TypeOK
<1>5. Head(todo) = SetStatus(e, p)
  BY <1>1, <1>2, <1>3, <1>4, EffectType
<1>6. Run!Enter(e, p)
  BY <1>2, <1>3, EnterStep DEF Held
<1>7. /\ status[e] # "absent"
      /\ p \in {"running", "completed", "failed", "cancelled"}
      /\ p \in {"running", "completed"} => status[e] # "cancelled"
      /\ p \in {"completed", "failed"} => status[e] \notin {"absent", "pending"}
      /\ p = "failed" => HasEvent("step-failed", e)
      /\ p = "cancelled" => HasEvent("stop-requested", e)
  BY <1>1, <1>2, <1>3, <1>4 DEF Guarded, StartsBefore, Begun
<1>8. \A type : HasEvent(type, e) => Told(type, e) # {}
  BY DEF HasEvent, Told, History
<1>9. CASE p = "running"
  <2>1. Run!Start(e)
    BY <1>6, <1>7, <1>9 DEF Run!Start
  <2> QED
    BY <1>2, <2>1 DEF Run!Next
<1>10. CASE p = "completed"
  <2>1. AllPassed(e)
    BY <1>2, <1>4, <1>5, <1>10 DEF Earned, ProgressIsEarned, EffectsAreEarned
  <2>2. \A i \in DOMAIN plan : plan[i] \in Told("step-completed", e)
    BY <2>1, ToldIsLogged DEF AllPassed, Passed
  <2>3. Run!Complete(e)
    BY <1>2, <1>6, <1>7, <1>10, <2>2 DEF Run!Complete, Run!Begun
  <2> QED
    BY <1>2, <2>3 DEF Run!Next
<1>11. CASE p = "failed"
  <2>1. Run!Fail(e)
    BY <1>2, <1>6, <1>7, <1>8, <1>11 DEF Run!Fail, Run!Begun
  <2> QED
    BY <1>2, <2>1 DEF Run!Next
<1>12. CASE p = "cancelled"
  <2>1. Run!Cancel(e)
    BY <1>2, <1>6, <1>7, <1>8, <1>12 DEF Run!Cancel
  <2> QED
    BY <1>2, <2>1 DEF Run!Next
<1> QED
  BY <1>7, <1>9, <1>10, <1>11, <1>12

LEMMA RunsEnqueue ==
    ASSUME TypeOK, TypeOK', RunInv, Earned, ReleasesListed, DoEnqueue
    PROVE  [Run!Next]_Run!runVars
<1>1. PICK e, s : e = Head(todo).task[1] /\ s = Head(todo).task[2]
  OBVIOUS
<1>2. Head(todo).task \in Tasks /\ Guarded(1, Head(todo)) /\ Begun(e)
  BY <1>1, EnqueueStep
<1>3. e \in Executions /\ s \in Steps /\ Head(todo).task = <<e, s>> /\ <<e, s>> \in Tasks
  BY <1>1, <1>2 DEF Tasks
<1>4. /\ todo # <<>> /\ Head(todo).op = "enqueue"
      /\ UNCHANGED <<plan, status, log, pc, task>>
      /\ queued' = [queued EXCEPT ![<<e, s>>] = @ + 1]
  BY <1>3 DEF DoEnqueue, NextEffectIs, kafkaVars, dbVars, outsideVars, catalogVars, workerVars
<1>5. 1 \in DOMAIN todo /\ Head(todo) = todo[1]
  BY <1>4 DEF TypeOK
<1>6. Head(todo) = Enqueue(e, s)
  <2>1. Head(todo) \in Effect
    BY <1>5, EffectType
  <2> QED
    BY <1>3, <1>4, <2>1 DEF Effect, Enqueue
<1>7. \A i, j \in DOMAIN plan : plan[i] = s /\ j < i => plan[j] \in Told("step-completed", e)
  <2>1. PredecessorsPassed(e, s)
    BY <1>3, <1>5, <1>6 DEF Earned, ProgressIsEarned, EffectsAreEarned
  <2> QED
    BY <2>1, ToldIsLogged DEF PredecessorsPassed, Passed
<1>8. /\ status[e] \notin {"absent", "pending"} /\ status[e] # "cancelled"
      /\ \E k \in DOMAIN plan : plan[k] = s
  BY <1>1, <1>2, <1>4, <1>5 DEF Guarded, Begun, ReleasesListed
<1>9. [f \in Executions |-> InHand(f)']
        = [[f \in Executions |-> InHand(f)] EXCEPT ![e] = @ \cup {s}]
  <2>1. \A u \in Tasks : queued'[u] > 0 <=> queued[u] > 0 \/ u = <<e, s>>
    <3>1. /\ queued[<<e, s>>] \in Nat /\ queued'[<<e, s>>] = queued[<<e, s>>] + 1
          /\ \A u \in Tasks : u # <<e, s>> => queued'[u] = queued[u]
      BY <1>3, <1>4, OneMoreQueued
    <3>2. queued'[<<e, s>>] > 0
      BY <3>1
    <3> QED
      BY <3>1, <3>2
  <2>2. \A f \in Executions, r \in Steps : r \in InHand(f)' <=>
            r \in InHand(f) \/ <<f, r>> = <<e, s>>
    BY <1>4, <2>1 DEF InHand, Tasks
  <2>3. \A f \in Executions : InHand(f)' = IF f = e THEN InHand(f) \cup {s} ELSE InHand(f)
    BY <1>3, <2>2 DEF InHand
  <2> QED
    BY <2>3
<1>10. \A f \in Executions : \A type : Told(type, f)' = Told(type, f)
  BY <1>4 DEF Told
<1>11. Run!Release(e, s)
  BY <1>3, <1>4, <1>7, <1>8, <1>9, <1>10 DEF Run!Release, Run!Begun, Run!Listed, Run!Preceded
<1> QED
  BY <1>3, <1>11 DEF Run!Next

LEMMA RunsDispatcher ==
    ASSUME TypeOK, TypeOK', RunInv, Earned, ReleasesListed, DispatcherStep
    PROVE  [Run!Next]_Run!runVars
<1> USE DEF kafkaVars, dispatcherVars, dbVars, outsideVars, catalogVars,
            nodeVars, workerVars
<1>1. ASSUME UNCHANGED <<queued, pc, task>>
      PROVE  \A t \in Tasks : Held(t)' <=> Held(t)
  BY <1>1 DEF Held
<1>2. CASE (\E p \in Partitions : Skip(p) \/ Poll(p)) \/ Commit \/ DoRevoke
  <2>1. UNCHANGED <<plan, status, log, queued, pc, task>>
    BY <1>2 DEF Skip, Poll, Commit, DoRevoke
  <2> QED
    BY <1>1, <2>1, SilentStep
<1>3. ASSUME NEW n \in 0..2, DoPublish(n)
      PROVE  [Run!Next]_Run!runVars
  <2>1. /\ todo # <<>> /\ Head(todo).op = "publish" /\ Publish(Head(todo).event, n)
        /\ UNCHANGED <<plan, status, queued, pc, task>>
    BY <1>3 DEF DoPublish, NextEffectIs
  <2>2. 1 \in DOMAIN todo /\ Head(todo) = todo[1]
    BY <2>1 DEF TypeOK
  <2>3. Head(todo).event \in Event /\ Head(todo).event.type \notin Reports
    BY <2>1, <2>2, EffectType DEF RunInv, HandlerIsGuarded, Guarded
  <2>4. PICK ev : ev = Head(todo).event
    OBVIOUS
  <2> QED
    BY <1>1, <2>1, <2>3, <2>4, NoticeStep
<1>4. CASE DoRestart
  <2>1. UNCHANGED <<plan, log, queued, pc, task>>
    BY <1>4 DEF DoRestart
  <2>2. CASE UNCHANGED status
    BY <1>1, <2>1, <2>2, SilentStep
  <2>3. ASSUME NEW e \in Executions, status[e] = "absent",
               status' = [status EXCEPT ![e] = "pending"]
        PROVE  [Run!Next]_Run!runVars
    <3>1. Run!Create(e)
      BY <1>1, <2>1, <2>3, EnterStep DEF Run!Create
    <3> QED
      BY <3>1 DEF Run!Next
  <2> QED
    BY <1>4, <2>2, <2>3 DEF DoRestart
<1> QED
  BY <1>2, <1>3, <1>4, RunsSetStatus, RunsEnqueue DEF DispatcherStep, DoEffect

(* A worker: its reports are visible, and that it lets go of a task. *)
LEMMA RunsNode ==
    ASSUME TypeOK, TypeOK', RunInv, NodeStep
    PROVE  [Run!Next]_Run!runVars
<1> USE DEF kafkaVars, dispatcherVars, dbVars, outsideVars, catalogVars,
            nodeVars, workerVars
<1>1. UNCHANGED <<plan, status>>
  BY DEF NodeStep, Execute, NotifyStarted, NotifyCompleted, NotifyFailed, StartStep, Passes,
     Fails, RunRaises, Recover, Ack, CallRaises, ChildLost, Discard, Take, RevokeArrives
<1>2. ASSUME UNCHANGED <<queued, task>>,
             \A v \in Workers : pc'[v] = "idle" <=> pc[v] = "idle"
      PROVE  \A t \in Tasks : Held(t)' <=> Held(t)
  BY <1>2 DEF Held
<1>3. ASSUME NEW w \in Workers, NEW n \in 0..2,
             NotifyStarted(w, n) \/ NotifyCompleted(w, n) \/ NotifyFailed(w, n)
      PROVE  [Run!Next]_Run!runVars
  <2>1. /\ UNCHANGED <<queued, task>> /\ pc[w] # "idle"
        /\ \A v \in Workers : pc'[v] = "idle" <=> pc[v] = "idle"
    BY <1>3 DEF NotifyStarted, NotifyCompleted, NotifyFailed, Goto, TypeOK
  <2>2. PICK e \in Executions, s \in Steps :
            e = Exec(w) /\ s = Step(w) /\ task[w] = <<e, s>>
    BY <2>1, BusyWorker
  <2>3. PICK type \in {"step-started", "step-completed", "step-failed"} :
            Publish(Notice(type, e, s, 0), n)
    BY <1>3, <2>2 DEF NotifyStarted, NotifyCompleted, NotifyFailed, Notify
  <2>4. \A t \in Tasks : Held(t)' <=> Held(t)
    BY <1>2, <2>1
  <2>5. CASE type = "step-started"
    <3>1. Notice(type, e, s, 0) \in Event
      BY NoticeType DEF EventTypes
    <3>2. Notice(type, e, s, 0).type \notin Reports
      BY <2>5 DEF Notice, Reports
    <3> QED
      BY <1>1, <2>3, <2>4, <3>1, <3>2, NoticeStep
  <2>6. CASE type \in {"step-completed", "step-failed"}
    <3>1. s \in InHand(e)
      BY <2>1, <2>2 DEF InHand
    <3> QED
      BY <1>1, <2>3, <2>4, <2>6, <3>1, ReportStep
  <2> QED
    BY <2>5, <2>6
<1>4. ASSUME NEW w \in Workers,
             StartStep(w) \/ Passes(w) \/ Fails(w) \/ RunRaises(w) \/ Recover(w) \/ CallRaises(w)
      PROVE  [Run!Next]_Run!runVars
  <2>1. /\ UNCHANGED <<log, queued, task>>
        /\ \A v \in Workers : pc'[v] = "idle" <=> pc[v] = "idle"
    BY <1>4 DEF StartStep, Passes, Fails, RunRaises, Recover, CallRaises, Goto, TypeOK
  <2> QED
    BY <1>1, <1>2, <2>1, SilentStep
<1>5. ASSUME NEW w \in Workers, NEW t \in Tasks, pc[w] # "idle", task[w] = t, GoIdle(w),
             UNCHANGED <<log, queued>>
      PROVE  [Run!Next]_Run!runVars
  <2>1. \A v \in Workers : pc'[v] # "idle" <=> pc[v] # "idle" /\ v # w
    BY <1>5 DEF GoIdle, TypeOK
  <2>2. \A v \in Workers : v # w => task'[v] = task[v]
    BY <1>5 DEF GoIdle, TypeOK
  <2>3. \A u \in Tasks : Held(u)' => Held(u)
    BY <1>5, <2>1, <2>2 DEF Held
  <2>4. \A u \in Tasks : u # t => (Held(u) => Held(u)')
    BY <1>5, <2>1, <2>2 DEF Held
  <2> QED
    BY <1>1, <1>5, <2>3, <2>4, LeaveStep
<1>6. ASSUME NEW w \in Workers, Ack(w) \/ ChildLost(w)
      PROVE  [Run!Next]_Run!runVars
  <2>1. pc[w] # "idle" /\ GoIdle(w) /\ UNCHANGED <<log, queued>>
    BY <1>6 DEF Ack, ChildLost
  <2>2. PICK t \in Tasks : task[w] = t
    BY <2>1 DEF TypeOK
  <2> QED
    BY <1>5, <2>1, <2>2
<1>7. ASSUME NEW t \in Tasks, RevokeArrives(t)
      PROVE  [Run!Next]_Run!runVars
  <2>1. UNCHANGED <<log, queued>>
    BY <1>7 DEF RevokeArrives
  <2>2. CASE UNCHANGED workerVars
    BY <1>1, <1>2, <2>1, <2>2, SilentStep
  <2>3. ASSUME NEW w \in Workers, pc[w] # "idle", task[w] = t, GoIdle(w)
        PROVE  [Run!Next]_Run!runVars
    BY <1>5, <2>1, <2>3
  <2> QED
    BY <1>7, <2>2, <2>3 DEF RevokeArrives
<1>8. ASSUME NEW t \in Tasks, Discard(t)
      PROVE  [Run!Next]_Run!runVars
  <2>1. /\ queued' = [queued EXCEPT ![t] = @ - 1] /\ queued[t] > 0
        /\ UNCHANGED <<log, pc, task>>
    BY <1>8 DEF Discard
  <2>2. \A u \in Tasks : u # t => (Held(u)' <=> Held(u))
    BY <2>1 DEF Held, TypeOK
  <2>3. Held(t)' => Held(t)
    BY <2>1 DEF Held
  <2> QED
    BY <1>1, <2>1, <2>2, <2>3, LeaveStep
<1>9. ASSUME NEW t \in Tasks, NEW w \in Workers, Take(w, t)
      PROVE  [Run!Next]_Run!runVars
  <2>1. /\ pc[w] = "idle" /\ queued[t] > 0 /\ log' = log
        /\ queued' = [queued EXCEPT ![t] = @ - 1]
        /\ pc'[w] # "idle" /\ task'[w] = t
        /\ \A v \in Workers : v # w => pc'[v] = pc[v] /\ task'[v] = task[v]
    BY <1>9 DEF Take, TypeOK
  <2>2. Held(t) /\ Held(t)'
    BY <2>1 DEF Held
  <2>3. ASSUME NEW u \in Tasks, u # t
        PROVE  Held(u)' <=> Held(u)
    <3>1. queued'[u] = queued[u]
      BY <2>1, <2>3 DEF TypeOK
    <3>2. \A v \in Workers :
              pc'[v] # "idle" /\ task'[v] = u <=> pc[v] # "idle" /\ task[v] = u
      BY <2>1, <2>3
    <3> QED
      BY <3>1, <3>2 DEF Held
  <2> QED
    BY <1>1, <2>1, <2>2, <2>3, SilentStep
<1> QED
  BY <1>3, <1>4, <1>6, <1>7, <1>8, <1>9 DEF NodeStep, Execute

(* A restart puts back into the broker what the workers held: the tasks in  *)
(* hand are the same.                                                       *)
LEMMA RunsEnvironment ==
    ASSUME TypeOK, Environment
    PROVE  [Run!Next]_Run!runVars
<1> USE DEF kafkaVars, dbVars, outsideVars, catalogVars, nodeVars, workerVars
<1>1. UNCHANGED <<plan, status, log>>
  BY DEF Environment, CacheExpires, Crash, Restart
<1>2. ASSUME NEW t \in Tasks
      PROVE  Held(t)' <=> Held(t)
  <2>1. CASE (\E e \in Executions : CacheExpires(e)) \/ Crash
    BY <2>1 DEF CacheExpires, Crash, Held
  <2>2. CASE Restart
    <3> DEFINE held == {w \in Workers : pc[w] # "idle" /\ task[w] = t}
    <3>1. queued'[t] = queued[t] + Cardinality(held) /\ \A w \in Workers : pc'[w] = "idle"
      BY <2>2 DEF Restart
    <3>2. queued[t] \in Nat
      BY DEF TypeOK
    <3>3. IsFiniteSet(held)
      BY WorkersAssumption, FS_Subset
    <3>4. Cardinality(held) \in Nat /\ (Cardinality(held) = 0 <=> held = {})
      BY <3>3, FS_CardinalityType, FS_EmptySet
    <3>5. Held(t)' <=> queued'[t] > 0
      BY <3>1 DEF Held
    <3>6. Held(t) <=> queued[t] > 0 \/ held # {}
      BY DEF Held
    <3> HIDE DEF held
    <3> QED
      BY <3>1, <3>2, <3>4, <3>5, <3>6
  <2> QED
    BY <2>1, <2>2 DEF Environment
<1> QED
  BY <1>1, <1>2, SilentStep

(* Whatever is lost, repeated or cut short, every step of the processes is  *)
(* a step of the abstract run or invisible in it: a step is worked on only  *)
(* when those before it passed, a run completes only when all did, fails    *)
(* only when one did, and ends as cancelled only when that was asked for.   *)
THEOREM ImplementsAbstractRun == Spec => OrchestrationRuns
<1>1. TypeOK /\ TypeOK' /\ RunInv /\ Earned /\ ReleasesListed /\ [Next]_vars => [Run!Next]_Run!runVars
  <2> SUFFICES ASSUME TypeOK, TypeOK', RunInv, Earned, ReleasesListed, [Next]_vars
               PROVE  [Run!Next]_Run!runVars
    OBVIOUS
  <2>1. CASE UNCHANGED vars
    <3>1. UNCHANGED <<plan, status, log, queued, pc, task>>
      BY <2>1 DEF vars
    <3> QED
      BY <3>1, SilentStep DEF Held
  <2> QED
    BY <2>1, RunsApi, RunsDispatcher, RunsNode, RunsEnvironment DEF Next
<1> QED
  BY RunsInit, <1>1, RunInvIsInductive, EarnedIsInductive, ListedAlways,
     TypeCorrect, PTL
  DEF Spec, OrchestrationRuns, Run!Spec
=============================================================================
