--------------------------- MODULE DeliveryProofs ---------------------------
(* As long as nothing is delivered twice, an execution has one turn: the     *)
(* request, the step that is released, queued or run, or the report of that *)
(* step that the dispatcher has not taken up yet.  Nothing is in two of      *)
(* those places, and where the turn is says what the execution's status and *)
(* rows are, and what was said last about it.                               *)
EXTENDS RunProofs, SequenceTheorems

(* What may deliver an event or a task once more. *)
NoRedelivery == FaultKinds \cap {"crash", "duplicated"} = {}

(* What the dispatcher has taken up: the committed events, and the one in hand. *)
Taken(p) == IF mode = "handling" /\ current = p THEN offset[p] + 1 ELSE offset[p]

Moves == {"requested", "step-completed", "step-failed"}

(* The places of a turn, beside `unpublished': a report or request still to *)
(* be taken up, an effect still to happen, Waiting and Running.             *)
Due(e) ==
    {i \in DOMAIN History(e) :
        i > Taken(PartitionOf[e]) /\ History(e)[i].exec = e /\ History(e)[i].type \in Moves}

Carries(e) ==
    \E i \in DOMAIN todo :
        todo[i] = Publishing(Requested(e)) \/ \E s \in Steps : todo[i] = Enqueue(e, s)

Idle(e) ==
    /\ e \notin unpublished /\ ~Carries(e)
    /\ Due(e) = {} /\ Waiting(e) = {} /\ Running(e) = {}

OneTurn(e) ==
    /\ e \in unpublished => ~Carries(e) /\ Due(e) = {} /\ Waiting(e) = {} /\ Running(e) = {}
    /\ Carries(e) => Due(e) = {} /\ Waiting(e) = {} /\ Running(e) = {}
    /\ Due(e) # {} => Waiting(e) = {} /\ Running(e) = {}
    /\ Waiting(e) # {} => Running(e) = {}
    /\ \A i, j \in Due(e) : i = j
    /\ \A s, t \in Waiting(e) : s = t
    /\ \A s \in Steps : queued[<<e, s>>] <= 1
    /\ \A v, w \in Running(e) : v = w

(* Where the turn is, and what the status and the rows are then. *)
Fresh(e) == status[e] \in {"pending", "cancelled"} /\ rows[e] = <<>>
Working(e) == status[e] \in {"running", "cancelled"}
DoneTo(e, k) == Len(rows[e]) = k /\ \A i \in DOMAIN rows[e] : rows[e][i].status = "completed"

WorkerFits(w, k) ==
    /\ plan[k] = Step(w)
    /\ pc[w] \in {"notify_started", "start_step"} => DoneTo(Exec(w), k - 1)
    /\ pc[w] \in {"run", "notify_failed"} => Len(rows[Exec(w)]) = k
    /\ pc[w] = "notify_completed" => DoneTo(Exec(w), k)
    /\ pc[w] \in {"recover", "notify_error"} => Len(rows[Exec(w)]) \in {k - 1, k}

DueFits(e, ev) ==
    /\ ev.type = "requested" => Fresh(e)
    /\ ev.type = "step-completed" =>
          Working(e) /\ \E k \in DOMAIN plan : plan[k] = ev.step /\ DoneTo(e, k)
    /\ ev.type = "step-failed" => Working(e)

TurnFits(e) ==
    /\ status[e] = "absent" => Idle(e) /\ rows[e] = <<>>
    /\ e \in unpublished => Fresh(e)
    /\ \A i \in Due(e) : DueFits(e, History(e)[i])
    /\ \A s \in Waiting(e) : Working(e) /\ \E k \in DOMAIN plan : plan[k] = s /\ DoneTo(e, k - 1)
    /\ \A w \in Running(e) : Working(e) /\ \E k \in DOMAIN plan : WorkerFits(w, k)

Prefix(e) ==
    /\ Len(rows[e]) <= Len(plan)
    /\ \A i \in DOMAIN rows[e] :
          /\ rows[e][i].step = plan[i]
          /\ i < Len(rows[e]) => rows[e][i].status = "completed"

Orderly(e) == OneTurn(e) /\ TurnFits(e) /\ Prefix(e)

(* What is left of a handler, for the event ev in hand. *)
Opening(k) == IF k = 1 THEN "plan-started" ELSE "plan-progressed"

Starts(e) ==
    /\ status[e] = "pending" /\ rows[e] = <<>>
    /\ IF plan = <<>>
       THEN Idle(e) /\ todo = <<SetStatus(e, "running")>> \o Complete(e, 0)
       ELSE todo = <<SetStatus(e, "running")>> \o Release("plan-started", e, 1)

ReleasesStep(e) ==
    \E k \in DOMAIN plan :
        /\ status[e] = "running" /\ DoneTo(e, k - 1)
        /\ todo = Release(Opening(k), e, k) \/ todo = <<Enqueue(e, plan[k])>>

Completes(e) ==
    /\ Idle(e)
    /\ \/ status[e] = "running" /\ todo = Complete(e, Len(plan))
       \/ todo = <<Publishing(Notice("plan-completed", e, NoStep, Len(plan)))>>

FailsPlan(e, s) ==
    /\ Idle(e)
    /\ \/ todo = StepFailedEffects(e, s)
       \/ todo = <<Publishing(Notice("plan-failed", e, s, 0))>>

Stops(e) ==
    /\ status[e] = "cancelled"
    /\ \/ todo = <<[op |-> "revoke", exec |-> e], Publishing(Notice("plan-stopped", e, NoStep, 0))>>
       \/ todo = <<Publishing(Notice("plan-stopped", e, NoStep, 0))>>

Restarts ==
    \/ todo = <<[op |-> "restart"]>>
    \/ \E f \in Executions : Fresh(f) /\ todo = <<Publishing(Requested(f))>>

Script(ev) ==
    \/ todo = <<>>
    \/ Starts(ev.exec) \/ ReleasesStep(ev.exec) \/ Completes(ev.exec)
    \/ FailsPlan(ev.exec, ev.step)
    \/ todo = StopEffects(ev.exec) \/ Stops(ev.exec)
    \/ Restarts

StopInHand(ev) ==
    ev.type = "stop-requested" =>
        status[ev.exec] \in {"cancelled", "failed"} \/ todo = StopEffects(ev.exec)

HandlerFits ==
    /\ mode \in {"polling", "handling"}
    /\ mode = "handling" => Script(NextEvent(current)) /\ StopInHand(NextEvent(current))

TurnInv ==
    /\ HandlerFits
    /\ \A e \in Executions : Orderly(e)
    /\ StopsAreKept

Base == TypeOK /\ Earned /\ RunInv

-----------------------------------------------------------------------------
(* Everything a step leaves of a turn is where it was. *)
Undisturbed(e) ==
    /\ rows'[e] = rows[e]
    /\ e \in unpublished' => e \in unpublished
    /\ Carries(e)' => Carries(e)
    /\ Due(e)' \subseteq Due(e)
    /\ \A s \in Steps : queued'[<<e, s>>] <= queued[<<e, s>>]
    /\ \A w \in Running(e)' : w \in Running(e) /\ pc'[w] = pc[w] /\ task'[w] = task[w]

Untouched(e) == Undisturbed(e) /\ status'[e] = status[e]

LEMMA Quantities ==
    ASSUME TypeOK, NEW e \in Executions
    PROVE  /\ PartitionOf[e] \in Partitions
           /\ History(e) = log[PartitionOf[e]] /\ History(e) \in Seq(Event)
           /\ rows[e] \in Seq(Row) /\ Len(rows[e]) \in Nat
           /\ \A s \in Steps : <<e, s>> \in Tasks /\ queued[<<e, s>>] \in Nat
           /\ \A p \in Partitions : offset[p] \in Nat /\ Taken(p) \in Nat
BY PartitionOfAssumption DEF TypeOK, History, Tasks, Taken

(* A turn that is not touched stays as it was, or ends; a stop does not     *)
(* touch it.                                                                *)
LEMMA TurnKept ==
    ASSUME TypeOK, TypeOK', Grows, plan' = plan,
           NEW e \in Executions, Orderly(e), Undisturbed(e),
           status'[e] = status[e] \/ (status[e] # "absent" /\ status'[e] = "cancelled")
    PROVE  Orderly(e)' /\ (Idle(e) => Idle(e)')
<1> USE Quantities DEF Undisturbed
<1>1. Waiting(e)' \subseteq Waiting(e)
  <2>1. ASSUME NEW s \in Steps, queued'[<<e, s>>] > 0
        PROVE  queued[<<e, s>>] > 0
    BY <2>1 DEF TypeOK, Tasks
  <2> QED
    BY <2>1 DEF Waiting
<1>2. Running(e)' \subseteq Running(e)
  OBVIOUS
<1>3. OneTurn(e)'
  <2>1. \A s \in Steps : queued'[<<e, s>>] <= 1
    BY DEF Orderly, OneTurn, TypeOK, Tasks
  <2> QED
    BY <1>1, <1>2, <2>1 DEF Orderly, OneTurn
<1>4. Idle(e) => Idle(e)'
  BY <1>1, <1>2 DEF Idle
<1>5. Prefix(e)'
  BY DEF Orderly, Prefix
<1>6. /\ Fresh(e) => Fresh(e)'
      /\ Working(e) => Working(e)'
      /\ \A k : DoneTo(e, k)' <=> DoneTo(e, k)
  BY DEF Fresh, Working, DoneTo
<1>7. ASSUME NEW i \in Due(e)'
      PROVE  DueFits(e, History(e)[i])'
  <2>1. i \in Due(e) /\ History(e)'[i] = History(e)[i]
    BY <1>7 DEF Due, Grows, History
  <2>2. DueFits(e, History(e)[i])
    BY <2>1 DEF Orderly, TurnFits
  <2> QED
    BY <1>6, <2>1, <2>2 DEF DueFits
<1>8. ASSUME NEW s \in Waiting(e)'
      PROVE  Working(e)' /\ \E k \in DOMAIN plan' : plan'[k] = s /\ DoneTo(e, k - 1)'
  BY <1>1, <1>6, <1>8 DEF Orderly, TurnFits
<1>9. ASSUME NEW w \in Running(e)'
      PROVE  Working(e)' /\ \E k \in DOMAIN plan' : WorkerFits(w, k)'
  <2>1. /\ w \in Running(e) /\ pc'[w] = pc[w] /\ task'[w] = task[w]
        /\ Exec(w) = e /\ Exec(w)' = e /\ Step(w)' = Step(w)
    BY <1>9 DEF Running, Exec, Step
  <2>2. Working(e) /\ \E k \in DOMAIN plan : WorkerFits(w, k)
    BY <2>1 DEF Orderly, TurnFits
  <2>3. PICK k \in DOMAIN plan : WorkerFits(w, k)
    BY <2>2
  <2>4. WorkerFits(w, k)'
    BY <1>6, <2>1, <2>3 DEF WorkerFits
  <2> QED
    BY <1>6, <2>2, <2>4
<1>10. TurnFits(e)'
  <2>1. status'[e] = "absent" => Idle(e)' /\ rows'[e] = <<>>
    BY <1>4 DEF Orderly, TurnFits
  <2>2. e \in unpublished' => Fresh(e)'
    BY <1>6 DEF Orderly, TurnFits
  <2> QED
    BY <1>7, <1>8, <1>9, <2>1, <2>2 DEF TurnFits
<1> QED
  BY <1>3, <1>4, <1>5, <1>10 DEF Orderly

(* The event in hand stays the same until it is committed, and is known. *)
LEMMA InHandStays ==
    ASSUME Base, Grows, mode = "handling",
           UNCHANGED <<mode, current, offset>>
    PROVE  /\ current \in Partitions /\ offset[current] < Len(log[current])
           /\ NextEvent(current) \in Event /\ NextEvent(current).exec \in Executions
           /\ status[NextEvent(current).exec] # "absent"
           /\ NextEvent(current)' = NextEvent(current)
<1>1. current \in Partitions /\ offset[current] \in Nat /\ log[current] \in Seq(Event)
  BY DEF Base, TypeOK
<1>2. offset[current] < Len(log[current])
  BY DEF Base, RunInv, RequestInHand
<1>3. offset[current] + 1 \in DOMAIN log[current]
  BY <1>1, <1>2
<1>4. NextEvent(current) \in Event
  BY <1>1, <1>3 DEF NextEvent
<1>5. EventIsKnown(NextEvent(current))
  BY <1>1, <1>3 DEF Base, RunInv, Known, NextEvent
<1>6. NextEvent(current)' = NextEvent(current)
  BY <1>1, <1>3 DEF Grows, NextEvent
<1> QED
  BY <1>1, <1>2, <1>4, <1>5, <1>6 DEF EventIsKnown, Event

(* What the others do leaves the handler's script as it is: of the execution *)
(* it is about, they touch nothing while the handler has the turn.           *)
LEMMA ScriptKept ==
    ASSUME Base, Grows, plan' = plan, HandlerFits,
           UNCHANGED <<mode, current, todo, offset>>,
           \A e \in Executions :
               \/ status[e] = "absent"
               \/ /\ status'[e] = status[e]
                  /\ Carries(e) \/ Idle(e) => rows'[e] = rows[e]
                  /\ Idle(e) => Idle(e)'
    PROVE  HandlerFits'
<1> SUFFICES ASSUME mode = "handling"
             PROVE  Script(NextEvent(current))' /\ StopInHand(NextEvent(current))'
  BY DEF HandlerFits
<1> DEFINE ev == NextEvent(current)
           e == ev.exec
<1>1. /\ e \in Executions /\ status[e] # "absent" /\ ev' = ev
      /\ Script(ev) /\ StopInHand(ev)
  BY InHandStays DEF HandlerFits
<1>2. PICK x : x = ev
  OBVIOUS
<1>3. PICK f : f = x.exec
  OBVIOUS
<1>4. /\ f \in Executions /\ status'[f] = status[f]
      /\ Carries(f) \/ Idle(f) => rows'[f] = rows[f]
      /\ Idle(f) => Idle(f)'
  BY <1>1, <1>2, <1>3
<1>5. StopInHand(x)'
  BY <1>1, <1>2, <1>3, <1>4 DEF StopInHand, StopEffects
<1>6. ASSUME Starts(f)
      PROVE  Starts(f)'
  <2>1. CASE plan = <<>>
    BY <1>4, <1>6, <2>1 DEF Starts
  <2>2. CASE plan # <<>>
    <3>1. todo[3] = Enqueue(f, plan[1]) /\ 3 \in DOMAIN todo /\ plan[1] \in Steps
      BY <1>6, <2>2 DEF Starts, Release, Base, TypeOK
    <3>2. Carries(f)
      BY <3>1 DEF Carries
    <3>3. status'[f] = "pending" /\ rows'[f] = <<>>
      BY <1>4, <1>6, <3>2 DEF Starts
    <3> QED
      BY <1>6, <2>2, <3>3 DEF Starts, SetStatus, Release, Publishing, Notice, Enqueue
  <2> QED
    BY <2>1, <2>2
<1>7. ASSUME ReleasesStep(f)
      PROVE  ReleasesStep(f)'
  <2>1. PICK k \in DOMAIN plan :
            /\ status[f] = "running" /\ DoneTo(f, k - 1)
            /\ todo = Release(Opening(k), f, k) \/ todo = <<Enqueue(f, plan[k])>>
    BY <1>7 DEF ReleasesStep
  <2>2. plan[k] \in Steps
    BY DEF Base, TypeOK
  <2>3. \E i \in DOMAIN todo : todo[i] = Enqueue(f, plan[k])
    <3>1. CASE todo = Release(Opening(k), f, k)
      <4>1. todo[2] = Enqueue(f, plan[k]) /\ 2 \in DOMAIN todo
        BY <3>1 DEF Release
      <4> QED
        BY <4>1
    <3>2. CASE todo = <<Enqueue(f, plan[k])>>
      BY <3>2
    <3> QED
      BY <2>1, <3>1, <3>2
  <2>4. Carries(f)
    BY <2>2, <2>3 DEF Carries
  <2>5. DoneTo(f, k - 1)'
    BY <1>4, <2>1, <2>4 DEF DoneTo
  <2> QED
    BY <1>4, <2>1, <2>5 DEF ReleasesStep, Release, Opening, Publishing, Notice, Enqueue
<1>8. /\ Completes(f) => Completes(f)'
      /\ FailsPlan(f, x.step) => FailsPlan(f, x.step)'
      /\ Stops(f) => Stops(f)'
  BY <1>4 DEF StepFailedEffects, Completes, Complete, FailsPlan, Stops
<1>9. ASSUME Restarts
      PROVE  Restarts'
  <2>1. CASE todo = <<[op |-> "restart"]>>
    BY <2>1 DEF Restarts
  <2>2. ASSUME NEW g \in Executions, Fresh(g), todo = <<Publishing(Requested(g))>>
        PROVE  Restarts'
    <3>1. Carries(g)
      BY <2>2 DEF Carries
    <3>2. Fresh(g)'
      BY <2>2, <3>1 DEF Fresh
    <3> QED
      BY <2>2, <3>2 DEF Restarts
  <2> QED
    BY <1>9, <2>1, <2>2 DEF Restarts
<1>10. Script(x)'
  BY <1>1, <1>2, <1>3, <1>6, <1>7, <1>8, <1>9 DEF Script, StopEffects
<1> QED
  BY <1>1, <1>2, <1>5, <1>10

(* A handled stop is undone by nothing but a status set to something else. *)
LEMMA StopsKept ==
    ASSUME Base, Grows, StopsAreKept, UNCHANGED offset,
           \A e \in Executions :
               \/ status'[e] = status[e] \/ status'[e] \in {"cancelled", "failed"}
               \/ status[e] \notin {"cancelled", "failed"}
    PROVE  StopsAreKept'
<1> SUFFICES ASSUME NEW p \in Partitions, NEW i \in 1..offset[p],
                    log'[p][i].type = "stop-requested"
             PROVE  status'[log'[p][i].exec] \in {"cancelled", "failed"}
  BY DEF StopsAreKept
<1>1. offset[p] <= Len(log[p]) /\ offset[p] \in Nat /\ log[p] \in Seq(Event)
  BY DEF Base, RunInv, CommittedIsBegun, TypeOK
<1>2. i \in DOMAIN log[p] /\ log'[p][i] = log[p][i]
  BY <1>1 DEF Grows
<1>3. log[p][i].exec \in Executions
  BY <1>2, EventType DEF Base
<1>4. status[log[p][i].exec] \in {"cancelled", "failed"}
  BY <1>2 DEF StopsAreKept
<1> QED
  BY <1>2, <1>3, <1>4

(* A step of the API, of a worker or of the environment. *)
LEMMA OutsideStep ==
    ASSUME Base, Base', Grows, plan' = plan, TurnInv,
           UNCHANGED <<mode, current, todo, offset>>,
           \A e \in Executions :
               \/ Untouched(e)
               \/ status[e] = "absent" /\ Orderly(e)'
               \/ status'[e] = status[e] /\ ~Carries(e) /\ ~Idle(e) /\ Orderly(e)'
               \/ status'[e] = status[e] /\ rows'[e] = rows[e] /\ ~Idle(e) /\ Orderly(e)'
    PROVE  TurnInv'
<1>1. \A e \in Executions : Orderly(e) /\ Untouched(e) => Orderly(e)' /\ (Idle(e) => Idle(e)')
  BY TurnKept DEF Base, Untouched
<1>2. \A e \in Executions : Orderly(e)'
  BY <1>1 DEF TurnInv
<1>3. \A e \in Executions : Untouched(e) => status'[e] = status[e] /\ rows'[e] = rows[e]
  BY DEF Untouched, Undisturbed
<1>4. HandlerFits'
  BY <1>1, <1>3, ScriptKept DEF TurnInv
<1>5. StopsAreKept'
  BY <1>3, StopsKept DEF TurnInv
<1> QED
  BY <1>2, <1>4, <1>5 DEF TurnInv

-----------------------------------------------------------------------------
(* What an event that is published does to the turns: one of another kind   *)
(* nothing, and a request or a report takes the turn of its execution.      *)
LEMMA SameTopic ==
    ASSUME UNCHANGED <<log, mode, current, offset>>, NEW e \in Executions
    PROVE  Due(e)' = Due(e)
BY DEF Due, Taken, History

(* What the dispatcher takes up is due no more. *)
(* An offset is a number, and so is one that counts the event in hand. *)
LEMMA TakenType ==
    ASSUME TypeOK, NEW p \in Partitions
    PROVE  offset[p] \in Nat /\ Taken(p) \in Nat
<1>1. offset[p] \in Nat
  BY DEF TypeOK
<1>2. offset[p] + 1 \in Nat
  BY <1>1
<1> QED
  BY <1>1, <1>2 DEF Taken

LEMMA TakenUp ==
    ASSUME TypeOK, TypeOK', UNCHANGED log, \A q \in Partitions : Taken(q) <= Taken(q)',
           NEW e \in Executions
    PROVE  Due(e)' \subseteq Due(e)
<1>1. PICK q \in Partitions : q = PartitionOf[e]
  BY PartitionOfAssumption
<1>2. Taken(q) \in Nat /\ Taken(q)' \in Nat
  <2>1. offset[q] \in Nat /\ offset'[q] \in Nat
    BY <1>1 DEF TypeOK
  <2> QED
    BY <2>1 DEF Taken
<1>3. log[q] \in Seq(Event)
  BY DEF TypeOK
<1>4. DOMAIN log[q] \subseteq Nat
  BY <1>3
<1>5. \A i \in DOMAIN log[q] : i > Taken(q)' => i > Taken(q)
  BY <1>2, <1>4
<1> QED
  BY <1>1, <1>5 DEF Due, History

LEMMA LessDue ==
    ASSUME Base, Base', UNCHANGED log, \A q \in Partitions : Taken(q) <= Taken(q)',
           NEW e \in Executions
    PROVE  Due(e)' \subseteq Due(e)
BY TakenUp DEF Base

LEMMA PublishedMoves ==
    ASSUME TypeOK, NoRedelivery, UNCHANGED <<mode, current, offset>>,
           NEW ev \in Event, NEW n \in 0..2, Publish(ev, n), NEW e \in Executions
    PROVE  /\ e # ev.exec \/ ev.type \notin Moves => Due(e)' = Due(e)
           /\ Due(e) = {} => \A i \in Due(e)' :
                  /\ e = ev.exec /\ ev.type \in Moves
                  /\ i = Len(History(e)) + 1 /\ History(e)'[i] = ev
<1> DEFINE q == PartitionOf[ev.exec]
           p == PartitionOf[e]
           copies == [i \in 1..n |-> ev]
<1>1. n \in {0, 1}
  BY DEF Publish, Copies, NoRedelivery
<1>2. p \in Partitions /\ q \in Partitions /\ log[p] \in Seq(Event) /\ log[q] \in Seq(Event)
  BY PartitionOfAssumption DEF TypeOK, Event
<1>3. log'[p] = IF p = q THEN log[q] \o copies ELSE log[p]
  BY <1>2 DEF Publish, TypeOK
<1>4. Taken(p)' = Taken(p) /\ Taken(p) \in Nat
  BY <1>2, TakenType DEF Taken
<1>a. copies \in Seq(Event) /\ DOMAIN copies = 1..n /\ \A j \in DOMAIN copies : copies[j] = ev
  OBVIOUS
<1> HIDE DEF copies
<1>b. PICK old, more, new : old = log[p] /\ more = copies /\ new = log'[p]
  OBVIOUS
<1>t. old \in Seq(Event) /\ more \in Seq(Event)
  BY <1>2, <1>a, <1>b
<1>c. new = old \/ new = old \o more
  <2>1. CASE p = q
    BY <1>3, <1>b, <2>1
  <2>2. CASE p # q
    BY <1>3, <1>b, <2>2
  <2> QED
    BY <2>1, <2>2
<1>d. /\ DOMAIN more = 1..n /\ \A j \in DOMAIN more : more[j] = ev
  BY <1>a, <1>b
<1>e. /\ \A i \in DOMAIN old : i \in DOMAIN new /\ new[i] = old[i]
      /\ \A i \in DOMAIN new :
            \/ i \in DOMAIN old
            \/ i - Len(old) \in DOMAIN more /\ new[i] = more[i - Len(old)]
  <2>1. CASE new = old
    BY <2>1
  <2>2. CASE new = old \o more
    BY <1>t, <2>2, Concatenated
  <2> QED
    BY <1>c, <2>1, <2>2
<1>f. Len(old) \in Nat /\ Len(new) \in Nat /\ DOMAIN new = 1..Len(new)
  <2>1. new \in Seq(Event)
    BY <1>c, <1>t, ConcatProperties
  <2> QED
    BY <1>t, <2>1, LenProperties
<1>5. \A i \in DOMAIN log[p] : i \in DOMAIN log'[p] /\ log'[p][i] = log[p][i]
  BY <1>b, <1>e
<1>6. \A i \in DOMAIN log'[p] : i \notin DOMAIN log[p] => i = Len(log[p]) + 1 /\ log'[p][i] = ev
  <2>1. ASSUME NEW i \in DOMAIN new, i \notin DOMAIN old
        PROVE  i = Len(old) + 1 /\ new[i] = ev
    <3>1. i - Len(old) \in 1..n /\ new[i] = ev
      BY <1>d, <1>e, <2>1
    <3>2. i \in Nat
      BY <1>f
    <3> QED
      BY <1>1, <1>f, <3>1, <3>2
  <2> QED
    BY <1>b, <2>1
<1> QED
  BY <1>2, <1>4, <1>5, <1>6 DEF Due, History

LEMMA PublishedDue ==
    ASSUME Base, NoRedelivery, UNCHANGED <<mode, current, offset>>,
           NEW ev \in Event, NEW n \in 0..2, Publish(ev, n), NEW e \in Executions
    PROVE  /\ e # ev.exec \/ ev.type \notin Moves => Due(e)' = Due(e)
           /\ Due(e) = {} => \A i \in Due(e)' :
                  /\ e = ev.exec /\ ev.type \in Moves
                  /\ i = Len(History(e)) + 1 /\ History(e)'[i] = ev
BY PublishedMoves DEF Base

(* The turn of an execution whose task a worker runs is with that worker.    *)
LEMMA WorkerTurn ==
    ASSUME Base, TurnInv, NEW w \in Workers, pc[w] \notin {"idle", "ack"}
    PROVE  LET e == Exec(w) IN
           /\ e \in Executions /\ Step(w) \in Steps /\ task[w] = <<e, Step(w)>>
           /\ Running(e) = {w} /\ Waiting(e) = {} /\ Due(e) = {} /\ ~Carries(e)
           /\ \A s \in Steps : queued[<<e, s>>] = 0
           /\ e \notin unpublished /\ ~Idle(e) /\ Orderly(e)
           /\ Working(e) /\ \E k \in DOMAIN plan : WorkerFits(w, k)
<1> DEFINE e == Exec(w)
<1>1. e \in Executions /\ Step(w) \in Steps /\ task[w] = <<e, Step(w)>>
  BY BusyWorker DEF Base
<1>2. w \in Running(e)
  BY DEF Running
<1>3. Orderly(e)
  BY <1>1 DEF TurnInv
<1>4. /\ Running(e) = {w} /\ Waiting(e) = {} /\ Due(e) = {} /\ ~Carries(e)
      /\ e \notin unpublished /\ ~Idle(e)
  BY <1>2, <1>3 DEF Orderly, OneTurn, Idle
<1>5. \A s \in Steps : queued[<<e, s>>] = 0
  BY <1>1, <1>4 DEF Waiting, Base, TypeOK, Tasks
<1>6. Working(e) /\ \E k \in DOMAIN plan : WorkerFits(w, k)
  BY <1>2, <1>3 DEF Orderly, TurnFits
<1> QED
  BY <1>1, <1>3, <1>4, <1>5, <1>6

(* The others' turns while worker w goes on, keeping its task or not.        *)
LEMMA OtherTurns ==
    ASSUME Base, NEW w \in Workers,
           UNCHANGED <<mode, current, todo, offset, status, unpublished, queued>>,
           \A v \in Workers : v # w => pc'[v] = pc[v] /\ task'[v] = task[v],
           task'[w] = task[w] \/ pc'[w] = "idle",
           NEW e \in Executions, rows'[e] = rows[e], Due(e)' \subseteq Due(e),
           e # Exec(w) \/ pc'[w] \in {"idle", "ack"}
    PROVE  Untouched(e)
<1>1. \A v \in Running(e)' : v \in Running(e) /\ pc'[v] = pc[v] /\ task'[v] = task[v]
  BY DEF Running, Exec
<1>2. Carries(e)' => Carries(e)
  BY DEF Carries
<1>3. \A s \in Steps : queued'[<<e, s>>] <= queued[<<e, s>>]
  BY DEF Base, TypeOK, Tasks
<1> QED
  BY <1>1, <1>2, <1>3 DEF Untouched, Undisturbed

(* Worker w goes on to `next': the turn stays with it. *)
LEMMA WorkerGoesOn ==
    ASSUME Base, Base', Grows, plan' = plan, TurnInv,
           NEW w \in Workers, NEW k \in DOMAIN plan, NEW next \in PCs \ {"idle", "ack"},
           pc[w] \notin {"idle", "ack"}, Goto(w, next),
           UNCHANGED <<mode, current, todo, offset, status, unpublished, queued, task>>,
           \A e \in Executions : Due(e)' = Due(e),
           \A e \in Executions : e # Exec(w) => rows'[e] = rows[e],
           Prefix(Exec(w))', WorkerFits(w, k)'
    PROVE  TurnInv'
<1>1. PICK e : e = Exec(w)
  OBVIOUS
<1>2. /\ e \in Executions /\ task[w] = <<e, Step(w)>>
      /\ Running(e) = {w} /\ Waiting(e) = {} /\ Due(e) = {} /\ ~Carries(e)
      /\ \A s \in Steps : queued[<<e, s>>] = 0
      /\ e \notin unpublished /\ ~Idle(e) /\ Working(e)
  BY <1>1, WorkerTurn
<1>3. pc'[w] = next /\ \A v \in Workers : v # w => pc'[v] = pc[v]
  BY DEF Goto, Base, TypeOK
<1>4. \A f \in Executions : f # e => Untouched(f)
  BY <1>1, <1>3, OtherTurns
<1>5. Running(e)' = {w}
  BY <1>1, <1>2, <1>3 DEF Running, Exec
<1>6. Waiting(e)' = {} /\ ~Carries(e)' /\ Due(e)' = {}
  BY <1>2 DEF Waiting, Carries
<1>7. OneTurn(e)'
  BY <1>2, <1>5, <1>6 DEF OneTurn
<1>8. Working(e)' /\ status'[e] # "absent"
  BY <1>2 DEF Working
<1>9. TurnFits(e)'
  BY <1>2, <1>5, <1>6, <1>8 DEF TurnFits
<1>10. Orderly(e)'
  BY <1>1, <1>7, <1>9 DEF Orderly, Prefix, Exec
<1> QED
  BY <1>2, <1>4, <1>10, OutsideStep

(* Worker w reports how the step ended: its report has the turn, unless it   *)
(* is lost.                                                                  *)
LEMMA WorkerReports ==
    ASSUME Base, Base', Grows, plan' = plan, TurnInv, NoRedelivery,
           NEW w \in Workers, NEW n \in 0..2, NEW type \in {"step-completed", "step-failed"},
           pc[w] \notin {"idle", "ack"}, Goto(w, "ack"),
           UNCHANGED <<mode, current, todo, offset, status, rows, unpublished, queued, task>>,
           Publish(Notice(type, Exec(w), Step(w), 0), n),
           DueFits(Exec(w), Notice(type, Exec(w), Step(w), 0))
    PROVE  TurnInv'
<1>1. PICK e : e = Exec(w)
  OBVIOUS
<1>2. /\ e \in Executions /\ Step(w) \in Steps /\ task[w] = <<e, Step(w)>>
      /\ Running(e) = {w} /\ Waiting(e) = {} /\ Due(e) = {} /\ ~Carries(e)
      /\ \A s \in Steps : queued[<<e, s>>] = 0
      /\ e \notin unpublished /\ ~Idle(e) /\ Working(e) /\ Orderly(e)
  BY <1>1, WorkerTurn
<1>3. PICK ev : ev = Notice(type, e, Step(w), 0)
  OBVIOUS
<1>4. ev \in Event /\ ev.exec = e /\ ev.type = type
  BY <1>2, <1>3, NoticeType DEF Notice, EventTypes
<1>5. Publish(ev, n) /\ DueFits(e, ev)
  BY <1>1, <1>3
<1>6. /\ \A f \in Executions : f # e => Due(f)' = Due(f)
      /\ \A i \in Due(e)' : i = Len(History(e)) + 1 /\ History(e)'[i] = ev
  BY <1>2, <1>4, <1>5, PublishedDue
<1>7. pc'[w] = "ack" /\ \A v \in Workers : v # w => pc'[v] = pc[v]
  BY DEF Goto, Base, TypeOK
<1>8. \A f \in Executions : f # e => Untouched(f)
  BY <1>1, <1>6, <1>7, OtherTurns
<1>9. Running(e)' = {} /\ Waiting(e)' = {} /\ ~Carries(e)'
  BY <1>2, <1>7 DEF Running, Exec, Waiting, Carries
<1>10. OneTurn(e)'
  BY <1>2, <1>6, <1>9 DEF OneTurn
<1>11. DueFits(e, ev)'
  BY <1>5 DEF DueFits, Fresh, Working, DoneTo
<1>12. TurnFits(e)'
  <2>1. status'[e] # "absent" /\ e \notin unpublished'
    BY <1>2 DEF Working
  <2>2. ASSUME NEW i \in Due(e)'
        PROVE  DueFits(e, History(e)[i])'
    BY <1>6, <1>11, <2>2
  <2> QED
    BY <1>9, <2>1, <2>2 DEF TurnFits
<1>13. Orderly(e)'
  BY <1>2, <1>10, <1>12 DEF Orderly, Prefix
<1> QED
  BY <1>2, <1>8, <1>13, OutsideStep

(* finish_step reaches the row of the step it is asked for and no other.     *)
LEMMA FinishedRows ==
    ASSUME Base, NEW e \in Executions, NEW k \in DOMAIN plan, NEW result \in RowStatuses,
           plan' = plan, Prefix(e), Len(rows[e]) \in {k - 1, k}, FinishStep(e, plan[k], result)
    PROVE  /\ \A f \in Executions : f # e => rows'[f] = rows[f]
           /\ Len(rows'[e]) = Len(rows[e]) /\ rows'[e] \in Seq(Row)
           /\ \A i \in DOMAIN rows[e] :
                  rows'[e][i] = IF i = k THEN [step |-> plan[k], status |-> result] ELSE rows[e][i]
           /\ Prefix(e)'
<1>1. plan \in Seq(Steps) /\ rows[e] \in Seq(Row) /\ PlanIsInjective /\ k \in Nat
  BY DEF Base, TypeOK, Earned
<1>2. \A i \in DOMAIN rows[e] : i \in DOMAIN plan /\ rows[e][i].step = plan[i]
  BY <1>1 DEF Prefix
<1>3. \A i \in DOMAIN rows[e] : IsNewest(e, plan[k], i) <=> i = k
  BY <1>1, <1>2 DEF IsNewest, PlanIsInjective
<1>4. rows'[e] = [i \in DOMAIN rows[e] |-> IF IsNewest(e, plan[k], i)
                                           THEN [step |-> plan[k], status |-> result]
                                           ELSE rows[e][i]]
  BY DEF FinishStep, Base, TypeOK
<1>5. \A f \in Executions : f # e => rows'[f] = rows[f]
  BY DEF FinishStep, Base, TypeOK
<1>6. [step |-> plan[k], status |-> result] \in Row
  BY <1>1 DEF Row
<1>7. Len(rows'[e]) = Len(rows[e]) /\ rows'[e] \in Seq(Row) /\ DOMAIN rows'[e] = DOMAIN rows[e]
  <2>1. PICK len \in Nat : len = Len(rows[e]) /\ DOMAIN rows[e] = 1..len
    BY <1>1, LenProperties
  <2>2. \A i \in 1..len : rows[e][i] \in Row
    BY <1>1, <2>1, ElementOfSeq
  <2>3. rows'[e] \in [1..len -> Row]
    BY <1>4, <1>6, <2>1, <2>2
  <2> QED
    BY <2>1, <2>3
<1>8. \A i \in DOMAIN rows[e] :
          rows'[e][i] = IF i = k THEN [step |-> plan[k], status |-> result] ELSE rows[e][i]
  BY <1>3, <1>4
<1>9. \A i \in DOMAIN rows'[e] : rows'[e][i].step = plan[i]
  BY <1>2, <1>7, <1>8
<1>10. \A i \in DOMAIN rows'[e] : i < Len(rows'[e]) => i # k
  BY <1>1, <1>7
<1>11. \A i \in DOMAIN rows'[e] : i < Len(rows'[e]) => rows'[e][i].status = "completed"
  BY <1>7, <1>8, <1>10 DEF Prefix
<1>12. Prefix(e)'
  BY <1>7, <1>9, <1>11 DEF Prefix
<1> QED
  BY <1>5, <1>7, <1>8, <1>12

LEMMA TurnStepsRun ==
    ASSUME Base, Base', Grows, plan' = plan, TurnInv, NoRedelivery,
           NEW w \in Workers, NEW n \in 0..2,
           \/ NotifyStarted(w, n) \/ StartStep(w) \/ Passes(w) \/ Fails(w) \/ RunRaises(w)
           \/ Recover(w) \/ (CallRaises(w) /\ pc[w] \notin {"recover", "notify_error"})
    PROVE  TurnInv'
<1> USE DEF kafkaVars, dispatcherVars, dbVars, outsideVars, catalogVars, apiVars,
            nodeVars, workerVars, controlVars, boundVars
<1>1. PICK next \in {"start_step", "run", "notify_completed", "notify_failed", "recover",
                     "notify_error"} : Goto(w, next)
  BY DEF NotifyStarted, StartStep, Passes, Fails, RunRaises, Recover, CallRaises
<1>2. /\ pc[w] \notin {"idle", "ack"} /\ next \in PCs \ {"idle", "ack"}
      /\ UNCHANGED <<mode, current, todo, offset, status, unpublished, queued, task>>
  BY DEF NotifyStarted, StartStep, Passes, Fails, RunRaises, Recover, CallRaises, PCs
<1>3. PICK e, s : e = Exec(w) /\ s = Step(w)
  OBVIOUS
<1>4. e \in Executions /\ s \in Steps /\ task[w] = <<e, s>> /\ Orderly(e) /\ Due(e) = {}
  BY <1>2, <1>3, WorkerTurn
<1>5. PICK k \in DOMAIN plan : WorkerFits(w, k)
  BY <1>2, WorkerTurn
<1>6. /\ plan[k] = s /\ Exec(w)' = e /\ Step(w)' = s /\ pc'[w] = next
      /\ Prefix(e) /\ rows[e] \in Seq(Row) /\ k \in Nat
  <2>1. plan[k] = s /\ k \in Nat
    <3>1. plan \in Seq(Steps)
      BY DEF Base, TypeOK
    <3>2. k \in Nat
      BY <3>1
    <3> QED
      BY <1>3, <1>5, <3>2 DEF WorkerFits
  <2>2. Exec(w)' = e /\ Step(w)' = s
    BY <1>2, <1>3 DEF Exec, Step
  <2>3. pc'[w] = next
    BY <1>1 DEF Goto, Base, TypeOK
  <2> QED
    BY <1>4, <2>1, <2>2, <2>3 DEF Orderly, Base, TypeOK
<1>7. \A f \in Executions : Due(f)' = Due(f)
  <2>1. CASE NotifyStarted(w, n)
    <3>1. Notice("step-started", e, s, 0) \in Event
      BY <1>4, NoticeType DEF EventTypes
    <3>2. Publish(Notice("step-started", e, s, 0), n)
      BY <1>3, <2>1 DEF NotifyStarted, Notify
    <3>3. Notice("step-started", e, s, 0).type \notin Moves
      BY DEF Notice, Moves
    <3> QED
      BY <1>2, <3>1, <3>2, <3>3, PublishedDue
  <2>2. CASE ~NotifyStarted(w, n)
    <3>1. UNCHANGED log
      BY <2>2 DEF StartStep, Passes, Fails, RunRaises, Recover, CallRaises
    <3> QED
      BY <1>2, <3>1, SameTopic
  <2> QED
    BY <2>1, <2>2
<1>8. ASSUME \A f \in Executions : f # e => rows'[f] = rows[f], Prefix(e)',
             next = "start_step" => DoneTo(e, k - 1)',
             next \in {"run", "notify_failed"} => Len(rows'[e]) = k,
             next = "notify_completed" => DoneTo(e, k)',
             next \in {"recover", "notify_error"} => Len(rows'[e]) \in {k - 1, k}
      PROVE  TurnInv'
  <2>1. WorkerFits(w, k)'
    BY <1>6, <1>8 DEF WorkerFits
  <2>2. Prefix(Exec(w))'
    BY <1>6, <1>8 DEF Prefix
  <2> QED
    BY <1>1, <1>2, <1>3, <1>7, <1>8, <2>1, <2>2, WorkerGoesOn
<1>9. CASE NotifyStarted(w, n) \/ RunRaises(w)
             \/ (CallRaises(w) /\ pc[w] \notin {"recover", "notify_error"})
  <2>1. UNCHANGED rows
    BY <1>9 DEF NotifyStarted, RunRaises, CallRaises
  <2>2. Prefix(e)' /\ (DoneTo(e, k - 1) => DoneTo(e, k - 1)')
    BY <1>6, <2>1 DEF Prefix, DoneTo
  <2>3. \/ next = "start_step" /\ pc[w] = "notify_started"
        \/ next = "recover" /\ pc[w] \in {"notify_started", "start_step", "run",
                                           "notify_completed", "notify_failed"}
    BY <1>6, <1>9 DEF NotifyStarted, RunRaises, CallRaises, Goto, Base, TypeOK
  <2>4. pc[w] \in {"notify_started", "start_step"} => DoneTo(e, k - 1)
    BY <1>3, <1>5 DEF WorkerFits
  <2>5. next = "recover" => Len(rows[e]) \in {k - 1, k}
    BY <1>3, <1>5, <2>3 DEF WorkerFits, DoneTo
  <2> QED
    BY <1>8, <2>1, <2>2, <2>3, <2>4, <2>5
<1>10. CASE StartStep(w)
  <2>1. DoneTo(e, k - 1) /\ next = "run"
    BY <1>3, <1>5, <1>6, <1>10 DEF WorkerFits, StartStep, Goto, Base, TypeOK
  <2>2. rows' = [rows EXCEPT ![e] = Append(rows[e], [step |-> s, status |-> "running"])]
    BY <1>3, <1>10 DEF StartStep
  <2>3. /\ rows'[e] = Append(rows[e], [step |-> s, status |-> "running"])
        /\ \A f \in Executions : f # e => rows'[f] = rows[f]
    BY <1>4, <2>2 DEF Base, TypeOK
  <2>4. Len(rows[e]) = k - 1
    BY <2>1 DEF DoneTo
  <2>5. /\ Len(rows'[e]) = k /\ DOMAIN rows'[e] = 1..k
        /\ rows'[e][k] = [step |-> s, status |-> "running"]
        /\ \A i \in 1..(k - 1) : rows'[e][i] = rows[e][i] /\ i \in DOMAIN rows[e]
    BY <1>6, <2>3, <2>4
  <2>6. Prefix(e)'
    <3>1. \A i \in 1..k : rows'[e][i].step = plan[i]
      BY <1>6, <2>5 DEF Prefix
    <3>2. ASSUME NEW i \in 1..k, i < k
          PROVE  rows'[e][i].status = "completed"
      <4>1. i \in 1..(k - 1)
        BY <1>6, <3>2
      <4> QED
        BY <2>1, <2>5, <4>1 DEF DoneTo
    <3>3. k <= Len(plan)
      BY DEF Base, TypeOK
    <3> QED
      BY <2>5, <3>1, <3>2, <3>3 DEF Prefix
  <2> QED
    BY <1>8, <2>1, <2>3, <2>5, <2>6
<1>11. ASSUME NEW result \in RowStatuses, FinishStep(e, s, result),
              Len(rows[e]) \in {k - 1, k}
       PROVE  /\ \A f \in Executions : f # e => rows'[f] = rows[f]
              /\ Len(rows'[e]) = Len(rows[e]) /\ rows'[e] \in Seq(Row)
              /\ \A i \in DOMAIN rows[e] :
                     rows'[e][i] = IF i = k THEN [step |-> plan[k], status |-> result]
                                            ELSE rows[e][i]
              /\ Prefix(e)'
  BY <1>4, <1>6, <1>11, FinishedRows
<1>12. CASE Passes(w)
  <2>1. Len(rows[e]) = k /\ next = "notify_completed" /\ FinishStep(e, s, "completed")
    BY <1>3, <1>5, <1>6, <1>12 DEF WorkerFits, Passes, Goto, Base, TypeOK
  <2>2. \A i \in DOMAIN rows'[e] : rows'[e][i].status = "completed"
    <3>1. DOMAIN rows'[e] = 1..k
      BY <1>11, <2>1 DEF RowStatuses
    <3>2. \A i \in 1..k : i < k => rows[e][i].status = "completed" /\ i \in DOMAIN rows[e]
      BY <1>6, <2>1 DEF Prefix
    <3> QED
      BY <1>6, <1>11, <2>1, <3>1, <3>2 DEF RowStatuses
  <2> QED
    BY <1>8, <1>11, <2>1, <2>2 DEF DoneTo, RowStatuses
<1>13. CASE Fails(w)
  <2>1. Len(rows[e]) = k /\ next = "notify_failed" /\ FinishStep(e, s, "failed")
    BY <1>3, <1>5, <1>6, <1>13 DEF WorkerFits, Fails, Goto, Base, TypeOK
  <2> QED
    BY <1>8, <1>11, <2>1 DEF RowStatuses
<1>14. CASE Recover(w)
  <2>1. Len(rows[e]) \in {k - 1, k} /\ next = "notify_error" /\ FinishStep(e, s, "failed")
    BY <1>3, <1>5, <1>6, <1>14 DEF WorkerFits, Recover, Goto, Base, TypeOK
  <2> QED
    BY <1>8, <1>11, <2>1 DEF RowStatuses
<1> QED
  BY <1>9, <1>10, <1>12, <1>13, <1>14

LEMMA TurnNode ==
    ASSUME Base, Base', Grows, plan' = plan, TurnInv, NoRedelivery, NodeStep
    PROVE  TurnInv'
<1> USE DEF kafkaVars, dispatcherVars, dbVars, outsideVars, catalogVars, apiVars,
            nodeVars, workerVars, controlVars, boundVars
<1>1. ASSUME NEW w \in Workers, NEW n \in 0..2, NotifyCompleted(w, n) \/ NotifyFailed(w, n)
      PROVE  TurnInv'
  <2>1. /\ pc[w] \in {"notify_completed", "notify_failed", "notify_error"} /\ Goto(w, "ack")
        /\ UNCHANGED <<mode, current, todo, offset, status, rows, unpublished, queued, task>>
    BY <1>1 DEF NotifyCompleted, NotifyFailed
  <2>2. PICK e, s : e = Exec(w) /\ s = Step(w)
    OBVIOUS
  <2>3. Working(e) /\ \E k \in DOMAIN plan : WorkerFits(w, k)
    BY <2>1, <2>2, WorkerTurn
  <2>4. PICK k \in DOMAIN plan : WorkerFits(w, k)
    BY <2>3
  <2>5. plan[k] = s /\ (pc[w] = "notify_completed" => DoneTo(e, k))
    BY <2>2, <2>4 DEF WorkerFits
  <2>6. CASE NotifyCompleted(w, n)
    <3>1. Publish(Notice("step-completed", e, s, 0), n) /\ pc[w] = "notify_completed"
      BY <2>2, <2>6 DEF NotifyCompleted, Notify
    <3>2. DueFits(e, Notice("step-completed", e, s, 0))
      BY <2>3, <2>5, <3>1 DEF DueFits, Notice
    <3> QED
      BY <2>1, <2>2, <3>1, <3>2, WorkerReports
  <2>7. CASE NotifyFailed(w, n)
    <3>1. Publish(Notice("step-failed", e, s, 0), n)
      BY <2>2, <2>7 DEF NotifyFailed, Notify
    <3>2. DueFits(e, Notice("step-failed", e, s, 0))
      BY <2>3 DEF DueFits, Notice
    <3> QED
      BY <2>1, <2>2, <3>1, <3>2, WorkerReports
  <2> QED
    BY <1>1, <2>6, <2>7
<1>2. ASSUME NEW w \in Workers,
             \/ Ack(w) \/ ChildLost(w)
             \/ (CallRaises(w) /\ pc[w] \in {"recover", "notify_error"})
      PROVE  TurnInv'
  <2>1. /\ UNCHANGED <<log, mode, current, todo, offset, status, rows, unpublished, queued>>
        /\ \A v \in Workers : v # w => pc'[v] = pc[v] /\ task'[v] = task[v]
        /\ pc'[w] \in {"idle", "ack"} /\ (task'[w] = task[w] \/ pc'[w] = "idle")
    BY <1>2 DEF Ack, ChildLost, CallRaises, GoIdle, Goto, Base, TypeOK
  <2>2. \A e \in Executions : Due(e)' = Due(e)
    BY <2>1, SameTopic
  <2>3. \A e \in Executions : Untouched(e)
    BY <2>1, <2>2, OtherTurns
  <2> QED
    BY <2>1, <2>3, OutsideStep
<1>3. ASSUME NEW t \in Tasks, Discard(t) \/ RevokeArrives(t)
      PROVE  TurnInv'
  <2>1. /\ UNCHANGED <<log, mode, current, todo, offset, status, rows, unpublished>>
        /\ \A u \in Tasks : queued'[u] <= queued[u]
        /\ \A v \in Workers : pc'[v] # "idle" => pc'[v] = pc[v] /\ task'[v] = task[v]
    <3>1. CASE Discard(t)
      BY <3>1 DEF Discard, Base, TypeOK
    <3>2. CASE RevokeArrives(t)
      <4>1. \A v \in Workers : pc'[v] # "idle" => pc'[v] = pc[v] /\ task'[v] = task[v]
        BY <3>2 DEF RevokeArrives, GoIdle, Base, TypeOK
      <4>2. \A u \in Tasks : queued'[u] <= queued[u]
        BY <3>2 DEF RevokeArrives, Base, TypeOK
      <4> QED
        BY <3>2, <4>1, <4>2 DEF RevokeArrives
    <3> QED
      BY <1>3, <3>1, <3>2
  <2>2. \A e \in Executions : Due(e)' = Due(e) /\ (Carries(e)' => Carries(e))
    BY <2>1, SameTopic DEF Carries
  <2>3. ASSUME NEW e \in Executions
        PROVE  Untouched(e)
    <3>1. \A s \in Steps : queued'[<<e, s>>] <= queued[<<e, s>>]
      BY <2>1 DEF Tasks
    <3>2. \A v \in Running(e)' : v \in Running(e) /\ pc'[v] = pc[v] /\ task'[v] = task[v]
      BY <2>1 DEF Running, Exec
    <3> QED
      BY <2>1, <2>2, <3>1, <3>2 DEF Untouched, Undisturbed
  <2> QED
    BY <2>1, <2>3, OutsideStep
<1>4. ASSUME NEW t \in Tasks, NEW w \in Workers, Take(w, t)
      PROVE  TurnInv'
  <2>1. PICK e \in Executions, s \in Steps : t = <<e, s>>
    BY DEF Tasks
  <2>2. /\ UNCHANGED <<log, mode, current, todo, offset, status, rows, unpublished>>
        /\ pc[w] = "idle" /\ pc'[w] = "notify_started" /\ task'[w] = <<e, s>>
        /\ \A v \in Workers : v # w => pc'[v] = pc[v] /\ task'[v] = task[v]
        /\ queued[<<e, s>>] > 0 /\ queued'[<<e, s>>] = queued[<<e, s>>] - 1
        /\ \A u \in Tasks : u # <<e, s>> => queued'[u] = queued[u]
    BY <1>4, <2>1 DEF Take, Base, TypeOK
  <2>3. \A f \in Executions : Due(f)' = Due(f) /\ (Carries(f)' => Carries(f))
    BY <2>2, SameTopic DEF Carries
  <2>4. ASSUME NEW f \in Executions, f # e
        PROVE  Untouched(f)
    <3>1. \A r \in Steps : queued'[<<f, r>>] <= queued[<<f, r>>]
      BY <2>2, <2>4 DEF Tasks, Base, TypeOK
    <3>2. \A v \in Running(f)' : v \in Running(f) /\ pc'[v] = pc[v] /\ task'[v] = task[v]
      BY <2>2, <2>4 DEF Running, Exec
    <3> QED
      BY <2>2, <2>3, <3>1, <3>2 DEF Untouched, Undisturbed
  <2>5. s \in Waiting(e) /\ Orderly(e)
    BY <2>2 DEF Waiting, TurnInv
  <2>6. /\ Waiting(e) = {s} /\ Running(e) = {} /\ Due(e) = {} /\ ~Carries(e)
        /\ e \notin unpublished /\ ~Idle(e) /\ queued[<<e, s>>] = 1 /\ Working(e)
    <3>1. <<e, s>> \in Tasks
      BY DEF Tasks
    <3>2. queued[<<e, s>>] = 1
      BY <2>2, <2>5, <3>1 DEF Orderly, OneTurn, Base, TypeOK
    <3> QED
      BY <2>5, <3>2 DEF Orderly, OneTurn, TurnFits, Idle
  <2>7. PICK k \in DOMAIN plan : plan[k] = s /\ DoneTo(e, k - 1)
    BY <2>5 DEF Orderly, TurnFits
  <2>8. \A r \in Steps : queued'[<<e, r>>] = 0
    <3>1. ASSUME NEW r \in Steps, r # s
          PROVE  queued'[<<e, r>>] = 0
      <4>1. <<e, r>> \in Tasks /\ <<e, r>> # <<e, s>>
        BY <3>1 DEF Tasks
      <4>2. queued[<<e, r>>] = 0
        BY <2>6, <3>1, <4>1 DEF Waiting, Base, TypeOK
      <4> QED
        BY <2>2, <4>1, <4>2
    <3>2. queued'[<<e, s>>] = 0
      BY <2>2, <2>6
    <3> QED
      BY <3>1, <3>2
  <2>9. Waiting(e)' = {} /\ ~Carries(e)' /\ Due(e)' = {}
    BY <2>3, <2>6, <2>8 DEF Waiting
  <2>10. Running(e)' = {w}
    BY <2>2, <2>6 DEF Running, Exec
  <2>11. OneTurn(e)'
    BY <2>2, <2>6, <2>8, <2>9, <2>10 DEF OneTurn
  <2>12. WorkerFits(w, k)'
    BY <2>2, <2>7 DEF WorkerFits, Exec, Step, DoneTo
  <2>13. Working(e)' /\ status'[e] # "absent"
    BY <2>2, <2>6 DEF Working
  <2>14. TurnFits(e)'
    BY <2>2, <2>6, <2>9, <2>10, <2>12, <2>13 DEF TurnFits
  <2>15. Orderly(e)'
    BY <2>2, <2>5, <2>11, <2>14 DEF Orderly, Prefix
  <2> QED
    BY <2>2, <2>4, <2>6, <2>15, OutsideStep
<1>5. ASSUME NEW w \in Workers, Execute(w) \/ CallRaises(w)
      PROVE  TurnInv'
  <2>1. CASE CallRaises(w)
    BY <1>2, <2>1, TurnStepsRun
  <2>2. CASE Execute(w)
    BY <1>1, <1>2, <2>2, TurnStepsRun DEF Execute
  <2> QED
    BY <1>5, <2>1, <2>2
<1> QED
  BY <1>2, <1>3, <1>4, <1>5 DEF NodeStep

(* A request in the topic has the turn the API gave away, unless it is lost. *)
LEMMA RequestDue ==
    ASSUME Base, TypeOK', Grows, plan' = plan, NoRedelivery, UNCHANGED <<mode, current, offset>>,
           NEW e \in Executions, Orderly(e), Fresh(e), Due(e) = {}, Waiting(e) = {}, Running(e) = {},
           NEW n \in 0..2, Publish(Requested(e), n),
           UNCHANGED <<status, rows, queued, pc, task>>,
           e \notin unpublished', ~Carries(e)'
    PROVE  Orderly(e)'
<1>1. PICK ev : ev = Requested(e)
  OBVIOUS
<1>2. ev \in Event /\ ev.type = "requested"
  BY <1>1, NoticeType DEF Requested, Notice, EventTypes
<1>3. \A i \in Due(e)' : i = Len(History(e)) + 1 /\ History(e)'[i] = ev
  BY <1>1, <1>2, PublishedDue
<1>4. Waiting(e)' = {} /\ Running(e)' = {} /\ Fresh(e)' /\ status'[e] # "absent"
  BY DEF Waiting, Running, Exec, Fresh
<1>5. OneTurn(e)'
  BY <1>3, <1>4 DEF Orderly, OneTurn
<1>6. \A i \in Due(e)' : DueFits(e, History(e)[i])'
  BY <1>2, <1>3, <1>4 DEF DueFits
<1>7. TurnFits(e)'
  BY <1>4, <1>6 DEF TurnFits
<1> QED
  BY <1>5, <1>7 DEF Orderly, Prefix

LEMMA TurnApi ==
    ASSUME Base, Base', Grows, plan' = plan, TurnInv, NoRedelivery, ApiStep
    PROVE  TurnInv'
<1> USE DEF kafkaVars, dispatcherVars, dbVars, outsideVars, catalogVars, apiVars,
            nodeVars, workerVars, controlVars, boundVars
<1>1. ASSUME NEW e \in Executions, CreateExecution(e)
      PROVE  TurnInv'
  <2>1. /\ UNCHANGED <<log, mode, current, todo, offset, rows, queued, pc, task>>
        /\ status[e] = "absent" /\ status'[e] = "pending" /\ unpublished' = unpublished \cup {e}
        /\ \A f \in Executions : f # e => status'[f] = status[f]
    BY <1>1 DEF CreateExecution, Base, TypeOK
  <2>2. \A f \in Executions : /\ Due(f)' = Due(f) /\ (Carries(f)' <=> Carries(f))
                              /\ Waiting(f)' = Waiting(f) /\ Running(f)' = Running(f)
    BY <2>1, SameTopic DEF Carries, Waiting, Running, Exec
  <2>3. ASSUME NEW f \in Executions, f # e
        PROVE  Untouched(f)
    <3>1. \A s \in Steps : queued'[<<f, s>>] <= queued[<<f, s>>]
      BY <2>1 DEF Base, TypeOK, Tasks
    <3> QED
      BY <2>1, <2>2, <2>3, <3>1 DEF Untouched, Undisturbed
  <2>4. Orderly(e) /\ Idle(e) /\ rows[e] = <<>>
    BY <2>1 DEF TurnInv, Orderly, TurnFits
  <2>5. Due(e)' = {} /\ Waiting(e)' = {} /\ Running(e)' = {} /\ ~Carries(e)' /\ Fresh(e)'
    BY <2>1, <2>2, <2>4 DEF Idle, Fresh
  <2>6. OneTurn(e)'
    BY <2>1, <2>4, <2>5 DEF Orderly, OneTurn
  <2>7. TurnFits(e)'
    BY <2>1, <2>5 DEF TurnFits
  <2>8. Orderly(e)'
    BY <2>1, <2>4, <2>6, <2>7 DEF Orderly, Prefix
  <2> QED
    BY <2>1, <2>3, <2>8, OutsideStep
<1>2. ASSUME NEW e \in Executions, NEW n \in 0..2, PublishRequest(e, n)
      PROVE  TurnInv'
  <2>1. /\ UNCHANGED <<mode, current, todo, offset, status, rows, queued, pc, task>>
        /\ e \in unpublished /\ unpublished' = unpublished \ {e} /\ Publish(Requested(e), n)
    BY <1>2 DEF PublishRequest
  <2>2. Requested(e) \in Event /\ Requested(e).exec = e
    BY NoticeType DEF Requested, Notice, EventTypes
  <2>3. ASSUME NEW f \in Executions, f # e
        PROVE  Untouched(f)
    <3>1. Due(f)' = Due(f)
      BY <2>1, <2>2, <2>3, PublishedDue
    <3>2. \A s \in Steps : queued'[<<f, s>>] <= queued[<<f, s>>]
      BY <2>1 DEF Base, TypeOK, Tasks
    <3> QED
      BY <2>1, <3>1, <3>2 DEF Untouched, Undisturbed, Carries, Running, Exec
  <2>4. /\ Orderly(e) /\ Fresh(e) /\ ~Idle(e) /\ ~Carries(e)
        /\ Due(e) = {} /\ Waiting(e) = {} /\ Running(e) = {}
    BY <2>1 DEF TurnInv, Orderly, OneTurn, TurnFits, Idle
  <2>5. ~Carries(e)'
    BY <2>1, <2>4 DEF Carries
  <2>6. Orderly(e)'
    BY <2>1, <2>4, <2>5, RequestDue DEF Base
  <2> QED
    BY <2>1, <2>3, <2>4, <2>6, OutsideStep
<1>3. ASSUME UNCHANGED <<mode, current, todo, offset, status, rows, unpublished, queued, pc, task>>,
             \A e \in Executions : Due(e)' = Due(e)
      PROVE  TurnInv'
  <2>1. ASSUME NEW e \in Executions
        PROVE  Untouched(e)
    <3>1. \A s \in Steps : queued'[<<e, s>>] <= queued[<<e, s>>]
      BY <1>3 DEF Base, TypeOK, Tasks
    <3> QED
      BY <1>3, <3>1 DEF Untouched, Undisturbed, Carries, Running, Exec
  <2> QED
    BY <1>3, <2>1, OutsideStep
<1>4. ASSUME NEW e \in Executions, NEW n \in 0..2,
             NEW type \in {"stop-requested", "restart-requested"},
             Publish(Notice(type, e, NoStep, 0), n),
             UNCHANGED <<mode, current, todo, offset, status, rows, unpublished, queued, pc, task>>
      PROVE  TurnInv'
  <2>1. Notice(type, e, NoStep, 0) \in Event /\ Notice(type, e, NoStep, 0).type \notin Moves
    BY NoticeType DEF Notice, EventTypes, Moves
  <2>2. \A f \in Executions : Due(f)' = Due(f)
    BY <1>4, <2>1, PublishedDue
  <2> QED
    BY <1>3, <1>4, <2>2
<1>5. ASSUME NEW e \in Executions, CancelCheck(e)
      PROVE  TurnInv'
  <2>1. UNCHANGED <<log, mode, current, todo, offset, status, rows, unpublished, queued, pc, task>>
    BY <1>5 DEF CancelCheck
  <2> QED
    BY <1>3, <2>1, SameTopic
<1>6. ASSUME NEW e \in Executions, NEW n \in 0..2, CancelPublish(e, n)
      PROVE  TurnInv'
  BY <1>4, <1>6 DEF CancelPublish
<1>7. ASSUME NEW e \in Executions, NEW n \in 0..2,
             NEW type \in {"stop-requested", "restart-requested"}, WsCommand(type, e, n)
      PROVE  TurnInv'
  BY <1>4, <1>7 DEF WsCommand
<1> QED
  BY <1>1, <1>2, <1>5, <1>6, <1>7 DEF ApiStep, Schedule, Retry

LEMMA TurnEnvironment ==
    ASSUME Base, Base', Grows, plan' = plan, TurnInv, NoRedelivery, Environment
    PROVE  TurnInv'
<1>1. PICK e \in Executions : CacheExpires(e)
  <2>1. ~Crash /\ ~Restart
    BY DEF Crash, Restart, Fault, NoRedelivery, TurnInv, HandlerFits
  <2> QED
    BY <2>1 DEF Environment
<1>2. UNCHANGED <<log, mode, current, todo, offset, status, rows, unpublished, queued, pc, task>>
  BY <1>1 DEF CacheExpires, kafkaVars, dispatcherVars, dbVars, outsideVars, apiVars,
              workerVars
<1>3. ASSUME NEW f \in Executions
      PROVE  Untouched(f)
  <2>1. \A s \in Steps : queued'[<<f, s>>] <= queued[<<f, s>>]
    BY <1>2 DEF Base, TypeOK, Tasks
  <2> QED
    BY <1>2, <2>1, SameTopic DEF Untouched, Undisturbed, Carries, Running, Exec
<1> QED
  BY <1>2, <1>3, OutsideStep

-----------------------------------------------------------------------------
(* The dispatcher, effect by effect.                                         *)

(* An execution nobody has the turn of, or the handler alone.                *)
LEMMA TurnWithHandler ==
    ASSUME Base, TypeOK', plan' = plan, NEW e \in Executions, Orderly(e),
           status'[e] # "absent", rows'[e] = rows[e],
           e \notin unpublished', Due(e)' = {}, Waiting(e)' = {}, Running(e)' = {}
    PROVE  Orderly(e)'
<1>1. \A s \in Steps : queued'[<<e, s>>] <= 1
  <2>1. ASSUME NEW s \in Steps
        PROVE  queued'[<<e, s>>] \in Nat /\ ~(queued'[<<e, s>>] > 0)
    BY DEF Waiting, TypeOK, Tasks
  <2> QED
    BY <2>1
<1>2. OneTurn(e)'
  BY <1>1 DEF OneTurn
<1>3. TurnFits(e)'
  BY DEF TurnFits
<1> QED
  BY <1>2, <1>3 DEF Orderly, Prefix

LEMMA TailCarries ==
    ASSUME Base, todo # <<>>, todo' = Tail(todo), NEW e \in Executions, Carries(e)'
    PROVE  Carries(e)
<1>1. todo \in Seq(Effect)
  BY DEF Base, TypeOK
<1>2. PICK i \in DOMAIN todo' :
          todo'[i] = Publishing(Requested(e)) \/ \E s \in Steps : todo'[i] = Enqueue(e, s)
  BY DEF Carries
<1>3. i + 1 \in DOMAIN todo /\ todo[i + 1] = todo'[i]
  BY <1>1, <1>2
<1> QED
  BY <1>2, <1>3 DEF Carries

(* The event in hand, its execution, and what is left of the handler. *)
LEMMA EventInHand ==
    ASSUME Base, Grows, TurnInv, mode = "handling", UNCHANGED <<mode, current, offset>>
    PROVE  \E x \in Event :
               /\ x = NextEvent(current) /\ NextEvent(current)' = x
               /\ x.exec \in Executions /\ status[x.exec] # "absent" /\ Orderly(x.exec)
               /\ Script(x) /\ StopInHand(x)
BY InHandStays DEF TurnInv, HandlerFits

(* A handler goes on: what each effect has to show. *)
LEMMA HandlerGoesOn ==
    ASSUME Base, Base', Grows, plan' = plan, TurnInv,
           mode = "handling", UNCHANGED <<mode, current, offset>>,
           NEW x, NextEvent(current)' = x, Script(x)', StopInHand(x)',
           \A e \in Executions : Untouched(e) \/ Orderly(e)',
           \A e \in Executions :
               \/ status'[e] = status[e] \/ status'[e] \in {"cancelled", "failed"}
               \/ status[e] \notin {"cancelled", "failed"}
    PROVE  TurnInv'
<1>1. \A e \in Executions : Orderly(e)'
  BY TurnKept DEF Untouched, TurnInv, Base
<1>2. StopsAreKept'
  BY StopsKept DEF TurnInv
<1>3. HandlerFits'
  BY DEF HandlerFits
<1> QED
  BY <1>1, <1>2, <1>3 DEF TurnInv

(* An effect that sets no status and gives no turn away. *)
LEMMA PlainEffect ==
    ASSUME Base, Base', Grows, plan' = plan, TurnInv,
           mode = "handling", UNCHANGED <<mode, current, offset, status, rows, unpublished,
                                          queued, pc, task>>,
           todo # <<>>, todo' = Tail(todo), Head(todo).op # "set-status",
           \A e \in Executions : Due(e)' = Due(e),
           NEW x, NextEvent(current)' = x, StopInHand(x), x.exec \in Executions, Script(x)'
    PROVE  TurnInv'
<1>1. ASSUME NEW e \in Executions
      PROVE  Untouched(e)
  <2>1. \A s \in Steps : queued'[<<e, s>>] <= queued[<<e, s>>]
    BY DEF Base, TypeOK, Tasks
  <2> QED
    BY <2>1, TailCarries DEF Untouched, Undisturbed, Running, Exec
<1>2. StopInHand(x)'
  <2>1. todo = StopEffects(x.exec) => Head(todo).op = "set-status"
    BY DEF StopEffects, SetStatus
  <2> QED
    BY <2>1 DEF StopInHand
<1> QED
  BY <1>1, <1>2, HandlerGoesOn

(* How the pieces a handler is put together from add up ... *)
LEMMA OneAndTwo ==
    ASSUME NEW S, NEW s \in Seq(S), NEW t \in Seq(S), Len(s) = 1, Len(t) = 2
    PROVE  s \o t = <<s[1], t[1], t[2]>>
<1>1. Len(s) + Len(t) = 3
  OBVIOUS
<1>2. s \o t \in Seq(S) /\ Len(s \o t) = 3
  BY <1>1, ConcatProperties
<1>3. \A i \in 1 .. Len(s) + Len(t) : (s \o t)[i] = IF i <= Len(s) THEN s[i] ELSE t[i - Len(s)]
  BY ConcatProperties
<1>4. \A r \in Seq(S) : Len(r) = 3 => r = <<r[1], r[2], r[3]>>
  OBVIOUS
<1>5. (s \o t)[1] = s[1]
  <2>1. 1 \in 1 .. Len(s) + Len(t) /\ 1 <= Len(s)
    BY <1>1
  <2> QED
    BY <1>3, <2>1
<1>6. (s \o t)[2] = t[1]
  <2>1. 2 \in 1 .. Len(s) + Len(t) /\ ~(2 <= Len(s)) /\ 2 - Len(s) = 1
    BY <1>1
  <2> QED
    BY <1>3, <2>1
<1>7. (s \o t)[3] = t[2]
  <2>1. 3 \in 1 .. Len(s) + Len(t) /\ ~(3 <= Len(s)) /\ 3 - Len(s) = 2
    BY <1>1
  <2> QED
    BY <1>3, <2>1
<1> QED
  BY <1>2, <1>4, <1>5, <1>6, <1>7

LEMMA OneAndThenTwo ==
    ASSUME NEW a, NEW b, NEW c
    PROVE  <<a>> \o <<b, c>> = <<a, b, c>>
<1>1. PICK S : S = {a, b, c}
  OBVIOUS
<1>2. PICK s : s = <<a>>
  OBVIOUS
<1>3. PICK t : t = <<b, c>>
  OBVIOUS
<1>4. /\ s \in Seq(S) /\ Len(s) = 1 /\ s[1] = a
      /\ t \in Seq(S) /\ Len(t) = 2 /\ t[1] = b /\ t[2] = c
  BY <1>1, <1>2, <1>3
<1>5. s \o t = <<a, b, c>>
  BY <1>4, OneAndTwo
<1> QED
  BY <1>2, <1>3, <1>5

(* ... and what is left of it after each effect. *)
LEMMA ThreeEffects ==
    ASSUME NEW a, NEW b, NEW c
    PROVE  /\ <<a>> \o <<b, c>> = <<a, b, c>>
           /\ Head(<<a, b, c>>) = a /\ Tail(<<a, b, c>>) = <<b, c>>
           /\ Head(<<b, c>>) = b /\ Tail(<<b, c>>) = <<c>>
           /\ Head(<<c>>) = c /\ Tail(<<c>>) = <<>>
BY OneAndThenTwo

LEMMA TurnSetStatus ==
    ASSUME Base, Base', Grows, plan' = plan, TurnInv, DoSetStatus
    PROVE  TurnInv'
<1>1. /\ mode = "handling" /\ todo # <<>> /\ todo' = Tail(todo) /\ Head(todo).op = "set-status"
      /\ UNCHANGED <<log, mode, current, offset, rows, unpublished, queued, pc, task>>
      /\ status' = [status EXCEPT ![Head(todo).exec] = Head(todo).status]
  BY DEF DoSetStatus, NextEffectIs, kafkaVars, nodeVars, workerVars, outsideVars, apiVars
<1>2. PICK x \in Event :
          /\ x = NextEvent(current) /\ NextEvent(current)' = x
          /\ x.exec \in Executions /\ status[x.exec] # "absent" /\ Orderly(x.exec)
          /\ Script(x) /\ StopInHand(x)
  BY <1>1, EventInHand
<1>3. PICK f \in Executions : f = x.exec
  BY <1>2
<1>4. \A g \in Executions :
          /\ Due(g)' = Due(g) /\ Waiting(g)' = Waiting(g) /\ Running(g)' = Running(g)
          /\ Carries(g)' => Carries(g)
  BY <1>1, SameTopic, TailCarries DEF Waiting, Running, Exec
<1>5. ASSUME NEW g \in Executions, g # Head(todo).exec
      PROVE  Untouched(g) /\ status'[g] = status[g]
  <2>1. \A s \in Steps : queued'[<<g, s>>] <= queued[<<g, s>>]
    BY <1>1 DEF Base, TypeOK, Tasks
  <2>2. status'[g] = status[g]
    BY <1>1, <1>5 DEF Base, TypeOK
  <2> QED
    BY <1>1, <1>4, <2>1, <2>2 DEF Untouched, Undisturbed
<1>6. ASSUME NEW s \in Statuses, Head(todo) = SetStatus(f, s), s # "absent",
             s \in {"cancelled", "failed"} \/ status[f] \notin {"cancelled", "failed"},
             Untouched(f) \/ Orderly(f)', Script(x)', StopInHand(x)'
      PROVE  TurnInv'
  <2>1. Head(todo).exec = f /\ Head(todo).status = s /\ status'[f] = s
    BY <1>1, <1>6 DEF SetStatus, Base, TypeOK
  <2> QED
    BY <1>1, <1>2, <1>5, <1>6, <2>1, HandlerGoesOn
<1>7. ASSUME NEW s \in Statuses, Head(todo) = SetStatus(f, s), s # "absent"
      PROVE  status'[f] = s
  BY <1>1, <1>7 DEF SetStatus, Base, TypeOK
<1>8. ASSUME NEW s \in Statuses, Head(todo) = SetStatus(f, s), s # "absent",
             f \notin unpublished, Due(f) = {}, Waiting(f) = {}, Running(f) = {}
      PROVE  Orderly(f)'
  BY <1>1, <1>2, <1>3, <1>4, <1>7, <1>8, TurnWithHandler DEF Base
<1>9. CASE Starts(f) /\ plan = <<>>
  <2>1. /\ todo = <<SetStatus(f, "running")>> \o Complete(f, 0)
        /\ status[f] = "pending" /\ Idle(f) /\ rows[f] = <<>>
    BY <1>9 DEF Starts
  <2>2. Head(todo) = SetStatus(f, "running") /\ todo' = Complete(f, 0)
    <3>1. PICK a, b, c : /\ a = SetStatus(f, "running") /\ b = SetStatus(f, "completed")
                         /\ c = Publishing(Notice("plan-completed", f, NoStep, 0))
      OBVIOUS
    <3>2. todo = <<a>> \o <<b, c>> /\ Complete(f, 0) = <<b, c>>
      BY <2>1, <3>1 DEF Complete
    <3> QED
      BY <1>1, <3>1, <3>2, ThreeEffects
  <2>3. status'[f] = "running" /\ Orderly(f)'
    BY <1>7, <1>8, <2>1, <2>2 DEF Idle, Statuses
  <2>4. Idle(f)'
    BY <1>1, <1>4, <2>1 DEF Idle
  <2>5. Completes(f)'
    BY <1>9, <2>2, <2>3, <2>4 DEF Completes, Complete, SetStatus, Publishing, Notice
  <2>6. Script(x)'
    BY <1>3, <2>5 DEF Script
  <2>7. x.type # "stop-requested"
    <3>1. todo # StopEffects(f)
      BY <2>2, ThreeEffects DEF StopEffects, SetStatus
    <3> QED
      BY <1>2, <1>3, <2>1, <3>1 DEF StopInHand
  <2> QED
    BY <1>6, <2>1, <2>2, <2>3, <2>6, <2>7 DEF StopInHand, Statuses
<1>10. CASE Starts(f) /\ plan # <<>>
  <2>1. /\ todo = <<SetStatus(f, "running")>> \o Release("plan-started", f, 1)
        /\ status[f] = "pending" /\ rows[f] = <<>>
    BY <1>10 DEF Starts
  <2>2. /\ Head(todo) = SetStatus(f, "running") /\ todo' = Release("plan-started", f, 1)
        /\ todo[3] = Enqueue(f, plan[1]) /\ 3 \in DOMAIN todo
    <3>1. PICK a, b, c : /\ a = SetStatus(f, "running") /\ c = Enqueue(f, plan[1])
                         /\ b = Publishing(Notice("plan-started", f, plan[1], 1 - 1))
      OBVIOUS
    <3>2. todo = <<a>> \o <<b, c>> /\ Release("plan-started", f, 1) = <<b, c>>
      BY <2>1, <3>1 DEF Release
    <3> QED
      BY <1>1, <3>1, <3>2, ThreeEffects
  <2>3. 1 \in DOMAIN plan /\ plan[1] \in Steps
    BY <1>10 DEF Base, TypeOK
  <2>4. Carries(f)
    BY <2>2, <2>3 DEF Carries
  <2>5. f \notin unpublished /\ Due(f) = {} /\ Waiting(f) = {} /\ Running(f) = {}
    BY <1>2, <1>3, <2>4 DEF Orderly, OneTurn
  <2>6. status'[f] = "running" /\ Orderly(f)'
    BY <1>7, <1>8, <2>2, <2>5 DEF Statuses
  <2>7. DoneTo(f, 0)'
    BY <1>1, <2>1 DEF DoneTo
  <2>8. ReleasesStep(f)'
    <3>1. status'[f] = "running" /\ DoneTo(f, 1 - 1)' /\ todo' = Release(Opening(1), f, 1)'
      BY <2>2, <2>6, <2>7 DEF Opening, Release, Publishing, Notice, Enqueue
    <3> QED
      BY <2>3, <3>1 DEF ReleasesStep
  <2>9. Script(x)'
    BY <1>3, <2>8 DEF Script
  <2>10. x.type # "stop-requested"
    <3>1. todo # StopEffects(f)
      BY <2>2, ThreeEffects DEF StopEffects, SetStatus
    <3> QED
      BY <1>2, <1>3, <2>1, <3>1 DEF StopInHand
  <2> QED
    BY <1>6, <2>1, <2>2, <2>6, <2>9, <2>10 DEF StopInHand, Statuses
<1>11. CASE Completes(f)
  <2>1. Idle(f) /\ status[f] = "running" /\ todo = Complete(f, Len(plan))
    BY <1>1, <1>11 DEF Completes, Publishing
  <2>2. /\ Head(todo) = SetStatus(f, "completed")
        /\ todo' = <<Publishing(Notice("plan-completed", f, NoStep, Len(plan)))>>
    BY <1>1, <2>1, ThreeEffects DEF Complete
  <2>3. status'[f] = "completed" /\ Orderly(f)'
    BY <1>7, <1>8, <2>1, <2>2 DEF Idle, Statuses
  <2>4. Completes(f)'
    BY <1>1, <1>4, <2>1, <2>2 DEF Completes, Idle, Publishing, Notice
  <2>5. Script(x)'
    BY <1>3, <2>4 DEF Script
  <2>6. x.type # "stop-requested"
    <3>1. todo # StopEffects(f)
      BY <2>2, ThreeEffects DEF StopEffects, SetStatus
    <3> QED
      BY <1>2, <1>3, <2>1, <3>1 DEF StopInHand
  <2> QED
    BY <1>6, <2>1, <2>2, <2>3, <2>5, <2>6 DEF StopInHand, Statuses
<1>12. CASE FailsPlan(f, x.step)
  <2>1. Idle(f) /\ todo = StepFailedEffects(f, x.step)
    BY <1>1, <1>12 DEF FailsPlan, Publishing
  <2>2. /\ Head(todo) = SetStatus(f, "failed")
        /\ todo' = <<Publishing(Notice("plan-failed", f, x.step, 0))>>
    BY <1>1, <2>1, ThreeEffects DEF StepFailedEffects
  <2>3. status'[f] = "failed" /\ Orderly(f)'
    BY <1>7, <1>8, <2>1, <2>2 DEF Idle, Statuses
  <2>4. FailsPlan(f, x.step)'
    BY <1>1, <1>4, <2>1, <2>2 DEF FailsPlan, Idle, Publishing, Notice
  <2>5. Script(x)'
    BY <1>3, <2>4 DEF Script
  <2> QED
    BY <1>3, <1>6, <2>2, <2>3, <2>5 DEF StopInHand, Statuses
<1>13. CASE todo = StopEffects(f)
  <2>1. /\ Head(todo) = SetStatus(f, "cancelled")
        /\ todo' = <<[op |-> "revoke", exec |-> f], Publishing(Notice("plan-stopped", f, NoStep, 0))>>
    BY <1>1, <1>13, ThreeEffects DEF StopEffects
  <2>2. status'[f] = "cancelled"
    BY <1>7, <2>1 DEF Statuses
  <2>3. Undisturbed(f)
    <3>1. \A s \in Steps : queued'[<<f, s>>] <= queued[<<f, s>>]
      BY <1>1 DEF Base, TypeOK, Tasks
    <3> QED
      BY <1>1, <1>4, <3>1 DEF Undisturbed
  <2>4. Orderly(f)'
    BY <1>2, <1>3, <2>2, <2>3, TurnKept DEF Base
  <2>5. Stops(f)'
    BY <2>1, <2>2 DEF Stops, Publishing, Notice
  <2>6. Script(x)'
    BY <1>3, <2>5 DEF Script
  <2> QED
    BY <1>3, <1>6, <2>1, <2>2, <2>4, <2>6 DEF StopInHand, Statuses
<1>14. ~ReleasesStep(f) /\ ~Stops(f) /\ ~Restarts
  BY <1>1, ThreeEffects DEF ReleasesStep, Stops, Restarts, Release, Publishing, Enqueue
<1> QED
  BY <1>1, <1>2, <1>3, <1>9, <1>10, <1>11, <1>12, <1>13, <1>14 DEF Script

LEMMA TurnPublish ==
    ASSUME Base, Base', Grows, plan' = plan, TurnInv, NoRedelivery,
           NEW n \in 0..2, DoPublish(n)
    PROVE  TurnInv'
<1>1. /\ mode = "handling" /\ todo # <<>> /\ todo' = Tail(todo) /\ Head(todo).op = "publish"
      /\ UNCHANGED <<mode, current, offset, status, rows, unpublished, queued, pc, task>>
      /\ Publish(Head(todo).event, n)
  BY DEF DoPublish, NextEffectIs, dbVars, nodeVars, workerVars, outsideVars, apiVars
<1>2. PICK x \in Event :
          /\ x = NextEvent(current) /\ NextEvent(current)' = x
          /\ x.exec \in Executions /\ status[x.exec] # "absent" /\ Orderly(x.exec)
          /\ Script(x) /\ StopInHand(x)
  BY <1>1, EventInHand
<1>3. PICK f \in Executions : f = x.exec
  BY <1>2
<1>4. PICK ev \in Event : ev = Head(todo).event
  BY <1>1, HeadType, EffectType DEF Base
<1>5. ASSUME ev.type \notin Moves, Script(x)'
      PROVE  TurnInv'
  <2>1. \A e \in Executions : Due(e)' = Due(e)
    BY <1>1, <1>4, <1>5, PublishedDue
  <2>2. Head(todo).op # "set-status"
    BY <1>1
  <2> QED
    BY <1>1, <1>2, <1>5, <2>1, <2>2, PlainEffect
<1>6. ASSUME NEW y, todo = <<Publishing(y)>>
      PROVE  y = ev /\ todo' = <<>> /\ Script(x)'
  BY <1>1, <1>4, <1>6, ThreeEffects DEF Publishing, Script
<1>7. CASE ReleasesStep(f)
  <2>1. PICK k \in DOMAIN plan :
            /\ status[f] = "running" /\ DoneTo(f, k - 1)
            /\ todo = Release(Opening(k), f, k) \/ todo = <<Enqueue(f, plan[k])>>
    BY <1>7 DEF ReleasesStep
  <2>2. todo # <<Enqueue(f, plan[k])>>
    BY <1>1, ThreeEffects DEF Enqueue
  <2>3. PICK a, c : /\ a = Publishing(Notice(Opening(k), f, plan[k], k - 1))
                    /\ c = Enqueue(f, plan[k])
    OBVIOUS
  <2>4. todo = <<a, c>>
    BY <2>1, <2>2, <2>3 DEF Release
  <2>5. Head(todo) = a /\ todo' = <<c>>
    BY <1>1, <2>4, ThreeEffects
  <2>6. ev.type \notin Moves
    BY <1>4, <2>3, <2>5 DEF Publishing, Notice, Opening, Moves
  <2>7. DoneTo(f, k - 1)' /\ status'[f] = "running"
    BY <1>1, <2>1 DEF DoneTo
  <2>8. ReleasesStep(f)'
    BY <2>3, <2>5, <2>7 DEF ReleasesStep, Enqueue
  <2> QED
    BY <1>3, <1>5, <2>6, <2>8 DEF Script
<1>8. CASE Completes(f)
  <2>1. todo = <<Publishing(Notice("plan-completed", f, NoStep, Len(plan)))>>
    BY <1>1, <1>8, ThreeEffects DEF Completes, Complete, SetStatus
  <2> QED
    BY <1>5, <1>6, <2>1 DEF Notice, Moves
<1>9. CASE FailsPlan(f, x.step)
  <2>1. todo = <<Publishing(Notice("plan-failed", f, x.step, 0))>>
    BY <1>1, <1>9, ThreeEffects DEF FailsPlan, StepFailedEffects, SetStatus
  <2> QED
    BY <1>5, <1>6, <2>1 DEF Notice, Moves
<1>10. CASE Stops(f)
  <2>1. todo = <<Publishing(Notice("plan-stopped", f, NoStep, 0))>>
    BY <1>1, <1>10, ThreeEffects DEF Stops
  <2> QED
    BY <1>5, <1>6, <2>1 DEF Notice, Moves
<1>11. CASE Restarts
  <2>1. PICK g \in Executions : Fresh(g) /\ todo = <<Publishing(Requested(g))>>
    BY <1>1, <1>11, ThreeEffects DEF Restarts
  <2>2. ev = Requested(g) /\ todo' = <<>> /\ Script(x)'
    BY <1>6, <2>1
  <2>3. Carries(g) /\ Orderly(g)
    BY <2>1 DEF Carries, TurnInv
  <2>4. g \notin unpublished /\ Due(g) = {} /\ Waiting(g) = {} /\ Running(g) = {}
    BY <2>3 DEF Orderly, OneTurn
  <2>5. ~Carries(g)'
    BY <2>2 DEF Carries
  <2>6. Orderly(g)'
    BY <1>1, <1>4, <2>1, <2>2, <2>3, <2>4, <2>5, RequestDue DEF Base
  <2>7. ASSUME NEW h \in Executions, h # g
        PROVE  Untouched(h)
    <3>1. Due(h)' = Due(h)
      BY <1>1, <1>4, <2>2, <2>7, PublishedDue DEF Requested, Notice
    <3>2. ~Carries(h)'
      BY <2>2 DEF Carries
    <3>3. \A s \in Steps : queued'[<<h, s>>] <= queued[<<h, s>>]
      BY <1>1 DEF Base, TypeOK, Tasks
    <3> QED
      BY <1>1, <3>1, <3>2, <3>3 DEF Untouched, Undisturbed, Running, Exec
  <2>8. StopInHand(x)'
    <3>1. todo # StopEffects(x.exec)
      BY <1>1, ThreeEffects DEF StopEffects, SetStatus
    <3> QED
      BY <1>1, <1>2, <3>1 DEF StopInHand
  <2> QED
    BY <1>1, <1>2, <2>2, <2>6, <2>7, <2>8, HandlerGoesOn
<1>12. ~Starts(f) /\ todo # StopEffects(f)
  <2>1. todo # StopEffects(f)
    BY <1>1, ThreeEffects DEF StopEffects, SetStatus
  <2>2. ASSUME NEW b, NEW c
        PROVE  todo # <<SetStatus(f, "running")>> \o <<b, c>>
    BY <1>1, ThreeEffects DEF SetStatus
  <2> QED
    BY <2>1, <2>2 DEF Starts, Complete, Release
<1> QED
  BY <1>1, <1>2, <1>3, <1>7, <1>8, <1>9, <1>10, <1>11, <1>12 DEF Script

LEMMA TurnRevoke ==
    ASSUME Base, Base', Grows, plan' = plan, TurnInv, DoRevoke
    PROVE  TurnInv'
<1>1. /\ mode = "handling" /\ todo # <<>> /\ todo' = Tail(todo) /\ Head(todo).op = "revoke"
      /\ UNCHANGED <<log, mode, current, offset, status, rows, unpublished, queued, pc, task>>
  BY DEF DoRevoke, NextEffectIs, dbVars, kafkaVars, workerVars, outsideVars, apiVars
<1>2. PICK x \in Event :
          /\ x = NextEvent(current) /\ NextEvent(current)' = x
          /\ x.exec \in Executions /\ status[x.exec] # "absent" /\ Orderly(x.exec)
          /\ Script(x) /\ StopInHand(x)
  BY <1>1, EventInHand
<1>3. PICK f \in Executions : f = x.exec
  BY <1>2
<1>4. ASSUME NEW b, NEW c
      PROVE  todo # <<SetStatus(f, "running")>> \o <<b, c>>
  BY <1>1, ThreeEffects DEF SetStatus
<1>5. ~Starts(f) /\ ~ReleasesStep(f) /\ ~Completes(f) /\ ~FailsPlan(f, x.step) /\ ~Restarts
  <2>1. ~Starts(f)
    BY <1>4 DEF Starts, Complete, Release
  <2>2. ~ReleasesStep(f)
    BY <1>1, ThreeEffects DEF ReleasesStep, Release, Publishing, Enqueue
  <2> QED
    BY <1>1, <2>1, <2>2, ThreeEffects
       DEF Completes, Complete, FailsPlan, StepFailedEffects, Restarts, SetStatus, Publishing
<1>6. todo # StopEffects(f)
  BY <1>1, ThreeEffects DEF StopEffects, SetStatus
<1>7. Stops(f)
  <2>1. Script(x) /\ todo # <<>>
    BY <1>1, <1>2
  <2> QED
    BY <1>3, <1>5, <1>6, <2>1 DEF Script
<1>8. todo' = <<Publishing(Notice("plan-stopped", f, NoStep, 0))>> /\ status[f] = "cancelled"
  <2>1. PICK a, c : /\ a = [op |-> "revoke", exec |-> f]
                    /\ c = Publishing(Notice("plan-stopped", f, NoStep, 0))
    OBVIOUS
  <2>2. status[f] = "cancelled" /\ (todo = <<a, c>> \/ todo = <<c>>)
    BY <1>7, <2>1 DEF Stops
  <2>3. todo # <<c>>
    BY <1>1, <2>1, ThreeEffects DEF Publishing
  <2>4. todo = <<a, c>>
    BY <2>2, <2>3
  <2>5. Tail(todo) = <<c>>
    BY <2>4, ThreeEffects
  <2> QED
    BY <1>1, <2>1, <2>2, <2>5
<1>9. Stops(f)'
  BY <1>1, <1>8 DEF Stops, Publishing, Notice
<1>10. Script(x)'
  BY <1>3, <1>9 DEF Script
<1>11. \A e \in Executions : Due(e)' = Due(e)
  BY <1>1, SameTopic
<1>12. Head(todo).op # "set-status"
  BY <1>1
<1> QED
  BY <1>1, <1>2, <1>10, <1>11, <1>12, PlainEffect

LEMMA TurnEnqueue ==
    ASSUME Base, Base', Grows, plan' = plan, TurnInv, DoEnqueue
    PROVE  TurnInv'
<1>1. /\ mode = "handling" /\ todo # <<>> /\ todo' = Tail(todo) /\ Head(todo).op = "enqueue"
      /\ UNCHANGED <<log, mode, current, offset, status, rows, unpublished, pc, task>>
      /\ queued' = [queued EXCEPT ![Head(todo).task] = @ + 1]
  BY DEF DoEnqueue, NextEffectIs, dbVars, kafkaVars, workerVars, outsideVars, apiVars
<1>2. PICK x \in Event :
          /\ x = NextEvent(current) /\ NextEvent(current)' = x
          /\ x.exec \in Executions /\ status[x.exec] # "absent" /\ Orderly(x.exec)
          /\ Script(x) /\ StopInHand(x)
  BY <1>1, EventInHand
<1>3. PICK f \in Executions : f = x.exec
  BY <1>2
<1>4. ~Starts(f) /\ ~Completes(f) /\ ~FailsPlan(f, x.step) /\ ~Stops(f) /\ ~Restarts
  <2>1. ASSUME NEW b, NEW c
        PROVE  todo # <<SetStatus(f, "running")>> \o <<b, c>>
    BY <1>1, ThreeEffects DEF SetStatus
  <2>2. ~Starts(f)
    BY <2>1 DEF Starts, Complete, Release
  <2> QED
    BY <1>1, <2>2, ThreeEffects
       DEF Completes, Complete, FailsPlan, StepFailedEffects, Stops, Restarts, SetStatus, Publishing
<1>5. todo # StopEffects(f)
  BY <1>1, ThreeEffects DEF StopEffects, SetStatus
<1>6. ReleasesStep(f)
  <2>1. Script(x) /\ todo # <<>>
    BY <1>1, <1>2
  <2> QED
    BY <1>3, <1>4, <1>5, <2>1 DEF Script
<1>7. PICK k \in DOMAIN plan :
          /\ status[f] = "running" /\ DoneTo(f, k - 1)
          /\ todo = Release(Opening(k), f, k) \/ todo = <<Enqueue(f, plan[k])>>
  BY <1>6 DEF ReleasesStep
<1>8. PICK s \in Steps : s = plan[k]
  BY DEF Base, TypeOK
<1>9. todo = <<Enqueue(f, s)>> /\ todo' = <<>>
  <2>1. PICK a, c : /\ a = Publishing(Notice(Opening(k), f, plan[k], k - 1))
                    /\ c = Enqueue(f, plan[k])
    OBVIOUS
  <2>2. todo = <<a, c>> \/ todo = <<c>>
    BY <1>7, <2>1 DEF Release
  <2>3. todo # <<a, c>>
    BY <1>1, <2>1, ThreeEffects DEF Publishing
  <2> QED
    BY <1>1, <1>8, <2>1, <2>2, <2>3, ThreeEffects
<1>10. Carries(f)
  BY <1>9 DEF Carries
<1>11. f \notin unpublished /\ Due(f) = {} /\ Waiting(f) = {} /\ Running(f) = {} /\ Orderly(f)
  BY <1>2, <1>3, <1>10 DEF Orderly, OneTurn
<1>12. \A g \in Executions : Due(g)' = Due(g) /\ Running(g)' = Running(g) /\ ~Carries(g)'
  BY <1>1, <1>9, SameTopic DEF Carries, Running, Exec
<1>13. \A g \in Executions, r \in Steps :
           queued'[<<g, r>>] = IF g = f /\ r = s THEN queued[<<g, r>>] + 1 ELSE queued[<<g, r>>]
  <2>1. PICK c : c = Enqueue(f, s)
    OBVIOUS
  <2>2. Head(todo).task = <<f, s>>
    <3>1. Head(todo) = c
      BY <1>9, <2>1, ThreeEffects
    <3> QED
      BY <2>1, <3>1 DEF Enqueue
  <2>3. queued' = [queued EXCEPT ![<<f, s>>] = @ + 1]
    BY <1>1, <2>2
  <2> QED
    BY <2>3 DEF Base, TypeOK, Tasks
<1>14. ASSUME NEW g \in Executions, g # f
       PROVE  Untouched(g)
  <2>1. \A r \in Steps : queued'[<<g, r>>] = queued[<<g, r>>]
    BY <1>13, <1>14
  <2>2. \A r \in Steps : queued'[<<g, r>>] <= queued[<<g, r>>]
    BY <2>1, Quantities DEF Base
  <2> QED
    BY <1>1, <1>12, <2>2 DEF Untouched, Undisturbed, Running, Exec
<1>15. \A r \in Steps : queued[<<f, r>>] = 0
  BY <1>11, Quantities DEF Base, Waiting
<1>16. Waiting(f)' = {s} /\ \A r \in Steps : queued'[<<f, r>>] <= 1
  BY <1>13, <1>15 DEF Waiting
<1>17. OneTurn(f)'
  BY <1>1, <1>11, <1>12, <1>16 DEF OneTurn
<1>18. TurnFits(f)'
  <2>1. status'[f] = "running" /\ f \notin unpublished' /\ Due(f)' = {} /\ Running(f)' = {}
    BY <1>1, <1>7, <1>11, <1>12
  <2>2. DoneTo(f, k - 1)' /\ plan'[k] = s /\ k \in DOMAIN plan'
    BY <1>1, <1>7, <1>8 DEF DoneTo
  <2> QED
    BY <1>16, <2>1, <2>2 DEF TurnFits, Working
<1>19. Orderly(f)'
  BY <1>1, <1>11, <1>17, <1>18 DEF Orderly, Prefix
<1>20. Script(x)'
  BY <1>9 DEF Script
<1>21. StopInHand(x)'
  BY <1>1, <1>2, <1>3, <1>5 DEF StopInHand
<1> QED
  BY <1>1, <1>2, <1>14, <1>19, <1>20, <1>21, HandlerGoesOn

(* A restart is all its handler does. *)
LEMMA RestartAlone ==
    ASSUME Base, TurnInv, NextEffectIs("restart")
    PROVE  todo = <<[op |-> "restart"]>> /\ Tail(todo) = <<>>
<1>1. mode = "handling" /\ todo # <<>> /\ Head(todo).op = "restart"
  BY DEF NextEffectIs
<1>2. PICK x : x = NextEvent(current) /\ Script(x)
  BY <1>1 DEF TurnInv, HandlerFits
<1>3. PICK f : f = x.exec
  OBVIOUS
<1>4. ~Starts(f) /\ ~ReleasesStep(f) /\ ~Completes(f) /\ ~FailsPlan(f, x.step) /\ ~Stops(f)
  <2>1. ASSUME NEW b, NEW c
        PROVE  todo # <<SetStatus(f, "running")>> \o <<b, c>>
    BY <1>1, ThreeEffects DEF SetStatus
  <2>2. ~Starts(f)
    BY <2>1 DEF Starts, Complete, Release
  <2>3. ~ReleasesStep(f)
    BY <1>1, ThreeEffects DEF ReleasesStep, Release, Publishing, Enqueue
  <2> QED
    BY <1>1, <2>2, <2>3, ThreeEffects
       DEF Completes, Complete, FailsPlan, StepFailedEffects, Stops, SetStatus, Publishing
<1>5. todo # StopEffects(f)
  BY <1>1, ThreeEffects DEF StopEffects, SetStatus
<1>6. Restarts
  <2>1. Script(x) /\ todo # <<>>
    BY <1>1, <1>2
  <2> QED
    BY <1>3, <1>4, <1>5, <2>1 DEF Script
<1>7. todo = <<[op |-> "restart"]>> /\ Tail(todo) = <<>>
  <2>1. ASSUME NEW y
        PROVE  todo # <<Publishing(y)>>
    BY <1>1, ThreeEffects DEF Publishing
  <2>2. PICK r : r = [op |-> "restart"]
    OBVIOUS
  <2>3. todo = <<r>>
    BY <1>6, <2>1, <2>2 DEF Restarts
  <2> QED
    BY <2>2, <2>3, ThreeEffects
<1> QED
  BY <1>7

LEMMA TurnRestart ==
    ASSUME Base, Base', Grows, plan' = plan, TurnInv, DoRestart
    PROVE  TurnInv'
<1>1. /\ mode = "handling" /\ todo # <<>> /\ Head(todo).op = "restart"
      /\ UNCHANGED <<log, mode, current, offset, rows, unpublished, queued, pc, task>>
  BY DEF DoRestart, NextEffectIs, kafkaVars, nodeVars, workerVars, outsideVars, apiVars
<1>2. PICK x \in Event :
          /\ x = NextEvent(current) /\ NextEvent(current)' = x
          /\ x.exec \in Executions /\ status[x.exec] # "absent" /\ Orderly(x.exec)
          /\ Script(x) /\ StopInHand(x)
  BY <1>1, EventInHand
<1>3. PICK f \in Executions : f = x.exec
  BY <1>2
<1>5. todo # StopEffects(f)
  BY <1>1, ThreeEffects DEF StopEffects, SetStatus
<1>7. todo = <<[op |-> "restart"]>> /\ Tail(todo) = <<>>
  BY RestartAlone DEF DoRestart
<1>8. ASSUME NEW e \in Executions, status[e] = "absent",
             status' = [status EXCEPT ![e] = "pending"],
             todo' = <<Publishing(Requested(e))>> \o Tail(todo)
      PROVE  TurnInv'
  <2>1. todo' = <<Publishing(Requested(e))>>
    <3>1. PICK y : y = Publishing(Requested(e))
      OBVIOUS
    <3>2. <<y>> \in Seq({y}) /\ <<y>> \o <<>> = <<y>>
      BY ConcatEmptySeq
    <3> QED
      BY <1>7, <1>8, <3>1, <3>2
  <2>2. status'[e] = "pending" /\ \A g \in Executions : g # e => status'[g] = status[g]
    BY <1>8 DEF Base, TypeOK
  <2>3. /\ Orderly(e) /\ e \notin unpublished /\ rows[e] = <<>>
        /\ Due(e) = {} /\ Waiting(e) = {} /\ Running(e) = {}
    BY <1>8 DEF TurnInv, Orderly, TurnFits, Idle
  <2>4. \A g \in Executions :
            Due(g)' = Due(g) /\ Running(g)' = Running(g) /\ Waiting(g)' = Waiting(g)
    BY <1>1, SameTopic DEF Running, Exec, Waiting
  <2>5. Orderly(e)'
    BY <1>1, <2>2, <2>3, <2>4, TurnWithHandler DEF Base
  <2>6. ASSUME NEW g \in Executions, g # e
        PROVE  Untouched(g)
    <3>1. ~Carries(g)'
      <4>1. todo'[1] = Publishing(Requested(e)) /\ DOMAIN todo' = {1}
        BY <2>1
      <4>2. Publishing(Requested(e)) # Publishing(Requested(g))
        BY <2>6 DEF Publishing, Requested, Notice
      <4>3. \A s \in Steps : Publishing(Requested(e)) # Enqueue(g, s)
        BY DEF Publishing, Enqueue
      <4> QED
        BY <4>1, <4>2, <4>3 DEF Carries
    <3>2. \A s \in Steps : queued'[<<g, s>>] <= queued[<<g, s>>]
      BY <1>1 DEF Base, TypeOK, Tasks
    <3> QED
      BY <1>1, <2>2, <2>4, <2>6, <3>1, <3>2 DEF Untouched, Undisturbed, Running, Exec
  <2>7. Restarts'
    <3>1. Fresh(e)'
      BY <1>1, <2>2, <2>3 DEF Fresh
    <3> QED
      BY <2>1, <3>1 DEF Restarts, Publishing, Requested, Notice
  <2>8. Script(x)'
    BY <2>7 DEF Script
  <2>9. StopInHand(x)'
    BY <1>2, <1>3, <1>5, <1>8, <2>2 DEF StopInHand
  <2> QED
    BY <1>1, <1>2, <1>8, <2>2, <2>5, <2>6, <2>8, <2>9, HandlerGoesOn
<1>9. CASE todo' = Tail(todo) /\ UNCHANGED status
  <2>1. Script(x)' /\ \A e \in Executions : Due(e)' = Due(e)
    BY <1>1, <1>7, <1>9, SameTopic DEF Script
  <2>2. Head(todo).op # "set-status"
    BY <1>1
  <2> QED
    BY <1>1, <1>2, <1>9, <2>1, <2>2, PlainEffect
<1> QED
  BY <1>8, <1>9 DEF DoRestart

LEMMA TurnCommit ==
    ASSUME Base, Base', Grows, plan' = plan, TurnInv, Commit
    PROVE  TurnInv'
<1>1. /\ mode = "handling" /\ mode' = "polling" /\ current' = NoPartition /\ todo = <<>> /\ todo' = <<>>
      /\ UNCHANGED <<log, status, rows, unpublished, queued, pc, task>>
      /\ offset' = [offset EXCEPT ![current] = @ + 1]
      /\ current \in Partitions
  BY DEF Commit, dbVars, nodeVars, workerVars, outsideVars, apiVars, Base, TypeOK
<1>2. \A p \in Partitions : offset'[p] = IF p = current THEN offset[p] + 1 ELSE offset[p]
  BY <1>1 DEF Base, TypeOK
<1>3. \A p \in Partitions : Taken(p)' = Taken(p)
  BY <1>1, <1>2 DEF Taken
<1>4. ASSUME NEW e \in Executions
      PROVE  Untouched(e)
  <2>1. Due(e)' = Due(e)
    BY <1>1, <1>3, PartitionOfAssumption DEF Due, History
  <2>2. \A s \in Steps : queued'[<<e, s>>] <= queued[<<e, s>>]
    BY <1>1 DEF Base, TypeOK, Tasks
  <2> QED
    BY <1>1, <2>1, <2>2 DEF Untouched, Undisturbed, Carries, Running, Exec
<1>5. \A e \in Executions : Orderly(e)'
  BY <1>4, TurnKept DEF Untouched, TurnInv, Base
<1>6. ASSUME NEW p \in Partitions, NEW i \in 1..offset'[p], log'[p][i].type = "stop-requested"
      PROVE  status'[log'[p][i].exec] \in {"cancelled", "failed"}
  <2>1. CASE i \in 1..offset[p]
    BY <1>1, <1>6, <2>1 DEF TurnInv, StopsAreKept
  <2>2. CASE i \notin 1..offset[p]
    <3>1. p = current /\ i = offset[p] + 1
      <4>1. PICK m \in Nat : m = offset[p]
        BY DEF Base, TypeOK
      <4>2. p = current /\ i \in 1..(m + 1) /\ i \notin 1..m
        BY <1>2, <1>6, <2>2, <4>1
      <4> QED
        BY <4>1, <4>2
    <3>2. StopInHand(NextEvent(current)) /\ log[p][i] = NextEvent(current)
      BY <1>1, <3>1 DEF TurnInv, HandlerFits, NextEvent
    <3>3. todo # StopEffects(NextEvent(current).exec)
      BY <1>1 DEF StopEffects
    <3> QED
      BY <1>1, <1>6, <3>2, <3>3 DEF StopInHand
  <2> QED
    BY <2>1, <2>2
<1>7. HandlerFits' /\ StopsAreKept'
  BY <1>1, <1>6 DEF HandlerFits, StopsAreKept
<1> QED
  BY <1>5, <1>7 DEF TurnInv

(* An event the handler does nothing about. *)
LEMMA TurnSkip ==
    ASSUME Base, Base', Grows, plan' = plan, TurnInv, NEW p \in Partitions, Skip(p)
    PROVE  TurnInv'
<1>1. /\ mode = "polling" /\ Handle(NextEvent(p)) = <<>>
      /\ UNCHANGED <<log, mode, current, todo, status, rows, unpublished, queued, pc, task>>
      /\ offset' = [offset EXCEPT ![p] = @ + 1]
  BY DEF Skip, HasNext, dispatcherVars, dbVars, nodeVars, workerVars, outsideVars, apiVars
<1>2. \A q \in Partitions : offset'[q] = IF q = p THEN offset[q] + 1 ELSE offset[q]
  BY <1>1 DEF Base, TypeOK
<1>3. \A q \in Partitions : Taken(q)' >= Taken(q) /\ Taken(q) \in Nat /\ Taken(q)' \in Nat
  BY <1>1, <1>2 DEF Taken, Base, TypeOK
<1>4. ASSUME NEW e \in Executions
      PROVE  Untouched(e)
  <2>1. Due(e)' \subseteq Due(e)
    BY <1>1, <1>3, LessDue
  <2>2. \A s \in Steps : queued'[<<e, s>>] <= queued[<<e, s>>]
    BY <1>1 DEF Base, TypeOK, Tasks
  <2> QED
    BY <1>1, <2>1, <2>2 DEF Untouched, Undisturbed, Carries, Running, Exec
<1>5. \A e \in Executions : Orderly(e)'
  BY <1>4, TurnKept DEF Untouched, TurnInv, Base
<1>6. ASSUME NEW q \in Partitions, NEW i \in 1..offset'[q], log'[q][i].type = "stop-requested"
      PROVE  status'[log'[q][i].exec] \in {"cancelled", "failed"}
  <2>1. CASE i \in 1..offset[q]
    BY <1>1, <1>6, <2>1 DEF TurnInv, StopsAreKept
  <2>2. CASE i \notin 1..offset[q]
    <3>1. q = p /\ i = offset[q] + 1
      <4>1. PICK m \in Nat : m = offset[q]
        BY DEF Base, TypeOK
      <4>2. q = p /\ i \in 1..(m + 1) /\ i \notin 1..m
        BY <1>2, <1>6, <2>2, <4>1
      <4> QED
        BY <4>1, <4>2
    <3>2. NextEvent(p).type = "stop-requested"
      BY <1>1, <1>6, <3>1 DEF NextEvent
    <3>3. Handle(NextEvent(p)) = StopEffects(NextEvent(p).exec)
      BY <3>2 DEF Handle
    <3> QED
      BY <1>1, <3>3 DEF StopEffects
  <2> QED
    BY <2>1, <2>2
<1>7. HandlerFits' /\ StopsAreKept'
  BY <1>1, <1>6 DEF HandlerFits, StopsAreKept, TurnInv
<1> QED
  BY <1>5, <1>7 DEF TurnInv

(* Effects that give nobody the turn of execution g. *)
NotFor(effect, g) ==
    /\ effect # Publishing(Requested(g))
    /\ \A s \in Steps : effect # Enqueue(g, s)

LEMMA MostEffects ==
    ASSUME NEW f, NEW g
    PROVE  /\ \A s : NotFor(SetStatus(f, s), g)
           /\ NotFor([op |-> "revoke", exec |-> f], g) /\ NotFor([op |-> "restart"], g)
           /\ \A type, s, n : type # "requested" => NotFor(Publishing(Notice(type, f, s, n)), g)
           /\ f # g => \A s : NotFor(Enqueue(f, s), g)
BY DEF NotFor, SetStatus, Publishing, Notice, Requested, Enqueue

LEMMA FewEffects ==
    ASSUME NEW g, NEW a, NEW b, NEW c, NotFor(a, g), NotFor(b, g), NotFor(c, g),
           todo' \in {<<a>>, <<a, b>>, <<a, b, c>>}
    PROVE  ~Carries(g)'
<1>1. PICK h : h = todo'
  OBVIOUS
<1>2. \A i \in DOMAIN h : h[i] \in {a, b, c}
  <2>1. CASE h = <<a>>
    BY <2>1
  <2>2. CASE h = <<a, b>>
    BY <2>2
  <2>3. CASE h = <<a, b, c>>
    BY <2>3
  <2> QED
    BY <1>1, <2>1, <2>2, <2>3
<1>3. \A i \in DOMAIN h : NotFor(h[i], g)
  BY <1>2
<1> QED
  BY <1>1, <1>3 DEF Carries, NotFor

LEMMA TurnPoll ==
    ASSUME Base, Base', Grows, plan' = plan, TurnInv, NEW p \in Partitions, Poll(p)
    PROVE  TurnInv'
<1>1. /\ mode = "polling" /\ mode' = "handling" /\ current' = p
      /\ Handle(NextEvent(p)) # <<>> /\ todo' = Handle(NextEvent(p)) /\ ~Raises(NextEvent(p))
      /\ UNCHANGED <<log, offset, status, rows, unpublished, queued, pc, task>>
  BY DEF Poll, HasNext, kafkaVars, dbVars, nodeVars, workerVars, outsideVars, apiVars
<1>2. PICK x \in Event : x = NextEvent(p)
  BY NextEventType DEF Poll, Base
<1>3. PICK o \in Nat : o = offset[p] /\ o + 1 \in DOMAIN log[p]
  BY DEF Poll, HasNext, Base, TypeOK
<1>4. PICK f \in Executions : f = x.exec
  BY DEF Event
<1>5. log[p][o + 1] = x /\ EventIsKnown(x) /\ PartitionOf[f] = p /\ History(f) = log[p]
  BY <1>2, <1>3, <1>4
     DEF NextEvent, Base, RunInv, Known, Earned, ProgressIsEarned, EventsAreEarned, History
<1>6. status[f] # "absent" /\ NextEvent(current)' = x /\ Orderly(f)
  BY <1>1, <1>2, <1>4, <1>5 DEF EventIsKnown, NextEvent, TurnInv
<1>7. todo = <<>> /\ \A g \in Executions : ~Carries(g)
  BY <1>1 DEF Base, RunInv, HandlerIsGuarded, Carries
<1>8. Taken(p) = o /\ Taken(p)' = o + 1 /\ \A q \in Partitions : q # p => Taken(q)' = Taken(q)
  BY <1>1, <1>3 DEF Taken
<1>9. \A g \in Executions :
          Due(g)' \subseteq Due(g) /\ Waiting(g)' = Waiting(g) /\ Running(g)' = Running(g)
  <2>1. \A q \in Partitions : Taken(q) <= Taken(q)'
    <3>1. \A q \in Partitions : Taken(q) \in Nat
      BY TakenType DEF Base
    <3> QED
      BY <1>3, <1>8, <3>1
  <2> QED
    BY <1>1, <2>1, LessDue DEF Waiting, Running, Exec
<1>10. ASSUME NEW g \in Executions, ~Carries(g)'
       PROVE  Orderly(g)'
  <2>1. \A s \in Steps : queued'[<<g, s>>] <= queued[<<g, s>>]
    BY <1>1 DEF Base, TypeOK, Tasks
  <2>2. Undisturbed(g) /\ status'[g] = status[g]
    BY <1>1, <1>9, <1>10, <2>1 DEF Undisturbed, Running, Exec
  <2>3. Orderly(g)
    BY DEF TurnInv
  <2> QED
    BY <2>2, <2>3, TurnKept DEF Base
<1>11. ASSUME x.type \in Moves
       PROVE  /\ f \notin unpublished' /\ Due(f)' = {} /\ Waiting(f)' = {} /\ Running(f)' = {}
              /\ DueFits(f, x) /\ Orderly(f)'
  <2>1. o + 1 \in Due(f)
    BY <1>3, <1>4, <1>5, <1>8, <1>11 DEF Due
  <2>2. f \notin unpublished /\ Waiting(f) = {} /\ Running(f) = {} /\ Due(f) = {o + 1}
    BY <1>6, <2>1 DEF Orderly, OneTurn
  <2>3. o + 1 \notin Due(f)'
    BY <1>5, <1>8 DEF Due
  <2>4. f \notin unpublished' /\ Due(f)' = {} /\ Waiting(f)' = {} /\ Running(f)' = {}
    BY <1>1, <1>9, <2>2, <2>3
  <2>5. DueFits(f, x)
    BY <1>5, <1>6, <2>1 DEF Orderly, TurnFits
  <2> QED
    BY <1>1, <1>6, <2>4, <2>5, TurnWithHandler DEF Base
<1>12. ASSUME NEW a, NEW b, NEW c, todo' \in {<<a>>, <<a, b>>, <<a, b, c>>},
              \A g \in Executions : g # f => NotFor(a, g) /\ NotFor(b, g) /\ NotFor(c, g),
              Orderly(f)', Script(x)', StopInHand(x)'
       PROVE  TurnInv'
  <2>1. \A g \in Executions : Orderly(g)'
    BY <1>10, <1>12, FewEffects
  <2>2. HandlerFits'
    BY <1>1, <1>6, <1>12 DEF HandlerFits
  <2>3. StopsAreKept'
    BY <1>1 DEF TurnInv, StopsAreKept
  <2> QED
    BY <2>1, <2>2, <2>3 DEF TurnInv
<1>13. CASE x.type = "requested"
  <2>1. /\ status[f] # "cancelled"
        /\ todo' = <<SetStatus(f, "running")>> \o
                   IF plan = <<>> THEN Complete(f, 0) ELSE Release("plan-started", f, 1)
    BY <1>1, <1>2, <1>4, <1>13 DEF Handle, StartEffects
  <2>2. x.type \in Moves /\ x.type # "stop-requested"
    BY <1>13 DEF Moves
  <2>3. /\ f \notin unpublished' /\ Due(f)' = {} /\ Waiting(f)' = {} /\ Running(f)' = {}
        /\ DueFits(f, x) /\ Orderly(f)'
    BY <1>11, <2>2
  <2>4. status'[f] = "pending" /\ rows'[f] = <<>>
    BY <1>1, <1>13, <2>1, <2>3 DEF DueFits, Fresh
  <2>5. StopInHand(x)'
    BY <2>2 DEF StopInHand
  <2>6. PICK a : a = SetStatus(f, "running")
    OBVIOUS
  <2>7. CASE plan = <<>>
    <3>1. PICK b, c : /\ b = SetStatus(f, "completed")
                      /\ c = Publishing(Notice("plan-completed", f, NoStep, 0))
      OBVIOUS
    <3>2. todo' = <<a, b, c>>
      <4>1. todo' = <<SetStatus(f, "running")>> \o Complete(f, 0)
        BY <2>1, <2>7
      <4>2. todo' = <<a>> \o <<b, c>>
        BY <2>6, <3>1, <4>1 DEF Complete
      <4>3. <<a>> \o <<b, c>> = <<a, b, c>>
        BY OneAndThenTwo
      <4> QED
        BY <4>2, <4>3
    <3>3. \A g \in Executions : NotFor(a, g) /\ NotFor(b, g) /\ NotFor(c, g)
      BY <2>6, <3>1, MostEffects
    <3>4. ~Carries(f)'
      BY <3>2, <3>3, FewEffects
    <3>5. Idle(f)'
      BY <2>3, <3>4 DEF Idle
    <3>6. Starts(f)'
      BY <2>1, <2>4, <2>7, <3>5 DEF Starts, Complete, SetStatus, Publishing, Notice
    <3>7. Script(x)'
      BY <1>4, <3>6 DEF Script
    <3> QED
      BY <1>12, <2>3, <2>5, <3>2, <3>3, <3>7
  <2>8. CASE plan # <<>>
    <3>1. PICK b, c : /\ b = Publishing(Notice("plan-started", f, plan[1], 1 - 1))
                      /\ c = Enqueue(f, plan[1])
      OBVIOUS
    <3>2. todo' = <<a, b, c>>
      <4>1. todo' = <<SetStatus(f, "running")>> \o Release("plan-started", f, 1)
        BY <2>1, <2>8
      <4>2. todo' = <<a>> \o <<b, c>>
        BY <2>6, <3>1, <4>1 DEF Release
      <4>3. <<a>> \o <<b, c>> = <<a, b, c>>
        BY OneAndThenTwo
      <4> QED
        BY <4>2, <4>3
    <3>3. \A g \in Executions : g # f => NotFor(a, g) /\ NotFor(b, g) /\ NotFor(c, g)
      BY <2>6, <3>1, MostEffects
    <3>4. Starts(f)'
      BY <2>1, <2>4, <2>8 DEF Starts, Release, SetStatus, Publishing, Notice, Enqueue
    <3>5. Script(x)'
      BY <1>4, <3>4 DEF Script
    <3> QED
      BY <1>12, <2>3, <2>5, <3>2, <3>3, <3>5
  <2> QED
    BY <2>7, <2>8
<1>14. CASE x.type = "step-completed"
  <2>1. /\ status[f] # "cancelled"
        /\ todo' = IF Position(x.step) = Len(plan) THEN Complete(f, Len(plan))
                   ELSE Release("plan-progressed", f, Position(x.step) + 1)
    BY <1>1, <1>2, <1>4, <1>14 DEF Handle, StepCompletedEffects
  <2>2. x.type \in Moves /\ x.type # "stop-requested"
    BY <1>14 DEF Moves
  <2>3. /\ f \notin unpublished' /\ Due(f)' = {} /\ Waiting(f)' = {} /\ Running(f)' = {}
        /\ DueFits(f, x) /\ Orderly(f)'
    BY <1>11, <2>2
  <2>4. status[f] = "running" /\ \E k \in DOMAIN plan : plan[k] = x.step /\ DoneTo(f, k)
    BY <1>14, <2>1, <2>3 DEF DueFits, Working
  <2>5. PICK k \in DOMAIN plan : plan[k] = x.step /\ DoneTo(f, k)
    BY <2>4
  <2>6. Position(x.step) = k
    BY <2>5 DEF Position, Base, Earned, PlanIsInjective
  <2>7. k \in 1..Len(plan) /\ Len(plan) \in Nat /\ DOMAIN plan = 1..Len(plan)
    <3>1. plan \in Seq(Steps)
      BY DEF Base, TypeOK
    <3> QED
      BY <3>1
  <2>8. StopInHand(x)'
    BY <2>2 DEF StopInHand
  <2>9. CASE k = Len(plan)
    <3>1. todo' = Complete(f, Len(plan))
      BY <2>1, <2>6, <2>9
    <3>2. PICK a, b : /\ a = SetStatus(f, "completed")
                      /\ b = Publishing(Notice("plan-completed", f, NoStep, Len(plan)))
      OBVIOUS
    <3>3. todo' = <<a, b>>
      BY <3>1, <3>2 DEF Complete
    <3>4. \A g \in Executions : NotFor(a, g) /\ NotFor(b, g)
      BY <3>2, MostEffects
    <3>5. ~Carries(f)'
      BY <3>3, <3>4, FewEffects
    <3>6. Idle(f)'
      BY <2>3, <3>5 DEF Idle
    <3>7. Completes(f)'
      BY <1>1, <2>4, <3>1, <3>6 DEF Completes, Complete, SetStatus, Publishing, Notice
    <3>8. Script(x)'
      BY <1>4, <3>7 DEF Script
    <3> QED
      BY <1>12, <2>3, <2>8, <3>3, <3>4, <3>8
  <2>10. CASE k # Len(plan)
    <3>1. todo' = Release("plan-progressed", f, k + 1)
      BY <2>1, <2>6, <2>10
    <3>2. k + 1 \in DOMAIN plan /\ (k + 1) - 1 = k /\ Opening(k + 1) = "plan-progressed"
      <4>1. k \in Nat /\ k >= 1 /\ k + 1 \in 1..Len(plan)
        BY <2>7, <2>10
      <4>2. k + 1 # 1 /\ (k + 1) - 1 = k
        BY <4>1
      <4> QED
        BY <2>7, <4>1, <4>2 DEF Opening
    <3>3. PICK a, b : /\ a = Publishing(Notice("plan-progressed", f, plan[k + 1], (k + 1) - 1))
                      /\ b = Enqueue(f, plan[k + 1])
      OBVIOUS
    <3>4. todo' = <<a, b>>
      BY <3>1, <3>3 DEF Release
    <3>5. \A g \in Executions : g # f => NotFor(a, g) /\ NotFor(b, g)
      BY <3>3, MostEffects
    <3>6. ReleasesStep(f)'
      <4>1. DoneTo(f, k)' /\ status'[f] = "running"
        BY <1>1, <2>4, <2>5 DEF DoneTo
      <4>2. todo' = Release(Opening(k + 1), f, k + 1)'
        BY <3>1, <3>2 DEF Release, Publishing, Notice, Enqueue
      <4>3. DoneTo(f, (k + 1) - 1)' /\ k + 1 \in DOMAIN plan'
        BY <3>2, <4>1
      <4> QED
        BY <4>1, <4>2, <4>3 DEF ReleasesStep
    <3>7. Script(x)'
      BY <1>4, <3>6 DEF Script
    <3> QED
      BY <1>12, <2>3, <2>8, <3>4, <3>5, <3>7
  <2> QED
    BY <2>9, <2>10
<1>15. CASE x.type = "step-failed"
  <2>1. todo' = StepFailedEffects(f, x.step)
    BY <1>1, <1>2, <1>4, <1>15 DEF Handle
  <2>2. x.type \in Moves /\ x.type # "stop-requested"
    BY <1>15 DEF Moves
  <2>3. /\ f \notin unpublished' /\ Due(f)' = {} /\ Waiting(f)' = {} /\ Running(f)' = {}
        /\ Orderly(f)'
    BY <1>11, <2>2
  <2>4. PICK a, b : /\ a = SetStatus(f, "failed")
                    /\ b = Publishing(Notice("plan-failed", f, x.step, 0))
    OBVIOUS
  <2>5. todo' = <<a, b>>
    BY <2>1, <2>4 DEF StepFailedEffects
  <2>6. \A g \in Executions : NotFor(a, g) /\ NotFor(b, g)
    BY <2>4, MostEffects
  <2>7. ~Carries(f)'
    BY <2>5, <2>6, FewEffects
  <2>8. Idle(f)'
    BY <2>3, <2>7 DEF Idle
  <2>9. FailsPlan(f, x.step)'
    BY <2>1, <2>8 DEF FailsPlan, StepFailedEffects, SetStatus, Publishing, Notice
  <2>10. Script(x)' /\ StopInHand(x)'
    BY <1>4, <2>2, <2>9 DEF Script, StopInHand
  <2> QED
    BY <1>12, <2>3, <2>5, <2>6, <2>10
<1>16. CASE x.type = "stop-requested"
  <2>1. todo' = StopEffects(f)
    BY <1>1, <1>2, <1>4, <1>16 DEF Handle
  <2>2. PICK a, b, c : /\ a = SetStatus(f, "cancelled") /\ b = [op |-> "revoke", exec |-> f]
                       /\ c = Publishing(Notice("plan-stopped", f, NoStep, 0))
    OBVIOUS
  <2>3. todo' = <<a, b, c>>
    BY <2>1, <2>2 DEF StopEffects
  <2>4. \A g \in Executions : NotFor(a, g) /\ NotFor(b, g) /\ NotFor(c, g)
    BY <2>2, MostEffects
  <2>5. ~Carries(f)'
    BY <2>3, <2>4, FewEffects
  <2>6. todo' = StopEffects(f)'
    BY <2>1 DEF StopEffects, SetStatus, Publishing, Notice
  <2>7. Script(x)' /\ StopInHand(x)'
    BY <1>4, <2>6 DEF Script, StopInHand
  <2> QED
    BY <1>10, <1>12, <2>3, <2>4, <2>5, <2>7
<1>17. CASE x.type = "restart-requested"
  <2>1. PICK a : a = [op |-> "restart"]
    OBVIOUS
  <2>2. todo' = <<a>>
    BY <1>1, <1>2, <1>17, <2>1 DEF Handle
  <2>3. \A g \in Executions : NotFor(a, g)
    BY <2>1, MostEffects
  <2>4. ~Carries(f)'
    BY <2>2, <2>3, FewEffects
  <2>5. Script(x)' /\ StopInHand(x)'
    BY <1>17, <2>1, <2>2 DEF Script, Restarts, StopInHand
  <2> QED
    BY <1>10, <1>12, <2>2, <2>3, <2>4, <2>5
<1> QED
  BY <1>1, <1>2, <1>13, <1>14, <1>15, <1>16, <1>17 DEF Handle

-----------------------------------------------------------------------------
LEMMA TurnDispatcher ==
    ASSUME Base, Base', Grows, plan' = plan, TurnInv, NoRedelivery, DispatcherStep
    PROVE  TurnInv'
BY TurnSkip, TurnPoll, TurnSetStatus, TurnPublish, TurnEnqueue, TurnRevoke, TurnRestart, TurnCommit
   DEF DispatcherStep, DoEffect

LEMMA PlanStays ==
    ASSUME [Next]_vars
    PROVE  plan' = plan
<1>1. CASE ApiStep
  BY <1>1 DEF ApiStep, Schedule, Retry, CreateExecution, CancelCheck, PublishRequest,
     CancelPublish, WsCommand, catalogVars, outsideVars
<1>2. CASE DispatcherStep
  BY <1>2 DEF DispatcherStep, DoEffect, Skip, Poll, DoSetStatus, DoPublish, DoEnqueue, DoRevoke,
     DoRestart, Commit, catalogVars, outsideVars
<1>3. CASE NodeStep
  BY <1>3 DEF NodeStep, Execute, NotifyStarted, NotifyCompleted, NotifyFailed, StartStep,
     Passes, Fails, RunRaises, Recover, Ack, CallRaises, ChildLost, Discard, Take,
     RevokeArrives, catalogVars, outsideVars
<1>4. CASE Environment \/ UNCHANGED vars
  BY <1>4 DEF Environment, CacheExpires, Crash, Restart, vars, catalogVars, outsideVars
<1> QED
  BY <1>1, <1>2, <1>3, <1>4 DEF Next

LEMMA TurnInit == Init => TurnInv
<1> SUFFICES ASSUME Init PROVE TurnInv
  OBVIOUS
<1>1. /\ mode = "polling" /\ todo = <<>> /\ unpublished = {}
      /\ \A p \in Partitions : log[p] = <<>> /\ offset[p] = 0
      /\ \A e \in Executions : status[e] = "absent" /\ rows[e] = <<>>
      /\ \A t \in Tasks : queued[t] = 0
      /\ \A w \in Workers : pc[w] = "idle"
      /\ TypeOK
  BY TypeInit DEF Init
<1>2. ASSUME NEW e \in Executions
      PROVE  Orderly(e)
  <2>1. History(e) = <<>> /\ Due(e) = {}
    BY <1>1, PartitionOfAssumption DEF History, Due
  <2>2. \A s \in Steps : queued[<<e, s>>] = 0
    BY <1>1 DEF Tasks
  <2>3. Waiting(e) = {} /\ Running(e) = {} /\ ~Carries(e)
    BY <1>1, <2>2 DEF Waiting, Running, Carries
  <2>4. OneTurn(e) /\ TurnFits(e)
    BY <1>1, <2>1, <2>2, <2>3 DEF OneTurn, TurnFits, Idle
  <2>5. Prefix(e)
    BY <1>1 DEF Prefix, TypeOK
  <2> QED
    BY <2>4, <2>5 DEF Orderly
<1> QED
  BY <1>1, <1>2 DEF TurnInv, HandlerFits, StopsAreKept

LEMMA TurnStep ==
    ASSUME Base, Base', TurnInv, NoRedelivery, [Next]_vars
    PROVE  TurnInv'
<1>1. Grows
  BY RunStep DEF Base, Keyed, Earned, ProgressIsEarned, EventsAreEarned
<1>2. plan' = plan
  BY PlanStays
<1>3. CASE UNCHANGED vars
  <2>1. UNCHANGED <<log, mode, current, todo, offset, status, rows, unpublished, queued, pc, task>>
    BY <1>3 DEF vars
  <2>2. ASSUME NEW e \in Executions
        PROVE  Untouched(e)
    <3>1. \A s \in Steps : queued'[<<e, s>>] <= queued[<<e, s>>]
      BY <2>1 DEF Base, TypeOK, Tasks
    <3> QED
      BY <2>1, <3>1, SameTopic DEF Untouched, Undisturbed, Carries, Running, Exec
  <2> QED
    BY <1>1, <1>2, <2>1, <2>2, OutsideStep
<1> QED
  BY <1>1, <1>2, <1>3, TurnApi, TurnDispatcher, TurnNode, TurnEnvironment DEF Next

(* Without a second delivery an execution has one turn: its request, a task *)
(* or the event of one is in one place, and a handler has one script.       *)
THEOREM TurnInvIsInductive ==
    ASSUME NoRedelivery
    PROVE  Spec => []TurnInv
<1>1. Base /\ Base' /\ TurnInv /\ [Next]_vars => TurnInv'
  BY TurnStep
<1>2. Base <=> TypeOK /\ Earned /\ RunInv
  BY DEF Base
<1> QED
  BY TurnInit, <1>1, <1>2, TypeCorrect, EarnedIsInductive, RunInvIsInductive, PTL DEF Spec

(* Where every execution has one turn, one step of it is in flight. *)
LEMMA SingleTurns ==
    ASSUME TypeOK, \A e \in Executions : OneTurn(e)
    PROVE  OneStepAtATime
<1> SUFFICES ASSUME NEW e \in Executions
             PROVE  /\ \A s \in Steps : queued[<<e, s>>] <= 1
                    /\ Cardinality(Waiting(e)) + Cardinality(Running(e)) <= 1
  BY DEF OneStepAtATime
<1>1. OneTurn(e)
  OBVIOUS
<1>2. ASSUME NEW S, \A x, y \in S : x = y
      PROVE  Cardinality(S) \in {0, 1} /\ (S = {} => Cardinality(S) = 0)
  <2>1. CASE S = {}
    BY <2>1, FS_EmptySet
  <2>2. CASE S # {}
    <3>1. PICK x : x \in S
      BY <2>2
    <3>2. S = {x}
      BY <1>2, <3>1
    <3> QED
      BY <2>2, <3>2, FS_Singleton
  <2> QED
    BY <2>1, <2>2
<1>3. PICK a, b : a = Cardinality(Waiting(e)) /\ b = Cardinality(Running(e))
  OBVIOUS
<1>4. a \in {0, 1} /\ b \in {0, 1} /\ (a = 0 \/ b = 0)
  BY <1>1, <1>2, <1>3 DEF OneTurn
<1> QED
  BY <1>1, <1>3, <1>4 DEF OneTurn

(* As long as nothing is delivered twice, one step of an execution at a time *)
(* waits in the broker or is with a worker.                                  *)
THEOREM OneStepCorrect ==
    ASSUME NoRedelivery
    PROVE  Spec => []OneStepAtATime
<1>1. TypeOK /\ TurnInv => OneStepAtATime
  BY SingleTurns DEF TurnInv, Orderly
<1> QED
  BY <1>1, TypeCorrect, TurnInvIsInductive, PTL

(* Nothing of a failed execution is queued or running. *)
THEOREM FailureCorrect ==
    ASSUME NoRedelivery
    PROVE  Spec => []FailureEndsExecution
<1>1. TurnInv => FailureEndsExecution
  BY DEF TurnInv, Orderly, TurnFits, Working, FailureEndsExecution
<1> QED
  BY <1>1, TurnInvIsInductive, PTL

(* The rows of an execution are the first steps of its plan, in order and   *)
(* once each, all but the last passed.                                       *)
THEOREM RowsCorrect ==
    ASSUME NoRedelivery
    PROVE  Spec => []RowsAreAPlanPrefix
<1>1. TurnInv => RowsAreAPlanPrefix
  BY DEF TurnInv, Orderly, Prefix, RowsAreAPlanPrefix
<1> QED
  BY <1>1, TurnInvIsInductive, PTL

(* A stop that was handled and committed is not undone. *)
THEOREM StopsCorrect ==
    ASSUME NoRedelivery
    PROVE  Spec => []StopsAreKept
<1>1. TurnInv => StopsAreKept
  BY DEF TurnInv
<1> QED
  BY <1>1, TurnInvIsInductive, PTL

-----------------------------------------------------------------------------
(* What subscribers are told.  As long as no event is lost either, whoever   *)
(* has the turn speaks next, and what was said last is what they expect.     *)
NoLoss == "lost" \notin FaultKinds

Latest(e, i) == i \in Transcript(e) /\ \A j \in Transcript(e) : j <= i

LastSaid(e, types, s) ==
    \E i \in DOMAIN History(e) :
        Latest(e, i) /\ History(e)[i].type \in types /\ History(e)[i].step = s

MaySay(ev) ==
    /\ Transcript(ev.exec) = {} => MayOpen(plan, ev)
    /\ \A i \in DOMAIN History(ev.exec) :
          Latest(ev.exec, i) => MayFollow(plan, History(ev.exec)[i], ev)

RunSoFar(e) ==
    \A i \in Transcript(e) :
        /\ {j \in Transcript(e) : j < i} = {} => MayOpen(plan, History(e)[i])
        /\ \A j \in Transcript(e) :
              j < i /\ (\A k \in Transcript(e) : k < i => k <= j)
                  => MayFollow(plan, History(e)[j], History(e)[i])

Releases == {"plan-started", "plan-progressed"}

(* What a worker at c has heard or said last of its step. *)
Heard(c) ==
    IF c = "notify_started" THEN Releases
    ELSE IF c \in {"recover", "notify_error"} THEN Releases \cup {"step-started"}
    ELSE {"step-started"}

WorkerTold(w) == LastSaid(Exec(w), Heard(pc[w]), Step(w))

Asked(e) == \E i \in DOMAIN todo : todo[i] = Publishing(Requested(e))

TurnTold(e) ==
    /\ e \in unpublished \/ Asked(e) => Transcript(e) = {}
    /\ \A i \in Due(e) :
          IF History(e)[i].type = "requested" THEN Transcript(e) = {} ELSE Latest(e, i)
    /\ \A s \in Waiting(e) : LastSaid(e, Releases, s)
    /\ \A w \in Running(e) : WorkerTold(w)

(* A handler speaks once, and only then queues what it spoke of. *)
Speaks(effect) == effect.op = "publish" /\ IsProgress(effect.event)

Announces(effect, e, s) ==
    /\ effect.op = "publish" /\ effect.event.type \in Releases
    /\ effect.event.exec = e /\ effect.event.step = s

EffectTold(i) ==
    /\ Speaks(todo[i]) => MaySay(todo[i].event)
    /\ \A e \in Executions, s \in Steps :
          todo[i] = Enqueue(e, s) =>
              LastSaid(e, Releases, s) \/ \E j \in DOMAIN todo : j < i /\ Announces(todo[j], e, s)

TalkInv ==
    /\ \A i \in DOMAIN todo : EffectTold(i)
    /\ \A e \in Executions : TurnTold(e) /\ RunSoFar(e)

Settled == Base /\ TurnInv

-----------------------------------------------------------------------------
(* Nothing is said of execution e. *)
LEMMA TranscriptKept ==
    ASSUME Grows, plan' = plan, NEW e \in Executions, Transcript(e)' = Transcript(e)
    PROVE  /\ \A i : Latest(e, i)' <=> Latest(e, i)
           /\ \A i \in Transcript(e) : History(e)'[i] = History(e)[i]
           /\ \A types, s : LastSaid(e, types, s) => LastSaid(e, types, s)'
           /\ RunSoFar(e) => RunSoFar(e)'
           /\ \A ev : ev.exec = e /\ MaySay(ev) => MaySay(ev)'
<1>1. \A i : Latest(e, i)' <=> Latest(e, i)
  BY DEF Latest
<1>2. \A i \in DOMAIN History(e) : i \in DOMAIN History(e)' /\ History(e)'[i] = History(e)[i]
  BY PartitionOfAssumption DEF Grows, History
<1>3. \A i \in Transcript(e) : i \in DOMAIN History(e) /\ History(e)'[i] = History(e)[i]
  BY <1>2 DEF Transcript
<1>4. \A types, s : LastSaid(e, types, s) => LastSaid(e, types, s)'
  BY <1>1, <1>2 DEF LastSaid
<1>5. RunSoFar(e) => RunSoFar(e)'
  BY <1>3 DEF RunSoFar
<1>6. \A i : Latest(e, i) => i \in DOMAIN History(e) /\ History(e)'[i] = History(e)[i]
  BY <1>3 DEF Latest
<1>7. \A ev : ev.exec = e /\ MaySay(ev) => MaySay(ev)'
  BY <1>1, <1>6 DEF MaySay
<1> QED
  BY <1>1, <1>3, <1>4, <1>5, <1>7

LEMMA MoreToldSaid ==
    ASSUME NEW e, NEW s, NEW types, NEW more, types \subseteq more, LastSaid(e, types, s)
    PROVE  LastSaid(e, more, s)
BY DEF LastSaid

(* A turn nobody speaks in. *)
LEMMA TurnToldKept ==
    ASSUME TypeOK, TypeOK', Grows, plan' = plan, NEW e \in Executions, TurnTold(e),
           Transcript(e)' = Transcript(e),
           e \in unpublished' => e \in unpublished, Asked(e)' => Asked(e),
           Due(e)' \subseteq Due(e),
           \A s \in Steps : queued'[<<e, s>>] <= queued[<<e, s>>],
           \A w \in Running(e)' :
               w \in Running(e) /\ task'[w] = task[w] /\ Heard(pc[w]) \subseteq Heard(pc'[w])
    PROVE  TurnTold(e)'
<1>1. e \in unpublished' \/ Asked(e)' => Transcript(e)' = {}
  BY DEF TurnTold
<1>2. ASSUME NEW i \in Due(e)'
      PROVE  IF History(e)'[i].type = "requested" THEN Transcript(e)' = {} ELSE Latest(e, i)'
  <2>1. i \in Due(e) /\ i \in DOMAIN History(e) /\ History(e)'[i] = History(e)[i]
    BY <1>2, PartitionOfAssumption DEF Due, Grows, History
  <2> QED
    BY <2>1, TranscriptKept DEF TurnTold
<1>3. ASSUME NEW s \in Waiting(e)'
      PROVE  LastSaid(e, Releases, s)'
  <2>1. s \in Waiting(e)
    BY <1>3 DEF Waiting, TypeOK, Tasks
  <2> QED
    BY <2>1, TranscriptKept DEF TurnTold
<1>4. ASSUME NEW w \in Running(e)'
      PROVE  WorkerTold(w)'
  <2>1. /\ w \in Running(e) /\ Exec(w) = e /\ Exec(w)' = e /\ Step(w)' = Step(w)
        /\ Heard(pc[w]) \subseteq Heard(pc[w])'
    BY <1>4 DEF Running, Exec, Step, Heard
  <2>2. LastSaid(e, Heard(pc[w]), Step(w))
    BY <2>1 DEF TurnTold, WorkerTold
  <2>3. PICK h, s : h = Heard(pc[w])' /\ s = Step(w)
    OBVIOUS
  <2>4. LastSaid(e, h, s)
    BY <2>1, <2>2, <2>3, MoreToldSaid
  <2>5. LastSaid(e, h, s)'
    BY <2>4, TranscriptKept
  <2> QED
    BY <2>1, <2>3, <2>5 DEF WorkerTold
<1> QED
  BY <1>1, <1>2, <1>3, <1>4 DEF TurnTold

(* A handler that goes on without speaking. *)
LEMMA EffectsToldKept ==
    ASSUME TypeOK, Grows, plan' = plan, \A i \in DOMAIN todo : EffectTold(i),
           \/ UNCHANGED todo
           \/ todo' = <<>>
           \/ todo # <<>> /\ todo' = Tail(todo) /\ ~Speaks(Head(todo)),
           \A e \in Executions :
               \/ Transcript(e)' = Transcript(e)
               \/ \A i \in DOMAIN todo : /\ Speaks(todo[i]) => todo[i].event.exec # e
                                         /\ \A s \in Steps : todo[i] # Enqueue(e, s)
    PROVE  \A i \in DOMAIN todo' : EffectTold(i)'
<1> SUFFICES ASSUME NEW k \in DOMAIN todo' PROVE EffectTold(k)'
  OBVIOUS
<1>1. todo \in Seq(Effect)
  BY DEF TypeOK
<1>2. PICK d \in {0, 1} :
          /\ \A j \in DOMAIN todo' : j + d \in DOMAIN todo /\ todo'[j] = todo[j + d]
          /\ \A j \in DOMAIN todo : j > d => j - d \in DOMAIN todo' /\ todo'[j - d] = todo[j]
          /\ d = 1 => ~Speaks(todo[1])
          /\ DOMAIN todo \subseteq Nat /\ DOMAIN todo' \subseteq Nat /\ 0 \notin DOMAIN todo
  <2>1. CASE UNCHANGED todo
    <3>1. \A j \in DOMAIN todo : j \in Nat /\ j > 0 /\ j + 0 = j /\ j - 0 = j
      BY <1>1
    <3> QED
      BY <2>1, <3>1
  <2>2. CASE todo' = <<>>
    BY <2>2
  <2>3. CASE todo # <<>> /\ todo' = Tail(todo) /\ ~Speaks(Head(todo))
    <3>1. DOMAIN todo = 1..Len(todo) /\ DOMAIN todo' = 1..(Len(todo) - 1) /\ Len(todo) \in Nat
      BY <1>1, <2>3
    <3>2. \A j \in 1..(Len(todo) - 1) : j + 1 \in 1..Len(todo) /\ todo'[j] = todo[j + 1]
      BY <1>1, <2>3
    <3>3. \A j \in 1..Len(todo) : j > 1 => j - 1 \in 1..(Len(todo) - 1) /\ (j - 1) + 1 = j
      BY <3>1
    <3>4. ~Speaks(todo[1])
      BY <1>1, <2>3
    <3> QED
      BY <3>1, <3>2, <3>3, <3>4
  <2> QED
    BY <2>1, <2>2, <2>3
<1>3. k + d \in DOMAIN todo /\ todo'[k] = todo[k + d] /\ EffectTold(k + d)
  BY <1>2
<1>4. ASSUME Speaks(todo[k])'
      PROVE  MaySay(todo[k].event)'
  <2>1. PICK ev \in Event : ev = todo[k + d].event /\ ev = todo'[k].event
    BY <1>3, <1>4, EffectType DEF Speaks, IsProgress
  <2>2. PICK g \in Executions : g = ev.exec
    BY DEF Event
  <2>3. Speaks(todo[k + d])
    BY <1>3, <1>4 DEF Speaks, IsProgress
  <2>4. Transcript(g)' = Transcript(g) /\ MaySay(ev)
    BY <1>3, <2>1, <2>2, <2>3 DEF EffectTold
  <2>5. MaySay(ev)'
    BY <2>2, <2>4, TranscriptKept
  <2> QED
    BY <2>1, <2>5 DEF MaySay, Transcript, Latest, History
<1>5. ASSUME NEW e \in Executions, NEW s \in Steps, todo'[k] = Enqueue(e, s)
      PROVE  LastSaid(e, Releases, s)' \/ \E j \in DOMAIN todo' : j < k /\ Announces(todo'[j], e, s)
  <2>1. todo[k + d] = Enqueue(e, s) /\ Transcript(e)' = Transcript(e)
    BY <1>3, <1>5
  <2>2. CASE LastSaid(e, Releases, s)
    <3>1. PICK types : types = Releases
      OBVIOUS
    <3>2. LastSaid(e, types, s)'
      BY <2>1, <2>2, <3>1, TranscriptKept
    <3> QED
      BY <3>1, <3>2 DEF Releases
  <2>3. CASE ~LastSaid(e, Releases, s)
    <3>1. PICK j \in DOMAIN todo : j < k + d /\ Announces(todo[j], e, s)
      BY <1>3, <2>1, <2>3 DEF EffectTold
    <3>2. j > d
      <4>1. Speaks(todo[j])
        BY <3>1 DEF Announces, Speaks, Releases, IsProgress
      <4>2. j # 1 \/ d # 1
        BY <1>2, <4>1
      <4> QED
        BY <1>2, <4>2
    <3>3. j - d \in DOMAIN todo' /\ todo'[j - d] = todo[j] /\ j - d < k
      BY <1>2, <3>1, <3>2
    <3> QED
      BY <3>1, <3>3
  <2> QED
    BY <2>2, <2>3
<1> QED
  BY <1>4, <1>5 DEF EffectTold, Enqueue, Announces, Releases

(* An event is published: the last word of its execution, if it is one. *)
LEMMA PublishedTranscript ==
    ASSUME Base, NoRedelivery, NoLoss, NEW ev \in Event, NEW n \in 0..2, Publish(ev, n),
           NEW e \in Executions, NEW m, m = Len(History(e)) + 1
    PROVE  /\ e # ev.exec \/ ~IsProgress(ev) => Transcript(e)' = Transcript(e)
           /\ e = ev.exec => m \in DOMAIN History(e)' /\ History(e)'[m] = ev
           /\ e = ev.exec /\ IsProgress(ev) => Transcript(e)' = Transcript(e) \cup {m}
           /\ m \in Nat /\ \A i \in DOMAIN History(e) : i \in Nat /\ i < m
           /\ \A i \in DOMAIN History(e)' : i \notin DOMAIN History(e) => i = m
<1> DEFINE q == PartitionOf[ev.exec]
           p == PartitionOf[e]
           copies == [i \in 1..n |-> ev]
<1>1. n = 1
  BY DEF Publish, Copies, NoRedelivery, NoLoss
<1>2. p \in Partitions /\ q \in Partitions /\ log[p] \in Seq(Event) /\ log[q] \in Seq(Event)
  BY PartitionOfAssumption DEF Base, TypeOK, Event
<1>3. log'[p] = IF p = q THEN log[q] \o copies ELSE log[p]
  BY <1>2 DEF Publish, Base, TypeOK
<1>4. Len(log[p]) \in Nat /\ DOMAIN log[p] = 1..Len(log[p])
  BY <1>2
<1>5. \A i \in DOMAIN log[p] : i \in DOMAIN log'[p] /\ log'[p][i] = log[p][i]
  BY <1>2, <1>3
<1>6. p = q => /\ DOMAIN log'[p] = DOMAIN log[p] \cup {Len(log[p]) + 1}
               /\ log'[p][Len(log[p]) + 1] = ev
  BY <1>1, <1>2, <1>3
<1>7. e # ev.exec \/ ~IsProgress(ev) => Transcript(e)' = Transcript(e)
  BY <1>3, <1>5, <1>6 DEF Transcript, History
<1>8. e = ev.exec => m \in DOMAIN History(e)' /\ History(e)'[m] = ev
  BY <1>6 DEF History
<1>9. e = ev.exec /\ IsProgress(ev) => Transcript(e)' = Transcript(e) \cup {m}
  BY <1>5, <1>6 DEF Transcript, History
<1>10. \A i \in DOMAIN History(e)' : i \notin DOMAIN History(e) => i = m
  BY <1>3, <1>6 DEF History
<1> QED
  BY <1>4, <1>7, <1>8, <1>9, <1>10 DEF History

LEMMA Spoken ==
    ASSUME Base, Grows, plan' = plan, NoRedelivery, NoLoss,
           NEW ev \in Event, NEW n \in 0..2, Publish(ev, n), IsProgress(ev),
           NEW e \in Executions, e = ev.exec, MaySay(ev), RunSoFar(e)
    PROVE  /\ RunSoFar(e)'
           /\ \A i \in DOMAIN History(e)' :
                 i \notin DOMAIN History(e) => Latest(e, i)'
           /\ \A types : ev.type \in types => LastSaid(e, types, ev.step)'
<1>1. PICK m : m = Len(History(e)) + 1
  OBVIOUS
<1>2. PICK T : T = Transcript(e)
  OBVIOUS
<1>3. /\ Transcript(e)' = T \cup {m} /\ History(e)'[m] = ev /\ m \in DOMAIN History(e)'
      /\ m \in Nat /\ \A i \in T : i \in Nat /\ i < m
  BY <1>1, <1>2, PublishedTranscript DEF Transcript
<1>4. \A i \in T : History(e)'[i] = History(e)[i]
  BY <1>2, PartitionOfAssumption DEF Grows, Transcript, History
<1>5. ASSUME NEW i \in Transcript(e)'
      PROVE  /\ {j \in Transcript(e)' : j < i} = {} => MayOpen(plan, History(e)'[i])
             /\ \A j \in Transcript(e)' :
                   j < i /\ (\A k \in Transcript(e)' : k < i => k <= j)
                       => MayFollow(plan, History(e)'[j], History(e)'[i])
  <2>1. CASE i \in T
    <3>1. ASSUME {j \in Transcript(e)' : j < i} = {}
          PROVE  MayOpen(plan, History(e)'[i])
      <4>1. {j \in T : j < i} = {}
        BY <1>3, <3>1
      <4> QED
        BY <1>2, <1>4, <2>1, <4>1 DEF RunSoFar
    <3>2. ASSUME NEW j \in Transcript(e)', j < i, \A k \in Transcript(e)' : k < i => k <= j
          PROVE  MayFollow(plan, History(e)'[j], History(e)'[i])
      <4>1. j \in T
        BY <1>3, <2>1, <3>2
      <4>2. \A k \in T : k < i => k <= j
        BY <1>3, <3>2
      <4>3. MayFollow(plan, History(e)[j], History(e)[i])
        BY <1>2, <2>1, <3>2, <4>1, <4>2 DEF RunSoFar
      <4> QED
        BY <1>4, <2>1, <4>1, <4>3
    <3> QED
      BY <3>1, <3>2
  <2>2. CASE i = m
    <3>1. ASSUME {j \in Transcript(e)' : j < i} = {}
          PROVE  MayOpen(plan, ev)
      <4>1. T = {}
        BY <1>3, <2>2, <3>1
      <4> QED
        BY <1>2, <4>1 DEF MaySay
    <3>2. ASSUME NEW j \in Transcript(e)', j < i, \A k \in Transcript(e)' : k < i => k <= j
          PROVE  MayFollow(plan, History(e)'[j], ev)
      <4>1. j \in T /\ \A k \in T : k <= j
        BY <1>3, <2>2, <3>2
      <4>2. Latest(e, j) /\ j \in DOMAIN History(e)
        BY <1>2, <4>1 DEF Latest, Transcript
      <4> QED
        BY <1>4, <4>1, <4>2 DEF MaySay
    <3> QED
      BY <1>3, <2>2, <3>1, <3>2
  <2> QED
    BY <1>3, <2>1, <2>2
<1>6. RunSoFar(e)'
  BY <1>5 DEF RunSoFar
<1>7. Latest(e, m)'
  BY <1>3 DEF Latest
<1>8. \A i \in DOMAIN History(e)' : i \notin DOMAIN History(e) => i = m
  BY <1>1, PublishedTranscript
<1> QED
  BY <1>3, <1>6, <1>7, <1>8 DEF LastSaid

(* A handler speaks of the execution of the event in hand only, and in its   *)
(* turn.                                                                      *)
LEMMA SpeaksInTurn ==
    ASSUME Settled, NEW i \in DOMAIN todo, Speaks(todo[i])
    PROVE  Carries(todo[i].event.exec) \/ Idle(todo[i].event.exec)
<1>1. mode = "handling"
  BY DEF Settled, Base, RunInv, HandlerIsGuarded
<1>2. PICK x : x = NextEvent(current)
  OBVIOUS
<1>3. Script(x)
  BY <1>1, <1>2 DEF Settled, TurnInv, HandlerFits
<1>4. PICK f : f = x.exec
  OBVIOUS
<1>5. PICK y : y = todo[i] /\ y.op = "publish" /\ IsProgress(y.event)
  BY DEF Speaks
<1>6. ASSUME NEW a, NEW b, NEW c, todo \in {<<a>>, <<a, b>>, <<a, b, c>>}
      PROVE  y \in {a, b, c}
  <2>1. CASE todo = <<a>>
    BY <1>5, <2>1
  <2>2. CASE todo = <<a, b>>
    BY <1>5, <2>2
  <2>3. CASE todo = <<a, b, c>>
    BY <1>5, <2>3
  <2> QED
    BY <1>6, <2>1, <2>2, <2>3
<1>7. /\ \A s : y # SetStatus(f, s)
      /\ \A s : y # Enqueue(f, s)
      /\ y # [op |-> "revoke", exec |-> f] /\ y # [op |-> "restart"]
      /\ \A g : y # Publishing(Requested(g))
      /\ y # Publishing(Notice("plan-stopped", f, NoStep, 0))
      /\ \A type, s, n : y = Publishing(Notice(type, f, s, n)) => y.event.exec = f
  BY <1>5 DEF SetStatus, Enqueue, Publishing, Requested, Notice, IsProgress
<1>8. CASE Starts(f)
  <2>1. CASE plan = <<>>
    <3>1. PICK a, b, c : /\ a = SetStatus(f, "running") /\ b = SetStatus(f, "completed")
                         /\ c = Publishing(Notice("plan-completed", f, NoStep, 0))
      OBVIOUS
    <3>2. todo = <<a>> \o <<b, c>> /\ Idle(f)
      BY <1>8, <2>1, <3>1 DEF Starts, Complete
    <3>3. todo = <<a, b, c>>
      BY <3>2, OneAndThenTwo
    <3>4. y = c
      BY <1>6, <1>7, <3>1, <3>3
    <3> QED
      BY <1>5, <1>7, <3>1, <3>2, <3>4
  <2>2. CASE plan # <<>>
    <3>1. PICK a, b, c : /\ a = SetStatus(f, "running") /\ c = Enqueue(f, plan[1])
                         /\ b = Publishing(Notice("plan-started", f, plan[1], 1 - 1))
      OBVIOUS
    <3>2. todo = <<a>> \o <<b, c>>
      BY <1>8, <2>2, <3>1 DEF Starts, Release
    <3>3. todo = <<a, b, c>>
      BY <3>2, OneAndThenTwo
    <3>4. y = b
      BY <1>6, <1>7, <3>1, <3>3
    <3>5. plan[1] \in Steps
      BY <2>2 DEF Settled, Base, TypeOK
    <3>6. Carries(f)
      BY <3>1, <3>3, <3>5 DEF Carries
    <3> QED
      BY <1>5, <1>7, <3>1, <3>4, <3>6
  <2> QED
    BY <2>1, <2>2
<1>9. CASE ReleasesStep(f)
  <2>1. PICK k \in DOMAIN plan : todo = Release(Opening(k), f, k) \/ todo = <<Enqueue(f, plan[k])>>
    BY <1>9 DEF ReleasesStep
  <2>2. PICK a, b : /\ a = Publishing(Notice(Opening(k), f, plan[k], k - 1))
                    /\ b = Enqueue(f, plan[k])
    OBVIOUS
  <2>3. todo = <<a, b>> \/ todo = <<b>>
    BY <2>1, <2>2 DEF Release
  <2>4. y = a /\ todo = <<a, b>>
    BY <1>6, <1>7, <2>2, <2>3
  <2>5. plan[k] \in Steps
    BY DEF Settled, Base, TypeOK
  <2>6. Carries(f)
    BY <2>2, <2>4, <2>5 DEF Carries
  <2> QED
    BY <1>5, <1>7, <2>2, <2>4, <2>6
<1>10. CASE Completes(f)
  <2>1. PICK a, b : /\ a = SetStatus(f, "completed")
                    /\ b = Publishing(Notice("plan-completed", f, NoStep, Len(plan)))
    OBVIOUS
  <2>2. Idle(f) /\ (todo = <<a, b>> \/ todo = <<b>>)
    BY <1>10, <2>1 DEF Completes, Complete
  <2>3. y = a \/ y = b
    <3>1. CASE todo = <<a, b>>
      BY <1>6, <3>1
    <3>2. CASE todo = <<b>>
      BY <1>6, <3>2
    <3> QED
      BY <2>2, <3>1, <3>2
  <2>4. y = b
    BY <1>7, <2>1, <2>3
  <2> QED
    BY <1>5, <1>7, <2>1, <2>2, <2>4
<1>11. CASE FailsPlan(f, x.step)
  <2>1. PICK a, b : /\ a = SetStatus(f, "failed")
                    /\ b = Publishing(Notice("plan-failed", f, x.step, 0))
    OBVIOUS
  <2>2. Idle(f) /\ (todo = <<a, b>> \/ todo = <<b>>)
    BY <1>11, <2>1 DEF FailsPlan, StepFailedEffects
  <2>3. y = a \/ y = b
    <3>1. CASE todo = <<a, b>>
      BY <1>6, <3>1
    <3>2. CASE todo = <<b>>
      BY <1>6, <3>2
    <3> QED
      BY <2>2, <3>1, <3>2
  <2>4. y = b
    BY <1>7, <2>1, <2>3
  <2> QED
    BY <1>5, <1>7, <2>1, <2>2, <2>4
<1>12. todo # StopEffects(f) /\ ~Stops(f)
  <2>1. PICK a, b, c : /\ a = SetStatus(f, "cancelled") /\ b = [op |-> "revoke", exec |-> f]
                       /\ c = Publishing(Notice("plan-stopped", f, NoStep, 0))
    OBVIOUS
  <2>2. todo \notin {<<c>>, <<b, c>>, <<a, b, c>>}
    BY <1>6, <1>7, <2>1
  <2> QED
    BY <2>1, <2>2 DEF StopEffects, Stops
<1>13. ~Restarts
  <2>1. ASSUME NEW a, todo = <<a>>
        PROVE  y = a
    BY <1>6, <2>1
  <2> QED
    BY <1>7, <2>1 DEF Restarts
<1> QED
  BY <1>3, <1>4, <1>8, <1>9, <1>10, <1>11, <1>12, <1>13 DEF Script

(* The effect after which the handler speaks no more. *)
LEMMA HeadSpeaks ==
    ASSUME Settled, todo # <<>>, Speaks(Head(todo)), NEW ev, ev = Head(todo).event
    PROVE  /\ ev.type \notin Moves
           /\ \/ Tail(todo) = <<>>
              \/ \E s \in Steps : /\ Tail(todo) = <<Enqueue(ev.exec, s)>>
                                 /\ ev.type \in Releases /\ ev.step = s
<1>1. mode = "handling"
  BY DEF Settled, Base, RunInv, HandlerIsGuarded
<1>2. PICK x : x = NextEvent(current)
  OBVIOUS
<1>3. Script(x)
  BY <1>1, <1>2 DEF Settled, TurnInv, HandlerFits
<1>4. PICK f : f = x.exec
  OBVIOUS
<1>5. PICK y : y = Head(todo) /\ y.op = "publish" /\ IsProgress(y.event) /\ ev = y.event
  BY DEF Speaks
<1>6. /\ \A s : y # SetStatus(f, s)
      /\ \A s : y # Enqueue(f, s)
      /\ y # [op |-> "revoke", exec |-> f] /\ y # [op |-> "restart"]
      /\ \A g : y # Publishing(Requested(g))
      /\ y # Publishing(Notice("plan-stopped", f, NoStep, 0))
  BY <1>5 DEF SetStatus, Enqueue, Publishing, Requested, Notice, IsProgress
<1>7. ASSUME NEW a, NEW b, NEW c, todo \in {<<a>>, <<a, b>>, <<a, b, c>>}
      PROVE  y = a
  BY <1>5, <1>7, ThreeEffects
<1>8. ~Starts(f)
  <2>1. PICK a : a = SetStatus(f, "running")
    OBVIOUS
  <2>2. ASSUME NEW b, NEW c
        PROVE  todo # <<a>> \o <<b, c>>
    <3>1. <<a>> \o <<b, c>> = <<a, b, c>>
      BY OneAndThenTwo
    <3> QED
      BY <1>6, <1>7, <2>1, <3>1
  <2> QED
    BY <2>1, <2>2 DEF Starts, Complete, Release
<1>9. CASE ReleasesStep(f)
  <2>1. PICK k \in DOMAIN plan : todo = Release(Opening(k), f, k) \/ todo = <<Enqueue(f, plan[k])>>
    BY <1>9 DEF ReleasesStep
  <2>2. PICK a, b : /\ a = Publishing(Notice(Opening(k), f, plan[k], k - 1))
                    /\ b = Enqueue(f, plan[k])
    OBVIOUS
  <2>3. todo = <<a, b>> \/ todo = <<b>>
    BY <2>1, <2>2 DEF Release
  <2>4. y = a /\ todo = <<a, b>>
    BY <1>6, <1>7, <2>2, <2>3
  <2>5. Tail(todo) = <<b>>
    BY <2>4, ThreeEffects
  <2>6. plan[k] \in Steps
    BY DEF Settled, Base, TypeOK
  <2>7. ev = Notice(Opening(k), f, plan[k], k - 1)
    BY <1>5, <2>2, <2>4 DEF Publishing
  <2>8. /\ ev.type \in Releases /\ ev.type \notin Moves /\ ev.step = plan[k] /\ ev.exec = f
    BY <2>7 DEF Notice, Opening, Releases, Moves
  <2> QED
    BY <2>2, <2>5, <2>6, <2>8
<1>10. CASE Completes(f)
  <2>1. PICK a, b : /\ a = SetStatus(f, "completed")
                    /\ b = Publishing(Notice("plan-completed", f, NoStep, Len(plan)))
    OBVIOUS
  <2>2. todo = <<a, b>> \/ todo = <<b>>
    BY <1>10, <2>1 DEF Completes, Complete
  <2>3. y = b /\ todo = <<b>>
    BY <1>6, <1>7, <2>1, <2>2
  <2> QED
    BY <1>5, <2>1, <2>3, ThreeEffects DEF Publishing, Notice, Moves
<1>11. CASE FailsPlan(f, x.step)
  <2>1. PICK a, b : /\ a = SetStatus(f, "failed")
                    /\ b = Publishing(Notice("plan-failed", f, x.step, 0))
    OBVIOUS
  <2>2. todo = <<a, b>> \/ todo = <<b>>
    BY <1>11, <2>1 DEF FailsPlan, StepFailedEffects
  <2>3. y = b /\ todo = <<b>>
    BY <1>6, <1>7, <2>1, <2>2
  <2> QED
    BY <1>5, <2>1, <2>3, ThreeEffects DEF Publishing, Notice, Moves
<1>12. todo # StopEffects(f) /\ ~Stops(f)
  <2>1. PICK a, b, c : /\ a = SetStatus(f, "cancelled") /\ b = [op |-> "revoke", exec |-> f]
                       /\ c = Publishing(Notice("plan-stopped", f, NoStep, 0))
    OBVIOUS
  <2>2. todo \notin {<<c>>, <<b, c>>, <<a, b, c>>}
    BY <1>6, <1>7, <2>1
  <2> QED
    BY <2>1, <2>2 DEF StopEffects, Stops
<1>13. ~Restarts
  <2>1. ASSUME NEW a, todo = <<a>>
        PROVE  y = a
    BY <1>7, <2>1
  <2> QED
    BY <1>6, <2>1 DEF Restarts
<1> QED
  BY <1>3, <1>4, <1>8, <1>9, <1>10, <1>11, <1>12, <1>13 DEF Script

-----------------------------------------------------------------------------
(* What is said stays true of an execution nothing more is said of.         *)
Quiet(e) ==
    /\ Transcript(e)' = Transcript(e)
    /\ e \in unpublished' => e \in unpublished
    /\ Due(e)' \subseteq Due(e)
    /\ \A s \in Steps : queued'[<<e, s>>] <= queued[<<e, s>>]
    /\ \A w \in Running(e)' :
          w \in Running(e) /\ task'[w] = task[w] /\ Heard(pc[w]) \subseteq Heard(pc'[w])

HandlerIsSilent ==
    \/ UNCHANGED todo
    \/ todo' = <<>>
    \/ todo # <<>> /\ todo' = Tail(todo) /\ ~Speaks(Head(todo))

LEMMA AskedKept ==
    ASSUME TypeOK, UNCHANGED todo \/ todo' = <<>> \/ (todo # <<>> /\ todo' = Tail(todo)),
           NEW e \in Executions, Asked(e)'
    PROVE  Asked(e)
<1>1. todo \in Seq(Effect)
  BY DEF TypeOK
<1>2. PICK i \in DOMAIN todo' : todo'[i] = Publishing(Requested(e))
  BY DEF Asked, Publishing, Requested, Notice
<1>3. CASE UNCHANGED todo
  BY <1>2, <1>3 DEF Asked
<1>4. CASE todo' = <<>>
  BY <1>2, <1>4
<1>5. CASE todo # <<>> /\ todo' = Tail(todo)
  <2>1. i + 1 \in DOMAIN todo /\ todo[i + 1] = todo'[i]
    BY <1>1, <1>2, <1>5
  <2> QED
    BY <1>2, <2>1 DEF Asked
<1> QED
  BY <1>3, <1>4, <1>5

LEMMA QuietTurn ==
    ASSUME TypeOK, TypeOK', Grows, plan' = plan, NEW e \in Executions,
           TurnTold(e), RunSoFar(e), Quiet(e), Asked(e)' => Asked(e)
    PROVE  TurnTold(e)' /\ RunSoFar(e)'
<1>1. TurnTold(e)'
  BY TurnToldKept DEF Quiet
<1>2. RunSoFar(e)'
  BY TranscriptKept DEF Quiet
<1> QED
  BY <1>1, <1>2

LEMMA SilentTalk ==
    ASSUME TypeOK, TypeOK', Grows, plan' = plan, TalkInv, HandlerIsSilent,
           \A e \in Executions : Quiet(e)
    PROVE  TalkInv'
<1>1. \A e \in Executions : TurnTold(e)' /\ RunSoFar(e)'
  BY AskedKept, QuietTurn DEF HandlerIsSilent, TalkInv
<1>2. \A i \in DOMAIN todo' : EffectTold(i)'
  <2>1. \A e \in Executions : Transcript(e)' = Transcript(e)
    BY DEF Quiet
  <2> QED
    BY <2>1, EffectsToldKept DEF HandlerIsSilent, TalkInv
<1> QED
  BY <1>1, <1>2 DEF TalkInv

LEMMA UndisturbedIsQuiet ==
    ASSUME NEW e \in Executions, Undisturbed(e), Transcript(e)' = Transcript(e)
    PROVE  Quiet(e)
BY DEF Undisturbed, Quiet, Heard

LEMMA SameTranscript ==
    ASSUME UNCHANGED log, NEW e \in Executions
    PROVE  Transcript(e)' = Transcript(e)
BY DEF Transcript, History

(* Nobody has spoken of an execution that does not exist. *)
LEMMA UnheardOf ==
    ASSUME Base, NEW e \in Executions, status[e] = "absent"
    PROVE  Transcript(e) = {}
<1> SUFFICES ASSUME NEW i \in Transcript(e) PROVE FALSE
  OBVIOUS
<1>1. EventIsKnown(History(e)[i]) /\ History(e)[i].exec = e
  BY PartitionOfAssumption DEF Transcript, History, Base, RunInv, Known
<1> QED
  BY <1>1 DEF EventIsKnown

(* The turn of one execution f goes on. *)
LEMMA OneTalks ==
    ASSUME TypeOK, TypeOK', Grows, plan' = plan, TalkInv,
           UNCHANGED todo \/ todo' = <<>> \/ (todo # <<>> /\ todo' = Tail(todo)),
           NEW f \in Executions, TurnTold(f)', RunSoFar(f)',
           \A e \in Executions : e # f => Quiet(e),
           \A i \in DOMAIN todo' : EffectTold(i)'
    PROVE  TalkInv'
<1>1. \A e \in Executions : e # f => TurnTold(e)' /\ RunSoFar(e)'
  BY AskedKept, QuietTurn DEF TalkInv
<1> QED
  BY <1>1 DEF TalkInv

LEMMA NobodySpeaks ==
    ASSUME TypeOK, Grows, plan' = plan, TalkInv, HandlerIsSilent,
           \A e \in Executions : Transcript(e)' = Transcript(e)
    PROVE  /\ \A i \in DOMAIN todo' : EffectTold(i)'
           /\ \A e \in Executions : RunSoFar(e)'
<1>1. \A i \in DOMAIN todo' : EffectTold(i)'
  BY EffectsToldKept DEF HandlerIsSilent, TalkInv
<1>2. \A e \in Executions : RunSoFar(e)'
  BY TranscriptKept DEF TalkInv
<1> QED
  BY <1>1, <1>2

(* A request in the topic: nothing was said of its execution before. *)
LEMMA RequestTold ==
    ASSUME Base, NoRedelivery, UNCHANGED <<mode, current, offset>>,
           NEW e \in Executions, Due(e) = {}, Transcript(e)' = {},
           NEW n \in 0..2, Publish(Requested(e), n), Waiting(e)' = {}, Running(e)' = {}
    PROVE  TurnTold(e)'
<1>1. PICK ev : ev = Requested(e)
  OBVIOUS
<1>2. ev \in Event /\ ev.type = "requested"
  BY <1>1, NoticeType DEF Requested, Notice, EventTypes
<1>3. \A i \in Due(e)' : History(e)'[i] = ev
  BY <1>1, <1>2, PublishedDue
<1> QED
  BY <1>2, <1>3 DEF TurnTold

LEMMA TalkApi ==
    ASSUME Settled, Settled', Grows, plan' = plan, TalkInv, NoRedelivery, NoLoss, ApiStep
    PROVE  TalkInv'
<1> USE DEF kafkaVars, dispatcherVars, dbVars, outsideVars, catalogVars, apiVars,
            nodeVars, workerVars, controlVars, boundVars
<1>1. ASSUME NEW e \in Executions, CreateExecution(e)
      PROVE  TalkInv'
  <2>1. /\ UNCHANGED <<log, mode, current, todo, offset, queued, pc, task>>
        /\ status[e] = "absent" /\ unpublished' = unpublished \cup {e}
    BY <1>1 DEF CreateExecution
  <2>2. \A f \in Executions : /\ Due(f)' = Due(f) /\ Transcript(f)' = Transcript(f)
                              /\ Waiting(f)' = Waiting(f) /\ Running(f)' = Running(f)
    BY <2>1, SameTopic, SameTranscript DEF Waiting, Running, Exec
  <2>3. ASSUME NEW f \in Executions, f # e
        PROVE  Quiet(f)
    <3>1. \A s \in Steps : queued'[<<f, s>>] <= queued[<<f, s>>]
      BY <2>1 DEF Settled, Base, TypeOK, Tasks
    <3> QED
      BY <2>1, <2>2, <2>3, <3>1 DEF Quiet, Heard
  <2>4. Due(e) = {} /\ Waiting(e) = {} /\ Running(e) = {} /\ Transcript(e) = {}
    BY <2>1, UnheardOf DEF Settled, TurnInv, Orderly, TurnFits, Idle
  <2>5. TurnTold(e)'
    BY <2>2, <2>4 DEF TurnTold
  <2>6. HandlerIsSilent
    BY <2>1 DEF HandlerIsSilent
  <2>7. RunSoFar(e)' /\ \A i \in DOMAIN todo' : EffectTold(i)'
    BY <2>2, <2>6, NobodySpeaks DEF Settled, Base
  <2> QED
    BY <2>1, <2>3, <2>5, <2>7, OneTalks DEF Settled, Base
<1>2. ASSUME NEW e \in Executions, NEW n \in 0..2, PublishRequest(e, n)
      PROVE  TalkInv'
  <2>1. /\ UNCHANGED <<mode, current, todo, offset, queued, pc, task>>
        /\ e \in unpublished /\ unpublished' = unpublished \ {e} /\ Publish(Requested(e), n)
    BY <1>2 DEF PublishRequest
  <2>2. Requested(e) \in Event /\ Requested(e).exec = e /\ ~IsProgress(Requested(e))
    BY NoticeType DEF Requested, Notice, EventTypes, IsProgress
  <2>3. \A f \in Executions : Transcript(f)' = Transcript(f)
    BY <2>1, <2>2, PublishedTranscript DEF Settled
  <2>4. ASSUME NEW f \in Executions, f # e
        PROVE  Quiet(f)
    <3>1. Due(f)' = Due(f)
      BY <2>1, <2>2, <2>4, PublishedDue DEF Settled
    <3>2. \A s \in Steps : queued'[<<f, s>>] <= queued[<<f, s>>]
      BY <2>1 DEF Settled, Base, TypeOK, Tasks
    <3> QED
      BY <2>1, <2>3, <3>1, <3>2 DEF Quiet, Running, Exec, Heard
  <2>5. Due(e) = {} /\ Waiting(e) = {} /\ Running(e) = {}
    BY <2>1 DEF Settled, TurnInv, Orderly, OneTurn
  <2>6. Waiting(e)' = {} /\ Running(e)' = {}
    BY <2>1, <2>5 DEF Waiting, Running, Exec
  <2>7. Transcript(e)' = {}
    BY <2>1, <2>3 DEF TalkInv, TurnTold
  <2>8. TurnTold(e)'
    BY <2>1, <2>5, <2>6, <2>7, RequestTold DEF Settled
  <2>9. HandlerIsSilent
    BY <2>1 DEF HandlerIsSilent
  <2>10. RunSoFar(e)' /\ \A i \in DOMAIN todo' : EffectTold(i)'
    BY <2>3, <2>9, NobodySpeaks DEF Settled, Base
  <2> QED
    BY <2>1, <2>4, <2>8, <2>10, OneTalks DEF Settled, Base
<1>3. ASSUME UNCHANGED <<mode, current, todo, offset, unpublished, queued, pc, task>>,
             \A e \in Executions : Due(e)' = Due(e) /\ Transcript(e)' = Transcript(e)
      PROVE  TalkInv'
  <2>1. ASSUME NEW e \in Executions
        PROVE  Quiet(e)
    <3>1. \A s \in Steps : queued'[<<e, s>>] <= queued[<<e, s>>]
      BY <1>3 DEF Settled, Base, TypeOK, Tasks
    <3> QED
      BY <1>3, <3>1 DEF Quiet, Running, Exec, Heard
  <2>2. HandlerIsSilent
    BY <1>3 DEF HandlerIsSilent
  <2> QED
    BY <2>1, <2>2, SilentTalk DEF Settled, Base
<1>4. ASSUME NEW e \in Executions, NEW n \in 0..2,
             NEW type \in {"stop-requested", "restart-requested"},
             Publish(Notice(type, e, NoStep, 0), n),
             UNCHANGED <<mode, current, todo, offset, unpublished, queued, pc, task>>
      PROVE  TalkInv'
  <2>1. PICK ev : ev = Notice(type, e, NoStep, 0)
    OBVIOUS
  <2>2. ev \in Event /\ ev.type \notin Moves /\ ~IsProgress(ev)
    BY <2>1, NoticeType DEF Notice, EventTypes, Moves, IsProgress
  <2>3. \A f \in Executions : Due(f)' = Due(f) /\ Transcript(f)' = Transcript(f)
    BY <1>4, <2>1, <2>2, PublishedDue, PublishedTranscript DEF Settled
  <2> QED
    BY <1>3, <1>4, <2>3
<1>5. ASSUME NEW e \in Executions, CancelCheck(e)
      PROVE  TalkInv'
  <2>1. UNCHANGED <<log, mode, current, todo, offset, unpublished, queued, pc, task>>
    BY <1>5 DEF CancelCheck
  <2> QED
    BY <1>3, <2>1, SameTopic, SameTranscript
<1>6. ASSUME NEW e \in Executions, NEW n \in 0..2, CancelPublish(e, n)
      PROVE  TalkInv'
  BY <1>4, <1>6 DEF CancelPublish
<1>7. ASSUME NEW e \in Executions, NEW n \in 0..2,
             NEW type \in {"stop-requested", "restart-requested"}, WsCommand(type, e, n)
      PROVE  TalkInv'
  BY <1>4, <1>7 DEF WsCommand
<1> QED
  BY <1>1, <1>2, <1>5, <1>6, <1>7 DEF ApiStep, Schedule, Retry

LEMMA TalkEnvironment ==
    ASSUME Settled, Settled', Grows, plan' = plan, TalkInv, NoRedelivery, Environment
    PROVE  TalkInv'
<1>1. PICK e \in Executions : CacheExpires(e)
  <2>1. ~Crash /\ ~Restart
    BY DEF Crash, Restart, Fault, NoRedelivery, Settled, TurnInv, HandlerFits
  <2> QED
    BY <2>1 DEF Environment
<1>2. UNCHANGED <<log, mode, current, todo, offset, unpublished, queued, pc, task>>
  BY <1>1 DEF CacheExpires, kafkaVars, dispatcherVars, dbVars, outsideVars, apiVars,
              workerVars
<1>3. ASSUME NEW f \in Executions
      PROVE  Quiet(f)
  <2>1. \A s \in Steps : queued'[<<f, s>>] <= queued[<<f, s>>]
    BY <1>2 DEF Settled, Base, TypeOK, Tasks
  <2> QED
    BY <1>2, <2>1, SameTopic, SameTranscript DEF Quiet, Running, Exec, Heard
<1>4. HandlerIsSilent
  BY <1>2 DEF HandlerIsSilent
<1> QED
  BY <1>3, <1>4, SilentTalk DEF Settled, Base

-----------------------------------------------------------------------------
(* The workers. *)

(* Whoever answers what was said last may say so. *)
LEMMA MayAnswer ==
    ASSUME TypeOK, NEW e \in Executions, NEW types, NEW s, LastSaid(e, types, s),
           NEW ev, ev.exec = e,
           \A a : a.type \in types /\ a.step = s => MayFollow(plan, a, ev)
    PROVE  MaySay(ev)
<1>1. PICK i \in DOMAIN History(e) :
          Latest(e, i) /\ History(e)[i].type \in types /\ History(e)[i].step = s
  BY DEF LastSaid
<1>2. \A j : Latest(e, j) => j = i
  <2>1. Transcript(e) \subseteq Nat
    BY Quantities DEF Transcript
  <2> QED
    BY <1>1, <2>1 DEF Latest
<1>3. Transcript(e) # {}
  BY <1>1 DEF Latest
<1> QED
  BY <1>1, <1>2, <1>3 DEF MaySay

LEMMA WorkerSpeaks ==
    ASSUME Settled, TypeOK', Grows, plan' = plan, TalkInv, NoRedelivery, NoLoss,
           NEW w \in Workers, NEW n \in 0..2, NEW next \in PCs, pc[w] \notin {"idle", "ack"},
           Goto(w, next),
           UNCHANGED <<mode, current, todo, offset, status, rows, unpublished, queued, task>>,
           NEW type \in {"step-started", "step-completed", "step-failed"},
           next = "ack" \/ (next = "start_step" /\ type = "step-started"),
           Publish(Notice(type, Exec(w), Step(w), 0), n),
           MaySay(Notice(type, Exec(w), Step(w), 0))
    PROVE  TalkInv'
<1>1. PICK e, s : e = Exec(w) /\ s = Step(w)
  OBVIOUS
<1>2. /\ e \in Executions /\ s \in Steps /\ task[w] = <<e, s>>
      /\ Running(e) = {w} /\ Waiting(e) = {} /\ Due(e) = {} /\ ~Carries(e)
      /\ e \notin unpublished /\ ~Idle(e)
  BY <1>1, WorkerTurn DEF Settled
<1>3. PICK ev : ev = Notice(type, e, s, 0)
  OBVIOUS
<1>4. ev \in Event /\ ev.exec = e /\ ev.type = type /\ ev.step = s /\ IsProgress(ev)
  BY <1>2, <1>3, NoticeType DEF Notice, EventTypes, IsProgress
<1>5. Publish(ev, n) /\ MaySay(ev)
  BY <1>1, <1>3
<1>6. /\ RunSoFar(e)'
      /\ \A i \in DOMAIN History(e)' : i \notin DOMAIN History(e) => Latest(e, i)'
      /\ \A types : ev.type \in types => LastSaid(e, types, ev.step)'
  BY <1>2, <1>4, <1>5, Spoken DEF Settled, TalkInv
<1>7. pc'[w] = next /\ \A v \in Workers : v # w => pc'[v] = pc[v]
  BY DEF Goto, Settled, Base, TypeOK
<1>8. ASSUME NEW g \in Executions, g # e
      PROVE  Quiet(g)
  <2>1. Due(g)' = Due(g) /\ Transcript(g)' = Transcript(g)
    BY <1>4, <1>5, <1>8, PublishedDue, PublishedTranscript DEF Settled
  <2>2. Untouched(g)
    BY <1>1, <1>7, <1>8, <2>1, OtherTurns DEF Settled
  <2> QED
    BY <2>1, <2>2, UndisturbedIsQuiet DEF Untouched
<1>9. TurnTold(e)'
  <2>1. e \notin unpublished' /\ ~Asked(e)' /\ Waiting(e)' = {}
    BY <1>2 DEF Asked, Carries, Waiting, Publishing, Requested, Notice
  <2>2. ASSUME NEW i \in Due(e)'
        PROVE  History(e)'[i].type # "requested" /\ Latest(e, i)'
    <3>1. i = Len(History(e)) + 1 /\ History(e)'[i] = ev
      BY <1>2, <1>4, <1>5, <2>2, PublishedDue DEF Settled
    <3>2. i \in DOMAIN History(e)' /\ i \notin DOMAIN History(e)
      <4>1. History(e) \in Seq(Event)
        BY <1>2, Quantities DEF Settled, Base
      <4>2. Len(History(e)) + 1 \notin DOMAIN History(e)
        BY <4>1
      <4> QED
        BY <2>2, <3>1, <4>2 DEF Due
    <3> QED
      BY <1>4, <1>6, <3>1, <3>2
  <2>3. ASSUME NEW v \in Running(e)'
        PROVE  WorkerTold(v)'
    <3>1. v = w /\ next = "start_step" /\ type = "step-started"
      BY <1>2, <1>7, <2>3 DEF Running, Exec
    <3>2. Exec(w)' = e /\ Step(w)' = s /\ Heard(pc[w])' = {"step-started"}
      BY <1>1, <1>7, <3>1 DEF Exec, Step, Heard
    <3>3. PICK types : types = {"step-started"}
      OBVIOUS
    <3>4. LastSaid(e, types, s)'
      BY <1>4, <1>6, <3>1, <3>3
    <3> QED
      BY <3>1, <3>2, <3>3, <3>4 DEF WorkerTold
  <2> QED
    BY <2>1, <2>2, <2>3 DEF TurnTold
<1>10. \A i \in DOMAIN todo' : EffectTold(i)'
  <2>1. \A i \in DOMAIN todo : /\ Speaks(todo[i]) => todo[i].event.exec # e
                               /\ \A r \in Steps : todo[i] # Enqueue(e, r)
    BY <1>2, SpeaksInTurn DEF Carries
  <2>2. \A g \in Executions : g # e => Transcript(g)' = Transcript(g)
    BY <1>8 DEF Quiet
  <2> QED
    BY <2>1, <2>2, EffectsToldKept DEF Settled, Base, TalkInv
<1> QED
  BY <1>2, <1>6, <1>8, <1>9, <1>10, OneTalks DEF Settled, Base

(* Workers that say nothing. *)
LEMMA WorkersAreSilent ==
    ASSUME Settled, TypeOK', Grows, plan' = plan, TalkInv,
           UNCHANGED <<log, mode, current, todo, offset, unpublished>>,
           \A t \in Tasks : queued'[t] <= queued[t],
           \A w \in Workers :
               \/ pc'[w] = pc[w] /\ task'[w] = task[w]
               \/ pc'[w] \in {"idle", "ack"}
               \/ /\ pc[w] \notin {"idle", "ack"} /\ task'[w] = task[w]
                  /\ Heard(pc[w]) \subseteq Heard(pc'[w])
    PROVE  TalkInv'
<1>1. ASSUME NEW e \in Executions
      PROVE  Quiet(e)
  <2>1. \A w \in Running(e)' :
            w \in Running(e) /\ task'[w] = task[w] /\ Heard(pc[w]) \subseteq Heard(pc'[w])
    BY DEF Running, Exec
  <2>2. \A s \in Steps : queued'[<<e, s>>] <= queued[<<e, s>>]
    BY DEF Tasks
  <2> QED
    BY <2>1, <2>2, SameTopic, SameTranscript DEF Quiet
<1>2. HandlerIsSilent
  BY DEF HandlerIsSilent
<1> QED
  BY <1>1, <1>2, SilentTalk DEF Settled, Base

LEMMA TalkNode ==
    ASSUME Settled, Settled', Grows, plan' = plan, TalkInv, NoRedelivery, NoLoss, NodeStep
    PROVE  TalkInv'
<1> USE DEF kafkaVars, dispatcherVars, dbVars, outsideVars, catalogVars, apiVars,
            nodeVars, workerVars, controlVars, boundVars
<1>1. ASSUME NEW w \in Workers, NEW n \in 0..2,
             NotifyStarted(w, n) \/ NotifyCompleted(w, n) \/ NotifyFailed(w, n)
      PROVE  TalkInv'
  <2>1. PICK e, s, h : e = Exec(w) /\ s = Step(w) /\ h = Heard(pc[w])
    OBVIOUS
  <2>2. /\ pc[w] \notin {"idle", "ack"}
        /\ UNCHANGED <<mode, current, todo, offset, status, rows, unpublished, queued, task>>
    BY <1>1 DEF NotifyStarted, NotifyCompleted, NotifyFailed
  <2>3. e \in Executions /\ Running(e) = {w}
    BY <2>1, <2>2, WorkerTurn DEF Settled
  <2>4. LastSaid(e, h, s)
    BY <2>1, <2>3 DEF TalkInv, TurnTold, WorkerTold
  <2>5. ASSUME NEW type,
               \A a : a.type \in h /\ a.step = s => MayFollow(plan, a, Notice(type, e, s, 0))
        PROVE  MaySay(Notice(type, e, s, 0))
    <3>1. PICK ev : ev = Notice(type, e, s, 0)
      OBVIOUS
    <3>2. ev.exec = e
      BY <3>1 DEF Notice
    <3> QED
      BY <2>3, <2>4, <2>5, <3>1, <3>2, MayAnswer DEF Settled, Base
  <2>6. CASE NotifyStarted(w, n)
    <3>1. /\ Publish(Notice("step-started", e, s, 0), n) /\ Goto(w, "start_step")
          /\ h = Releases
      BY <2>1, <2>6 DEF NotifyStarted, Notify, Heard
    <3>2. MaySay(Notice("step-started", e, s, 0))
      BY <2>5, <3>1 DEF MayFollow, Releases, Notice
    <3> QED
      BY <2>1, <2>2, <3>1, <3>2, WorkerSpeaks DEF PCs, Settled, Base
  <2>7. CASE NotifyCompleted(w, n)
    <3>1. /\ Publish(Notice("step-completed", e, s, 0), n) /\ Goto(w, "ack")
          /\ h = {"step-started"}
      BY <2>1, <2>7 DEF NotifyCompleted, Notify, Heard
    <3>2. MaySay(Notice("step-completed", e, s, 0))
      BY <2>5, <3>1 DEF MayFollow, Notice
    <3> QED
      BY <2>1, <2>2, <3>1, <3>2, WorkerSpeaks DEF PCs, Settled, Base
  <2>8. CASE NotifyFailed(w, n)
    <3>1. /\ Publish(Notice("step-failed", e, s, 0), n) /\ Goto(w, "ack")
          /\ h \subseteq Releases \cup {"step-started"}
      BY <2>1, <2>8 DEF NotifyFailed, Notify, Heard
    <3>2. MaySay(Notice("step-failed", e, s, 0))
      BY <2>5, <3>1 DEF MayFollow, Releases, Notice
    <3> QED
      BY <2>1, <2>2, <3>1, <3>2, WorkerSpeaks DEF PCs, Settled, Base
  <2> QED
    BY <1>1, <2>6, <2>7, <2>8
<1>2. ASSUME NEW w \in Workers,
             \/ StartStep(w) \/ Passes(w) \/ Fails(w) \/ RunRaises(w)
             \/ Recover(w) \/ CallRaises(w)
      PROVE  TalkInv'
  <2>1. PICK next : Goto(w, next) /\ (next = "ack" \/ Heard(pc[w]) \subseteq Heard(next))
    BY <1>2 DEF StartStep, Passes, Fails, RunRaises, Recover, CallRaises, Heard
  <2>2. /\ pc[w] \notin {"idle", "ack"}
        /\ UNCHANGED <<log, mode, current, todo, offset, unpublished, queued, task>>
    BY <1>2 DEF StartStep, Passes, Fails, RunRaises, Recover, CallRaises
  <2>3. pc'[w] = next /\ \A v \in Workers : v # w => pc'[v] = pc[v]
    BY <2>1 DEF Goto, Settled, Base, TypeOK
  <2>4. \A t \in Tasks : queued'[t] <= queued[t]
    BY <2>2 DEF Settled, Base, TypeOK
  <2> QED
    BY <2>1, <2>2, <2>3, <2>4, WorkersAreSilent DEF Settled, Base
<1>3. ASSUME NEW w \in Workers, Ack(w) \/ ChildLost(w)
      PROVE  TalkInv'
  <2>1. GoIdle(w) /\ UNCHANGED <<log, mode, current, todo, offset, unpublished, queued>>
    BY <1>3 DEF Ack, ChildLost
  <2>2. pc'[w] = "idle" /\ \A v \in Workers : v # w => pc'[v] = pc[v] /\ task'[v] = task[v]
    BY <2>1 DEF GoIdle, Settled, Base, TypeOK
  <2>3. \A t \in Tasks : queued'[t] <= queued[t]
    BY <2>1 DEF Settled, Base, TypeOK
  <2> QED
    BY <2>1, <2>2, <2>3, WorkersAreSilent DEF Settled, Base
<1>4. ASSUME NEW t \in Tasks, Discard(t) \/ RevokeArrives(t)
      PROVE  TalkInv'
  <2>1. UNCHANGED <<log, mode, current, todo, offset, unpublished>>
    BY <1>4 DEF Discard, RevokeArrives
  <2>2. \A u \in Tasks : queued'[u] <= queued[u]
    <3>1. queued \in [Tasks -> Nat]
      BY DEF Settled, Base, TypeOK
    <3>2. UNCHANGED queued \/ queued' = [queued EXCEPT ![t] = @ - 1]
      BY <1>4 DEF Discard, RevokeArrives
    <3> QED
      BY <3>1, <3>2
  <2>3. \A w \in Workers : pc'[w] = "idle" \/ (pc'[w] = pc[w] /\ task'[w] = task[w])
    BY <1>4 DEF Discard, RevokeArrives, GoIdle, Settled, Base, TypeOK
  <2> QED
    BY <2>1, <2>2, <2>3, WorkersAreSilent DEF Settled, Base
<1>5. ASSUME NEW t \in Tasks, NEW w \in Workers, Take(w, t)
      PROVE  TalkInv'
  <2>1. PICK e \in Executions, s \in Steps : t = <<e, s>>
    BY DEF Tasks
  <2>2. /\ UNCHANGED <<log, mode, current, todo, offset, unpublished>>
        /\ pc[w] = "idle" /\ pc'[w] = "notify_started" /\ task'[w] = <<e, s>>
        /\ \A v \in Workers : v # w => pc'[v] = pc[v] /\ task'[v] = task[v]
        /\ queued[<<e, s>>] > 0 /\ queued'[<<e, s>>] = queued[<<e, s>>] - 1
        /\ \A u \in Tasks : u # <<e, s>> => queued'[u] = queued[u]
    BY <1>5, <2>1 DEF Take, Settled, Base, TypeOK
  <2>3. \A u \in Tasks : queued[u] \in Nat
    BY DEF Settled, Base, TypeOK
  <2>4. \A f \in Executions, r \in Steps : queued'[<<f, r>>] <= queued[<<f, r>>]
    <3>1. \A u \in Tasks : queued'[u] <= queued[u]
      BY <2>2, <2>3
    <3> QED
      BY <3>1 DEF Tasks
  <2>5. \A f \in Executions : Due(f)' = Due(f) /\ Transcript(f)' = Transcript(f)
    BY <2>2, SameTopic, SameTranscript
  <2>6. ASSUME NEW f \in Executions, f # e
        PROVE  Quiet(f)
    <3>1. \A v \in Running(f)' : v \in Running(f) /\ pc'[v] = pc[v] /\ task'[v] = task[v]
      BY <2>2, <2>6 DEF Running, Exec
    <3> QED
      BY <2>2, <2>4, <2>5, <3>1 DEF Quiet, Heard
  <2>7. s \in Waiting(e) /\ Orderly(e)
    BY <2>2 DEF Waiting, Settled, TurnInv
  <2>8. Waiting(e) = {s} /\ Running(e) = {} /\ Due(e) = {} /\ ~Carries(e) /\ e \notin unpublished
    BY <2>7 DEF Orderly, OneTurn
  <2>9. PICK types : types = Releases
    OBVIOUS
  <2>10. LastSaid(e, types, s)
    BY <2>7, <2>9 DEF TalkInv, TurnTold
  <2>11. LastSaid(e, types, s)'
    BY <2>5, <2>10, TranscriptKept
  <2>12. \A r \in Waiting(e)' : r = s
    BY <2>2, <2>3, <2>4, <2>8 DEF Waiting, Tasks
  <2>13. TurnTold(e)'
    <3>1. e \notin unpublished' /\ ~Asked(e)' /\ Due(e)' = {}
      BY <2>2, <2>5, <2>8 DEF Asked, Carries, Publishing, Requested, Notice
    <3>2. \A v \in Running(e)' : v = w
      BY <2>2, <2>8 DEF Running, Exec
    <3>3. Exec(w)' = e /\ Step(w)' = s /\ Heard(pc[w])' = types
      BY <2>2, <2>9 DEF Exec, Step, Heard
    <3>4. WorkerTold(w)'
      BY <2>11, <3>3 DEF WorkerTold
    <3>5. \A r \in Waiting(e)' : LastSaid(e, Releases, r)'
      BY <2>9, <2>11, <2>12 DEF Releases
    <3> QED
      BY <3>1, <3>2, <3>4, <3>5 DEF TurnTold
  <2>14. HandlerIsSilent
    BY <2>2 DEF HandlerIsSilent
  <2>15. RunSoFar(e)' /\ \A i \in DOMAIN todo' : EffectTold(i)'
    BY <2>5, <2>14, NobodySpeaks DEF Settled, Base
  <2> QED
    BY <2>2, <2>6, <2>13, <2>15, OneTalks DEF Settled, Base
<1>6. ASSUME NEW w \in Workers, Execute(w) \/ CallRaises(w) \/ ChildLost(w)
      PROVE  TalkInv'
  BY <1>1, <1>2, <1>3, <1>6 DEF Execute
<1> QED
  BY <1>4, <1>5, <1>6 DEF NodeStep

-----------------------------------------------------------------------------
(* The dispatcher. *)

LEMMA HandlerGoesOnSilently ==
    ASSUME Settled, Settled', Grows, plan' = plan, TalkInv, HandlerIsSilent,
           UNCHANGED <<log, unpublished, queued, pc, task>>,
           \A q \in Partitions : Taken(q) <= Taken(q)'
    PROVE  TalkInv'
<1>1. ASSUME NEW e \in Executions
      PROVE  Quiet(e)
  <2>1. Due(e)' \subseteq Due(e) /\ Transcript(e)' = Transcript(e)
    BY LessDue, SameTranscript DEF Settled
  <2>2. \A s \in Steps : queued'[<<e, s>>] <= queued[<<e, s>>]
    BY DEF Settled, Base, TypeOK, Tasks
  <2> QED
    BY <2>1, <2>2 DEF Quiet, Running, Exec, Heard
<1> QED
  BY <1>1, SilentTalk DEF Settled, Base

LEMMA TalkSilent ==
    ASSUME Settled, Settled', Grows, plan' = plan, TalkInv,
           (\E p \in Partitions : Skip(p)) \/ Commit \/ DoSetStatus \/ DoRevoke
    PROVE  TalkInv'
<1>1. UNCHANGED <<log, unpublished, queued, pc, task>>
  BY DEF Skip, Commit, DoSetStatus, DoRevoke, kafkaVars, dbVars, outsideVars, apiVars,
     nodeVars, workerVars
<1>2. HandlerIsSilent
  BY DEF HandlerIsSilent, Skip, Commit, DoSetStatus, DoRevoke, NextEffectIs, Speaks,
     dispatcherVars
<1>3. \A q \in Partitions : offset[q] \in Nat /\ Taken(q) \in Nat
  BY TakenType DEF Settled, Base
<1>4. \A q \in Partitions : Taken(q) <= Taken(q)'
  <2>1. CASE DoSetStatus \/ DoRevoke
    BY <1>3, <2>1 DEF DoSetStatus, DoRevoke, Taken, kafkaVars
  <2>2. CASE Commit
    <3>1. /\ mode = "handling" /\ mode' = "polling"
          /\ offset' = [offset EXCEPT ![current] = @ + 1] /\ offset \in [Partitions -> Nat]
      BY <2>2 DEF Commit, Settled, Base, TypeOK
    <3> QED
      BY <1>3, <3>1 DEF Taken
  <2>3. ASSUME NEW p \in Partitions, Skip(p)
        PROVE  \A q \in Partitions : Taken(q) <= Taken(q)'
    <3>1. /\ mode = "polling" /\ mode' = "polling"
          /\ offset' = [offset EXCEPT ![p] = @ + 1] /\ offset \in [Partitions -> Nat]
      BY <2>3 DEF Skip, HasNext, dispatcherVars, Settled, Base, TypeOK
    <3> QED
      BY <1>3, <3>1 DEF Taken
  <2> QED
    BY <2>1, <2>2, <2>3
<1> QED
  BY <1>1, <1>2, <1>4, HandlerGoesOnSilently

LEMMA TalkEnqueue ==
    ASSUME Settled, Settled', Grows, plan' = plan, TalkInv, DoEnqueue
    PROVE  TalkInv'
<1>1. /\ todo # <<>> /\ todo' = Tail(todo) /\ Head(todo).op = "enqueue"
      /\ UNCHANGED <<log, mode, current, offset, unpublished, pc, task>>
      /\ queued' = [queued EXCEPT ![Head(todo).task] = @ + 1]
  BY DEF DoEnqueue, NextEffectIs, kafkaVars, workerVars, outsideVars, apiVars
<1>2. Head(todo) = todo[1] /\ 1 \in DOMAIN todo /\ DOMAIN todo \subseteq Nat /\ 0 \notin DOMAIN todo
  <2>1. todo \in Seq(Effect)
    BY DEF Settled, Base, TypeOK
  <2> QED
    BY <1>1, <2>1
<1>3. PICK e \in Executions, s \in Steps : todo[1] = Enqueue(e, s)
  <2>1. todo[1] \in Effect /\ todo[1].op = "enqueue"
    BY <1>1, <1>2, EffectType DEF Settled, Base
  <2>2. PICK t \in Tasks : todo[1] = [op |-> "enqueue", task |-> t]
    BY <2>1 DEF Effect
  <2>3. PICK e \in Executions, s \in Steps : t = <<e, s>>
    BY DEF Tasks
  <2> QED
    BY <2>2, <2>3 DEF Enqueue
<1>4. Carries(e) /\ Orderly(e)
  BY <1>2, <1>3 DEF Carries, Settled, TurnInv
<1>5. e \notin unpublished /\ Due(e) = {} /\ Waiting(e) = {} /\ Running(e) = {}
  BY <1>4 DEF Orderly, OneTurn
<1>6. LastSaid(e, Releases, s)
  <2>1. \A j \in DOMAIN todo : ~(j < 1)
    BY <1>2
  <2> QED
    BY <1>2, <1>3, <2>1 DEF TalkInv, EffectTold
<1>7. \A g \in Executions :
          Due(g)' = Due(g) /\ Transcript(g)' = Transcript(g) /\ Running(g)' = Running(g)
  BY <1>1, SameTopic, SameTranscript DEF Running, Exec
<1>8. \A g \in Executions, r \in Steps :
          /\ queued[<<g, r>>] \in Nat
          /\ queued'[<<g, r>>] = IF g = e /\ r = s THEN queued[<<g, r>>] + 1 ELSE queued[<<g, r>>]
  <2>1. Head(todo).task = <<e, s>>
    BY <1>2, <1>3 DEF Enqueue
  <2>2. queued' = [queued EXCEPT ![<<e, s>>] = @ + 1]
    BY <1>1, <2>1
  <2> QED
    BY <2>2 DEF Settled, Base, TypeOK, Tasks
<1>9. ASSUME NEW g \in Executions, g # e
      PROVE  Quiet(g)
  <2>1. \A r \in Steps : queued'[<<g, r>>] <= queued[<<g, r>>]
    BY <1>8, <1>9
  <2> QED
    BY <1>1, <1>7, <2>1 DEF Quiet, Heard, Running
<1>10. HandlerIsSilent
  BY <1>1 DEF HandlerIsSilent, Speaks
<1>11. RunSoFar(e)' /\ \A i \in DOMAIN todo' : EffectTold(i)'
  BY <1>7, <1>10, NobodySpeaks DEF Settled, Base
<1>12. PICK types : types = Releases
  OBVIOUS
<1>13. LastSaid(e, types, s)'
  BY <1>6, <1>7, <1>12, TranscriptKept
<1>14. \A r \in Waiting(e)' : r = s
  BY <1>5, <1>8 DEF Waiting
<1>15. ~Asked(e)'
  <2>1. Asked(e)' => Asked(e)
    BY <1>1, AskedKept DEF Settled, Base
  <2>2. Asked(e) => Transcript(e) = {}
    BY DEF TalkInv, TurnTold
  <2>3. Transcript(e) # {}
    BY <1>6 DEF LastSaid, Latest
  <2> QED
    BY <2>1, <2>2, <2>3
<1>16. TurnTold(e)'
  <2>1. e \notin unpublished' /\ Due(e)' = {} /\ Running(e)' = {}
    BY <1>1, <1>5, <1>7
  <2>2. \A r \in Waiting(e)' : LastSaid(e, Releases, r)'
    BY <1>12, <1>13, <1>14 DEF Releases
  <2> QED
    BY <1>15, <2>1, <2>2 DEF TurnTold
<1> QED
  BY <1>1, <1>9, <1>11, <1>16, OneTalks DEF Settled, Base

LEMMA TalkRestart ==
    ASSUME Settled, Settled', Grows, plan' = plan, TalkInv, DoRestart
    PROVE  TalkInv'
<1>1. UNCHANGED <<log, mode, current, offset, unpublished, queued, pc, task>>
  BY DEF DoRestart, kafkaVars, nodeVars, workerVars, outsideVars, apiVars
<1>2. todo = <<[op |-> "restart"]>> /\ Tail(todo) = <<>>
  BY RestartAlone DEF DoRestart, Settled
<1>3. ASSUME NEW e \in Executions
      PROVE  Quiet(e)
  <2>1. \A s \in Steps : queued'[<<e, s>>] <= queued[<<e, s>>]
    BY <1>1 DEF Settled, Base, TypeOK, Tasks
  <2> QED
    BY <1>1, <2>1, SameTopic, SameTranscript DEF Quiet, Running, Exec, Heard
<1>4. CASE todo' = Tail(todo)
  <2>1. HandlerIsSilent
    BY <1>2, <1>4 DEF HandlerIsSilent
  <2> QED
    BY <1>3, <2>1, SilentTalk DEF Settled, Base
<1>5. ASSUME NEW e \in Executions, status[e] = "absent",
             todo' = <<Publishing(Requested(e))>> \o Tail(todo)
      PROVE  TalkInv'
  <2>1. PICK y : y = Publishing(Requested(e))
    OBVIOUS
  <2>2. todo' = <<y>>
    <3>1. <<y>> \in Seq({y}) /\ <<y>> \o <<>> = <<y>>
      BY ConcatEmptySeq
    <3> QED
      BY <1>2, <1>5, <2>1, <3>1
  <2>3. /\ ~Speaks(y) /\ \A g, s : y # Enqueue(g, s)
        /\ \A g \in Executions : y = Publishing(Requested(g)) => g = e
    BY <2>1 DEF Speaks, IsProgress, Enqueue, Publishing, Requested, Notice
  <2>4. \A i \in DOMAIN todo' : EffectTold(i)'
    <3>1. \A i \in DOMAIN todo' : todo'[i] = y
      BY <2>2
    <3> QED
      BY <2>3, <3>1 DEF EffectTold, Speaks, IsProgress, Enqueue
  <2>5. ASSUME NEW g \in Executions, g # e
        PROVE  TurnTold(g)' /\ RunSoFar(g)'
    <3>1. ~Asked(g)'
      BY <2>2, <2>3, <2>5 DEF Asked, Publishing, Requested, Notice
    <3> QED
      BY <1>3, <3>1, QuietTurn DEF TalkInv, Settled, Base
  <2>6. Transcript(e)' = {} /\ Transcript(e) = {}
    BY <1>1, <1>5, UnheardOf, SameTranscript DEF Settled
  <2>7. Due(e) = {} /\ Waiting(e) = {} /\ Running(e) = {}
    BY <1>5 DEF Settled, TurnInv, Orderly, TurnFits, Idle
  <2>8. Due(e)' = {} /\ Waiting(e)' = {} /\ Running(e)' = {}
    BY <1>1, <2>7, SameTopic DEF Waiting, Running, Exec
  <2>9. TurnTold(e)' /\ RunSoFar(e)'
    BY <2>6, <2>8 DEF TurnTold, RunSoFar
  <2> QED
    BY <2>4, <2>5, <2>9 DEF TalkInv
<1> QED
  BY <1>4, <1>5 DEF DoRestart

(* A request the handler publishes is all that is left of it. *)
LEMMA RequestAlone ==
    ASSUME Settled, NextEffectIs("publish"), Head(todo).event.type \in Moves
    PROVE  \E g \in Executions : todo = <<Publishing(Requested(g))>>
<1>1. mode = "handling" /\ todo # <<>> /\ Head(todo).op = "publish"
  BY DEF NextEffectIs
<1>2. PICK x : x = NextEvent(current) /\ Script(x)
  BY <1>1 DEF Settled, TurnInv, HandlerFits
<1>3. PICK f : f = x.exec
  OBVIOUS
<1>4. PICK y : y = Head(todo) /\ y.op = "publish" /\ y.event.type \in Moves
  BY <1>1
<1>5. /\ \A s : y # SetStatus(f, s)
      /\ \A s : y # Enqueue(f, s)
      /\ y # [op |-> "revoke", exec |-> f] /\ y # [op |-> "restart"]
      /\ \A type, s, n : type \notin Moves => y # Publishing(Notice(type, f, s, n))
  BY <1>4 DEF SetStatus, Enqueue, Publishing, Notice
<1>6. \A k : Opening(k) \notin Moves
  BY DEF Opening, Moves
<1>7. /\ "plan-completed" \notin Moves /\ "plan-failed" \notin Moves
      /\ "plan-stopped" \notin Moves
  BY DEF Moves
<1>8. ASSUME NEW a, NEW b, NEW c, todo \in {<<a>>, <<a, b>>, <<a, b, c>>}
      PROVE  y = a
  BY <1>4, <1>8, ThreeEffects
<1>9. ~Starts(f)
  <2>1. ASSUME NEW b, NEW c
        PROVE  todo # <<SetStatus(f, "running")>> \o <<b, c>>
    <3>1. PICK a : a = SetStatus(f, "running")
      OBVIOUS
    <3>2. <<a>> \o <<b, c>> = <<a, b, c>>
      BY OneAndThenTwo
    <3> QED
      BY <1>5, <1>8, <3>1, <3>2
  <2> QED
    BY <2>1 DEF Starts, Complete, Release
<1>10. ~ReleasesStep(f)
  BY <1>5, <1>6, <1>8 DEF ReleasesStep, Release
<1>11. ~Completes(f) /\ ~FailsPlan(f, x.step) /\ ~Stops(f) /\ todo # StopEffects(f)
  BY <1>5, <1>7, <1>8 DEF Completes, Complete, FailsPlan, StepFailedEffects, Stops, StopEffects
<1>12. Restarts
  BY <1>1, <1>2, <1>3, <1>9, <1>10, <1>11 DEF Script
<1> QED
  BY <1>5, <1>8, <1>12 DEF Restarts

LEMMA TalkPublish ==
    ASSUME Settled, Settled', Grows, plan' = plan, TalkInv, NoRedelivery, NoLoss,
           NEW n \in 0..2, DoPublish(n)
    PROVE  TalkInv'
<1>1. /\ NextEffectIs("publish") /\ todo # <<>> /\ todo' = Tail(todo)
      /\ Head(todo).op = "publish"
      /\ UNCHANGED <<mode, current, offset, unpublished, queued, pc, task>>
      /\ Publish(Head(todo).event, n)
  BY DEF DoPublish, NextEffectIs, nodeVars, workerVars, outsideVars, apiVars
<1>2. Head(todo) = todo[1] /\ 1 \in DOMAIN todo
  <2>1. todo \in Seq(Effect)
    BY DEF Settled, Base, TypeOK
  <2> QED
    BY <1>1, <2>1
<1>3. PICK ev \in Event : ev = Head(todo).event
  BY <1>1, HeadType, EffectType DEF Settled, Base
<1>4. PICK e \in Executions : e = ev.exec
  BY DEF Event
<1>5. ASSUME NEW g \in Executions, Due(g)' = Due(g), Transcript(g)' = Transcript(g)
      PROVE  Quiet(g)
  <2>1. \A s \in Steps : queued'[<<g, s>>] <= queued[<<g, s>>]
    BY <1>1 DEF Settled, Base, TypeOK, Tasks
  <2> QED
    BY <1>1, <1>5, <2>1 DEF Quiet, Running, Exec, Heard
<1>6. ASSUME NEW g \in Executions, g # e
      PROVE  Quiet(g)
  BY <1>1, <1>3, <1>4, <1>5, <1>6, PublishedDue, PublishedTranscript DEF Settled
<1>7. ASSUME Carries(e) \/ Idle(e)
      PROVE  /\ e \notin unpublished' /\ Due(e) = {}
             /\ Waiting(e)' = {} /\ Running(e)' = {}
  <2>1. e \notin unpublished /\ Due(e) = {} /\ Waiting(e) = {} /\ Running(e) = {}
    BY <1>7 DEF Settled, TurnInv, Orderly, OneTurn, Idle
  <2> QED
    BY <1>1, <2>1 DEF Waiting, Running, Exec
<1>8. CASE ev.type \in Moves
  <2>1. PICK g \in Executions : todo = <<Publishing(Requested(g))>>
    BY <1>1, <1>3, <1>8, RequestAlone
  <2>2. ev = Requested(g) /\ e = g /\ todo' = <<>> /\ ~IsProgress(ev)
    <3>1. PICK y : y = Publishing(Requested(g))
      OBVIOUS
    <3>2. Head(todo) = y /\ Tail(todo) = <<>>
      BY <2>1, <3>1, ThreeEffects
    <3> QED
      BY <1>1, <1>3, <1>4, <3>1, <3>2 DEF Publishing, Requested, Notice, IsProgress
  <2>3. Asked(e) /\ Carries(e)
    BY <1>2, <2>1, <2>2 DEF Asked, Carries
  <2>4. \A h \in Executions : Transcript(h)' = Transcript(h)
    BY <1>1, <1>3, <2>2, PublishedTranscript DEF Settled
  <2>5. Transcript(e)' = {}
    BY <2>3, <2>4 DEF TalkInv, TurnTold
  <2>6. TurnTold(e)'
    BY <1>1, <1>3, <1>7, <2>2, <2>3, <2>5, RequestTold DEF Settled
  <2>7. RunSoFar(e)' /\ \A i \in DOMAIN todo' : EffectTold(i)'
    BY <2>2, <2>4, NobodySpeaks DEF HandlerIsSilent, Settled, Base
  <2> QED
    BY <1>1, <1>6, <2>6, <2>7, OneTalks DEF Settled, Base
<1>9. CASE ev.type \notin Moves /\ ~IsProgress(ev)
  <2>1. \A g \in Executions : Due(g)' = Due(g) /\ Transcript(g)' = Transcript(g)
    BY <1>1, <1>3, <1>9, PublishedDue, PublishedTranscript DEF Settled
  <2>2. HandlerIsSilent
    BY <1>1, <1>3, <1>9 DEF HandlerIsSilent, Speaks
  <2> QED
    BY <1>5, <2>1, <2>2, SilentTalk DEF Settled, Base
<1>10. CASE ev.type \notin Moves /\ IsProgress(ev)
  <2>1. Speaks(Head(todo)) /\ Speaks(todo[1])
    BY <1>1, <1>2, <1>3, <1>10 DEF Speaks
  <2>2. Carries(e) \/ Idle(e)
    BY <1>2, <1>3, <1>4, <2>1, SpeaksInTurn
  <2>3. \/ todo' = <<>>
        \/ \E s \in Steps : todo' = <<Enqueue(e, s)>> /\ ev.type \in Releases /\ ev.step = s
    BY <1>1, <1>3, <1>4, <2>1, HeadSpeaks
  <2>4. MaySay(ev)
    BY <1>2, <1>3, <2>1 DEF TalkInv, EffectTold
  <2>5. /\ RunSoFar(e)'
        /\ \A types : ev.type \in types => LastSaid(e, types, ev.step)'
    BY <1>1, <1>3, <1>4, <1>10, <2>4, Spoken DEF Settled, TalkInv
  <2>6. Due(e)' = {}
    BY <1>1, <1>3, <1>7, <1>10, <2>2, PublishedDue DEF Settled
  <2>7. ~Asked(e)'
    <3>1. \A i \in DOMAIN todo' : \E s \in Steps : todo'[i] = Enqueue(e, s)
      BY <2>3
    <3>2. \A s \in Steps : Enqueue(e, s) # Publishing(Requested(e))
      BY DEF Enqueue, Publishing
    <3> QED
      BY <3>1, <3>2 DEF Asked, Publishing, Requested, Notice
  <2>8. TurnTold(e)'
    BY <1>7, <2>2, <2>6, <2>7 DEF TurnTold
  <2>9. \A i \in DOMAIN todo' : EffectTold(i)'
    <3>1. CASE todo' = <<>>
      BY <3>1
    <3>2. ASSUME NEW s \in Steps, todo' = <<Enqueue(e, s)>>, ev.type \in Releases, ev.step = s
          PROVE  \A i \in DOMAIN todo' : EffectTold(i)'
      <4>1. PICK types : types = Releases
        OBVIOUS
      <4>2. LastSaid(e, types, s)'
        BY <2>5, <3>2, <4>1
      <4>3. PICK y : y = Enqueue(e, s)
        OBVIOUS
      <4>4. \A i \in DOMAIN todo' : todo'[i] = y
        BY <3>2, <4>3
      <4>5. ~Speaks(y) /\ \A g, r : y = Enqueue(g, r) => g = e /\ r = s
        BY <4>3 DEF Speaks, Enqueue
      <4> QED
        BY <4>1, <4>2, <4>4, <4>5 DEF EffectTold, Speaks, IsProgress, Enqueue, Releases
    <3> QED
      BY <2>3, <3>1, <3>2
  <2> QED
    BY <1>1, <1>6, <2>5, <2>8, <2>9, OneTalks DEF Settled, Base
<1> QED
  BY <1>8, <1>9, <1>10

(* What a handler has to say: its one word may be said, and the task it     *)
(* queues is the one it spoke of just before.                               *)
LEMMA HandlerBegins ==
    ASSUME Settled, Settled', Grows, plan' = plan, TalkInv,
           UNCHANGED <<log, unpublished>>, \A g \in Executions : Quiet(g),
           NEW a, NEW b, NEW c, todo' \in {<<a>>, <<a, b>>, <<a, b, c>>},
           \A y \in {a, b, c} :
               /\ Speaks(y) => y.event.exec \in Executions /\ MaySay(y.event)
               /\ \A g \in Executions : y # Publishing(Requested(g)),
           \A g \in Executions, s \in Steps :
               /\ a # Enqueue(g, s)
               /\ b = Enqueue(g, s) => Announces(a, g, s)
               /\ c = Enqueue(g, s) => Announces(b, g, s)
    PROVE  TalkInv'
<1>1. PICK h : h = todo'
  OBVIOUS
<1>2. /\ DOMAIN h \subseteq {1, 2, 3} /\ h[1] = a
      /\ 2 \in DOMAIN h => h[2] = b /\ 1 \in DOMAIN h
      /\ 3 \in DOMAIN h => h[3] = c /\ 2 \in DOMAIN h
  <2>1. CASE h = <<a>>
    BY <2>1
  <2>2. CASE h = <<a, b>>
    BY <2>2
  <2>3. CASE h = <<a, b, c>>
    BY <2>3
  <2> QED
    BY <1>1, <2>1, <2>2, <2>3
<1>3. \A i \in DOMAIN h : h[i] \in {a, b, c}
  BY <1>2
<1>4. ASSUME NEW g \in Executions
      PROVE  TurnTold(g)' /\ RunSoFar(g)'
  <2>1. ~Asked(g)'
    BY <1>1, <1>3 DEF Asked, Publishing, Requested, Notice
  <2> QED
    BY <2>1, QuietTurn DEF TalkInv, Settled, Base
<1>5. ASSUME NEW i \in DOMAIN h
      PROVE  EffectTold(i)'
  <2>1. ASSUME Speaks(h[i])
        PROVE  MaySay(h[i].event)'
    <3>1. PICK ev : ev = h[i].event
      OBVIOUS
    <3>2. ev.exec \in Executions /\ MaySay(ev)
      BY <1>3, <2>1, <3>1
    <3>3. MaySay(ev)'
      BY <3>2, SameTranscript, TranscriptKept
    <3> QED
      BY <1>1, <3>1, <3>3
  <2>2. ASSUME NEW g \in Executions, NEW s \in Steps, h[i] = Enqueue(g, s)
        PROVE  \E j \in DOMAIN h : j < i /\ Announces(h[j], g, s)
    <3>1. CASE i = 1
      BY <1>2, <2>2, <3>1
    <3>2. CASE i = 2
      BY <1>2, <2>2, <3>2
    <3>3. CASE i = 3
      BY <1>2, <2>2, <3>3
    <3> QED
      BY <1>2, <3>1, <3>2, <3>3
  <2> QED
    BY <1>1, <2>1, <2>2 DEF EffectTold, Speaks, IsProgress, Enqueue, Announces, Releases
<1> QED
  BY <1>1, <1>4, <1>5 DEF TalkInv

LEMMA TalkPoll ==
    ASSUME Settled, Settled', Grows, plan' = plan, TalkInv, NEW p \in Partitions, Poll(p)
    PROVE  TalkInv'
<1>1. /\ mode = "polling" /\ mode' = "handling" /\ current' = p
      /\ Handle(NextEvent(p)) # <<>> /\ todo' = Handle(NextEvent(p))
      /\ UNCHANGED <<log, offset, unpublished, queued, pc, task>>
  BY DEF Poll, HasNext, kafkaVars, dbVars, nodeVars, workerVars, outsideVars, apiVars
<1>2. PICK x \in Event : x = NextEvent(p)
  BY NextEventType DEF Poll, Settled, Base
<1>3. PICK o \in Nat : o = offset[p] /\ o + 1 \in DOMAIN log[p]
  BY DEF Poll, HasNext, Settled, Base, TypeOK
<1>4. PICK f \in Executions : f = x.exec
  BY DEF Event
<1>5. log[p][o + 1] = x /\ PartitionOf[f] = p /\ History(f) = log[p]
  BY <1>2, <1>3, <1>4
     DEF NextEvent, Settled, Base, Earned, ProgressIsEarned, EventsAreEarned, History
<1>6. Taken(p) = o /\ Taken(p)' = o + 1 /\ \A q \in Partitions : q # p => Taken(q)' = Taken(q)
  BY <1>1, <1>3 DEF Taken
<1>7. \A g \in Executions : Quiet(g)
  <2>1. \A q \in Partitions : Taken(q) <= Taken(q)'
    <3>1. \A q \in Partitions : Taken(q) \in Nat
      BY TakenType DEF Settled, Base
    <3> QED
      BY <1>3, <1>6, <3>1
  <2>2. \A g \in Executions : Due(g)' \subseteq Due(g) /\ Transcript(g)' = Transcript(g)
    BY <1>1, <2>1, LessDue, SameTranscript DEF Settled
  <2>3. \A g \in Executions, s \in Steps : queued'[<<g, s>>] <= queued[<<g, s>>]
    BY <1>1 DEF Settled, Base, TypeOK, Tasks
  <2> QED
    BY <1>1, <2>2, <2>3 DEF Quiet, Running, Exec, Heard
<1>8. ASSUME x.type \in Moves
      PROVE  /\ Orderly(f) /\ DueFits(f, x)
             /\ IF x.type = "requested" THEN Transcript(f) = {} ELSE Latest(f, o + 1)
  <2>1. o + 1 \in Due(f)
    BY <1>3, <1>4, <1>5, <1>6, <1>8 DEF Due
  <2> QED
    BY <1>5, <2>1 DEF Settled, TurnInv, Orderly, TurnFits, TalkInv, TurnTold
<1>9. ASSUME x.type \in {"step-completed", "step-failed"}, NEW ev, ev.exec = f,
             \A a : a.type = x.type /\ a.step = x.step => MayFollow(plan, a, ev)
      PROVE  MaySay(ev)
  <2>1. PICK types : types = {x.type}
    OBVIOUS
  <2>2. Latest(f, o + 1) /\ o + 1 \in DOMAIN History(f) /\ History(f)[o + 1] = x
    BY <1>3, <1>5, <1>8, <1>9 DEF Moves
  <2>3. LastSaid(f, types, x.step)
    BY <2>1, <2>2 DEF LastSaid
  <2> QED
    BY <1>9, <2>1, <2>3, MayAnswer DEF Settled, Base
<1>10. /\ \A s, g : ~Speaks(SetStatus(f, s)) /\ SetStatus(f, s) # Publishing(Requested(g))
       /\ \A s, g, r : SetStatus(f, s) # Enqueue(g, r)
  BY DEF Speaks, SetStatus, Publishing, Enqueue
<1>11. \A type, s, n :
           /\ \A g, r : Publishing(Notice(type, f, s, n)) # Enqueue(g, r)
           /\ type # "requested" =>
                  \A g : Publishing(Notice(type, f, s, n)) # Publishing(Requested(g))
           /\ Publishing(Notice(type, f, s, n)).event = Notice(type, f, s, n)
           /\ Notice(type, f, s, n).exec = f
  BY DEF Publishing, Enqueue, Requested, Notice
<1>12. /\ \A s, g : ~Speaks(Enqueue(f, s)) /\ Enqueue(f, s) # Publishing(Requested(g))
       /\ \A s, g, r : Enqueue(f, s) = Enqueue(g, r) => g = f /\ r = s
  BY DEF Speaks, Publishing, Enqueue
<1>13. CASE x.type = "requested"
  <2>1. todo' = <<SetStatus(f, "running")>> \o
                IF plan = <<>> THEN Complete(f, 0) ELSE Release("plan-started", f, 1)
    BY <1>1, <1>2, <1>4, <1>13 DEF Handle, StartEffects
  <2>2. Transcript(f) = {}
    BY <1>8, <1>13 DEF Moves
  <2>3. \A ev : ev.exec = f /\ MayOpen(plan, ev) => MaySay(ev)
    BY <2>2 DEF MaySay, Latest
  <2>4. PICK a : a = SetStatus(f, "running")
    OBVIOUS
  <2>5. CASE plan = <<>>
    <3>1. PICK b, c : /\ b = SetStatus(f, "completed")
                      /\ c = Publishing(Notice("plan-completed", f, NoStep, 0))
      OBVIOUS
    <3>2. todo' = <<a>> \o <<b, c>> /\ <<a>> \o <<b, c>> = <<a, b, c>>
      BY <2>1, <2>4, <2>5, <3>1, OneAndThenTwo DEF Complete
    <3>3. MaySay(Notice("plan-completed", f, NoStep, 0))
      BY <2>3, <2>5 DEF MayOpen, Notice
    <3>4. c.event.exec = f /\ MaySay(c.event)
      BY <1>11, <3>1, <3>3
    <3>5. \A g : a # Publishing(Requested(g)) /\ b # Publishing(Requested(g))
                 /\ c # Publishing(Requested(g))
      BY <1>10, <1>11, <2>4, <3>1
    <3>6. ~Speaks(a) /\ ~Speaks(b)
      BY <1>10, <2>4, <3>1
    <3>7. \A g, s : a # Enqueue(g, s) /\ b # Enqueue(g, s) /\ c # Enqueue(g, s)
      BY <1>10, <1>11, <2>4, <3>1
    <3> QED
      BY <1>1, <1>7, <3>2, <3>4, <3>5, <3>6, <3>7, HandlerBegins
  <2>6. CASE plan # <<>>
    <3>1. PICK b, c : /\ b = Publishing(Notice("plan-started", f, plan[1], 1 - 1))
                      /\ c = Enqueue(f, plan[1])
      OBVIOUS
    <3>2. todo' = <<a>> \o <<b, c>> /\ <<a>> \o <<b, c>> = <<a, b, c>>
      BY <2>1, <2>4, <2>6, <3>1, OneAndThenTwo DEF Release
    <3>3. MaySay(Notice("plan-started", f, plan[1], 1 - 1))
      BY <2>3, <2>6 DEF MayOpen, Notice
    <3>4. b.event.exec = f /\ MaySay(b.event)
      BY <1>11, <3>1, <3>3
    <3>5. \A g : a # Publishing(Requested(g)) /\ b # Publishing(Requested(g))
                 /\ c # Publishing(Requested(g))
      BY <1>10, <1>11, <1>12, <2>4, <3>1
    <3>6. ~Speaks(a) /\ ~Speaks(c)
      BY <1>10, <1>12, <2>4, <3>1
    <3>7. Announces(b, f, plan[1])
      BY <3>1 DEF Announces, Publishing, Notice, Releases
    <3>8. \A g, s : /\ a # Enqueue(g, s) /\ b # Enqueue(g, s)
                    /\ c = Enqueue(g, s) => Announces(b, g, s)
      BY <1>10, <1>11, <1>12, <2>4, <3>1, <3>7
    <3> QED
      BY <1>1, <1>7, <3>2, <3>4, <3>5, <3>6, <3>8, HandlerBegins
  <2> QED
    BY <2>5, <2>6
<1>14. CASE x.type = "step-completed"
  <2>1. /\ status[f] # "cancelled"
        /\ todo' = IF Position(x.step) = Len(plan) THEN Complete(f, Len(plan))
                   ELSE Release("plan-progressed", f, Position(x.step) + 1)
    BY <1>1, <1>2, <1>4, <1>14 DEF Handle, StepCompletedEffects
  <2>2. \E k \in DOMAIN plan : plan[k] = x.step /\ DoneTo(f, k)
    BY <1>8, <1>14 DEF DueFits, Moves
  <2>3. PICK k \in DOMAIN plan : plan[k] = x.step
    BY <2>2
  <2>4. Position(x.step) = k
    BY <2>3 DEF Position, Settled, Base, Earned, PlanIsInjective
  <2>5. k \in Nat /\ (k + 1) - 1 = k
    <3>1. plan \in Seq(Steps)
      BY DEF Settled, Base, TypeOK
    <3> QED
      BY <3>1
  <2>6. CASE k = Len(plan)
    <3>1. PICK a, b : /\ a = SetStatus(f, "completed")
                      /\ b = Publishing(Notice("plan-completed", f, NoStep, Len(plan)))
      OBVIOUS
    <3>2. todo' = <<a, b>>
      BY <2>1, <2>4, <2>6, <3>1 DEF Complete
    <3>3. PICK ev : ev = Notice("plan-completed", f, NoStep, Len(plan))
      OBVIOUS
    <3>4. \A d : d.type = x.type /\ d.step = x.step => MayFollow(plan, d, ev)
      BY <1>14, <2>3, <2>6, <3>3 DEF MayFollow, Notice
    <3>5. MaySay(ev) /\ ev.exec = f /\ b.event = ev
      BY <1>9, <1>11, <1>14, <3>1, <3>3, <3>4
    <3>6. \A g : a # Publishing(Requested(g)) /\ b # Publishing(Requested(g))
      BY <1>10, <1>11, <3>1
    <3>7. ~Speaks(a) /\ \A g, s : a # Enqueue(g, s) /\ b # Enqueue(g, s)
      BY <1>10, <1>11, <3>1
    <3> QED
      BY <1>1, <1>7, <3>2, <3>5, <3>6, <3>7, HandlerBegins
  <2>7. CASE k # Len(plan)
    <3>1. PICK a, b : /\ a = Publishing(Notice("plan-progressed", f, plan[k + 1], (k + 1) - 1))
                      /\ b = Enqueue(f, plan[k + 1])
      OBVIOUS
    <3>2. todo' = <<a, b>>
      BY <2>1, <2>4, <2>7, <3>1 DEF Release
    <3>3. PICK ev : ev = Notice("plan-progressed", f, plan[k + 1], (k + 1) - 1)
      OBVIOUS
    <3>4. \A d : d.type = x.type /\ d.step = x.step => MayFollow(plan, d, ev)
      BY <1>14, <2>3, <2>5, <2>7, <3>3 DEF MayFollow, Notice
    <3>5. MaySay(ev) /\ ev.exec = f /\ a.event = ev
      BY <1>9, <1>11, <1>14, <3>1, <3>3, <3>4
    <3>6. \A g : a # Publishing(Requested(g)) /\ b # Publishing(Requested(g))
      BY <1>11, <1>12, <3>1
    <3>7. Announces(a, f, plan[k + 1])
      BY <3>1 DEF Announces, Publishing, Notice, Releases
    <3>8. ~Speaks(b) /\ \A g, s : a # Enqueue(g, s) /\ (b = Enqueue(g, s) => Announces(a, g, s))
      BY <1>11, <1>12, <3>1, <3>7
    <3> QED
      BY <1>1, <1>7, <3>2, <3>5, <3>6, <3>8, HandlerBegins
  <2> QED
    BY <2>6, <2>7
<1>15. CASE x.type = "step-failed"
  <2>1. PICK a, b : /\ a = SetStatus(f, "failed")
                    /\ b = Publishing(Notice("plan-failed", f, x.step, 0))
    OBVIOUS
  <2>2. todo' = <<a, b>>
    BY <1>1, <1>2, <1>4, <1>15, <2>1 DEF Handle, StepFailedEffects
  <2>3. PICK ev : ev = Notice("plan-failed", f, x.step, 0)
    OBVIOUS
  <2>4. \A d : d.type = x.type /\ d.step = x.step => MayFollow(plan, d, ev)
    BY <1>15, <2>3 DEF MayFollow, Notice
  <2>5. MaySay(ev) /\ ev.exec = f /\ b.event = ev
    BY <1>9, <1>11, <1>15, <2>1, <2>3, <2>4
  <2>6. \A g : a # Publishing(Requested(g)) /\ b # Publishing(Requested(g))
    BY <1>10, <1>11, <2>1
  <2>7. ~Speaks(a) /\ \A g, s : a # Enqueue(g, s) /\ b # Enqueue(g, s)
    BY <1>10, <1>11, <2>1
  <2> QED
    BY <1>1, <1>7, <2>2, <2>5, <2>6, <2>7, HandlerBegins
<1>16. CASE x.type = "stop-requested"
  <2>1. PICK a, b, c : /\ a = SetStatus(f, "cancelled") /\ b = [op |-> "revoke", exec |-> f]
                       /\ c = Publishing(Notice("plan-stopped", f, NoStep, 0))
    OBVIOUS
  <2>2. todo' = <<a, b, c>>
    BY <1>1, <1>2, <1>4, <1>16, <2>1 DEF Handle, StopEffects
  <2>3. ~Speaks(a) /\ ~Speaks(b) /\ ~Speaks(c)
    BY <1>10, <2>1 DEF Speaks, Publishing, Notice, IsProgress
  <2>4. \A g : /\ a # Publishing(Requested(g)) /\ b # Publishing(Requested(g))
               /\ c # Publishing(Requested(g))
    BY <1>10, <1>11, <2>1 DEF Publishing
  <2>5. \A g, s : a # Enqueue(g, s) /\ b # Enqueue(g, s) /\ c # Enqueue(g, s)
    BY <1>10, <1>11, <2>1 DEF Enqueue
  <2> QED
    BY <1>1, <1>7, <2>2, <2>3, <2>4, <2>5, HandlerBegins
<1>17. CASE x.type = "restart-requested"
  <2>1. PICK a : a = [op |-> "restart"]
    OBVIOUS
  <2>2. todo' = <<a>>
    BY <1>1, <1>2, <1>17, <2>1 DEF Handle
  <2>3. ~Speaks(a) /\ \A g, s : a # Publishing(Requested(g)) /\ a # Enqueue(g, s)
    BY <2>1 DEF Speaks, Publishing, Enqueue
  <2> QED
    BY <1>1, <1>7, <2>2, <2>3, HandlerBegins
<1> QED
  BY <1>1, <1>2, <1>13, <1>14, <1>15, <1>16, <1>17 DEF Handle

-----------------------------------------------------------------------------
LEMMA TalkInit == Init => TalkInv
<1> SUFFICES ASSUME Init PROVE TalkInv
  OBVIOUS
<1>1. /\ todo = <<>> /\ unpublished = {}
      /\ \A p \in Partitions : log[p] = <<>>
      /\ \A t \in Tasks : queued[t] = 0
      /\ \A w \in Workers : pc[w] = "idle"
  BY DEF Init
<1>2. ASSUME NEW e \in Executions
      PROVE  TurnTold(e) /\ RunSoFar(e)
  <2>1. Transcript(e) = {} /\ Due(e) = {}
    BY <1>1, PartitionOfAssumption DEF Transcript, Due, History
  <2>2. Waiting(e) = {} /\ Running(e) = {}
    BY <1>1 DEF Waiting, Running, Tasks
  <2> QED
    BY <2>1, <2>2 DEF TurnTold, RunSoFar
<1> QED
  BY <1>1, <1>2 DEF TalkInv

LEMMA TalkStep ==
    ASSUME Settled, Settled', TalkInv, NoRedelivery, NoLoss, [Next]_vars
    PROVE  TalkInv'
<1>1. Grows
  BY RunStep DEF Settled, Base, Keyed, Earned, ProgressIsEarned, EventsAreEarned
<1>2. plan' = plan
  BY PlanStays
<1>3. CASE UNCHANGED vars
  <2>1. UNCHANGED <<log, mode, current, todo, offset, unpublished, queued, pc, task>>
    BY <1>3 DEF vars
  <2>2. \A t \in Tasks : queued'[t] <= queued[t]
    BY <2>1 DEF Settled, Base, TypeOK
  <2> QED
    BY <1>1, <1>2, <2>1, <2>2, WorkersAreSilent DEF Settled, Base
<1>4. CASE DispatcherStep
  BY <1>1, <1>2, <1>4, TalkSilent, TalkPoll, TalkPublish, TalkEnqueue, TalkRestart
     DEF DispatcherStep, DoEffect
<1> QED
  BY <1>1, <1>2, <1>3, <1>4, TalkApi, TalkNode, TalkEnvironment DEF Next

(* What each place of a turn was told last, and what each handler has still *)
(* to say: what makes the transcript of an execution the run it tells.      *)
THEOREM TalkInvIsInductive ==
    ASSUME NoRedelivery, NoLoss
    PROVE  Spec => []TalkInv
<1>1. Settled /\ Settled' /\ TalkInv /\ [Next]_vars => TalkInv'
  BY TalkStep
<1>2. Settled <=> TypeOK /\ Earned /\ RunInv /\ TurnInv
  BY DEF Settled, Base
<1> QED
  BY TalkInit, <1>1, <1>2, TypeCorrect, EarnedIsInductive, RunInvIsInductive,
     TurnInvIsInductive, PTL DEF Spec

(* As long as nothing is delivered twice and nothing is lost, the events of *)
(* an execution tell one sequential run of its plan.                         *)
THEOREM TranscriptCorrect ==
    ASSUME NoRedelivery, NoLoss
    PROVE  Spec => []TranscriptIsARun
<1>1. TalkInv => TranscriptIsARun
  <2> SUFFICES ASSUME TalkInv, NEW e \in Executions, NEW i \in Transcript(e)
               PROVE  LET h == History(e)
                          before == {j \in Transcript(e) : j < i}
                      IN
                      /\ before = {} => MayOpen(plan, h[i])
                      /\ \A j \in before :
                             (\A k \in before : k <= j) => MayFollow(plan, h[j], h[i])
    BY DEF TranscriptIsARun
  <2>1. RunSoFar(e)
    BY DEF TalkInv
  <2>2. ASSUME NEW j \in Transcript(e), j < i,
               \A k \in {k \in Transcript(e) : k < i} : k <= j
        PROVE  MayFollow(plan, History(e)[j], History(e)[i])
    BY <2>1, <2>2 DEF RunSoFar
  <2> QED
    BY <2>1, <2>2 DEF RunSoFar
<1> QED
  BY <1>1, TalkInvIsInductive, PTL
=============================================================================
