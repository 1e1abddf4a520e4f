-------------------------- MODULE SchedulerProofs --------------------------
(***************************************************************************)
(* What holds of Scheduler for any number of executions, faults and        *)
(* moments.                                                                *)
(***************************************************************************)
EXTENDS Scheduler, FiniteSetTheorems, TLAPS

(* What a step does to the topic, in the only terms the invariants need:   *)
(* it grows, and what it held stays where it was.                          *)
TopicGrows ==
    /\ topic' \in Seq(Event)
    /\ Len(topic') >= Len(topic)
    /\ \A i \in DOMAIN topic : topic'[i] = topic[i]

(* Publishing an event appends copies of it and nothing else. *)
LEMMA PublishGrows ==
    ASSUME topic \in Seq(Event), faults \in 0..MaxFaults, NEW ev \in Event, Publish(ev)
    PROVE  /\ TopicGrows
           /\ \A i \in Len(topic) + 1..Len(topic') : topic'[i] = ev
           /\ \E i \in DOMAIN topic' : topic'[i] = ev
           /\ faults' \in 0..MaxFaults
<1>1. CASE topic' = Append(topic, ev) /\ UNCHANGED faults
  <2>1. topic' \in Seq(Event) /\ Len(topic') = Len(topic) + 1
    BY <1>1
  <2>2. \A i \in DOMAIN topic : topic'[i] = topic[i]
    BY <1>1
  <2>3. topic'[Len(topic) + 1] = ev
    BY <1>1
  <2>4. Len(topic) + 1 \in DOMAIN topic'
    BY <2>1
  <2> QED
    BY <1>1, <2>1, <2>2, <2>3, <2>4 DEF TopicGrows
<1>2. CASE topic' = topic \o <<ev, ev>> /\ Fault("duplicated")
  <2>1. topic' \in Seq(Event) /\ Len(topic') = Len(topic) + 2
    BY <1>2
  <2>2. \A i \in DOMAIN topic : topic'[i] = topic[i]
    BY <1>2
  <2>3. topic'[Len(topic) + 1] = ev /\ topic'[Len(topic) + 2] = ev
    BY <1>2
  <2>4. Len(topic) + 1 \in DOMAIN topic'
    BY <2>1
  <2>5. faults' \in 0..MaxFaults
    BY <1>2, FaultsAssumption DEF Fault
  <2> QED
    BY <2>1, <2>2, <2>3, <2>4, <2>5 DEF TopicGrows
<1> QED
  BY <1>1, <1>2 DEF Publish

(* A lost message changes the count of the faults only. *)
LEMMA LossKeeps ==
    ASSUME topic \in Seq(Event), faults \in 0..MaxFaults, Lost
    PROVE  TopicGrows /\ UNCHANGED topic /\ faults' \in 0..MaxFaults
<1>1. UNCHANGED topic
  BY DEF Lost
<1>2. faults' \in 0..MaxFaults
  BY FaultsAssumption DEF Lost, Fault
<1> QED
  BY <1>1, <1>2 DEF TopicGrows

(* Notices are events. *)
LEMMA NoticeType ==
    ASSUME NEW e \in Executions, NEW type \in EventTypes
    PROVE  Notice(type, e) \in Event
BY DEF Notice, Event

-----------------------------------------------------------------------------
(* Type correctness needs that the event in hand exists. *)
InHand == added => up /\ scheduled < Len(topic)

Typed == TypeOK /\ InHand

LEMMA TypedInit == Init => Typed
<1> SUFFICES ASSUME Init
             PROVE  Typed
  OBVIOUS
<1>1. up \in BOOLEAN /\ added \in BOOLEAN /\ ~added
  BY DEF Init
<1>2. topic \in Seq(Event) /\ Len(topic) = 0
  BY DEF Init
<1> QED
  BY <1>1, <1>2, TimesAssumption, FaultsAssumption DEF Init, Typed, TypeOK, InHand, Times

(* A request that leaves the producer's buffer. *)
LEMMA OneLessSent ==
    ASSUME TypeOK, NEW e \in Executions, PublishRequest(e)
    PROVE  /\ sending' \in [Executions -> Nat]
           /\ sending[e] \in Nat \ {0} /\ sending'[e] = sending[e] - 1
           /\ \A f \in Executions : f # e => sending'[f] = sending[f]
<1>1. sending \in [Executions -> Nat]
  BY DEF TypeOK
<1>2. sending[e] > 0 /\ sending' = [sending EXCEPT ![e] = @ - 1]
  BY DEF PublishRequest
<1>3. sending[e] - 1 \in Nat
  BY <1>1, <1>2
<1> QED
  BY <1>1, <1>2, <1>3

LEMMA TypedNext == Typed /\ [Next]_vars => Typed'
<1> SUFFICES ASSUME Typed, [Next]_vars
             PROVE  Typed'
  OBVIOUS
<1> USE DEF Typed, TypeOK, InHand, Times
<1>1. ASSUME NEW e \in Executions, NEW t \in Times, Schedule(e, t)
      PROVE  Typed'
  BY <1>1 DEF Schedule, topicVars, jobVars, processVars
<1>2. ASSUME NEW e \in Executions, PublishScheduled(e)
      PROVE  Typed'
  <2>1. Notice("scheduled", e) \in Event
    BY NoticeType DEF EventTypes
  <2>2. TopicGrows /\ faults' \in 0..MaxFaults
    BY <1>2, <2>1, PublishGrows, LossKeeps DEF PublishScheduled
  <2> QED
    BY <1>2, <2>2 DEF PublishScheduled, TopicGrows, jobVars, processVars
<1>3. ASSUME NEW e \in Executions, Cancel(e)
      PROVE  Typed'
  <2>1. Notice("stop-requested", e) \in Event
    BY NoticeType DEF EventTypes
  <2>2. TopicGrows /\ faults' \in 0..MaxFaults
    BY <1>3, <2>1, PublishGrows, LossKeeps DEF Cancel
  <2> QED
    BY <1>3, <2>2 DEF Cancel, TopicGrows, apiVars, jobVars, processVars
<1>4. ASSUME NEW e \in Executions, Wake(e)
      PROVE  Typed'
  BY <1>4 DEF Wake, topicVars, apiVars, processVars
<1>5. ASSUME NEW e \in Executions, PublishRequest(e)
      PROVE  Typed'
  <2>1. Notice("requested", e) \in Event
    BY NoticeType DEF EventTypes
  <2>2. TopicGrows /\ faults' \in 0..MaxFaults /\ missed' \subseteq Executions
    <3>1. CASE Publish(Notice("requested", e)) /\ UNCHANGED missed
      BY <2>1, <3>1, PublishGrows
    <3>2. CASE Lost /\ missed' = missed \cup {e}
      BY <3>2, LossKeeps
    <3> QED
      BY <1>5, <3>1, <3>2 DEF PublishRequest
  <2>3. sending' \in [Executions -> Nat]
    BY <1>5, OneLessSent
  <2> QED
    BY <1>5, <2>2, <2>3 DEF PublishRequest, TopicGrows, apiVars, processVars
<1>14. ASSUME NEW e \in Executions, RunJob(e)
       PROVE  Typed'
  <2>1. sending' \in [Executions -> Nat] /\ missed' \subseteq Executions
    BY <1>14 DEF RunJob
  <2> QED
    BY <1>14, <2>1 DEF RunJob, topicVars, apiVars, processVars
<1>6. CASE Skip
  BY <1>6 DEF Skip, Polls, apiVars, jobVars, processVars
<1>7. CASE AddJob
  <2>1. Polled \in Event
    BY <1>7 DEF AddJob, Polls, Polled
  <2>2. added' /\ added' \in BOOLEAN /\ up
    BY <1>7 DEF AddJob, Polls
  <2>3. jobs' \subseteq Executions
    BY <1>7, <2>1 DEF AddJob, Event
  <2>4. UNCHANGED <<topicVars, apiVars, up, firing, sending, missed, now, faults, started>>
    BY <1>7 DEF AddJob
  <2>5. scheduled < Len(topic)
    BY <1>7 DEF AddJob, Polls
  <2>6. TypeOK'
    BY <2>2, <2>3, <2>4 DEF topicVars, apiVars
  <2>7. up'
    BY <2>2, <2>4, Zenon
  <2>8. scheduled' < Len(topic')
    BY <2>4, <2>5 DEF topicVars
  <2> QED
    BY <2>6, <2>7, <2>8
<1>8. CASE Commit
  <2>1. added /\ ~added' /\ added' \in BOOLEAN
    BY <1>8 DEF Commit
  <2>2. scheduled < Len(topic) /\ scheduled' = scheduled + 1
    BY <1>8, <2>1 DEF Commit
  <2> QED
    BY <1>8, <2>1, <2>2 DEF Commit, apiVars, jobVars
<1>9. CASE Dispatch
  <2>1. topic[dispatched + 1] \in Event
    BY <1>9 DEF Dispatch
  <2>2. StatusAfter(topic[dispatched + 1]) \in {"absent", "pending", "started", "cancelled"}
    BY <2>1 DEF StatusAfter, Event
  <2> QED
    BY <1>9, <2>1, <2>2 DEF Dispatch, Event, jobVars, processVars
<1>10. CASE Tick
  <2>1. faults' \in 0..MaxFaults
    BY <1>10, FaultsAssumption DEF Tick, Fault
  <2> QED
    BY <1>10, <2>1, TimesAssumption DEF Tick, topicVars, apiVars, jobVars, processVars
<1>11. CASE Crash
  <2>1. faults' \in 0..MaxFaults
    BY <1>11, FaultsAssumption DEF Crash, Fault
  <2> QED
    BY <1>11, <2>1 DEF Crash, topicVars
<1>12. CASE Restart
  BY <1>12 DEF Restart, topicVars, apiVars, jobVars
<1>13. CASE UNCHANGED vars
  BY <1>13 DEF vars, topicVars, apiVars, jobVars, processVars
<1> QED
  BY <1>1, <1>2, <1>3, <1>4, <1>5, <1>6, <1>7, <1>8, <1>9, <1>10, <1>11, <1>12, <1>13, <1>14 DEF Next

(* The scheduler's state is always well typed; in particular neither       *)
(* consumer group commits an offset beyond the end of the topic.           *)
THEOREM SchedulerTypeCorrect == Spec => []TypeOK
<1>1. Typed => TypeOK
  BY DEF Typed
<1> QED
  BY <1>1, TypedInit, TypedNext, PTL DEF Spec

-----------------------------------------------------------------------------
(* A scheduled event is kept once its job is added, and not only once it   *)
(* is committed.                                                           *)
HandIsKept ==
    added /\ topic[scheduled + 1].type = "scheduled" => IsKept(topic[scheduled + 1].exec)

Kept == HandIsKept /\ KeptSinceTheStart

(* Only a crash forgets: what any other step takes out of the job store or *)
(* the executor goes on to the executor, the topic or the report.          *)
LEMMA KeptIsKept ==
    ASSUME Typed, Next, ~Crash, NEW e \in Executions, IsKept(e)
    PROVE  IsKept(e)'
<1> USE DEF IsKept, Logged
<1>1. TopicGrows => (Logged("requested", e) => Logged("requested", e)')
  BY DEF TopicGrows, Typed, TypeOK
<1>2. CASE UNCHANGED <<topic, sending>> /\ jobs \cup firing \cup missed \subseteq (jobs \cup firing \cup missed)'
  BY <1>2
<1>3. CASE TopicGrows /\ UNCHANGED <<jobs, firing, sending, missed>>
  BY <1>1, <1>3
<1>4. ASSUME NEW f \in Executions, PublishScheduled(f) \/ Cancel(f)
      PROVE  TopicGrows /\ UNCHANGED <<jobs, firing, sending, missed>>
  <2>1. Notice("scheduled", f) \in Event /\ Notice("stop-requested", f) \in Event
    BY NoticeType DEF EventTypes
  <2> QED
    BY <1>4, <2>1, PublishGrows, LossKeeps DEF PublishScheduled, Cancel, jobVars, Typed, TypeOK
<1>5. ASSUME NEW f \in Executions, PublishRequest(f)
      PROVE  IsKept(e)'
  <2>1. Notice("requested", f) \in Event
    BY NoticeType DEF EventTypes
  <2>2. e # f => sending'[e] = sending[e]
    BY <1>5, OneLessSent DEF Typed
  <2>3. UNCHANGED <<jobs, firing>>
    BY <1>5 DEF PublishRequest
  <2>4. CASE Publish(Notice("requested", f)) /\ UNCHANGED missed
    <3>1. TopicGrows /\ Logged("requested", f)'
      BY <2>1, <2>4, PublishGrows DEF Typed, TypeOK
    <3> QED
      BY <1>1, <2>2, <2>3, <2>4, <3>1
  <2>5. CASE missed' = missed \cup {f} /\ UNCHANGED topic
    BY <2>2, <2>3, <2>5
  <2> QED
    BY <1>5, <2>4, <2>5 DEF PublishRequest, Lost
<1>8. ASSUME NEW f \in Executions, RunJob(f)
      PROVE  IsKept(e)'
  <2>1. /\ UNCHANGED <<topic, jobs>> /\ firing' = firing \ {f}
        /\ \/ sending' = [sending EXCEPT ![f] = @ + 1] /\ UNCHANGED missed
           \/ missed' = missed \cup {f} /\ UNCHANGED sending
    BY <1>8 DEF RunJob, topicVars
  <2>2. sending \in [Executions -> Nat]
    BY DEF Typed, TypeOK
  <2>3. CASE sending' = [sending EXCEPT ![f] = @ + 1] /\ UNCHANGED missed
    <3>1. sending'[f] > 0 /\ (e # f => sending'[e] = sending[e])
      BY <2>2, <2>3
    <3> QED
      BY <2>1, <2>3, <3>1
  <2>4. CASE missed' = missed \cup {f} /\ UNCHANGED sending
    BY <2>1, <2>4
  <2> QED
    BY <2>1, <2>3, <2>4
<1>6. ASSUME NEW f \in Executions, Wake(f)
      PROVE  IsKept(e)'
  <2>1. /\ UNCHANGED <<topic, sending, missed>> /\ jobs' = jobs \ {f}
        /\ firing' = firing \cup {f} \/ (sending[f] > 0 /\ UNCHANGED firing)
    BY <1>6 DEF Wake, topicVars
  <2> QED
    BY <2>1
<1>7. ASSUME \/ \E f \in Executions, t \in Times : Schedule(f, t)
             \/ Skip \/ AddJob \/ Commit \/ Dispatch \/ Tick \/ Restart
      PROVE  UNCHANGED <<topic, sending>> /\ jobs \cup firing \cup missed \subseteq (jobs \cup firing \cup missed)'
  BY <1>7 DEF Schedule, Skip, AddJob, Commit, Dispatch, Tick, Restart, topicVars, jobVars
<1> QED
  BY <1>2, <1>3, <1>4, <1>5, <1>6, <1>7, <1>8 DEF Next

(* The topic grows in every step. *)
LEMMA NextGrows ==
    ASSUME Typed, Next
    PROVE  TopicGrows
<1> USE DEF Typed, TypeOK, TopicGrows
<1>1. ASSUME NEW e \in Executions, PublishScheduled(e) \/ Cancel(e) \/ PublishRequest(e)
      PROVE  TopicGrows
  <2>1. \A type \in EventTypes : Notice(type, e) \in Event
    BY NoticeType
  <2>2. CASE UNCHANGED topic
    BY <2>2
  <2>3. ASSUME NEW type \in EventTypes, Publish(Notice(type, e))
        PROVE  TopicGrows
    BY <2>1, <2>3, PublishGrows
  <2> QED
    BY <1>1, <2>2, <2>3 DEF PublishScheduled, Cancel, PublishRequest, Lost, EventTypes
<1>2. ASSUME \/ \E e \in Executions : (\E t \in Times : Schedule(e, t)) \/ Wake(e) \/ RunJob(e)
             \/ Skip \/ AddJob \/ Commit \/ Dispatch \/ Tick \/ Crash \/ Restart
      PROVE  UNCHANGED topic
  BY <1>2 DEF Schedule, Wake, RunJob, Skip, AddJob, Commit, Dispatch, Tick, Crash, Restart, topicVars
<1> QED
  BY <1>1, <1>2 DEF Next

LEMMA KeptNext == Typed /\ Kept /\ [Next]_vars => Kept'
<1> SUFFICES ASSUME Typed, Kept, [Next]_vars
             PROVE  Kept'
  OBVIOUS
<1>1. CASE UNCHANGED vars
  BY <1>1 DEF vars, topicVars, jobVars, processVars, Kept, HandIsKept, KeptSinceTheStart, IsKept, Logged
<1>2. CASE Crash
  <2>1. ~up' /\ ~added'
    BY <1>2 DEF Crash
  <2> QED
    BY <2>1 DEF Kept, HandIsKept, KeptSinceTheStart
<1>3. CASE Next /\ ~Crash
  <2>1. TopicGrows
    BY <1>3, NextGrows
  <2>2. \A e \in Executions : IsKept(e) => IsKept(e)'
    BY <1>3, KeptIsKept
  <2>3. \A i \in DOMAIN topic : topic[i].exec \in Executions /\ i \in DOMAIN topic' /\ topic'[i] = topic[i]
    <3>1. topic \in Seq(Event) /\ topic' \in Seq(Event) /\ Len(topic') >= Len(topic)
      BY <2>1 DEF TopicGrows, Typed, TypeOK
    <3>2. ASSUME NEW i \in DOMAIN topic
          PROVE  topic[i] \in Event /\ i \in DOMAIN topic' /\ topic'[i] = topic[i]
      BY <2>1, <3>1 DEF TopicGrows
    <3> QED
      BY <3>2 DEF Event
  <2>4. CASE UNCHANGED <<up, added, scheduled, started>>
    <3>1. HandIsKept'
      BY <2>2, <2>3, <2>4 DEF Kept, HandIsKept, Typed, TypeOK, InHand
    <3>2. KeptSinceTheStart'
      BY <2>2, <2>3, <2>4 DEF Kept, KeptSinceTheStart, Typed, TypeOK
    <3> QED
      BY <3>1, <3>2 DEF Kept
  <2>5. CASE Skip
    <3>1. ~added' /\ up
      BY <2>5 DEF Skip, Polls, processVars
    <3>2. scheduled' = scheduled + 1 /\ scheduled < Len(topic) /\ started' = started
      BY <2>5 DEF Skip, Polls, processVars
    <3>3. topic[scheduled + 1].type # "scheduled"
      BY <2>5 DEF Skip, Polled
    <3>4. KeptSinceTheStart'
      BY <2>2, <2>3, <3>1, <3>2, <3>3 DEF Kept, KeptSinceTheStart, Typed, TypeOK
    <3> QED
      BY <3>1, <3>4 DEF Kept, HandIsKept
  <2>6. CASE AddJob
    <3>1. up /\ scheduled < Len(topic) /\ UNCHANGED <<scheduled, started, up>>
      BY <2>6 DEF AddJob, Polls, topicVars
    <3>2. topic[scheduled + 1].exec \in jobs'
      BY <2>6 DEF AddJob, Polled
    <3>3. HandIsKept'
      BY <2>3, <3>1, <3>2 DEF HandIsKept, IsKept, Typed, TypeOK
    <3>4. KeptSinceTheStart'
      BY <2>2, <2>3, <3>1 DEF Kept, KeptSinceTheStart, Typed, TypeOK
    <3> QED
      BY <3>3, <3>4 DEF Kept
  <2>7. CASE Commit
    <3>1. ~added' /\ added /\ up
      BY <2>7 DEF Commit
    <3>2. scheduled' = scheduled + 1 /\ scheduled < Len(topic) /\ started' = started
      BY <2>7, <3>1 DEF Commit, Typed, InHand
    <3>3. topic[scheduled + 1].type = "scheduled" => IsKept(topic[scheduled + 1].exec)
      BY <3>1 DEF Kept, HandIsKept
    <3>4. KeptSinceTheStart'
      BY <2>2, <2>3, <3>1, <3>2, <3>3 DEF Kept, KeptSinceTheStart, Typed, TypeOK
    <3> QED
      BY <3>1, <3>4 DEF Kept, HandIsKept
  <2>8. CASE Restart
    <3>1. ~added
      BY <2>8 DEF Restart, Typed, InHand
    <3>2. ~added' /\ started' = scheduled'
      BY <2>8, <3>1 DEF Restart, topicVars
    <3>3. started' + 1..scheduled' = {}
      BY <2>8, <3>2 DEF Restart, topicVars, Typed, TypeOK
    <3> QED
      BY <3>2, <3>3 DEF Kept, HandIsKept, KeptSinceTheStart
  <2> QED
    BY <1>3, <2>4, <2>5, <2>6, <2>7, <2>8
       DEF Next, Schedule, PublishScheduled, Cancel, Wake, RunJob, PublishRequest, Dispatch, Tick,
           topicVars, processVars
<1> QED
  BY <1>1, <1>2, <1>3

(* Of the scheduled events committed since the process was started, none   *)
(* is forgotten, for any number of executions and faults.                  *)
THEOREM KeptCorrect == Spec => []KeptSinceTheStart
<1>1. Init => Kept
  BY DEF Init, Kept, HandIsKept, KeptSinceTheStart
<1>2. Kept => KeptSinceTheStart
  BY DEF Kept
<1> QED
  BY <1>1, <1>2, TypedInit, TypedNext, KeptNext, PTL DEF Spec

(* A process that is never restarted forgets no schedule at all: the       *)
(* restart, and nothing else, is what loses executions.                    *)
THEOREM OnlyRestartsForget ==
    ASSUME "crash" \notin FaultKinds
    PROVE  Spec => []CommittedSchedulesAreKept
<1> DEFINE FirstLife == up /\ started = 0
<1>1. Init => FirstLife
  BY DEF Init
<1>2. FirstLife /\ [Next]_vars => FirstLife'
  <2> SUFFICES ASSUME FirstLife, [Next]_vars
               PROVE  FirstLife'
    OBVIOUS
  <2>1. ~Crash
    BY DEF Crash, Fault
  <2>2. ~Restart
    BY DEF Restart
  <2>3. UNCHANGED <<up, started>>
    BY <2>1, <2>2
       DEF Next, Schedule, PublishScheduled, Cancel, Wake, RunJob, PublishRequest, Skip, AddJob,
           Commit, Dispatch, Tick, processVars, vars
  <2> QED
    BY <2>3, Zenon
<1>3. FirstLife /\ KeptSinceTheStart => CommittedSchedulesAreKept
  BY DEF KeptSinceTheStart, CommittedSchedulesAreKept
<1> QED
  BY <1>1, <1>2, <1>3, KeptCorrect, PTL DEF Spec

-----------------------------------------------------------------------------
(* A request is due because a job exists only for a published schedule and *)
(* is handed to the executor only when it is due.                          *)
Mentioned(e) == \E i \in DOMAIN topic : topic[i].exec = e

InExecutor == firing \cup {e \in Executions : sending[e] > 0}

Jobs ==
    /\ \A e \in Executions : status[e] # "absent" => due[e] \in Times
    /\ \A e \in Executions : e \in unpublished \/ Mentioned(e) => status[e] # "absent"
    /\ \A e \in jobs \cup InExecutor : Logged("scheduled", e)
    /\ \A e \in InExecutor : due[e] <= now

(* Which events a step may append: about executions the API has just       *)
(* created or found, and requests that jobs produced.              *)
LEMMA Appended ==
    ASSUME Typed, Next, NEW e \in Executions
    PROVE  /\ Logged("scheduled", e) => Logged("scheduled", e)'
           /\ Mentioned(e)' => Mentioned(e) \/ e \in unpublished \cup InExecutor
                                 \/ status[e] \in {"pending", "started"}
           /\ \A i \in Len(topic) + 1..Len(topic') :
                 topic'[i] = Notice("requested", e) => e \in InExecutor
<1>0. topic \in Seq(Event) /\ faults \in 0..MaxFaults
  BY DEF Typed, TypeOK
<1>1. TopicGrows
  BY NextGrows
<1>2. Logged("scheduled", e) => Logged("scheduled", e)'
  BY <1>1 DEF TopicGrows, Logged
<1>3. ASSUME NEW f \in Executions, NEW type \in EventTypes, Publish(Notice(type, f))
      PROVE  /\ Mentioned(e)' => Mentioned(e) \/ e = f
             /\ \A i \in Len(topic) + 1..Len(topic') : topic'[i] = Notice(type, f)
  <2>1. Notice(type, f) \in Event /\ Notice(type, f).exec = f
    BY NoticeType DEF Notice
  <2>2. \A i \in Len(topic) + 1..Len(topic') : topic'[i] = Notice(type, f)
    BY <1>0, <1>3, <2>1, PublishGrows
  <2>3. \A i \in DOMAIN topic' :
           \/ i \in DOMAIN topic /\ topic'[i] = topic[i]
           \/ topic'[i] = Notice(type, f)
    <3>1. /\ Len(topic) \in Nat /\ Len(topic') \in Nat
          /\ DOMAIN topic = 1..Len(topic) /\ DOMAIN topic' = 1..Len(topic')
      BY <1>0, <1>1 DEF TopicGrows
    <3> QED
      BY <1>1, <2>2, <3>1 DEF TopicGrows
  <2>4. ASSUME NEW i \in DOMAIN topic', topic'[i].exec = e
        PROVE  Mentioned(e) \/ e = f
    <3>1. CASE i \in DOMAIN topic /\ topic'[i] = topic[i]
      BY <2>4, <3>1 DEF Mentioned
    <3>2. CASE topic'[i] = Notice(type, f)
      BY <2>1, <2>4, <3>2
    <3> QED
      BY <2>3, <3>1, <3>2
  <2>5. Mentioned(e)' => \E i \in DOMAIN topic' : topic'[i].exec = e
    BY DEF Mentioned
  <2> QED
    BY <2>2, <2>4, <2>5
<1>4. ASSUME NEW f \in Executions, NEW type \in EventTypes, type # "requested", Publish(Notice(type, f))
      PROVE  /\ Mentioned(e)' => Mentioned(e) \/ e = f
             /\ \A i \in Len(topic) + 1..Len(topic') : topic'[i] # Notice("requested", e)
  <2>1. Notice(type, f) # Notice("requested", e)
    BY <1>4 DEF Notice
  <2> QED
    BY <1>3, <1>4, <2>1
<1>5. CASE UNCHANGED topic
  <2>1. Len(topic) + 1..Len(topic') = {}
    BY <1>5
  <2> QED
    BY <1>2, <1>5, <2>1 DEF Mentioned
<1>6. ASSUME NEW f \in Executions, PublishRequest(f), ~UNCHANGED topic
      PROVE  /\ Mentioned(e)' => Mentioned(e) \/ e = f
             /\ \A i \in Len(topic) + 1..Len(topic') :
                   topic'[i] = Notice("requested", e) => e = f
  <2>1. Publish(Notice("requested", f))
    BY <1>6 DEF PublishRequest, Lost
  <2>2. "requested" \in EventTypes
    BY DEF EventTypes
  <2>3. /\ Mentioned(e)' => Mentioned(e) \/ e = f
        /\ \A i \in Len(topic) + 1..Len(topic') : topic'[i] = Notice("requested", f)
    BY <1>3, <2>1, <2>2
  <2>4. Notice("requested", f) = Notice("requested", e) => e = f
    BY DEF Notice
  <2> QED
    BY <2>1, <2>3, <2>4
<1>7. ASSUME \/ \E f \in Executions : (\E t \in Times : Schedule(f, t)) \/ Wake(f) \/ RunJob(f)
             \/ Skip \/ AddJob \/ Commit \/ Dispatch \/ Tick \/ Crash \/ Restart
      PROVE  UNCHANGED topic
  BY <1>7 DEF Schedule, Wake, RunJob, Skip, AddJob, Commit, Dispatch, Tick, Crash, Restart, topicVars
<1>8. ASSUME NEW f \in Executions, PublishScheduled(f), ~UNCHANGED topic
      PROVE  f \in unpublished /\ Publish(Notice("scheduled", f))
  BY <1>8 DEF PublishScheduled, Lost
<1>9. ASSUME NEW f \in Executions, Cancel(f), ~UNCHANGED topic
      PROVE  status[f] \in {"pending", "started"} /\ Publish(Notice("stop-requested", f))
  BY <1>9 DEF Cancel, Lost
<1>10. ASSUME NEW f \in Executions, PublishRequest(f)
       PROVE  f \in InExecutor
  BY <1>10 DEF PublishRequest, InExecutor
<1>11. "scheduled" \in EventTypes /\ "stop-requested" \in EventTypes
  BY DEF EventTypes
<1>12. CASE \E f \in Executions : PublishScheduled(f)
  BY <1>2, <1>4, <1>5, <1>8, <1>11, <1>12
<1>13. CASE \E f \in Executions : Cancel(f)
  BY <1>2, <1>4, <1>5, <1>9, <1>11, <1>13
<1>14. CASE \E f \in Executions : PublishRequest(f)
  BY <1>2, <1>5, <1>6, <1>10, <1>14
<1> QED
  BY <1>5, <1>7, <1>12, <1>13, <1>14 DEF Next

LEMMA JobsNext == Typed /\ Jobs /\ [Next]_vars => Jobs'
<1> SUFFICES ASSUME Typed, Jobs, [Next]_vars
             PROVE  Jobs'
  OBVIOUS
<1> USE DEF Jobs, InExecutor
<1>1. CASE UNCHANGED vars
  BY <1>1 DEF vars, topicVars, apiVars, jobVars, Logged, Mentioned
<1>2. CASE Next
  <2>1. \A e \in Executions : Logged("scheduled", e) => Logged("scheduled", e)'
    BY <1>2, Appended
  <2>2. \A e \in Executions : Mentioned(e)' => status[e] # "absent"
    <3>1. ASSUME NEW e \in Executions, Mentioned(e)'
          PROVE  Mentioned(e) \/ e \in unpublished \cup InExecutor \/ status[e] \in {"pending", "started"}
      BY <1>2, <3>1, Appended
    <3>2. ASSUME NEW e \in Executions, Logged("scheduled", e)
          PROVE  Mentioned(e)
      BY <3>2 DEF Logged, Mentioned, Notice
    <3> QED
      BY <3>1, <3>2
  <2> USE DEF Typed, TypeOK, Times
  <2>3. ASSUME NEW e \in Executions, NEW t \in Times, Schedule(e, t)
        PROVE  Jobs'
    <3>1. \A f \in InExecutor : f \in Executions /\ status[f] # "absent"
      BY DEF Logged, Mentioned, Notice
    <3>2. /\ status[e] = "absent" /\ t \in Times
          /\ status' = [status EXCEPT ![e] = "pending"] /\ due' = [due EXCEPT ![e] = t]
          /\ unpublished' = unpublished \cup {e} /\ UNCHANGED <<topic, jobs, firing, sending, now>>
      BY <2>3 DEF Schedule, topicVars, jobVars
    <3>3. /\ \A f \in Executions : status'[f] # "absent" => due'[f] \in Times'
          /\ \A f \in Executions : f \in unpublished' \/ Mentioned(f)' => status'[f] # "absent"
      BY <2>2, <3>2
    <3>4. \A f \in InExecutor' : due'[f] <= now'
      BY <3>1, <3>2
    <3> QED
      BY <2>1, <3>2, <3>3, <3>4
  <2>4. ASSUME NEW e \in Executions, PublishScheduled(e) \/ Cancel(e)
        PROVE  Jobs'
    BY <2>1, <2>2, <2>4 DEF PublishScheduled, Cancel, apiVars, jobVars
  <2>5. ASSUME NEW e \in Executions, Wake(e) \/ RunJob(e) \/ PublishRequest(e)
        PROVE  Jobs'
    <3>1. UNCHANGED <<status, due, unpublished, now>>
      BY <2>5 DEF Wake, RunJob, PublishRequest, apiVars
    <3>2. jobs' \subseteq jobs
      BY <2>5 DEF Wake, RunJob, PublishRequest
    <3>0. TypeOK /\ sending \in [Executions -> Nat] /\ firing \subseteq Executions
      OBVIOUS
    <3> HIDE DEF Typed, TypeOK
    <3>3. ASSUME NEW f \in InExecutor'
          PROVE  f \in InExecutor \/ (f \in jobs /\ due[f] <= now)
      <4>0. f \in firing' \/ (f \in Executions /\ sending'[f] > 0)
        BY <3>3
      <4>1. CASE Wake(e)
        BY <4>0, <4>1 DEF Wake
      <4>2. CASE RunJob(e)
        <5>1. e \in firing /\ firing' \subseteq firing
          BY <4>2 DEF RunJob
        <5>2. sending' = [sending EXCEPT ![e] = @ + 1] \/ UNCHANGED sending
          BY <4>2 DEF RunJob
        <5>3. \A x \in Executions : x # e => sending'[x] = sending[x]
          BY <3>0, <5>2
        <5>4. f \in firing \/ (f \in Executions /\ sending[f] > 0)
          BY <4>0, <5>1, <5>3
        <5> QED
          BY <5>4
      <4>3. CASE PublishRequest(e)
        <5>1. UNCHANGED firing
          BY <4>3 DEF PublishRequest
        <5>2. sending[e] > 0 /\ \A x \in Executions : x # e => sending'[x] = sending[x]
          BY <3>0, <4>3, OneLessSent
        <5>3. f \in firing \/ (f \in Executions /\ sending[f] > 0)
          BY <4>0, <5>1, <5>2
        <5> QED
          BY <5>3
      <4> QED
        BY <2>5, <4>1, <4>2, <4>3
    <3> USE DEF Typed, TypeOK
    <3>4. \A f \in jobs' \cup InExecutor' : f \in Executions /\ Logged("scheduled", f)'
      BY <2>1, <3>2, <3>3
    <3>5. \A f \in InExecutor' : due'[f] <= now'
      BY <3>1, <3>3
    <3> QED
      BY <2>2, <3>1, <3>4, <3>5
  <2>6. CASE Skip \/ Commit \/ Restart
    BY <2>1, <2>2, <2>6 DEF Skip, Commit, Restart, topicVars, apiVars, jobVars
  <2>7. CASE AddJob
    <3>1. scheduled + 1 \in DOMAIN topic /\ Polled \in Event /\ Polled.type = "scheduled"
      BY <2>7 DEF AddJob, Polls, Polled
    <3>2. Polled = Notice("scheduled", Polled.exec) /\ Polled.exec \in Executions
      BY <3>1 DEF Event, Notice
    <3>3. Logged("scheduled", Polled.exec)
      BY <3>1, <3>2 DEF Polled, Logged
    <3>4. UNCHANGED <<status, due, unpublished, firing, sending, now>> /\ jobs' = jobs \cup {Polled.exec}
      BY <2>7 DEF AddJob, apiVars
    <3> QED
      BY <2>1, <2>2, <3>2, <3>3, <3>4
  <2>8. CASE Dispatch
    <3>1. ASSUME NEW e \in Executions, status[e] # "absent"
          PROVE  status'[e] # "absent"
      BY <2>8, <3>1 DEF Dispatch, StatusAfter
    <3>2. ASSUME NEW e \in Executions, status'[e] # "absent"
          PROVE  status[e] # "absent"
      <4>1. topic[dispatched + 1] \in Event /\ dispatched + 1 \in DOMAIN topic
        BY <2>8 DEF Dispatch
      <4>2. Mentioned(topic[dispatched + 1].exec)
        BY <4>1 DEF Mentioned
      <4> QED
        BY <2>8, <3>2, <4>1, <4>2 DEF Dispatch, Event
    <3> QED
      BY <2>1, <2>2, <2>8, <3>1, <3>2 DEF Dispatch, jobVars
  <2>9. CASE Tick
    <3>1. now' = now + 1 /\ UNCHANGED <<status, due, unpublished, jobs, firing, sending>>
      BY <2>9 DEF Tick, apiVars, jobVars
    <3>2. ASSUME NEW e \in InExecutor
          PROVE  due[e] <= now'
      <4>1. due[e] \in Times /\ due[e] <= now
        <5>1. e \in Executions /\ Logged("scheduled", e) /\ due[e] <= now
          BY <3>2
        <5>2. Mentioned(e)
          BY <5>1 DEF Logged, Mentioned, Notice
        <5> QED
          BY <5>1, <5>2
      <4> QED
        BY <3>1, <4>1, TimesAssumption
    <3> QED
      BY <2>1, <2>2, <3>1, <3>2
  <2>10. CASE Crash
    BY <2>1, <2>2, <2>10 DEF Crash, topicVars
  <2> QED
    BY <1>2, <2>3, <2>4, <2>5, <2>6, <2>7, <2>8, <2>9, <2>10 DEF Next
<1> QED
  BY <1>1, <1>2

(* No execution is requested without a published schedule or before its    *)
(* time, under any number of faults and however late a request is appended. *)
THEOREM RequestsDueCorrect == Spec => RequestsAreDue
<1>1. Init => Jobs
  BY DEF Init, Jobs, InExecutor, Mentioned
<1>2. ASSUME Typed, Jobs, [Next]_vars
      PROVE  [\A e \in Executions : \A i \in Len(topic) + 1..Len(topic') :
                 topic'[i] = Notice("requested", e) => Logged("scheduled", e) /\ due[e] <= now]_vars
  <2>1. CASE UNCHANGED vars
    BY <2>1
  <2>2. ASSUME Next, NEW e \in Executions, NEW i \in Len(topic) + 1..Len(topic'),
               topic'[i] = Notice("requested", e)
        PROVE  Logged("scheduled", e) /\ due[e] <= now
    <3>1. e \in InExecutor
      BY <1>2, <2>2, Appended
    <3> QED
      BY <1>2, <3>1 DEF Jobs
  <2> QED
    BY <1>2, <2>1, <2>2
<1> QED
  BY <1>1, <1>2, TypedInit, TypedNext, JobsNext, PTL DEF Spec, RequestsAreDue

-----------------------------------------------------------------------------
(* Cancelled is final for the dispatcher, and only a request starts an     *)
(* execution.                                                              *)
StartedWereRequested ==
    \A e \in Executions : status[e] = "started" =>
        \E j \in 1..dispatched : topic[j] = Notice("requested", e)

Cancels == StartedWereRequested /\ CancelledSchedulesDoNotRun

(* The event a Dispatch step handles. *)
LEMMA Dispatched ==
    ASSUME Typed, Dispatch, NEW ev \in Event, ev = topic[dispatched + 1]
    PROVE  /\ UNCHANGED topic
           /\ dispatched + 1 \in DOMAIN topic /\ dispatched' = dispatched + 1
           /\ status'[ev.exec] = StatusAfter(ev)
           /\ \A e \in Executions : e # ev.exec => status'[e] = status[e]
<1>1. topic \in Seq(Event) /\ dispatched + 1 \in DOMAIN topic
  <2>1. topic \in Seq(Event) /\ dispatched \in Nat
    BY DEF Typed, TypeOK
  <2>2. dispatched < Len(topic)
    BY DEF Dispatch
  <2> QED
    BY <2>1, <2>2
<1>2. ev.exec \in Executions
  BY DEF Event
<1>3. status' = [status EXCEPT ![ev.exec] = StatusAfter(ev)] /\ UNCHANGED topic /\ dispatched' = dispatched + 1
  BY DEF Dispatch
<1>4. /\ status'[ev.exec] = StatusAfter(ev)
      /\ \A e \in Executions : e # ev.exec => status'[e] = status[e]
  BY <1>2, <1>3 DEF Typed, TypeOK
<1> QED
  BY <1>1, <1>2, <1>3, <1>4

LEMMA CancelsNext == Typed /\ Cancels /\ [Next]_vars => Cancels'
<1> SUFFICES ASSUME Typed, Cancels, [Next]_vars
             PROVE  Cancels'
  OBVIOUS
<1> USE DEF Cancels, StartedWereRequested, CancelledSchedulesDoNotRun
<1>1. CASE UNCHANGED vars
  BY <1>1 DEF vars, topicVars, apiVars, Notice
<1>2. CASE Next
  <2>1. TopicGrows
    BY <1>2, NextGrows
  <2>2. \A i \in 1..dispatched : topic'[i] = topic[i] /\ topic[i] \in Event
    BY <2>1 DEF TopicGrows, Typed, TypeOK
  <2>3. CASE UNCHANGED <<status, dispatched>>
    <3>1. StartedWereRequested'
      BY <2>2, <2>3 DEF Notice
    <3>2. \A i \in 1..dispatched : i - 1 \in Nat /\ 1..i - 1 \subseteq 1..dispatched
      BY DEF Typed, TypeOK
    <3>3. CancelledSchedulesDoNotRun'
      BY <2>2, <2>3, <3>2 DEF Notice
    <3> QED
      BY <3>1, <3>3
  <2>4. ASSUME NEW e \in Executions, NEW t \in Times, Schedule(e, t)
        PROVE  Cancels'
    <3>1. status[e] = "absent" /\ status' = [status EXCEPT ![e] = "pending"]
      BY <2>4 DEF Schedule
    <3>2. UNCHANGED <<topic, dispatched>>
      BY <2>4 DEF Schedule, topicVars
    <3> QED
      BY <2>2, <3>1, <3>2 DEF Event, Notice, Typed, TypeOK
  <2>5. CASE Dispatch
    <3> DEFINE ev == topic[dispatched + 1]
    <3>0. ev \in Event
      <4>1. topic \in Seq(Event) /\ dispatched \in Nat
        BY DEF Typed, TypeOK
      <4>2. dispatched < Len(topic)
        BY <2>5 DEF Dispatch
      <4>3. dispatched + 1 \in DOMAIN topic
        BY <4>1, <4>2
      <4> QED
        BY <4>1, <4>3
    <3>1. /\ UNCHANGED topic
          /\ dispatched + 1 \in DOMAIN topic /\ dispatched' = dispatched + 1
          /\ status'[ev.exec] = StatusAfter(ev)
          /\ \A e \in Executions : e # ev.exec => status'[e] = status[e]
      BY <2>5, <3>0, Dispatched
    <3>2. StatusAfter(ev) = "started" => status[ev.exec] = "started" \/ ev.type = "requested"
      BY DEF StatusAfter
    <3>3. status[ev.exec] = "cancelled" => StatusAfter(ev) = "cancelled"
      BY DEF StatusAfter
    <3>4. ev.type = "stop-requested" /\ status[ev.exec] # "started" => StatusAfter(ev) = "cancelled"
      BY DEF StatusAfter
    <3>5. dispatched \in Nat /\ 1..dispatched' = 1..dispatched \cup {dispatched + 1}
      BY <3>1 DEF Typed, TypeOK
    <3>6. StartedWereRequested'
      <4>1. ev.type = "requested" => ev = Notice("requested", ev.exec)
        BY <3>0 DEF Event, Notice
      <4>2. ASSUME NEW e \in Executions, status'[e] = "started"
            PROVE  status[e] = "started" \/ ev = Notice("requested", e)
        BY <3>1, <3>2, <4>1, <4>2
      <4>3. \A e : Notice("requested", e)' = Notice("requested", e)
        BY DEF Notice
      <4> QED
        BY <3>1, <3>5, <4>2, <4>3
    <3>7. CancelledSchedulesDoNotRun'
      <4>1. ASSUME NEW i \in 1..dispatched, topic[i].type = "stop-requested",
                   \A j \in 1..i - 1 : topic[j] # Notice("requested", topic[i].exec)
            PROVE  status'[topic[i].exec] = "cancelled"
        <5>1. status[topic[i].exec] = "cancelled" /\ topic[i].exec \in Executions
          BY <2>2, <4>1 DEF Event
        <5> QED
          BY <3>0, <3>1, <3>3, <5>1
      <4>2. ASSUME ev.type = "stop-requested",
                   \A j \in 1..dispatched : topic[j] # Notice("requested", ev.exec)
            PROVE  status'[ev.exec] = "cancelled"
        <5>1. status[ev.exec] # "started"
          BY <3>0, <4>2 DEF Event
        <5> QED
          BY <3>1, <3>4, <4>2, <5>1
      <4>3. \A e : Notice("requested", e)' = Notice("requested", e)
        BY DEF Notice
      <4>4. (dispatched + 1) - 1 = dispatched
        BY <3>5
      <4> QED
        BY <3>1, <3>5, <4>1, <4>2, <4>3, <4>4
    <3> QED
      BY <3>6, <3>7
  <2> QED
    BY <1>2, <2>3, <2>4, <2>5
       DEF Next, PublishScheduled, Cancel, Wake, RunJob, PublishRequest, Skip, AddJob, Commit, Tick,
           Crash, Restart, topicVars, apiVars
<1> QED
  BY <1>1, <1>2

(* Whatever job or redelivered event requests an execution after it was    *)
(* cancelled in time, it is not started.                                   *)
THEOREM CancelledCorrect == Spec => []CancelledSchedulesDoNotRun
<1>1. Init => Cancels
  BY DEF Init, Cancels, StartedWereRequested, CancelledSchedulesDoNotRun
<1>2. Cancels => CancelledSchedulesDoNotRun
  BY DEF Cancels
<1> QED
  BY <1>1, <1>2, TypedInit, TypedNext, CancelsNext, PTL DEF Spec

-----------------------------------------------------------------------------
(* Requests are counted together with everything that may still become     *)
(* one: the execution not yet created or published, scheduled events no    *)
(* job was added for, the job in the store, the job in the executor and    *)
(* the requests in the producer's buffer.  A step moves one of them on or  *)
(* ends it; only a fault adds one.                                         *)
Fresh == unpublished \cup {e \in Executions : status[e] = "absent"}

ToCome(e) ==
    {i \in DOMAIN topic : /\ topic[i] = Notice("scheduled", e)
                          /\ i > scheduled /\ (added => i # scheduled + 1)}

Held(e, S) == IF e \in S THEN 1 ELSE 0

Budget(e) ==
    Held(e, Fresh) + Cardinality(ToCome(e)) + Held(e, jobs) + Held(e, firing)
      + sending[e] + Cardinality(RequestsOf(e)) <= 1 + faults

Budgeted == \A e \in Executions : Budget(e)

(* Sets of places in the topic are finite. *)
LEMMA PlacesFinite ==
    ASSUME NEW s \in Seq(Event), NEW S \in SUBSET DOMAIN s
    PROVE  IsFiniteSet(S) /\ Cardinality(S) \in Nat
<1>1. Len(s) \in Nat /\ DOMAIN s = 1..Len(s)
  OBVIOUS
<1>2. IsFiniteSet(1..Len(s))
  BY <1>1, FS_Interval
<1>3. IsFiniteSet(S)
  BY <1>1, <1>2, FS_Subset
<1> QED
  BY <1>3, FS_CardinalityType

LEMMA OneMorePlace ==
    ASSUME NEW S, IsFiniteSet(S), NEW x
    PROVE  /\ IsFiniteSet(S \cup {x})
           /\ Cardinality(S \cup {x}) \in Nat /\ Cardinality(S \cup {x}) <= Cardinality(S) + 1
<1>1. IsFiniteSet(S \cup {x})
  BY FS_AddElement
<1>2. Cardinality(S \cup {x}) = IF x \in S THEN Cardinality(S) ELSE Cardinality(S) + 1
  BY FS_AddElement
<1>3. Cardinality(S) \in Nat
  BY FS_CardinalityType
<1> QED
  BY <1>1, <1>2, <1>3

(* Publishing once adds one place, and one more only by a fault. *)
LEMMA PublishCounts ==
    ASSUME topic \in Seq(Event), faults \in 0..MaxFaults, NEW ev \in Event, Publish(ev),
           NEW S \in SUBSET DOMAIN topic,
           NEW T, T \subseteq S \cup (Len(topic) + 1..Len(topic'))
    PROVE  Cardinality(T) <= Cardinality(S) + 1 + (faults' - faults)
<1>1. PICK n \in Nat : n = Len(topic)
  OBVIOUS
<1>2. IsFiniteSet(S) /\ Cardinality(S) \in Nat
  BY PlacesFinite
<1>3. /\ IsFiniteSet(S \cup {n + 1})
      /\ Cardinality(S \cup {n + 1}) \in Nat /\ Cardinality(S \cup {n + 1}) <= Cardinality(S) + 1
  BY <1>2, OneMorePlace
<1>4. CASE topic' = Append(topic, ev) /\ UNCHANGED faults
  <2>1. Len(topic') = n + 1
    BY <1>1, <1>4
  <2>2. T \subseteq S \cup {n + 1}
    BY <1>1, <2>1
  <2>3. Cardinality(T) <= Cardinality(S \cup {n + 1})
    BY <1>3, <2>2, FS_Subset
  <2>4. Cardinality(T) \in Nat
    BY <1>3, <2>2, FS_Subset, FS_CardinalityType
  <2>5. faults' - faults = 0
    BY <1>4
  <2> QED
    BY <1>2, <1>3, <2>3, <2>4, <2>5
<1>5. CASE topic' = topic \o <<ev, ev>> /\ Fault("duplicated")
  <2>1. Len(topic') = n + 2
    BY <1>1, <1>5
  <2> DEFINE U == (S \cup {n + 1}) \cup {n + 2}
  <2>2. T \subseteq U
    BY <1>1, <2>1
  <2>3. /\ IsFiniteSet(U)
        /\ Cardinality(U) \in Nat /\ Cardinality(U) <= Cardinality(S \cup {n + 1}) + 1
    BY <1>3, OneMorePlace
  <2> HIDE DEF U
  <2>4. Cardinality(T) <= Cardinality(U)
    BY <2>2, <2>3, FS_Subset
  <2>5. Cardinality(T) \in Nat
    BY <2>2, <2>3, FS_Subset, FS_CardinalityType
  <2>6. faults' - faults = 1
    BY <1>5 DEF Fault
  <2> QED
    BY <1>2, <1>3, <2>3, <2>4, <2>5, <2>6
<1> QED
  BY <1>4, <1>5 DEF Publish

(* The places of an event a step does not publish stay the same. *)
LEMMA OthersKeepPlaces ==
    ASSUME topic \in Seq(Event), faults \in 0..MaxFaults, NEW ev \in Event, Publish(ev)
    PROVE  /\ faults' >= faults
           /\ DOMAIN topic' = DOMAIN topic \cup (Len(topic) + 1..Len(topic'))
           /\ \A x : x # ev =>
                 {i \in DOMAIN topic' : topic'[i] = x} = {i \in DOMAIN topic : topic[i] = x}
<1>1. TopicGrows /\ \A i \in Len(topic) + 1..Len(topic') : topic'[i] = ev
  BY PublishGrows
<1>2. /\ Len(topic) \in Nat /\ Len(topic') \in Nat /\ Len(topic') >= Len(topic)
      /\ DOMAIN topic = 1..Len(topic) /\ DOMAIN topic' = 1..Len(topic')
  BY <1>1 DEF TopicGrows
<1>3. DOMAIN topic' = DOMAIN topic \cup (Len(topic) + 1..Len(topic'))
  BY <1>2
<1>4. faults' >= faults
  BY DEF Publish, Fault
<1>5. ASSUME NEW x, x # ev
      PROVE  {i \in DOMAIN topic' : topic'[i] = x} = {i \in DOMAIN topic : topic[i] = x}
  <2>1. \A i \in DOMAIN topic : topic'[i] = topic[i]
    BY <1>1 DEF TopicGrows
  <2> QED
    BY <1>1, <1>3, <1>5, <2>1
<1> QED
  BY <1>3, <1>4, <1>5

(* The parts of the budget are numbers. *)
LEMMA BudgetType ==
    ASSUME Typed, Typed', NEW e \in Executions
    PROVE  /\ ToCome(e) \in SUBSET DOMAIN topic /\ ToCome(e)' \in SUBSET DOMAIN topic'
           /\ RequestsOf(e) \in SUBSET DOMAIN topic /\ RequestsOf(e)' \in SUBSET DOMAIN topic'
           /\ Cardinality(ToCome(e)) \in Nat /\ Cardinality(ToCome(e)') \in Nat
           /\ Cardinality(RequestsOf(e)) \in Nat /\ Cardinality(RequestsOf(e)') \in Nat
           /\ sending[e] \in Nat /\ sending'[e] \in Nat
           /\ faults \in Nat /\ faults' \in Nat
<1>1. /\ ToCome(e) \in SUBSET DOMAIN topic /\ ToCome(e)' \in SUBSET DOMAIN topic'
      /\ RequestsOf(e) \in SUBSET DOMAIN topic /\ RequestsOf(e)' \in SUBSET DOMAIN topic'
  BY DEF ToCome, RequestsOf
<1>2. topic \in Seq(Event) /\ topic' \in Seq(Event)
  BY DEF Typed, TypeOK
<1>3. /\ sending[e] \in Nat /\ sending'[e] \in Nat
      /\ faults \in Nat /\ faults' \in Nat
  BY DEF Typed, TypeOK
<1>4. Cardinality(ToCome(e)) \in Nat /\ Cardinality(RequestsOf(e)) \in Nat
  BY <1>1, <1>2, PlacesFinite
<1>5. Cardinality(ToCome(e)') \in Nat /\ Cardinality(RequestsOf(e)') \in Nat
  BY <1>1, <1>2, PlacesFinite
<1> QED
  BY <1>1, <1>3, <1>4, <1>5

LEMMA FewerPlaces ==
    ASSUME NEW s \in Seq(Event), NEW S \in SUBSET DOMAIN s, NEW T \in SUBSET S
    PROVE  Cardinality(T) <= Cardinality(S)
<1>1. IsFiniteSet(S)
  BY PlacesFinite
<1> QED
  BY <1>1, FS_Subset

(* A step adds to the parts together no more than it adds faults. *)
LEMMA StepMovesOn ==
    ASSUME Typed, Typed', NEW e \in Executions, Budget(e),
           NEW p \in Int, NEW q \in Int, NEW o \in Int, p + q + o <= faults' - faults,
           Held(e, Fresh)' + Held(e, jobs)' + Held(e, firing)' + sending'[e]
              <= Held(e, Fresh) + Held(e, jobs) + Held(e, firing) + sending[e] + p,
           Cardinality(ToCome(e)') <= Cardinality(ToCome(e)) + q,
           Cardinality(RequestsOf(e)') <= Cardinality(RequestsOf(e)) + o
    PROVE  Budget(e)'
<1>1. PICK c \in Nat, r \in Nat, c2 \in Nat, r2 \in Nat, s \in Nat, s2 \in Nat, g \in Nat, g2 \in Nat :
         /\ c = Cardinality(ToCome(e)) /\ r = Cardinality(RequestsOf(e))
         /\ c2 = Cardinality(ToCome(e)') /\ r2 = Cardinality(RequestsOf(e)')
         /\ s = sending[e] /\ s2 = sending'[e] /\ g = faults /\ g2 = faults'
  BY BudgetType
<1>2. PICK a \in Nat, b \in Nat, d \in Nat, a2 \in Nat, b2 \in Nat, d2 \in Nat :
         /\ a = Held(e, Fresh) /\ b = Held(e, jobs) /\ d = Held(e, firing)
         /\ a2 = Held(e, Fresh)' /\ b2 = Held(e, jobs)' /\ d2 = Held(e, firing)'
  BY DEF Held
<1>3. a + c + b + d + s + r <= 1 + g
  BY <1>1, <1>2 DEF Budget
<1>4. a2 + b2 + d2 + s2 <= a + b + d + s + p /\ c2 <= c + q /\ r2 <= r + o /\ p + q + o <= g2 - g
  BY <1>1, <1>2
<1>5. a2 + c2 + b2 + d2 + s2 + r2 <= 1 + g2
  BY <1>3, <1>4
<1> QED
  BY <1>1, <1>2, <1>5 DEF Budget

(* A step that publishes no schedule and no request, and does not undo     *)
(* what the scheduler has done with the events it was given.               *)
LEMMA QuietSteps ==
    ASSUME Typed, Typed', NEW e \in Executions, Budget(e),
           RequestsOf(e)' = RequestsOf(e), ToCome(e)' \subseteq ToCome(e),
           Held(e, Fresh)' + Held(e, jobs)' + Held(e, firing)' + sending'[e]
              <= Held(e, Fresh) + Held(e, jobs) + Held(e, firing) + sending[e],
           faults' >= faults
    PROVE  Budget(e)'
<1>1. topic \in Seq(Event)
  BY DEF Typed, TypeOK
<1>2. Cardinality(ToCome(e)') <= Cardinality(ToCome(e))
  BY <1>1, BudgetType, FewerPlaces
<1>3. PICK x \in Nat, y \in Nat : x = Held(e, Fresh) + Held(e, jobs) + Held(e, firing) + sending[e]
                               /\ y = Cardinality(RequestsOf(e))
  BY BudgetType DEF Held
<1>4. 0 + 0 + 0 <= faults' - faults
  BY BudgetType
<1>5. /\ Held(e, Fresh)' + Held(e, jobs)' + Held(e, firing)' + sending'[e]
            <= Held(e, Fresh) + Held(e, jobs) + Held(e, firing) + sending[e] + 0
      /\ Cardinality(ToCome(e)') <= Cardinality(ToCome(e)) + 0
      /\ Cardinality(RequestsOf(e)') <= Cardinality(RequestsOf(e)) + 0
  BY <1>2, <1>3, BudgetType
<1> QED
  BY <1>4, <1>5, StepMovesOn

(* The steps of the API and the publication of a request. *)
LEMMA PublishedBudget ==
    ASSUME Typed, Typed', Jobs, NEW e \in Executions, Budget(e), NEW f \in Executions,
           PublishScheduled(f) \/ Cancel(f) \/ PublishRequest(f)
    PROVE  Budget(e)'
<1>1. topic \in Seq(Event) /\ faults \in 0..MaxFaults
  BY DEF Typed, TypeOK
<1>2. /\ Notice("scheduled", f) \in Event /\ Notice("stop-requested", f) \in Event
      /\ Notice("requested", f) \in Event
  BY NoticeType DEF EventTypes
<1>3. UNCHANGED <<scheduled, added, jobs, firing, status>>
  BY DEF PublishScheduled, Cancel, PublishRequest, jobVars, processVars, apiVars
<1>4. ASSUME NEW ev \in Event, Publish(ev), ev # Notice("requested", e)
      PROVE  RequestsOf(e)' = RequestsOf(e)
  BY <1>1, <1>4, OthersKeepPlaces DEF RequestsOf, Notice
<1>5. ASSUME NEW ev \in Event, Publish(ev), ev # Notice("scheduled", e)
      PROVE  ToCome(e)' \subseteq ToCome(e)
  <2>1. {i \in DOMAIN topic' : topic'[i] = Notice("scheduled", e)}
           = {i \in DOMAIN topic : topic[i] = Notice("scheduled", e)}
    BY <1>1, <1>5, OthersKeepPlaces
  <2> QED
    BY <1>3, <2>1 DEF ToCome, Notice
<1>6. \A ev \in Event : Publish(ev) => faults' >= faults
  BY <1>1, OthersKeepPlaces
<1>7. Lost => /\ RequestsOf(e)' = RequestsOf(e) /\ ToCome(e)' = ToCome(e) /\ faults' >= faults
  BY <1>1, <1>3 DEF Lost, Fault, RequestsOf, ToCome, Notice
<1>8. Held(e, jobs)' = Held(e, jobs) /\ Held(e, firing)' = Held(e, firing)
  BY <1>3 DEF Held
<1>9. CASE Cancel(f)
  <2>1. Publish(Notice("stop-requested", f)) \/ Lost
    BY <1>9 DEF Cancel
  <2>2. Notice("stop-requested", f) # Notice("requested", e) /\ Notice("stop-requested", f) # Notice("scheduled", e)
    BY DEF Notice
  <2>3. /\ RequestsOf(e)' = RequestsOf(e) /\ ToCome(e)' \subseteq ToCome(e) /\ faults' >= faults
    BY <1>2, <1>4, <1>5, <1>6, <1>7, <2>1, <2>2
  <2>4. Fresh' = Fresh /\ sending' = sending
    BY <1>9 DEF Cancel, Fresh, apiVars, jobVars
  <2>5. Held(e, Fresh)' = Held(e, Fresh)
    BY <2>4 DEF Held
  <2>6. Held(e, Fresh)' + Held(e, jobs)' + Held(e, firing)' + sending'[e]
           <= Held(e, Fresh) + Held(e, jobs) + Held(e, firing) + sending[e]
    BY <1>8, <2>4, <2>5, BudgetType DEF Held
  <2> QED
    BY <2>3, <2>6, QuietSteps
<1>10. CASE PublishScheduled(f)
  <2>1. Publish(Notice("scheduled", f)) \/ Lost
    BY <1>10 DEF PublishScheduled
  <2>2. f \in unpublished /\ unpublished' = unpublished \ {f} /\ UNCHANGED <<status, sending>>
    BY <1>10 DEF PublishScheduled, jobVars
  <2>3. Notice("scheduled", f) # Notice("requested", e)
    BY DEF Notice
  <2>4. RequestsOf(e)' = RequestsOf(e) /\ faults' >= faults
    BY <1>2, <1>4, <1>6, <1>7, <2>1, <2>3
  <2>5. Held(e, Fresh)' <= Held(e, Fresh)
    BY <2>2 DEF Held, Fresh
  <2>6. CASE ToCome(e)' \subseteq ToCome(e)
    <3>1. Held(e, Fresh)' + Held(e, jobs)' + Held(e, firing)' + sending'[e]
             <= Held(e, Fresh) + Held(e, jobs) + Held(e, firing) + sending[e]
      BY <1>8, <2>2, <2>5, BudgetType DEF Held
    <3> QED
      BY <2>4, <2>6, <3>1, QuietSteps
  <2>7. CASE e = f /\ Publish(Notice("scheduled", e))
    <3>1. status[e] # "absent"
      BY <2>2, <2>7 DEF Jobs
    <3>2. Held(e, Fresh)' = 0 /\ Held(e, Fresh) = 1
      BY <2>2, <2>7, <3>1 DEF Held, Fresh
    <3>3. ToCome(e)' \subseteq ToCome(e) \cup (Len(topic) + 1..Len(topic'))
      <4>1. /\ DOMAIN topic' = DOMAIN topic \cup (Len(topic) + 1..Len(topic'))
            /\ \A i \in DOMAIN topic : topic'[i] = topic[i]
        BY <1>1, <1>2, <2>7, OthersKeepPlaces, PublishGrows DEF TopicGrows
      <4> QED
        BY <1>3, <4>1 DEF ToCome, Notice
    <3>4. Cardinality(ToCome(e)') <= Cardinality(ToCome(e)) + 1 + (faults' - faults)
      BY <1>1, <1>2, <2>7, <3>3, BudgetType, PublishCounts
    <3>5. PICK d \in Nat : d = faults' - faults
      BY <2>4, BudgetType
    <3>6. -1 + (1 + d) + 0 <= faults' - faults
      BY <3>5
    <3>7. Held(e, Fresh)' + Held(e, jobs)' + Held(e, firing)' + sending'[e]
             <= Held(e, Fresh) + Held(e, jobs) + Held(e, firing) + sending[e] + (-1)
      BY <1>8, <2>2, <3>2, BudgetType DEF Held
    <3>8. Cardinality(ToCome(e)') <= Cardinality(ToCome(e)) + (1 + d)
      BY <3>4, <3>5, BudgetType
    <3>9. Cardinality(RequestsOf(e)') <= Cardinality(RequestsOf(e)) + 0
      BY <2>4, BudgetType
    <3>10. -1 \in Int /\ 1 + d \in Int /\ 0 \in Int
      BY <3>5
    <3> QED
      BY <3>6, <3>7, <3>8, <3>9, <3>10, StepMovesOn
  <2>8. e # f => Notice("scheduled", f) # Notice("scheduled", e)
    BY DEF Notice
  <2> QED
    BY <1>2, <1>5, <1>7, <2>1, <2>6, <2>7, <2>8
<1>11. CASE PublishRequest(f)
  <2>1. Publish(Notice("requested", f)) \/ Lost
    BY <1>11 DEF PublishRequest
  <2>2. /\ sending[f] \in Nat \ {0} /\ sending'[f] = sending[f] - 1
        /\ \A x \in Executions : x # f => sending'[x] = sending[x]
    BY <1>11, OneLessSent DEF Typed
  <2>3. Notice("requested", f) # Notice("scheduled", e)
    BY DEF Notice
  <2>4. ToCome(e)' \subseteq ToCome(e) /\ faults' >= faults
    BY <1>2, <1>5, <1>6, <1>7, <2>1, <2>3
  <2>5. Held(e, Fresh)' = Held(e, Fresh)
    BY <1>11 DEF PublishRequest, Held, Fresh, apiVars
  <2>6. CASE RequestsOf(e)' = RequestsOf(e)
    <3>1. sending'[e] <= sending[e]
      BY <2>2, BudgetType
    <3>2. Held(e, Fresh)' + Held(e, jobs)' + Held(e, firing)' + sending'[e]
             <= Held(e, Fresh) + Held(e, jobs) + Held(e, firing) + sending[e]
      BY <1>8, <2>5, <3>1, BudgetType DEF Held
    <3> QED
      BY <2>4, <2>6, <3>2, QuietSteps
  <2>7. CASE e = f /\ Publish(Notice("requested", e))
    <3>1. RequestsOf(e)' \subseteq RequestsOf(e) \cup (Len(topic) + 1..Len(topic'))
      <4>1. /\ DOMAIN topic' = DOMAIN topic \cup (Len(topic) + 1..Len(topic'))
            /\ \A i \in DOMAIN topic : topic'[i] = topic[i]
        BY <1>1, <1>2, <2>7, OthersKeepPlaces, PublishGrows DEF TopicGrows
      <4> QED
        BY <4>1 DEF RequestsOf, Notice
    <3>2. Cardinality(RequestsOf(e)') <= Cardinality(RequestsOf(e)) + 1 + (faults' - faults)
      BY <1>1, <1>2, <2>7, <3>1, BudgetType, PublishCounts
    <3>3. PICK d \in Nat : d = faults' - faults
      BY <2>4, BudgetType
    <3>4. -1 + 0 + (1 + d) <= faults' - faults
      BY <3>3
    <3>5. Held(e, Fresh)' + Held(e, jobs)' + Held(e, firing)' + sending'[e]
             <= Held(e, Fresh) + Held(e, jobs) + Held(e, firing) + sending[e] + (-1)
      BY <1>8, <2>2, <2>5, <2>7, BudgetType DEF Held
    <3>6. Cardinality(RequestsOf(e)') <= Cardinality(RequestsOf(e)) + (1 + d)
      BY <3>2, <3>3, BudgetType
    <3>7. Cardinality(ToCome(e)') <= Cardinality(ToCome(e)) + 0
      <4>1. Cardinality(ToCome(e)') <= Cardinality(ToCome(e))
        BY <1>1, <2>4, BudgetType, FewerPlaces
      <4> QED
        BY <4>1, BudgetType
    <3>8. -1 \in Int /\ 1 + d \in Int /\ 0 \in Int
      BY <3>3
    <3> QED
      BY <3>4, <3>5, <3>6, <3>7, <3>8, StepMovesOn
  <2>8. e # f => Notice("requested", f) # Notice("requested", e)
    BY DEF Notice
  <2> QED
    BY <1>2, <1>4, <1>7, <2>1, <2>6, <2>7, <2>8
<1> QED
  BY <1>9, <1>10, <1>11

(* The consumer loop: of the event in hand at most one job is made. *)
LEMMA LoopBudget ==
    ASSUME Typed, Typed', NEW e \in Executions, Budget(e), Skip \/ AddJob \/ Commit
    PROVE  Budget(e)'
<1>1. topic \in Seq(Event) /\ scheduled \in Nat /\ Len(topic) \in Nat /\ DOMAIN topic = 1..Len(topic)
  BY DEF Typed, TypeOK
<1>2. UNCHANGED <<topic, status, unpublished, firing, sending, faults>>
  BY DEF Skip, AddJob, Commit, apiVars, jobVars, topicVars
<1>3. RequestsOf(e)' = RequestsOf(e)
  BY <1>2 DEF RequestsOf, Notice
<1>4. /\ Held(e, Fresh)' = Held(e, Fresh) /\ Held(e, firing)' = Held(e, firing)
      /\ sending'[e] = sending[e] /\ faults' = faults
  BY <1>2 DEF Held, Fresh
<1>5. CASE UNCHANGED jobs /\ ToCome(e)' \subseteq ToCome(e)
  <2>1. Held(e, jobs)' = Held(e, jobs)
    BY <1>5 DEF Held
  <2>2. Held(e, Fresh)' + Held(e, jobs)' + Held(e, firing)' + sending'[e]
           <= Held(e, Fresh) + Held(e, jobs) + Held(e, firing) + sending[e]
    BY <1>4, <2>1, BudgetType DEF Held
  <2>3. faults' >= faults
    BY <1>4, BudgetType
  <2> QED
    BY <1>3, <1>5, <2>2, <2>3, QuietSteps
<1>6. CASE Skip
  <2>1. scheduled' = scheduled + 1 /\ ~added /\ added' = added /\ UNCHANGED jobs
    BY <1>6 DEF Skip, Polls, processVars, jobVars
  <2>2. ToCome(e)' \subseteq ToCome(e)
    <3>1. ASSUME NEW i \in ToCome(e)'
          PROVE  i \in DOMAIN topic /\ topic[i] = Notice("scheduled", e) /\ i > scheduled
      BY <1>1, <1>2, <2>1, <3>1 DEF ToCome, Notice
    <3> QED
      BY <2>1, <3>1 DEF ToCome
  <2> QED
    BY <1>5, <2>1, <2>2
<1>7. CASE Commit
  <2>1. scheduled' = scheduled + 1 /\ added /\ ~added' /\ UNCHANGED jobs
    BY <1>7 DEF Commit, jobVars
  <2>2. ToCome(e)' \subseteq ToCome(e)
    <3>1. ASSUME NEW i \in ToCome(e)'
          PROVE  /\ i \in DOMAIN topic /\ topic[i] = Notice("scheduled", e)
                 /\ i > scheduled /\ i # scheduled + 1
      BY <1>1, <1>2, <2>1, <3>1 DEF ToCome, Notice
    <3> QED
      BY <3>1 DEF ToCome
  <2> QED
    BY <1>5, <2>1, <2>2
<1>8. CASE AddJob
  <2>1. /\ scheduled + 1 \in DOMAIN topic /\ scheduled' = scheduled /\ ~added /\ added'
        /\ jobs' = jobs \cup {topic[scheduled + 1].exec} /\ topic[scheduled + 1].type = "scheduled"
    BY <1>1, <1>8 DEF AddJob, Polls, Polled, topicVars
  <2>2. ToCome(e)' \subseteq ToCome(e) \ {scheduled + 1}
    <3>1. ASSUME NEW i \in ToCome(e)'
          PROVE  /\ i \in DOMAIN topic /\ topic[i] = Notice("scheduled", e)
                 /\ i > scheduled /\ i # scheduled + 1
      BY <1>1, <1>2, <2>1, <3>1 DEF ToCome, Notice
    <3> QED
      BY <3>1 DEF ToCome
  <2>3. topic[scheduled + 1] \in Event
    BY <1>1, <2>1
  <2>4. CASE topic[scheduled + 1].exec # e
    <3>1. Held(e, jobs)' = Held(e, jobs)
      BY <2>1, <2>4 DEF Held
    <3>2. Held(e, Fresh)' + Held(e, jobs)' + Held(e, firing)' + sending'[e]
             <= Held(e, Fresh) + Held(e, jobs) + Held(e, firing) + sending[e]
      BY <1>4, <3>1, BudgetType DEF Held
    <3>3. faults' >= faults
      BY <1>4, BudgetType
    <3> QED
      BY <1>3, <2>2, <3>2, <3>3, QuietSteps
  <2>5. CASE topic[scheduled + 1].exec = e
    <3>1. topic[scheduled + 1] = Notice("scheduled", e)
      BY <2>1, <2>3, <2>5 DEF Event, Notice
    <3>2. scheduled + 1 \in ToCome(e)
      BY <1>1, <2>1, <3>1 DEF ToCome
    <3>3. Cardinality(ToCome(e)') <= Cardinality(ToCome(e)) - 1
      <4>1. PICK S : S = ToCome(e)
        OBVIOUS
      <4>2. S \in SUBSET DOMAIN topic /\ IsFiniteSet(S) /\ Cardinality(S) \in Nat
        BY <1>1, <4>1, BudgetType, PlacesFinite
      <4>3. PICK x : x = scheduled + 1
        OBVIOUS
      <4>4. S \ {x} \in SUBSET DOMAIN topic /\ Cardinality(S \ {x}) = Cardinality(S) - 1
        BY <3>2, <4>1, <4>2, <4>3, FS_RemoveElement
      <4>5. PICK T : T = ToCome(e)'
        OBVIOUS
      <4>6. T \in SUBSET (S \ {x})
        BY <2>2, <4>1, <4>3, <4>5
      <4>7. Cardinality(T) <= Cardinality(S \ {x})
        BY <1>1, <4>4, <4>6, FewerPlaces
      <4> QED
        BY <4>1, <4>4, <4>5, <4>7
    <3>4. Held(e, jobs)' <= Held(e, jobs) + 1
      BY DEF Held
    <3>5. Held(e, Fresh)' + Held(e, jobs)' + Held(e, firing)' + sending'[e]
             <= Held(e, Fresh) + Held(e, jobs) + Held(e, firing) + sending[e] + 1
      BY <1>4, <3>4, BudgetType DEF Held
    <3>6. Cardinality(ToCome(e)') <= Cardinality(ToCome(e)) + (-1)
      BY <3>3, BudgetType
    <3>7. Cardinality(RequestsOf(e)') <= Cardinality(RequestsOf(e)) + 0
      BY <1>3, BudgetType
    <3>8. 1 + (-1) + 0 <= faults' - faults
      BY <1>4, BudgetType
    <3>9. 1 \in Int /\ -1 \in Int /\ 0 \in Int
      OBVIOUS
    <3> QED
      BY <3>5, <3>6, <3>7, <3>8, <3>9, StepMovesOn
  <2> QED
    BY <2>4, <2>5
<1> QED
  BY <1>6, <1>7, <1>8

(* The APScheduler thread and its executor. *)
LEMMA JobBudget ==
    ASSUME Typed, Typed', NEW e \in Executions, Budget(e),
           NEW f \in Executions, Wake(f) \/ RunJob(f)
    PROVE  Budget(e)'
<1>1. UNCHANGED <<topic, scheduled, added, status, unpublished, faults>>
  BY DEF Wake, RunJob, topicVars, apiVars, processVars
<1>2. RequestsOf(e)' = RequestsOf(e) /\ ToCome(e)' = ToCome(e) /\ Held(e, Fresh)' = Held(e, Fresh)
  BY <1>1 DEF RequestsOf, ToCome, Held, Fresh, Notice
<1>3. Held(e, jobs)' + Held(e, firing)' + sending'[e] <= Held(e, jobs) + Held(e, firing) + sending[e]
  <2>1. CASE Wake(f)
    <3>1. /\ f \in jobs /\ jobs' = jobs \ {f} /\ UNCHANGED sending
          /\ firing' = firing \cup {f} \/ UNCHANGED firing
      BY <2>1 DEF Wake
    <3>2. CASE e = f
      <4>1. Held(e, jobs)' = 0 /\ Held(e, jobs) = 1 /\ Held(e, firing)' <= Held(e, firing) + 1
        BY <3>1, <3>2 DEF Held
      <4> QED
        BY <3>1, <4>1, BudgetType DEF Held
    <3>3. CASE e # f
      <4>1. Held(e, jobs)' = Held(e, jobs) /\ Held(e, firing)' = Held(e, firing)
        BY <3>1, <3>3 DEF Held
      <4> QED
        BY <3>1, <4>1, BudgetType DEF Held
    <3> QED
      BY <3>2, <3>3
  <2>2. CASE RunJob(f)
    <3>1. /\ f \in firing /\ firing' = firing \ {f} /\ UNCHANGED jobs
          /\ sending' = [sending EXCEPT ![f] = @ + 1] \/ UNCHANGED sending
      BY <2>2 DEF RunJob
    <3>2. /\ sending \in [Executions -> Nat]
      BY DEF Typed, TypeOK
    <3>3. sending'[e] <= sending[e] + (IF e = f THEN 1 ELSE 0)
      BY <3>1, <3>2
    <3>4. CASE e = f
      <4>1. Held(e, firing)' = 0 /\ Held(e, firing) = 1 /\ Held(e, jobs)' = Held(e, jobs)
        BY <3>1, <3>4 DEF Held
      <4> QED
        BY <3>3, <3>4, <4>1, BudgetType DEF Held
    <3>5. CASE e # f
      <4>1. Held(e, jobs)' = Held(e, jobs) /\ Held(e, firing)' = Held(e, firing)
        BY <3>1, <3>5 DEF Held
      <4> QED
        BY <3>3, <3>5, <4>1, BudgetType DEF Held
    <3> QED
      BY <3>4, <3>5
  <2> QED
    BY <2>1, <2>2
<1>4. Held(e, Fresh)' + Held(e, jobs)' + Held(e, firing)' + sending'[e]
         <= Held(e, Fresh) + Held(e, jobs) + Held(e, firing) + sending[e]
  BY <1>2, <1>3, BudgetType DEF Held
<1>5. faults' >= faults
  BY <1>1, BudgetType
<1> QED
  BY <1>2, <1>4, <1>5, QuietSteps

(* A crash takes the jobs and the buffer, and gives back the event in hand. *)
LEMMA CrashBudget ==
    ASSUME Typed, Typed', NEW e \in Executions, Budget(e), Crash
    PROVE  Budget(e)'
<1>1. /\ UNCHANGED <<topic, scheduled, status>> /\ faults' = faults + 1
      /\ unpublished' = {} /\ jobs' = {} /\ firing' = {} /\ sending'[e] = 0
  BY DEF Crash, Fault, topicVars
<1>2. topic \in Seq(Event)
  BY DEF Typed, TypeOK
<1>3. RequestsOf(e)' = RequestsOf(e)
  BY <1>1 DEF RequestsOf, Notice
<1>4. /\ Held(e, jobs)' = 0 /\ Held(e, firing)' = 0 /\ Held(e, Fresh)' <= Held(e, Fresh)
      /\ Held(e, jobs) >= 0 /\ Held(e, firing) >= 0
  BY <1>1 DEF Held, Fresh
<1>5. Cardinality(ToCome(e)') <= Cardinality(ToCome(e)) + 1
  <2>1. PICK S : S = ToCome(e)
    OBVIOUS
  <2>2. PICK T : T = ToCome(e)'
    OBVIOUS
  <2>3. PICK x : x = scheduled + 1
    OBVIOUS
  <2>4. S \in SUBSET DOMAIN topic /\ IsFiniteSet(S)
    BY <1>2, <2>1, BudgetType, PlacesFinite
  <2>5. T \in SUBSET (S \cup {x})
    BY <1>1, <2>1, <2>2, <2>3 DEF ToCome, Notice
  <2>6. IsFiniteSet(S \cup {x}) /\ Cardinality(S \cup {x}) <= Cardinality(S) + 1
    BY <2>4, OneMorePlace
  <2>7. Cardinality(T) <= Cardinality(S \cup {x})
    BY <2>5, <2>6, FS_Subset
  <2>8. Cardinality(S) \in Nat /\ Cardinality(T) \in Nat /\ Cardinality(S \cup {x}) \in Nat
    BY <2>1, <2>2, <2>4, BudgetType, OneMorePlace
  <2> QED
    BY <2>1, <2>2, <2>6, <2>7, <2>8
<1>6. Held(e, Fresh)' + Held(e, jobs)' + Held(e, firing)' + sending'[e]
         <= Held(e, Fresh) + Held(e, jobs) + Held(e, firing) + sending[e] + 0
  BY <1>1, <1>4, BudgetType DEF Held
<1>7. Cardinality(RequestsOf(e)') <= Cardinality(RequestsOf(e)) + 0
  BY <1>3, BudgetType
<1>8. 0 + 1 + 0 <= faults' - faults
  BY <1>1, BudgetType
<1>9. 0 \in Int /\ 1 \in Int
  OBVIOUS
<1> QED
  BY <1>5, <1>6, <1>7, <1>8, <1>9, StepMovesOn

(* The other steps neither publish nor take anything over. *)
LEMMA OtherBudget ==
    ASSUME Typed, Typed', NEW e \in Executions, Budget(e),
           \/ \E f \in Executions, t \in Times : Schedule(f, t)
           \/ Dispatch \/ Tick \/ Restart
    PROVE  Budget(e)'
<1>1. UNCHANGED <<topic, scheduled, jobs, firing, sending, added>>
  BY DEF Schedule, Dispatch, Tick, Restart, topicVars, jobVars, processVars
<1>2. RequestsOf(e)' = RequestsOf(e) /\ ToCome(e)' = ToCome(e)
  BY <1>1 DEF RequestsOf, ToCome, Notice
<1>3. faults' >= faults
  <2>1. faults' = faults \/ faults' = faults + 1
    BY DEF Schedule, Dispatch, Tick, Restart, Fault
  <2> QED
    BY <2>1, BudgetType
<1>4. Held(e, Fresh)' <= Held(e, Fresh)
  <2>1. ASSUME NEW f \in Executions, NEW t \in Times, Schedule(f, t)
        PROVE  Fresh' \subseteq Fresh
    BY <2>1 DEF Schedule, Fresh, Typed, TypeOK
  <2>2. CASE Dispatch
    <3>1. ASSUME NEW f \in Executions, status'[f] = "absent"
          PROVE  status[f] = "absent"
      BY <2>2, <3>1 DEF Dispatch, StatusAfter, Typed, TypeOK
    <3>2. UNCHANGED unpublished
      BY <2>2 DEF Dispatch
    <3> QED
      BY <3>1, <3>2 DEF Held, Fresh
  <2>3. CASE Tick \/ Restart
    BY <2>3 DEF Tick, Restart, apiVars, Held, Fresh
  <2>4. Fresh' \subseteq Fresh => Held(e, Fresh)' <= Held(e, Fresh)
    BY DEF Held
  <2> QED
    BY <2>1, <2>2, <2>3, <2>4
<1>5. Held(e, jobs)' = Held(e, jobs) /\ Held(e, firing)' = Held(e, firing) /\ sending'[e] = sending[e]
  BY <1>1 DEF Held
<1>6. Held(e, Fresh)' + Held(e, jobs)' + Held(e, firing)' + sending'[e]
         <= Held(e, Fresh) + Held(e, jobs) + Held(e, firing) + sending[e]
  BY <1>4, <1>5, BudgetType DEF Held
<1> QED
  BY <1>2, <1>3, <1>6, QuietSteps

LEMMA BudgetedInit == Init => Budgeted
<1> SUFFICES ASSUME Init, NEW e \in Executions
             PROVE  Budget(e)
  BY DEF Budgeted
<1>1. topic = <<>> /\ DOMAIN topic = {}
  BY DEF Init
<1>2. ToCome(e) = {} /\ RequestsOf(e) = {}
  BY <1>1 DEF ToCome, RequestsOf
<1>3. Cardinality(ToCome(e)) = 0 /\ Cardinality(RequestsOf(e)) = 0
  BY <1>2, FS_EmptySet
<1>4. Held(e, Fresh) <= 1 /\ Held(e, Fresh) \in Nat /\ Held(e, jobs) = 0 /\ Held(e, firing) = 0 /\ sending[e] = 0
  BY DEF Init, Held
<1> QED
  BY <1>3, <1>4 DEF Budget, Init

LEMMA BudgetedNext == Typed /\ Typed' /\ Jobs /\ Budgeted /\ [Next]_vars => Budgeted'
<1> SUFFICES ASSUME Typed, Typed', Jobs, Budgeted, [Next]_vars, NEW e \in Executions
             PROVE  Budget(e)'
  BY DEF Budgeted
<1>1. Budget(e)
  BY DEF Budgeted
<1>2. CASE UNCHANGED vars
  <2>1. UNCHANGED <<topic, scheduled, added, status, unpublished, jobs, firing, sending, faults>>
    BY <1>2 DEF vars, topicVars, apiVars, jobVars, processVars
  <2> QED
    BY <1>1, <2>1 DEF Budget, Held, Fresh, ToCome, RequestsOf, Notice
<1>3. ASSUME NEW f \in Executions, PublishScheduled(f) \/ Cancel(f) \/ PublishRequest(f)
      PROVE  Budget(e)'
  BY <1>1, <1>3, PublishedBudget
<1>4. CASE Skip \/ AddJob \/ Commit
  BY <1>1, <1>4, LoopBudget
<1>5. ASSUME NEW f \in Executions, Wake(f) \/ RunJob(f)
      PROVE  Budget(e)'
  BY <1>1, <1>5, JobBudget
<1>6. CASE Crash
  BY <1>1, <1>6, CrashBudget
<1>7. CASE (\E f \in Executions, t \in Times : Schedule(f, t)) \/ Dispatch \/ Tick \/ Restart
  BY <1>1, <1>7, OtherBudget
<1> QED
  BY <1>2, <1>3, <1>4, <1>5, <1>6, <1>7 DEF Next

(* However events are repeated and the process restarted, an execution is  *)
(* requested once and once more for each fault at most.                    *)
THEOREM RequestsCounted == Spec => []FaultsRepeatRequests
<1>1. Init => Jobs
  BY DEF Init, Jobs, InExecutor, Mentioned
<1>2. Typed /\ Budgeted => FaultsRepeatRequests
  <2> SUFFICES ASSUME Typed, Budgeted, NEW e \in Executions
               PROVE  Cardinality(RequestsOf(e)) <= 1 + faults
    BY DEF FaultsRepeatRequests
  <2>1. topic \in Seq(Event) /\ sending[e] \in Nat /\ faults \in Nat
    BY DEF Typed, TypeOK
  <2>2. Cardinality(ToCome(e)) \in Nat /\ Cardinality(RequestsOf(e)) \in Nat
    <3>1. ToCome(e) \in SUBSET DOMAIN topic /\ RequestsOf(e) \in SUBSET DOMAIN topic
      BY DEF ToCome, RequestsOf
    <3> QED
      BY <2>1, <3>1, PlacesFinite
  <2>3. Budget(e)
    BY DEF Budgeted
  <2> QED
    BY <2>1, <2>2, <2>3 DEF Budget, Held
<1> QED
  BY <1>1, <1>2, TypedInit, TypedNext, JobsNext, BudgetedInit, BudgetedNext, PTL DEF Spec
=============================================================================
