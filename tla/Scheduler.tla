----------------------------- MODULE Scheduler -----------------------------
(***************************************************************************)
(* Executions scheduled for later.  The API creates the row and publishes  *)
(* a scheduled event; the scheduler process keeps a job for it in memory   *)
(* (APScheduler, one job per execution id, replaced when added again) and  *)
(* publishes the request when its time has come; the dispatcher then       *)
(* starts the execution unless it was cancelled meanwhile.  Scheduler and  *)
(* dispatcher read the same topic as two consumer groups.                  *)
(*                                                                         *)
(* The dispatcher is reduced to executions it has not started: "started"   *)
(* stands for whatever becomes of one afterwards, which is the subject of  *)
(* Orchestration.  Time is counted in units of APScheduler's misfire grace *)
(* time.                                                                   *)
(***************************************************************************)
EXTENDS Integers, Sequences, FiniteSets

CONSTANTS
    Executions,     \* execution ids
    MaxTime,        \* bound: the last moment
    NoTime,         \* scheduled_for of an execution that does not exist
    FaultKinds,     \* the kinds of faults a run admits
    MaxFaults       \* bound: faults per behaviour

Times == 0..MaxTime
Grace == 1

ASSUME TimesAssumption == MaxTime \in Nat /\ NoTime \notin Times

ASSUME FaultsAssumption ==
    FaultKinds \subseteq {"crash", "late", "lost", "duplicated"} /\ MaxFaults \in Nat

VARIABLES
    topic,          \* the events published, in order
    scheduled,      \* committed offset of group checkflow-scheduler
    dispatched,     \* committed offset of group checkflow-task-dispatcher
    status,         \* plan_executions.status until the execution is started
    due,            \* scheduled_for
    unpublished,    \* rows the API has not published yet
    up,             \* the container runs
    added,          \* the job of the event in hand is added, not committed
    jobs,           \* executions with a job in the memory job store
    firing,         \* executions whose job is handed to the executor
    sending,        \* requests produced and not yet appended to the topic
    missed,         \* executions a job of which ended without a request
    started,        \* the offset committed when the container was started
    now, faults

topicVars == <<topic, scheduled, dispatched>>
apiVars == <<status, due, unpublished>>
jobVars == <<jobs, firing, sending, missed>>
processVars == <<up, added, started>>
vars == <<topicVars, apiVars, jobVars, processVars, now, faults>>

EventTypes == {"scheduled", "requested", "stop-requested"}
Event == [type : EventTypes, exec : Executions]

Notice(type, e) == [type |-> type, exec |-> e]

Logged(type, e) == \E i \in DOMAIN topic : topic[i] = Notice(type, e)

Fault(kind) ==
    /\ kind \in FaultKinds /\ faults < MaxFaults
    /\ faults' = faults + 1

(* One copy arrives, or two (see Orchestration).  produce only puts the     *)
(* event into the producer's buffer, flush(5) may give up waiting and the  *)
(* producer goes on retrying: the append may be much later than the call.  *)
(* For a request the two are apart (RunJob and PublishRequest); the API    *)
(* may take as long as it likes, which comes to the same.                  *)
Publish(ev) ==
    \/ topic' = Append(topic, ev) /\ UNCHANGED faults
    \/ topic' = topic \o <<ev, ev>> /\ Fault("duplicated")

(* None arrives: the producer gave up and nobody reads the outcome. *)
Lost == UNCHANGED topic /\ Fault("lost")

Init ==
    /\ topic = <<>> /\ scheduled = 0 /\ dispatched = 0
    /\ status = [e \in Executions |-> "absent"]
    /\ due = [e \in Executions |-> NoTime] /\ unpublished = {}
    /\ jobs = {} /\ firing = {} /\ missed = {}
    /\ sending = [e \in Executions |-> 0]
    /\ up = TRUE /\ added = FALSE /\ started = 0
    /\ now = 0 /\ faults = 0

-----------------------------------------------------------------------------
(* The API. *)

(* POST /executions with scheduled_for, which may be any moment, a past    *)
(* one included: first the row ...                                         *)
Schedule(e, t) ==
    /\ status[e] = "absent"
    /\ status' = [status EXCEPT ![e] = "pending"]
    /\ due' = [due EXCEPT ![e] = t]
    /\ unpublished' = unpublished \cup {e}
    /\ UNCHANGED <<topicVars, jobVars, processVars, now, faults>>

(* ... and then the event. *)
PublishScheduled(e) ==
    /\ e \in unpublished
    /\ unpublished' = unpublished \ {e}
    /\ Publish(Notice("scheduled", e)) \/ Lost
    /\ UNCHANGED <<scheduled, dispatched, status, due, jobVars, processVars, now>>

(* A cancel is accepted before the time as well as after it.  (A started   *)
(* execution may have finished; it is then refused, which is no step.)     *)
(* Bound: one per execution.                                               *)
Cancel(e) ==
    /\ status[e] \in {"pending", "started"}
    /\ ~Logged("stop-requested", e)
    /\ Publish(Notice("stop-requested", e)) \/ Lost
    /\ UNCHANGED <<scheduled, dispatched, apiVars, jobVars, processVars, now>>

-----------------------------------------------------------------------------
(* The consumer loop of the scheduler process. *)

Polled == topic[scheduled + 1]

Polls == up /\ ~added /\ scheduled < Len(topic)

(* Events of other types are only committed. *)
Skip ==
    /\ Polls /\ Polled.type # "scheduled"
    /\ scheduled' = scheduled + 1
    /\ UNCHANGED <<topic, dispatched, apiVars, jobVars, processVars, now, faults>>

(* add_job with the execution id as the job's id, replace_existing. *)
AddJob ==
    /\ Polls /\ Polled.type = "scheduled"
    /\ jobs' = jobs \cup {Polled.exec}
    /\ added' = TRUE
    /\ UNCHANGED <<topicVars, apiVars, firing, sending, missed, up, started, now, faults>>

(* Seeded bug: an event may be committed again. *)
CommitAgain ==
    /\ up /\ added
    /\ scheduled' = scheduled + 1
    /\ UNCHANGED <<topic, dispatched, apiVars, jobVars, up, added, started, now, faults>>

Commit ==
    /\ up /\ added
    /\ scheduled' = scheduled + 1 /\ added' = FALSE
    /\ UNCHANGED <<topic, dispatched, apiVars, jobVars, up, started, now, faults>>

-----------------------------------------------------------------------------
(* Seeded bug: a job whose moment has passed when the thread wakes up is    *)
(* dropped there and then.                                                  *)
WakeOnTime(e) ==
    /\ up /\ e \in jobs /\ due[e] <= now
    /\ jobs' = jobs \ {e}
    /\ firing' = IF due[e] = now THEN firing \cup {e} ELSE firing
    /\ UNCHANGED <<topicVars, apiVars, sending, missed, processVars, now, faults>>

(* Seeded bug: the thread takes the next job without looking at its time.   *)
WakeEarly(e) ==
    /\ up /\ e \in jobs
    /\ jobs' = jobs \ {e} /\ firing' = firing \cup {e}
    /\ UNCHANGED <<topicVars, apiVars, sending, missed, processVars, now, faults>>

(* Seeded bug: a job that was run stays in the store.  Bound: twice.        *)
WakeAgain(e) ==
    /\ up /\ e \in jobs /\ due[e] <= now
    /\ e \notin firing /\ sending[e] < 2
    /\ firing' = firing \cup {e}
    /\ UNCHANGED <<topicVars, apiVars, jobs, sending, missed, processVars, now, faults>>

(* The APScheduler thread, which hands due jobs to its executor and forgets *)
(* them; one whose last run has not returned (max_instances) is not run     *)
(* again.  A request still in the buffer may have outlasted its run.        *)
Wake(e) ==
    /\ up /\ e \in jobs /\ due[e] <= now
    /\ jobs' = jobs \ {e}
    /\ \/ firing' = firing \cup {e}
       \/ sending[e] > 0 /\ UNCHANGED firing
    /\ UNCHANGED <<topicVars, apiVars, sending, missed, processVars, now, faults>>

(* run_job: a job later than its grace time is only reported; otherwise it  *)
(* calls publish, which produces the request.                               *)
RunJob(e) ==
    /\ up /\ e \in firing
    /\ firing' = firing \ {e}
    /\ \/ /\ now - due[e] <= Grace
          /\ sending' = [sending EXCEPT ![e] = @ + 1] /\ UNCHANGED missed
       \/ /\ now - due[e] > Grace
          /\ missed' = missed \cup {e} /\ UNCHANGED sending
    /\ UNCHANGED <<topicVars, apiVars, jobs, processVars, now, faults>>

(* The rest of publish: the request is appended while flush waits for it,   *)
(* or at any later moment by the producer's retries, or never.              *)
PublishRequest(e) ==
    /\ up /\ sending[e] > 0
    /\ sending' = [sending EXCEPT ![e] = @ - 1]
    /\ \/ Publish(Notice("requested", e)) /\ UNCHANGED missed
       \/ Lost /\ missed' = missed \cup {e}
    /\ UNCHANGED <<scheduled, dispatched, apiVars, jobs, firing, processVars, now>>

-----------------------------------------------------------------------------
(* What the dispatcher makes of an event. *)

(* Seeded bug: a request is started whatever the status. *)
StatusUnchecked(ev) ==
    CASE ev.type = "requested"                                     -> "started"
      [] ev.type = "stop-requested" /\ status[ev.exec] # "started" -> "cancelled"
      [] OTHER                                                     -> status[ev.exec]

StatusAfter(ev) ==
    CASE ev.type = "requested" /\ status[ev.exec] # "cancelled"    -> "started"
      [] ev.type = "stop-requested" /\ status[ev.exec] # "started" -> "cancelled"
      [] OTHER                                                     -> status[ev.exec]

(* Handling an event once more, after a crash before the commit, changes   *)
(* nothing here, so handler and commit are one step.                       *)
Dispatch ==
    /\ up /\ dispatched < Len(topic)
    /\ LET ev == topic[dispatched + 1] IN
       status' = [status EXCEPT ![ev.exec] = StatusAfter(ev)]
    /\ dispatched' = dispatched + 1
    /\ UNCHANGED <<topic, scheduled, due, unpublished, jobVars, processVars, now, faults>>

-----------------------------------------------------------------------------
(* Time, and the life of the container. *)

(* On its way from the API to the check of its time. *)
Underway(e) ==
    \/ e \in unpublished \cup jobs \cup firing
    \/ \E i \in scheduled + 1..Len(topic) : topic[i] = Notice("scheduled", e)

(* Time passes; it outruns what is under way only by a fault. *)
Tick ==
    /\ now < MaxTime
    /\ now' = now + 1
    /\ IF \E e \in Executions : Underway(e) /\ due[e] + Grace = now
       THEN Fault("late")
       ELSE UNCHANGED faults
    /\ UNCHANGED <<topicVars, apiVars, jobVars, processVars>>

(* The jobs were in memory, and so was the producer's buffer. *)
Crash ==
    /\ up /\ Fault("crash")
    /\ up' = FALSE /\ added' = FALSE
    /\ unpublished' = {} /\ jobs' = {} /\ firing' = {}
    /\ sending' = [e \in Executions |-> 0]
    /\ UNCHANGED <<topicVars, status, due, missed, started, now>>

Restart ==
    /\ ~up
    /\ up' = TRUE /\ started' = scheduled
    /\ UNCHANGED <<topicVars, apiVars, jobVars, added, now, faults>>

-----------------------------------------------------------------------------
Next ==
    \/ \E e \in Executions :
          \/ \E t \in Times : Schedule(e, t)
          \/ PublishScheduled(e) \/ Cancel(e) \/ Wake(e) \/ RunJob(e) \/ PublishRequest(e)
    \/ Skip \/ AddJob \/ Commit \/ Dispatch \/ Tick \/ Crash \/ Restart

Spec == Init /\ [][Next]_vars

(* Time goes on, the loops go round and docker restarts the container.     *)
(* Nobody has to schedule or cancel anything, and no fault has to happen.  *)
Fairness ==
    /\ WF_vars(Tick) /\ WF_vars(Skip \/ AddJob \/ Commit) /\ WF_vars(Dispatch)
    /\ WF_vars(Restart)
    /\ \A e \in Executions :
          /\ WF_vars(PublishScheduled(e)) /\ WF_vars(Wake(e))
          /\ WF_vars(RunJob(e)) /\ WF_vars(PublishRequest(e))

FairSpec == Spec /\ Fairness

-----------------------------------------------------------------------------
TypeOK ==
    /\ topic \in Seq(Event)
    /\ scheduled \in 0..Len(topic) /\ dispatched \in 0..Len(topic)
    /\ status \in [Executions -> {"absent", "pending", "started", "cancelled"}]
    /\ due \in [Executions -> Times \cup {NoTime}]
    /\ unpublished \subseteq Executions
    /\ jobs \subseteq Executions /\ firing \subseteq Executions /\ missed \subseteq Executions
    /\ sending \in [Executions -> Nat]
    /\ up \in BOOLEAN /\ added \in BOOLEAN
    /\ started \in 0..scheduled
    /\ now \in Times /\ faults \in 0..MaxFaults

(* The schedule of e is still to be honoured, was honoured, or came to an  *)
(* end as too late or with the loss of its request.                        *)
IsKept(e) ==
    e \in jobs \cup firing \cup missed \/ sending[e] > 0 \/ Logged("requested", e)

(* A job lives as long as the process: of the scheduled events committed   *)
(* since it was started none is forgotten, however they are repeated and   *)
(* however late their jobs run.                                            *)
KeptSinceTheStart ==
    up => \A i \in started + 1..scheduled :
              topic[i].type = "scheduled" => IsKept(topic[i].exec)

(* An execution is requested only for which a schedule was published, and  *)
(* no earlier than its time, also by a job that a redelivered event added  *)
(* once more or a request that the producer retried.  (There is no bound   *)
(* on how late: only the run of the job is checked, not the append.)       *)
RequestsAreDue ==
    [][\A e \in Executions : \A i \in Len(topic) + 1..Len(topic') :
          topic'[i] = Notice("requested", e) => Logged("scheduled", e) /\ due[e] <= now]_vars

RequestsOf(e) == {i \in DOMAIN topic : topic[i] = Notice("requested", e)}

(* A schedule becomes one request, and one more for each fault at most: a  *)
(* crash between add_job and commit repeats the event but takes with it    *)
(* whatever the first job had not appended, and a copy of an event whose   *)
(* job is in the store replaces that job.                                  *)
FaultsRepeatRequests == \A e \in Executions : Cardinality(RequestsOf(e)) <= 1 + faults

(* An execution cancelled before any request of it was handled is never    *)
(* started, although nobody removes its job and the job still publishes    *)
(* the request.                                                            *)
CancelledSchedulesDoNotRun ==
    \A i \in 1..dispatched :
        /\ topic[i].type = "stop-requested"
        /\ \A j \in 1..i - 1 : topic[j] # Notice("requested", topic[i].exec)
        => status[topic[i].exec] = "cancelled"

(* As long as there is no fault, an execution scheduled for a moment that  *)
(* has not passed is requested.                                            *)
FutureSchedulesAreRequested ==
    \A e \in Executions :
        e \in unpublished /\ due[e] >= now ~> Logged("requested", e) \/ faults > 0

(* What the README says of the process, "turns scheduled events into       *)
(* execution requests", for all of them: a scheduled event that was        *)
(* committed is not forgotten.  A restart forgets it.                      *)
CommittedSchedulesAreKept ==
    \A i \in 1..scheduled : topic[i].type = "scheduled" => IsKept(topic[i].exec)
=============================================================================
