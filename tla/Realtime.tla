------------------------------ MODULE Realtime ------------------------------
(***************************************************************************)
(* The realtime process.  A thread consumes the topic and hands each event *)
(* to the event loop of the WebSocket server as a broadcast of its own; a  *)
(* broadcast walks the connections of the event's plan in the order they   *)
(* were accepted and waits at each until its socket has drained.  The      *)
(* endpoint of a connection turns commands into events of its plan.        *)
(***************************************************************************)
EXTENDS Integers, SequencesExt, FiniteSets

CONSTANTS
    Connections,    \* WebSocket connections that may come to exist
    Plans,          \* plan ids
    PlanOf,         \* the plan in the URL of each connection
    FaultKinds,     \* a subset of "restart", "consumer", "break", "invalid"
    MaxFaults,      \* bound: faults per behaviour
    MaxEvents       \* bound: the length of the topic

ASSUME PlanOfAssumption == PlanOf \in [Connections -> Plans]

VARIABLES
    log,            \* the plan of each event of the topic
    offset,         \* committed offset of checkflow-realtime-websocket
    consumer,       \* the thread is "polling", "handling" or "dead"
    loop,           \* the manager knows the event loop
    state,          \* of each connection, see States
    connections,    \* the manager's connections
    arrival,        \* the place of each in the order of insertion
    arrivals,       \* connections accepted so far
    scheduled,      \* events whose broadcast is not started
    sending,        \* started broadcasts, by the time they came where they wait
    received,       \* the events sent to each connection
    disturbed,      \* history: some connection before this one has ended
    faults          \* faults so far

(* A broken connection has lost its client and the endpoint has not yet    *)
(* noticed; a dead one had its endpoint end with an error, and nobody      *)
(* removed it from the manager.                                            *)
States == {"new", "open", "broken", "closed", "dead"}

topicVars == <<log, offset, consumer>>
managerVars == <<loop, connections, arrival, arrivals>>
taskVars == <<scheduled, sending, received>>
clientVars == <<state, disturbed>>
vars == <<log, offset, consumer, loop, connections, arrival, arrivals, scheduled,
          sending, received, state, disturbed, faults>>

Fault(kind) == kind \in FaultKinds /\ faults < MaxFaults /\ faults' = faults + 1

Init ==
    /\ log = <<>> /\ offset = 0 /\ consumer = "polling"
    /\ loop = FALSE /\ connections = {}
    /\ arrival = [c \in Connections |-> 0] /\ arrivals = 0
    /\ state = [c \in Connections |-> "new"]
    /\ scheduled = <<>> /\ sending = <<>>
    /\ received = [c \in Connections |-> <<>>]
    /\ disturbed = {} /\ faults = 0

SamePlan(plan) == {c \in connections : PlanOf[c] = plan}

-----------------------------------------------------------------------------
(* The topic and the thread that consumes it. *)

Extend(plan) == Len(log) < MaxEvents /\ log' = Append(log, plan)

(* The other processes publish an event of a plan. *)
Publish(plan) ==
    /\ Extend(plan)
    /\ UNCHANGED <<offset, consumer, managerVars, taskVars, clientVars, faults>>

(* broadcast_from_consumer: before the first connection there is no loop   *)
(* to run the broadcast on.                                                *)
Poll ==
    /\ consumer = "polling" /\ offset < Len(log)
    /\ consumer' = "handling"
    /\ scheduled' = IF loop THEN Append(scheduled, offset + 1) ELSE scheduled
    /\ UNCHANGED <<log, offset, managerVars, sending, received, clientVars, faults>>

(* Seeded bug: the event is committed and handled on. *)
CommitAgain ==
    /\ consumer = "handling"
    /\ offset' = offset + 1
    /\ UNCHANGED <<log, consumer, managerVars, taskVars, clientVars, faults>>

Commit ==
    /\ consumer = "handling"
    /\ consumer' = "polling" /\ offset' = offset + 1
    /\ UNCHANGED <<log, managerVars, taskVars, clientVars, faults>>

(* run raises, of an error the poll reports or a commit that fails: the    *)
(* thread ends and the process does not.                                   *)
ConsumerDies ==
    /\ consumer # "dead" /\ Fault("consumer")
    /\ consumer' = "dead"
    /\ UNCHANGED <<log, offset, managerVars, taskVars, clientVars>>

-----------------------------------------------------------------------------
(* Connections. *)

Connect(c) ==
    /\ state[c] = "new"
    /\ state' = [state EXCEPT ![c] = "open"]
    /\ connections' = connections \cup {c}
    /\ arrivals' = arrivals + 1 /\ arrival' = [arrival EXCEPT ![c] = arrivals']
    /\ loop' = TRUE
    /\ disturbed' = IF \A d \in SamePlan(PlanOf[c]) : state[d] = "open"
                    THEN disturbed ELSE disturbed \cup {c}
    /\ UNCHANGED <<topicVars, taskVars, faults>>

(* A stop or restart is published as an event of the plan in the URL. *)
Command(c) ==
    /\ state[c] = "open"
    /\ Extend(PlanOf[c])
    /\ UNCHANGED <<offset, consumer, managerVars, taskVars, clientVars, faults>>

(* The connection ends in its way, and disturbs those after it. *)
Ends(c, how) ==
    /\ state[c] = "open"
    /\ state' = [state EXCEPT ![c] = how]
    /\ disturbed' = disturbed \cup
          {d \in SamePlan(PlanOf[c]) : arrival[c] < arrival[d]}
    /\ UNCHANGED <<topicVars, managerVars, taskVars>>

(* The client leaves or its network fails. *)
Break(c) == Fault("break") /\ Ends(c, "broken")

(* A message that is no command raises KeyError or ValueError, which the   *)
(* endpoint does not catch.                                                *)
InvalidCommand(c) == Fault("invalid") /\ Ends(c, "dead")

(* Seeded bug: the loop is forgotten with any connection. *)
NoticeForgetsLoop(c) ==
    /\ state[c] = "broken"
    /\ state' = [state EXCEPT ![c] = "closed"]
    /\ connections' = connections \ {c}
    /\ loop' = FALSE
    /\ UNCHANGED <<topicVars, arrival, arrivals, taskVars, disturbed, faults>>

(* receive_json raises WebSocketDisconnect. *)
Notice(c) ==
    /\ state[c] = "broken"
    /\ state' = [state EXCEPT ![c] = "closed"]
    /\ connections' = connections \ {c}
    /\ UNCHANGED <<topicVars, loop, arrival, arrivals, taskVars, disturbed, faults>>

-----------------------------------------------------------------------------
(* Broadcasts. *)

(* Send event n to the first connection of queue and wait there; others    *)
(* are the broadcasts left as they are.  A connection without a client     *)
(* takes it or raises, one that has ended raises, and what raises ends the *)
(* broadcast.                                                              *)
Send(n, queue, others) ==
    \E c \in queue :
        /\ \A d \in queue : arrival[c] <= arrival[d]
        /\ \/ /\ state[c] \in {"open", "broken"}
              /\ sending' = Append(others, [event |-> n, at |-> c, rest |-> queue \ {c}])
              /\ received' = IF state[c] = "open"
                             THEN [received EXCEPT ![c] = Append(@, n)] ELSE received
           \/ /\ state[c] # "open"
              /\ sending' = others
              /\ UNCHANGED received

(* Seeded bug: the first connection of the plan only. *)
OnlyFirst(n) ==
    {c \in SamePlan(log[n]) : \A d \in SamePlan(log[n]) : arrival[c] <= arrival[d]}

(* Seeded bug: whoever is connected. *)
Everyone(n) == connections

(* The connections a broadcast will walk, as they are when it starts. *)
Snapshot(n) == SamePlan(log[n])

Start ==
    /\ scheduled # <<>>
    /\ scheduled' = Tail(scheduled)
    /\ LET n == Head(scheduled) IN
       IF Snapshot(n) = {} THEN UNCHANGED <<sending, received>>
       ELSE Send(n, Snapshot(n), sending)
    /\ UNCHANGED <<topicVars, managerVars, clientVars, faults>>

(* The socket where broadcast i waits has drained, in turn, or has raised. *)
Continue(i) ==
    /\ i \in DOMAIN sending
    /\ \A j \in 1..(i - 1) : sending[j].at # sending[i].at
    /\ LET b == sending[i]
           others == RemoveAt(sending, i)
       IN  \/ /\ b.rest = {} \/ state[b.at] # "open"
              /\ sending' = others
              /\ UNCHANGED received
           \/ /\ b.rest # {}
              /\ Send(b.event, b.rest, others)
    /\ UNCHANGED <<topicVars, managerVars, scheduled, clientVars, faults>>

-----------------------------------------------------------------------------
(* The container is restarted: the connections are gone with the process,  *)
(* and an event that was not committed is polled again.                    *)
Restart ==
    /\ Fault("restart")
    /\ consumer' = "polling"
    /\ loop' = FALSE /\ connections' = {}
    /\ state' = [c \in Connections |-> IF state[c] = "new" THEN "new" ELSE "closed"]
    /\ scheduled' = <<>> /\ sending' = <<>>
    /\ UNCHANGED <<log, offset, arrival, arrivals, received, disturbed>>

Next ==
    \/ \E p \in Plans : Publish(p)
    \/ Poll \/ Commit \/ ConsumerDies
    \/ \E c \in Connections :
          Connect(c) \/ Command(c) \/ Break(c) \/ InvalidCommand(c) \/ Notice(c)
    \/ Start \/ (\E i \in DOMAIN sending : Continue(i))
    \/ Restart

Spec == Init /\ [][Next]_vars

(***************************************************************************)
(* Fairness.  The thread polls for ever; the loop runs every task that is  *)
(* ready; a socket drains, or the keepalive of the server ends it.         *)
(***************************************************************************)
Fairness ==
    /\ WF_vars(Poll \/ Commit) /\ WF_vars(Start)
    /\ \A i \in 1..MaxEvents : WF_vars(Continue(i))
    /\ \A c \in Connections : WF_vars(Notice(c))

FairSpec == Spec /\ Fairness

-----------------------------------------------------------------------------
TypeOK ==
    /\ log \in Seq(Plans) /\ offset \in 0..Len(log)
    /\ consumer \in {"polling", "handling", "dead"}
    /\ consumer = "handling" => offset < Len(log)
    /\ loop \in BOOLEAN
    /\ state \in [Connections -> States]
    /\ connections \subseteq Connections
    /\ arrival \in [Connections -> Nat] /\ arrivals \in Nat
    /\ scheduled \in Seq(DOMAIN log)
    /\ sending \in Seq([event : DOMAIN log, at : Connections, rest : SUBSET Connections])
    /\ received \in [Connections -> Seq(DOMAIN log)]
    /\ disturbed \subseteq Connections
    /\ faults \in Nat

(* Client c has seen the events in the order of the topic, and between two *)
(* it has seen every other of its plan.                                    *)
InOrder(c) ==
    LET seen == received[c] IN
    /\ \A i, j \in DOMAIN seen : i < j => seen[i] < seen[j]
    /\ \A i, j \in DOMAIN seen, n \in DOMAIN log :
          seen[i] < n /\ n < seen[j] /\ log[n] = PlanOf[c] => n \in Range(seen)

(* A client sees the events of its plan in the order of the topic, none    *)
(* twice and none left out from the first one it sees, as long as no       *)
(* connection accepted before its own has ended; broadcasts that wait at   *)
(* different sockets do not overtake each other.                           *)
FollowersSeeARun == \A c \in Connections \ disturbed : InOrder(c)

(* Whatever happens, no client sees an event twice, or one of another plan: *)
(* what is polled again after a restart finds new connections.             *)
NobodyIsToldTwice ==
    \A c \in Connections :
        /\ IsInjective(received[c])
        /\ \A n \in Range(received[c]) : log[n] = PlanOf[c]

(* What the thread has not polled yet while c is open. *)
Coming(c, n) ==
    n \in DOMAIN log /\ log[n] = PlanOf[c] /\ state[c] = "open"
    /\ n > offset + (IF consumer = "handling" THEN 1 ELSE 0)

(* An event still to be polled reaches every client that stays, unless a   *)
(* connection accepted before it ended or the thread has died.             *)
FollowersAreTold ==
    \A c \in Connections, n \in 1..MaxEvents :
        Coming(c, n) ~> \/ n \in Range(received[c]) \/ state[c] # "open"
                        \/ c \in disturbed \/ consumer = "dead"

(* What the README promises a client: to follow an entire execution of the *)
(* plan, for as long as it stays connected.                                *)
EveryFollowerIsTold ==
    \A c \in Connections, n \in 1..MaxEvents :
        Coming(c, n) ~> n \in Range(received[c]) \/ state[c] # "open"
=============================================================================
