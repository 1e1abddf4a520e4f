----------------------------- MODULE LiveEdits -----------------------------
(***************************************************************************)
(* Orchestration, with the plan edited while its executions are under way. *)
(* The dispatcher keeps no copy of the plan: each step-completed event is  *)
(* placed in the list of steps that is active when the event is handled.   *)
(***************************************************************************)
EXTENDS Orchestration

CONSTANTS
    EditKinds,      \* the edits a run admits
    MaxEdits        \* bound: edits per behaviour

ASSUME EditsAssumption ==
    /\ EditKinds \subseteq {"reorder", "active", "delete", "create"}
    /\ MaxEdits \in Nat

VARIABLES
    order,          \* the plan's steps that are not deleted, by sequence
    active,         \* the steps whose active flag is set
    edits,          \* edits so far
    raised          \* history: the dispatcher has failed on an event

editVars == <<vars, order, active, edits, raised>>

Listed(o) == {o[i] : i \in DOMAIN o}

(* The sequences that list a set of steps in the order of o: there is one,  *)
(* for o lists each step once.                                              *)
InOrder(set, o) ==
    {p \in UNION {[1..n -> set] : n \in 0..Len(o)} :
        /\ Listed(p) = set
        /\ \A i, j \in DOMAIN p : i < j =>
              \E k, l \in DOMAIN o : k < l /\ o[k] = p[i] /\ o[l] = p[j]}

(* list_by_plan, filtered by _active_steps *)
ActiveSteps(o, a) == InOrder(Listed(o) \cap a, o)

EditInit ==
    /\ Init
    /\ order = plan /\ active = Listed(plan) /\ edits = 0 /\ raised = FALSE

Edit(kind) ==
    /\ kind \in EditKinds
    /\ edits < MaxEdits /\ edits' = edits + 1
    /\ plan' \in ActiveSteps(order', active')
    /\ UNCHANGED <<kafkaVars, dispatcherVars, dbVars, apiVars, nodeVars, boundVars, raised>>

(* reorder: a permutation of all the steps, as one transaction. *)
Reorder ==
    /\ \E o \in [DOMAIN order -> Listed(order)] :
          Listed(o) = Listed(order) /\ o # order /\ order' = o
    /\ UNCHANGED <<deleted, active>>
    /\ Edit("reorder")

(* update of the active flag *)
SetActive(s) ==
    /\ s \in Listed(order)
    /\ active' = IF s \in active THEN active \ {s} ELSE active \cup {s}
    /\ UNCHANGED <<deleted, order>>
    /\ Edit("active")

(* delete is soft: the row stays, no longer listed and no longer found. *)
Delete(s) ==
    /\ s \in Listed(order)
    /\ order' \in InOrder(Listed(order) \ {s}, order)
    /\ active' = active \ {s}
    /\ deleted' = deleted \cup {s}
    /\ Edit("delete")

(* add, with sequence 0: after the last step. *)
Create(s) ==
    /\ s \notin Listed(order) \cup deleted
    /\ order' = Append(order, s)
    /\ active' = active \cup {s}
    /\ UNCHANGED deleted
    /\ Edit("create")

(* The exception leaves the consumer loop: nothing is committed. *)
PollRaises(p) ==
    /\ HasNext(p)
    /\ Raises(NextEvent(p))
    /\ mode' = "down" /\ raised' = TRUE
    /\ UNCHANGED <<kafkaVars, current, todo, dbVars, outsideVars, nodeVars, boundVars,
                   order, active, edits>>

EditNext ==
    \/ Next /\ UNCHANGED <<order, active, edits, raised>>
    \/ \E p \in Partitions : PollRaises(p)
    \/ Reorder
    \/ \E s \in Steps : SetActive(s) \/ Delete(s) \/ Create(s)

EditSpec == EditInit /\ [][EditNext]_editVars

EditFairSpec ==
    EditSpec /\ Fairness /\ \A p \in Partitions : WF_editVars(PollRaises(p))

(* The dispatcher fails on the event of a step that was started and then   *)
(* taken out of the plan, and the restart runs the workers' tasks again.    *)
(* Until it does, no edit harms the order of the work, however often the    *)
(* plan is changed under an execution: one step in flight at a time, and    *)
(* nothing after a failure.                                                 *)
SequentialUntilRaised == raised \/ (OneStepAtATime /\ FailureEndsExecution)

(* Every request that was published is answered: its execution does not    *)
(* stay PENDING.  One event the dispatcher cannot handle is polled again   *)
(* after every restart, ahead of all other executions of the partition.    *)
RequestsAreAnswered ==
    \A e \in Executions : Logged("requested", e, NoStep) ~> status[e] # "pending"
=============================================================================
