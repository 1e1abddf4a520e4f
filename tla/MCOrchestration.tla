-------------------------- MODULE MCOrchestration --------------------------
(* Small instances of Orchestration for TLC. *)
EXTENDS Orchestration, Functions, TLC

CONSTANTS p0, s1, s2, s3, e1, e2, w1, w2

(* Every execution on one partition: the worst case for head-of-line order. *)
OnePartition == [e \in Executions |-> p0]

(* Plans of every length up to the one of the instance. *)
PlanOfOne == {<<s1>>}
PlanOfTwo == {<<s1, s2>>}
OneOrTwo == PlanOfOne \cup PlanOfTwo
PlanOfThree == {<<s1, s2, s3>>}
PlansUpToThree == {<<>>, <<s2>>, <<s1, s2>>, <<s2, s3, s1>>}

(* A view for the runs whose faults make the topic long.  What happens next *)
(* depends on the topic only past the committed offset, and on the rows not *)
(* at all; of what is committed the invariants of these runs read only      *)
(* which steps passed or failed, which requests and commands there were and *)
(* whether completion was reported.                                       *)
Decided ==
    {ev \in UNION {Range(log[p]) : p \in Partitions} :
        ev.type \in {"step-completed", "step-failed", "requested", "plan-completed",
                    "stop-requested", "restart-requested"}}

Ahead == [p \in Partitions |-> SubSeq(log[p], offset[p] + 1, Len(log[p]))]

FutureView ==
    <<Decided, Ahead, mode, current, todo, status, plan, unpublished, cancelling,
      queued, pc, task, cache, revoking, revoked, faults, commands>>

(* Bounds of the liveness run.  Both cut only what nothing is fair to: one   *)
(* fault or one command per behaviour, and of two executions the second is   *)
(* asked for when the first is over, and only if the plan is short.          *)
OneAtATime == faults + commands <= 1

OnceE1IsOver ==
    e2 \in unpublished' => e2 \in unpublished \/ (Terminal(e1) /\ Len(plan) = 1)

(* Bound of the fault run: a command and a fault meet in a plan of one step.  *)
CommandOrFault == faults + commands <= 1 \/ Len(plan) = 1

(* The processes of the pool are alike. *)
AlikeWorkers == Permutations({w1, w2})
=============================================================================
