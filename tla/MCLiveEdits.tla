-------------------------- MODULE MCLiveEdits ------------------------------
(* Small instances of LiveEdits for TLC. *)
EXTENDS LiveEdits, TLC

CONSTANTS p0, s1, s2, s3, e1, e2, w1, w2

(* Every execution on one partition: the worst case for head-of-line order. *)
OnePartition == [e \in Executions |-> p0]

(* Plans of every length up to the one of the instance. *)
PlanOfTwo == {<<s1, s2>>}

(* Bound: a step the dispatcher cannot place is polled again after every    *)
(* restart, and each restart may run the workers' last tasks once more; the *)
(* topic grows for ever.                                                    *)
MaxEvents == 8
ShortTopic == \A p \in Partitions : Len(log[p]) <= MaxEvents

(* The processes of the pool are alike. *)
AlikeWorkers == Permutations({w1, w2})
=============================================================================
