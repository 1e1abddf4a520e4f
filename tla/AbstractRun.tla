---------------------------- MODULE AbstractRun ----------------------------
(***************************************************************************)
(* What the executions of a plan promise to those who asked for them,      *)
(* whatever processes, topics and queues do the work.  Of an execution     *)
(* there is its phase, whether somebody asked to stop it, the steps that   *)
(* are being worked on, and those that passed or failed.  Orchestration    *)
(* implements it, see OrchestrationRuns there.                             *)
(***************************************************************************)
EXTENDS Integers, Sequences

CONSTANTS Executions, Steps

VARIABLES plan, phase, stops, working, passed, failed

runVars == <<plan, phase, stops, working, passed, failed>>

Nothing == [e \in Executions |-> {}]

Init ==
    /\ plan \in Seq(Steps)
    /\ phase = [e \in Executions |-> "absent"]
    /\ stops = {} /\ working = Nothing /\ passed = Nothing /\ failed = Nothing

Begun(e) == phase[e] \notin {"absent", "pending"}
Listed(s) == \E i \in DOMAIN plan : plan[i] = s
Preceded(e, s) == \A i, j \in DOMAIN plan : plan[i] = s /\ j < i => plan[j] \in passed[e]

Enter(e, p) ==
    /\ phase' = [phase EXCEPT ![e] = p]
    /\ UNCHANGED <<plan, stops, working, passed, failed>>

(* An id is used once. *)
Create(e) == phase[e] = "absent" /\ Enter(e, "pending")

(* A request may be answered more than once, but not after a stop. *)
Start(e) == phase[e] \notin {"absent", "cancelled"} /\ Enter(e, "running")

Complete(e) ==
    /\ Begun(e) /\ phase[e] # "cancelled"
    /\ \A i \in DOMAIN plan : plan[i] \in passed[e]
    /\ Enter(e, "completed")

(* Even a stopped execution fails when one of its steps failed. *)
Fail(e) == Begun(e) /\ failed[e] # {} /\ Enter(e, "failed")

Cancel(e) == phase[e] # "absent" /\ e \in stops /\ Enter(e, "cancelled")

AskToStop(e) ==
    /\ phase[e] # "absent"
    /\ stops' = stops \cup {e}
    /\ UNCHANGED <<plan, phase, working, passed, failed>>

(* A step is released in its turn, and not after a stop. *)
Release(e, s) ==
    /\ Begun(e) /\ phase[e] # "cancelled"
    /\ Listed(s) /\ Preceded(e, s)
    /\ working' = [working EXCEPT ![e] = @ \cup {s}]
    /\ UNCHANGED <<plan, phase, stops, passed, failed>>

(* Only what is being worked on passes or fails ... *)
Pass(e, s) ==
    /\ s \in working[e]
    /\ passed' = [passed EXCEPT ![e] = @ \cup {s}]
    /\ UNCHANGED <<plan, phase, stops, working, failed>>

FailStep(e, s) ==
    /\ s \in working[e]
    /\ failed' = [failed EXCEPT ![e] = @ \cup {s}]
    /\ UNCHANGED <<plan, phase, stops, working, passed>>

(* ... and the work ends, or is given up, without a trace. *)
Leave(e, s) ==
    /\ working' = [working EXCEPT ![e] = @ \ {s}]
    /\ UNCHANGED <<plan, phase, stops, passed, failed>>

Next ==
    \E e \in Executions :
        \/ Create(e) \/ Start(e) \/ Complete(e) \/ Fail(e) \/ Cancel(e) \/ AskToStop(e)
        \/ \E s \in Steps : Release(e, s) \/ Pass(e, s) \/ FailStep(e, s) \/ Leave(e, s)

Spec == Init /\ [][Next]_runVars
=============================================================================
