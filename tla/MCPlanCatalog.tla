--------------------------- MODULE MCPlanCatalog ---------------------------
(* Small instances of PlanCatalog for TLC. *)
EXTENDS PlanCatalog, TLC

CONSTANTS c1, c2

At(n) == [seq |-> n, live |-> TRUE]

(* An empty plan, two steps in the other order than their ids, and a plan  *)
(* with a gap. *)
SmallPlans == {<<>>, <<At(2), At(1)>>, <<At(1), At(3)>>}

(* Every kind of request; reorders of all the steps and of some, moves to  *)
(* free positions and to taken ones, to the end and nowhere.               *)
FewPayloads ==
    {[op |-> "append"], [op |-> "update-plan"], [op |-> "delete-plan"], [op |-> "create", seq |-> 2]}
    \cup [op : {"update"}, id : 1..2, seq : 1..2]
    \cup [op : {"delete"}, id : {1}]
    \cup [op : {"reorder"}, positions : {<<1, 2>>, <<2, 1>>, <<1, 1>>, <<2, 3, 1>>, (2 :> 1), (2 :> 2) @@ (3 :> 1)}]
=============================================================================
