---------------------------- MODULE VariableFlow ----------------------------
(***************************************************************************)
(* The variables of an execution, from the ones it is created with through *)
(* the steps that read them for their templates and merge into them what   *)
(* they extract from their responses.  The map is one column of the        *)
(* execution's row: a step reads it in one session and, when it has        *)
(* passed, reads and writes the whole of it in another.                    *)
(*                                                                         *)
(* Orchestration has the events, the rows and the broker that release and  *)
(* report the steps; here one step releases the next, the task waits until *)
(* a worker takes it, and faults queue it twice or put it back.            *)
(***************************************************************************)
EXTENDS StepEvaluation, FiniteSets

CONSTANTS
    Executions,     \* execution ids that may come to exist
    Workers,        \* the processes of the Celery pool
    Plan,           \* the steps of the plan, in order
    Responses,      \* what the systems under test may answer
    Given,          \* maps of variables a client may start an execution with
    FaultKinds,     \* a subset of "duplicated", "crash", "raise"
    MaxFaults       \* bound: faults per behaviour

Positions == DOMAIN Plan

NoMap == [name \in {} |-> Null]

(* The names step i extracts; another step may extract one of them again.  *)
Names(i) == DOMAIN Plan[i].extracts

ASSUME PlanAssumption ==
    /\ Len(Plan) \in Nat \ {0} /\ Positions = 1..Len(Plan)
    /\ \A i \in Positions :
          /\ IsValue(Plan[i].body)
          /\ \A n \in Names(i) :
                Plan[i].extracts[n][1] = "body" => Plan[i].extracts[n][2] \in Seq(STRING)

IsMap(map) ==
    map = [n \in DOMAIN map |-> map[n]] /\ \A n \in DOMAIN map : IsValue(map[n])

ASSUME GivenAssumption == \A map \in Given : IsMap(map)

ASSUME ResponsesAssumption ==
    \A r \in Responses : IsValue(r.body) /\ \A h \in DOMAIN r.headers : IsValue(r.headers[h])

ASSUME WorkersAssumption == IsFiniteSet(Workers)

VARIABLES
    status,         \* plan_executions.status
    variables,      \* plan_executions.variables
    given,          \* history: the variables the row was created with
    queued,         \* copies of each step's task waiting in the broker
    pc, task,       \* where each worker is, and in which step
    request,        \* the rendered step the worker sends
    extracted,      \* what it extracted from the response
    base,           \* the map merge_variables read
    answers,        \* history: the responses with which each step passed
    done,           \* history: the steps reported as completed
    raced,          \* history: executions two of whose merges overlapped
    faults          \* faults so far

workerVars == <<pc, task, request, extracted, base>>
historyVars == <<given, answers, done, raced>>
vars == <<status, variables, given, queued, pc, task, request, extracted, base,
          answers, done, raced, faults>>

Statuses == {"absent", "running", "completed", "failed", "cancelled"}
PCs == {"idle", "render", "run", "read", "write", "completed", "failed"}

Exec(w) == task[w][1]
At(w) == task[w][2]

Fault(kind) == kind \in FaultKinds /\ faults < MaxFaults /\ faults' = faults + 1

(* Queue the task of a step: once, or twice when the event before it is    *)
(* handled twice.                                                          *)
Enqueue(e, i) ==
    \E n \in 1..2 :
        /\ IF n = 1 THEN UNCHANGED faults ELSE Fault("duplicated")
        /\ queued' = [queued EXCEPT ![e][i] = @ + n]

Init ==
    /\ status = [e \in Executions |-> "absent"]
    /\ variables = [e \in Executions |-> NoMap] /\ given = variables
    /\ queued = [e \in Executions |-> [i \in Positions |-> 0]]
    /\ pc = [w \in Workers |-> "idle"] /\ task = [w \in Workers |-> <<>>]
    /\ request = [w \in Workers |-> <<>>]
    /\ extracted = [w \in Workers |-> NoMap] /\ base = [w \in Workers |-> NoMap]
    /\ answers = [e \in Executions |-> [i \in Positions |-> {}]]
    /\ done = [e \in Executions |-> {}] /\ raced = {}
    /\ faults = 0

-----------------------------------------------------------------------------
(* The API and the dispatcher. *)

Create(e, map) ==
    /\ status[e] = "absent"
    /\ status' = [status EXCEPT ![e] = "running"]
    /\ variables' = [variables EXCEPT ![e] = map]
    /\ given' = [given EXCEPT ![e] = map]
    /\ Enqueue(e, 1)
    /\ UNCHANGED <<workerVars, answers, done, raced>>

(* POST /executions with initial variables. *)
Schedule(e, map) == Create(e, map)

(* Retry: the new row starts with the variables of the previous one, the   *)
(* extracted ones included.  A restart from the WebSocket passes none.     *)
Retry(old, e) ==
    /\ status[old] \in {"failed", "cancelled"}
    /\ Create(e, variables[old])

WsRestart(old, e) == status[old] # "absent" /\ Create(e, NoMap)

(* A stop is handled: the running step may go on. *)
Stop(e) ==
    /\ status[e] = "running"
    /\ status' = [status EXCEPT ![e] = "cancelled"]
    /\ UNCHANGED <<variables, queued, workerVars, historyVars, faults>>

-----------------------------------------------------------------------------
(* One attempt at a step. *)

Goto(w, next) == pc' = [pc EXCEPT ![w] = next]

Take(w, e, i) ==
    /\ pc[w] = "idle" /\ queued[e][i] > 0
    /\ queued' = [queued EXCEPT ![e][i] = @ - 1]
    /\ task' = [task EXCEPT ![w] = <<e, i>>]
    /\ Goto(w, "render")
    /\ UNCHANGED <<status, variables, request, extracted, base, historyVars, faults>>

(* executions.get and render_step: an undefined variable raises. *)
RenderRequest(w) ==
    /\ pc[w] = "render"
    /\ LET known == variables[Exec(w)]
           step == Plan[At(w)]
       IN  IF Placeholders(step) \subseteq DOMAIN known /\ IsUrl(RenderStep(step, known).url)
           THEN /\ request' = [request EXCEPT ![w] = RenderStep(step, known)]
                /\ Goto(w, "run")
           ELSE /\ Goto(w, "failed")
                /\ UNCHANGED request
    /\ UNCHANGED <<status, variables, queued, task, extracted, base, historyVars, faults>>

(* The request, the assertions and the extraction.  What is extracted is   *)
(* read from the step as stored: its sources are not rendered.  Nothing of *)
(* a response that fails, or that lacks one of the sources, is kept.       *)
Run(w, r) ==
    /\ pc[w] = "run"
    /\ LET extracts == Plan[At(w)].extracts
           values == ExtractVariables(extracts, r)
       IN  IF StepPasses(request[w], r) /\ AllFound(extracts, r)
           THEN /\ extracted' = [extracted EXCEPT ![w] = values]
                /\ answers' = [answers EXCEPT ![Exec(w)][At(w)] = @ \cup {r}]
                /\ Goto(w, IF DOMAIN values = {} THEN "completed" ELSE "read")
           ELSE /\ Goto(w, "failed")
                /\ UNCHANGED <<extracted, answers>>
    /\ request' = [request EXCEPT ![w] = <<>>]
    /\ UNCHANGED <<status, variables, queued, task, base, given, done, raced, faults>>

(* merge_variables, first half: the row is read ... *)
MergeRead(w) ==
    /\ pc[w] = "read"
    /\ base' = [base EXCEPT ![w] = variables[Exec(w)]]
    /\ raced' = raced \cup {e \in Executions :
                    e = Exec(w) /\ \E v \in Workers : pc[v] = "write" /\ Exec(v) = e}
    /\ Goto(w, "write")
    /\ UNCHANGED <<status, variables, queued, task, request, extracted, given,
                   answers, done, faults>>

(* Seeded bug: the new values take the place of the map. *)
Replaced(old, new) == new

Merged(old, new) ==
    [n \in DOMAIN old \cup DOMAIN new |-> IF n \in DOMAIN new THEN new[n] ELSE old[n]]

(* Seeded bug: the variables are merged one by one. *)
MergeOneByOne(w) ==
    /\ pc[w] = "write"
    /\ \E n \in DOMAIN extracted[w] :
          LET rest == DOMAIN extracted[w] \ {n} IN
          /\ variables' = [variables EXCEPT ![Exec(w)] = Merged(@, [m \in {n} |-> extracted[w][m]])]
          /\ extracted' = [extracted EXCEPT ![w] = [m \in rest |-> @[m]]]
          /\ Goto(w, IF rest = {} THEN "completed" ELSE "write")
    /\ UNCHANGED <<status, queued, task, request, base, historyVars, faults>>

(* ... second half: and the whole map is written, with no lock in between. *)
MergeWrite(w) ==
    /\ pc[w] = "write"
    /\ variables' = [variables EXCEPT ![Exec(w)] = Merged(base[w], extracted[w])]
    /\ base' = [base EXCEPT ![w] = NoMap]
    /\ extracted' = [extracted EXCEPT ![w] = NoMap]
    /\ Goto(w, "completed")
    /\ UNCHANGED <<status, queued, task, request, historyVars, faults>>

GoIdle(w) ==
    /\ Goto(w, "idle")
    /\ task' = [task EXCEPT ![w] = <<>>]
    /\ request' = [request EXCEPT ![w] = <<>>]
    /\ extracted' = [extracted EXCEPT ![w] = NoMap]
    /\ base' = [base EXCEPT ![w] = NoMap]

(* Seeded bug: the step is reported before its variables are merged. *)
ReportEarly(w) ==
    /\ pc[w] \in {"read", "completed"}
    /\ LET e == Exec(w) IN
       /\ At(w) \notin done[e]
       /\ done' = [done EXCEPT ![e] = @ \cup {At(w)}]
       /\ IF At(w) + 1 \in Positions
          THEN Enqueue(e, At(w) + 1) /\ UNCHANGED status
          ELSE status' = [status EXCEPT ![e] = "completed"] /\ UNCHANGED <<queued, faults>>
    /\ IF pc[w] = "completed" THEN GoIdle(w) ELSE UNCHANGED workerVars
    /\ UNCHANGED <<variables, given, answers, raced>>

(* The completion is reported, and the dispatcher releases the next step   *)
(* unless the execution is cancelled.                                      *)
ReportCompleted(w) ==
    /\ pc[w] = "completed"
    /\ LET e == Exec(w) IN
       /\ done' = [done EXCEPT ![e] = @ \cup {At(w)}]
       /\ \/ /\ status[e] = "cancelled"
             /\ UNCHANGED <<status, queued, faults>>
          \/ /\ status[e] # "cancelled" /\ At(w) + 1 \in Positions
             /\ Enqueue(e, At(w) + 1)
             /\ UNCHANGED status
          \/ /\ status[e] # "cancelled" /\ At(w) + 1 \notin Positions
             /\ status' = [status EXCEPT ![e] = "completed"]
             /\ UNCHANGED <<queued, faults>>
    /\ GoIdle(w)
    /\ UNCHANGED <<variables, given, answers, raced>>

ReportFailed(w) ==
    /\ pc[w] = "failed"
    /\ status' = [status EXCEPT ![Exec(w)] = "failed"]
    /\ GoIdle(w)
    /\ UNCHANGED <<variables, queued, historyVars, faults>>

(* A call of the attempt raises before the report: the except block. *)
CallRaises(w) ==
    /\ pc[w] \notin {"idle", "failed"}
    /\ Fault("raise")
    /\ Goto(w, "failed")
    /\ UNCHANGED <<status, variables, queued, task, request, extracted, base, historyVars>>

(* The node is restarted: what its workers held is delivered again. *)
NodeRestarts ==
    /\ \E w \in Workers : pc[w] # "idle"
    /\ Fault("crash")
    /\ queued' = [e \in Executions |-> [i \in Positions |->
                    queued[e][i] + Cardinality({w \in Workers : task[w] = <<e, i>>})]]
    /\ pc' = [w \in Workers |-> "idle"] /\ task' = [w \in Workers |-> <<>>]
    /\ request' = [w \in Workers |-> <<>>]
    /\ extracted' = [w \in Workers |-> NoMap] /\ base' = [w \in Workers |-> NoMap]
    /\ UNCHANGED <<status, variables, historyVars>>

Attempt(w) ==
    \/ \E e \in Executions, i \in Positions : Take(w, e, i)
    \/ \E r \in Responses : Run(w, r)
    \/ RenderRequest(w) \/ MergeRead(w) \/ MergeWrite(w)
    \/ ReportCompleted(w) \/ ReportFailed(w) \/ CallRaises(w)

Next ==
    \/ \E e \in Executions :
          \/ \E map \in Given : Schedule(e, map)
          \/ \E old \in Executions : Retry(old, e) \/ WsRestart(old, e)
          \/ Stop(e)
    \/ \E w \in Workers : Attempt(w)
    \/ NodeRestarts

Spec == Init /\ [][Next]_vars

-----------------------------------------------------------------------------
TypeOK ==
    /\ status \in [Executions -> Statuses]
    /\ \A e \in Executions : IsMap(variables[e]) /\ IsMap(given[e])
    /\ queued \in [Executions -> [Positions -> Nat]]
    /\ pc \in [Workers -> PCs]
    /\ \A w \in Workers :
          /\ pc[w] # "idle" => task[w] \in Executions \X Positions
          /\ IsMap(extracted[w]) /\ IsMap(base[w])
    /\ answers \in [Executions -> [Positions -> SUBSET Responses]]
    /\ done \in [Executions -> SUBSET Positions]
    /\ raced \subseteq Executions
    /\ faults \in Nat

(* The orders in which the steps may have written: a place for each. *)
Orders ==
    {rank \in [Positions -> Positions] : \A i, j \in Positions : rank[i] = rank[j] => i = j}

(* The map below with what the steps extract from the responses kept laid  *)
(* over it, one step after the other: a name has the value of the last     *)
(* step that extracts it.                                                  *)
LaidOver(map, below, kept, rank) ==
    /\ DOMAIN map = DOMAIN below \cup UNION {Names(i) : i \in DOMAIN kept}
    /\ \A n \in DOMAIN map :
          \/ (\A i \in DOMAIN kept : n \notin Names(i)) /\ map[n] = below[n]
          \/ \E i \in DOMAIN kept :
                /\ n \in Names(i) /\ map[n] = Extract(Plan[i].extracts[n], kept[i])
                /\ \A j \in DOMAIN kept : n \in Names(j) => rank[j] <= rank[i]

Whole(map, e) ==
    \E passed \in SUBSET {i \in Positions : answers[e][i] # {}}, rank \in Orders :
        \E kept \in [passed -> Responses] :
            /\ \A i \in passed : kept[i] \in answers[e][i]
            /\ LaidOver(map, given[e], kept, rank)

(* The variables are those the execution was created with, overlaid, in    *)
(* some order of the steps, by all that some steps extracted from one      *)
(* response each with which they passed: a failed step, a half-missing     *)
(* response, a retried or killed attempt and even a lost update never      *)
(* leave a mixture.                                                        *)
ExtractsAreWhole == \A e \in Executions : Whole(variables[e], e)

(* When a step is reported as completed its variables are there, and they  *)
(* stay: a later step finds every name an earlier one extracts.  Only two  *)
(* merges that overlap, which takes a step that is run twice, can lose one. *)
CompletedStepsAreKnown ==
    \A e \in Executions \ raced : \A i \in done[e] : Names(i) \subseteq DOMAIN variables[e]

(* What may stand for a placeholder: the value the execution was given, or *)
(* one an earlier response had.                                            *)
Sources(e, n) ==
    {given[e][m] : m \in {n} \cap DOMAIN given[e]}
    \cup UNION {{Extract(Plan[i].extracts[n], r) : r \in answers[e][i]} :
                   i \in {i \in Positions : n \in Names(i)}}

(* A value travels unchanged from the response it is extracted from, by    *)
(* the database, to any depth of the body of a later request: a number     *)
(* stays a number, and text that looks like a placeholder is not filled in *)
(* again.                                                                  *)
ValuesTravelUnchanged ==
    \A w \in Workers : pc[w] = "run" =>
        LET body == Plan[At(w)].body IN
        \A path \in DOMAIN body :
            LET template == body[path][2] IN
            body[path][1] = "text" /\ Len(template) = 1 /\ IsPlaceholder(template[1])
                => Below(request[w].body, path) \in Sources(Exec(w), template[1][2])

(* The two readers of a body agree on every path that enters no list:      *)
(* where extraction finds a value assertions see the same one, and where   *)
(* it raises they see None.                                                *)
EntersList(body, path) ==
    \E n \in 0..(Len(path) - 1) :
        SubSeq(path, 1, n) \in DOMAIN body /\ body[SubSeq(path, 1, n)][1] = "list"

ReadersAgree ==
    \A e \in Executions, i, j \in Positions : \A r \in answers[e][i] : \A n \in Names(j) :
        LET source == Plan[j].extracts[n] IN
        source[1] = "body" /\ ~EntersList(r.body, source[2]) =>
            ReadBodyPath(r.body, source[2]) =
                IF Extract(source, r) = Raised THEN Null ELSE Extract(source, r)
=============================================================================
