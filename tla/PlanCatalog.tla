---------------------------- MODULE PlanCatalog ----------------------------
(***************************************************************************)
(* A plan and its steps as the API edits them.  Every endpoint runs in a   *)
(* thread of its own and opens one session after the other, so what it has *)
(* read may be old when it writes.  PostgreSQL runs each session's writes  *)
(* as a READ COMMITTED transaction: a write locks its row, then enters its *)
(* sequence into the unique index of the plan's live steps, and waits at   *)
(* either point for a transaction that has not ended.                      *)
(*                                                                         *)
(* Of a step only its position and its deletion are told apart here, of    *)
(* the plan its deletion; LiveEdits has the active flag.                   *)
(***************************************************************************)
EXTENDS SequenceMigration, Sequences, Functions

CONSTANTS
    Clients,        \* requests the API serves at a time
    InitialRows,    \* the rows a behaviour may start from
    Payloads,       \* what clients may ask for
    MaxSteps,       \* bound: rows ever inserted
    MaxRequests     \* bound: requests per behaviour

ASSUME BoundsAssumption == MaxSteps \in Nat /\ MaxRequests \in Nat

ASSUME ClientsAssumption == IsFiniteSet(Clients)

Ids == 1..MaxSteps

(* The plan's row, which has no position and is in no unique index. *)
Plan == 0

Positions == Nat \ {0}

(* The payloads the schemas let through.  A reorder names steps and        *)
(* positions; whether it is a permutation of the plan is checked later.    *)
Accepted(r) ==
    \/ r.op \in {"append", "update-plan", "delete-plan"}
    \/ r.op = "create" /\ r.seq \in Positions
    \/ r.op = "update" /\ r.id \in Ids /\ r.seq \in Positions
    \/ r.op = "delete" /\ r.id \in Ids
    \/ r.op = "reorder" /\ \E S \in SUBSET Ids \ {{}} : r.positions \in [S -> Positions]

ASSUME PayloadsAssumption == \A r \in Payloads : Accepted(r)

Row == [seq : Int, live : BOOLEAN]

IsPlan(rs) == LiveDistinct(rs) /\ \A i \in DOMAIN rs : rs[i].live => rs[i].seq > 0

ASSUME InitialRowsAssumption ==
    \A rs \in InitialRows : (\E n \in 0..MaxSteps : rs \in [1..n -> Row]) /\ IsPlan(rs)

VARIABLES
    rows,           \* the committed rows: the plan's, and those inserted
    ids,            \* ids drawn so far
    req,            \* what each client has asked for
    pc,             \* the next step of its endpoint
    todo,           \* the UPDATEs and INSERTs its flushes still have to make
    writes,         \* row versions its transaction has written
    answer,         \* what it was answered last
    alone,          \* nobody else was served meanwhile
    requests        \* requests so far

dbVars == <<rows, ids>>
vars == <<dbVars, req, pc, todo, writes, answer, alone, requests>>

(* A statement of a flush; seq 0 leaves the sequence alone: the ORM writes *)
(* the columns that differ from what it has loaded.                        *)
Change == [id : Ids \cup {Plan}, seq : Int, live : BOOLEAN]

Keep == 0

planLive == rows[Plan].live

StepsOf(rs) == [i \in DOMAIN rs \ {Plan} |-> rs[i]]

LiveIds == {i \in DOMAIN rows \ {Plan} : rows[i].live}

PCs == {"idle", "plan", "list", "add", "get", "load", "write", "index"}

NoRequest == [op |-> "none"]

(* The rows of old as a transaction sees them that has written those of new. *)
Over(new, old) == [i \in DOMAIN new \cup DOMAIN old |-> IF i \in DOMAIN new THEN new[i] ELSE old[i]]

Init ==
    /\ \E rs \in InitialRows :
          /\ rows = Over([i \in {Plan} |-> [seq |-> Keep, live |-> TRUE]], rs)
          /\ ids = Cardinality(DOMAIN rs)
    /\ req = [c \in Clients |-> NoRequest]
    /\ pc = [c \in Clients |-> "idle"]
    /\ todo = [c \in Clients |-> <<>>] /\ writes = [c \in Clients |-> <<>>]
    /\ answer = [c \in Clients |-> "none"] /\ alone = [c \in Clients |-> TRUE]
    /\ requests = 0

-----------------------------------------------------------------------------
(* The endpoints, one action per session they open. *)

Busy == {c \in Clients : pc[c] # "idle"}

Inserting == {c \in Busy : req[c].op \in {"append", "create"} /\ pc[c] \in {"plan", "list", "add"}}

Begin(c, r) ==
    /\ pc[c] = "idle"
    /\ requests < MaxRequests /\ requests' = requests + 1
    /\ r.op \in {"append", "create"} => ids + Cardinality(Inserting) < MaxSteps
    /\ req' = [req EXCEPT ![c] = r]
    /\ pc' = [pc EXCEPT ![c] = CASE r.op \in {"append", "create", "reorder", "update-plan"} -> "plan"
                                 [] r.op = "update"                   -> "get"
                                 [] r.op \in {"delete", "delete-plan"} -> "load"]
    /\ alone' = [d \in Clients |-> IF d = c THEN Busy = {} ELSE alone[d] /\ d \notin Busy]
    /\ answer' = [answer EXCEPT ![c] = "none"]
    /\ UNCHANGED <<dbVars, todo, writes>>

(* Seeded bug: an error leaves the session, and its locks, behind. *)
AnswerUnclosed(c, a) ==
    /\ answer' = [answer EXCEPT ![c] = a]
    /\ req' = [req EXCEPT ![c] = NoRequest]
    /\ pc' = [pc EXCEPT ![c] = "idle"]
    /\ todo' = [todo EXCEPT ![c] = <<>>]
    /\ writes' = IF a = "ok" THEN [writes EXCEPT ![c] = <<>>] ELSE writes

(* The endpoint returns or raises; a session that is open is rolled back. *)
Answer(c, a) ==
    /\ answer' = [answer EXCEPT ![c] = a]
    /\ req' = [req EXCEPT ![c] = NoRequest]
    /\ pc' = [pc EXCEPT ![c] = "idle"]
    /\ todo' = [todo EXCEPT ![c] = <<>>]
    /\ writes' = [writes EXCEPT ![c] = <<>>]

Go(c, label) ==
    /\ pc' = [pc EXCEPT ![c] = label]
    /\ UNCHANGED <<req, todo, writes, answer>>

(* plan_service.get *)
FindPlan(c) ==
    /\ pc[c] = "plan"
    /\ IF ~planLive THEN Answer(c, "404")
       ELSE Go(c, CASE req[c].op = "append"  -> "list"
                    [] req[c].op = "create"  -> "add"
                    [] OTHER                 -> "load")
    /\ UNCHANGED <<dbVars, alone, requests>>

(* The largest sequence of the plan, 0 if it has no steps. *)
LastSequence == CHOOSE m \in {0} \cup {rows[i].seq : i \in LiveIds} :
                    \A i \in LiveIds : rows[i].seq <= m

ListSteps(c) ==
    /\ pc[c] = "list"
    /\ req' = [req EXCEPT ![c] = [op |-> "append", seq |-> LastSequence + 1]]
    /\ pc' = [pc EXCEPT ![c] = "add"]
    /\ UNCHANGED <<dbVars, todo, writes, answer, alone, requests>>

(* add looks for the plan again; that it is gone by now nobody catches. *)
Add(c) ==
    /\ pc[c] = "add"
    /\ IF planLive
       THEN /\ ids' = ids + 1
            /\ todo' = [todo EXCEPT ![c] = <<[id |-> ids', seq |-> req[c].seq, live |-> TRUE]>>]
            /\ pc' = [pc EXCEPT ![c] = "write"]
            /\ UNCHANGED <<req, writes, answer>>
       ELSE Answer(c, "500") /\ UNCHANGED ids
    /\ UNCHANGED <<rows, alone, requests>>

(* update: the service looks the step up, twice. *)
Get(c) ==
    /\ pc[c] = "get"
    /\ IF req[c].id \in LiveIds THEN Go(c, "load") ELSE Answer(c, "404")
    /\ UNCHANGED <<dbVars, alone, requests>>

(* The flush writes the rows in the order of their primary keys. *)
InOrder(changes) ==
    LET S == {w.id : w \in changes} IN
    [n \in 1..Cardinality(S) |->
        CHOOSE w \in changes : Cardinality({i \in S : i <= w.id}) = n]

(* An order no flush has: that of the sequences written. *)
AsListed(changes) ==
    LET S == {w.seq : w \in changes} IN
    [n \in 1..Cardinality(S) |->
        CHOOSE w \in changes : Cardinality({i \in S : i <= w.seq}) = n]

(* Seeded bug: straight to the new positions. *)
PermuteAtOnce(positions, index) ==
    InOrder({[id |-> i, seq |-> positions[i], live |-> TRUE] : i \in DOMAIN positions})

(* Seeded bug: the positions are never written. *)
PermuteAway(positions, index) ==
    InOrder({[id |-> i, seq |-> -index[i], live |-> TRUE] : i \in DOMAIN positions})

(* Seeded bug: the rows are moved away in the order of their new positions. *)
PermuteAsListed(positions, index) ==
    AsListed({[id |-> i, seq |-> positions[i] - 9, live |-> TRUE] : i \in DOMAIN positions})
    \o InOrder({[id |-> i, seq |-> positions[i], live |-> TRUE] : i \in DOMAIN positions})

(* First out of the way, to the negative of its place in the list the       *)
(* SELECT returned, then to the new positions.                             *)
Permute(positions, index) ==
    InOrder({[id |-> i, seq |-> -index[i], live |-> TRUE] : i \in DOMAIN positions})
    \o InOrder({[id |-> i, seq |-> positions[i], live |-> TRUE] : i \in DOMAIN positions})

(* The SELECT of a reorder asks for no order: any place in its list.       *)
Listings(S) == Bijection(S, 1..Cardinality(S))

(* Seeded bug: a reorder may name some of the steps only. *)
IsPartialPermutation(positions) ==
    DOMAIN positions \subseteq LiveIds /\ Range(positions) = 1..Cardinality(DOMAIN positions)

IsPermutation(positions) ==
    DOMAIN positions = LiveIds /\ Range(positions) = 1..Cardinality(LiveIds)

Write(c, changes) ==
    /\ todo' = [todo EXCEPT ![c] = changes]
    /\ pc' = [pc EXCEPT ![c] = "write"]
    /\ UNCHANGED <<req, writes, answer>>

(* The SELECT of the session that will write. *)
Load(c) ==
    /\ pc[c] = "load"
    /\ LET r == req[c] IN
       CASE r.op = "update" ->
                IF r.id \in LiveIds
                THEN Write(c, <<[id |-> r.id, live |-> TRUE,
                                 seq |-> IF r.seq = rows[r.id].seq THEN Keep ELSE r.seq]>>)
                ELSE Answer(c, "500")
         [] r.op = "delete" ->
                IF r.id \in LiveIds
                THEN Write(c, <<[id |-> r.id, seq |-> Keep, live |-> FALSE]>>)
                ELSE Answer(c, "404")
         [] r.op = "reorder" ->
                IF IsPermutation(r.positions)
                THEN \E index \in Listings(DOMAIN r.positions) : Write(c, Permute(r.positions, index))
                ELSE Answer(c, "422")
         [] r.op \in {"update-plan", "delete-plan"} ->
                IF planLive
                THEN Write(c, <<[id |-> Plan, seq |-> Keep, live |-> r.op = "update-plan"]>>)
                ELSE Answer(c, IF r.op = "update-plan" THEN "500" ELSE "404")
    /\ UNCHANGED <<dbVars, alone, requests>>

-----------------------------------------------------------------------------
(* The transactions. *)

Pending(c) == Head(todo[c])

(* Seeded bug: the statement writes every column, as loaded. *)
NewVersionOfAll(c, w) ==
    LET old == Over(writes[c], rows) IN
    [seq |-> IF w.seq = Keep THEN old[w.id].seq ELSE w.seq, live |-> w.live]

(* The row as the statement leaves it.  Having waited for the lock, an     *)
(* UPDATE starts from the version committed last; only its id is matched.  *)
NewVersion(c, w) ==
    LET old == Over(writes[c], rows) IN
    IF w.id \in DOMAIN old
    THEN [seq |-> IF w.seq = Keep THEN old[w.id].seq ELSE w.seq,
          live |-> old[w.id].live /\ w.live]
    ELSE [seq |-> w.seq, live |-> w.live]

(* Statement by statement: the version is written under the row's lock ... *)
LockRow(c) ==
    /\ pc[c] = "write" /\ todo[c] # <<>>
    /\ \A d \in Clients \ {c} : Pending(c).id \notin DOMAIN writes[d]
    /\ writes' = [writes EXCEPT ![c] = Over([i \in {Pending(c).id} |-> NewVersion(c, Pending(c))], @)]
    /\ pc' = [pc EXCEPT ![c] = "index"]
    /\ UNCHANGED <<dbVars, req, todo, answer, alone, requests>>

(* Versions the transaction of d has in the index already. *)
Indexed(d) ==
    {i \in DOMAIN writes[d] : writes[d][i].live /\ ~(pc[d] = "index" /\ Pending(d).id = i)}

InTheWay(c, version, i) ==
    i # Pending(c).id /\ version.live /\ version.seq = writes[c][Pending(c).id].seq

(* ... and then entered into the index, if it is a live step's.  Entries   *)
(* of ended transactions, and its own, are in the way for good ...         *)
Duplicates(c) ==
    IF ~writes[c][Pending(c).id].live THEN {}
    ELSE {i \in Indexed(c) : InTheWay(c, writes[c][i], i)}
         \cup {i \in DOMAIN rows :
                  /\ \A d \in Clients : i \notin DOMAIN writes[d]
                  /\ InTheWay(c, rows[i], i)}

(* ... and those of a transaction under way may still come or go. *)
Undecided(c) ==
    IF ~writes[c][Pending(c).id].live THEN {}
    ELSE {d \in Clients \ {c} :
            \/ \E i \in Indexed(d) : InTheWay(c, writes[d][i], i)
            \/ \E i \in DOMAIN writes[d] \cap DOMAIN rows : InTheWay(c, rows[i], i)}

(* Seeded bug: the next statement does not lock its row. *)
EnterIndexOn(c) ==
    /\ pc[c] = "index"
    /\ Duplicates(c) = {} /\ Undecided(c) = {}
    /\ todo' = [todo EXCEPT ![c] = Tail(todo[c])]
    /\ UNCHANGED <<dbVars, req, pc, writes, answer, alone, requests>>

EnterIndex(c) ==
    /\ pc[c] = "index"
    /\ Duplicates(c) = {} /\ Undecided(c) = {}
    /\ todo' = [todo EXCEPT ![c] = Tail(todo[c])]
    /\ pc' = [pc EXCEPT ![c] = "write"]
    /\ UNCHANGED <<dbVars, req, writes, answer, alone, requests>>

(* IntegrityError, which no endpoint catches. *)
Violate(c) ==
    /\ pc[c] = "index"
    /\ Duplicates(c) # {}
    /\ Answer(c, "500")
    /\ UNCHANGED <<dbVars, alone, requests>>

Commit(c) ==
    /\ pc[c] = "write" /\ todo[c] = <<>>
    /\ rows' = Over(writes[c], rows)
    /\ Answer(c, "ok")
    /\ UNCHANGED <<ids, alone, requests>>

(* Whom the transaction of c waits for. *)
WaitsFor(c) ==
    CASE pc[c] = "write" /\ todo[c] # <<>> ->
             {d \in Clients \ {c} : Pending(c).id \in DOMAIN writes[d]}
      [] pc[c] = "index" -> IF Duplicates(c) = {} THEN Undecided(c) ELSE {}
      [] OTHER -> {}

Deadlocked(S) == S # {} /\ \A c \in S : WaitsFor(c) \cap S # {}

(* PostgreSQL aborts a transaction of every deadlock. *)
AbortDeadlock(c) ==
    /\ \E S \in SUBSET Clients :
          c \in S /\ Deadlocked(S) /\ \A R \in SUBSET S : Deadlocked(R) => R = S
    /\ Answer(c, "500")
    /\ UNCHANGED <<dbVars, alone, requests>>

-----------------------------------------------------------------------------
Advance(c) ==
    \/ FindPlan(c) \/ ListSteps(c) \/ Add(c) \/ Get(c) \/ Load(c)
    \/ LockRow(c) \/ EnterIndex(c) \/ Violate(c) \/ Commit(c) \/ AbortDeadlock(c)

Next == \E c \in Clients : (\E r \in Payloads : Begin(c, r)) \/ Advance(c)

Spec == Init /\ [][Next]_vars

(* Threads run and the database goes on. *)
FairSpec == Spec /\ \A c \in Clients : WF_vars(Advance(c))

-----------------------------------------------------------------------------
TypeOK ==
    /\ ids \in 0..MaxSteps
    /\ \E S \in SUBSET (1..ids) : rows \in [S \cup {Plan} -> Row]
    /\ pc \in [Clients -> PCs]
    /\ \A c \in Clients :
          /\ todo[c] \in Seq(Change)
          /\ \E S \in SUBSET (0..ids) : writes[c] \in [S -> Row]
          /\ pc[c] = "index" => todo[c] # <<>> /\ Pending(c).id \in DOMAIN writes[c]
    /\ answer \in [Clients -> {"none", "ok", "404", "422", "500"}]
    /\ alone \in [Clients -> BOOLEAN] /\ requests \in 0..MaxRequests

(* What any session reads is a plan: the positions of the live steps are   *)
(* positive and distinct, whatever has half-happened meanwhile.            *)
SequencesAreUnique == IsPlan(StepsOf(rows))

(* The migration can be undone at any moment (its DDL waits for the open   *)
(* transactions): however often positions were reused after deletions, and *)
(* whichever order the deletion times give, the constraint it restores     *)
(* holds, and no live step moves.                                          *)
DowngradeSucceeds ==
    LET rs == StepsOf(rows) IN
    \A position \in Orders(DeletedIds(rs)) :
        /\ AllDistinct(Downgraded(rs, position))
        /\ \A i \in LiveIds : Downgraded(rs, position)[i] = rs[i]

(* A deletion is final: no update that read the step, or the plan, before  *)
(* it was deleted brings it back.                                          *)
DeletionsAreFinal ==
    [][\A i \in DOMAIN rows : ~rows[i].live => ~rows'[i].live]_vars

(* A request that has the plan to itself does not fail inside: an appended *)
(* step finds its position free, a reorder never collides with itself on   *)
(* the way (only an explicit position may be taken).                       *)
LoneRequestsSucceed ==
    [][\A c \in Clients :
          answer'[c] = "500" /\ answer[c] # "500" /\ alone[c]
              => req[c].op \in {"create", "update"}]_vars

(* A reorder that succeeds leaves every step it names where it was asked   *)
(* to be, and without company it leaves the plan numbered from 1 without   *)
(* gaps.                                                                   *)
ReorderedAsAsked ==
    [][\A c \in Clients :
          answer'[c] = "ok" /\ answer[c] # "ok" /\ req[c].op = "reorder"
          => /\ \A i \in DOMAIN req[c].positions : rows'[i].seq = req[c].positions[i]
             /\ alone[c] => {rows'[i].seq : i \in LiveIds'} = 1..Cardinality(LiveIds')]_vars

(* An update that gives a step another position. *)
Moves(c) == req[c].op = "update" /\ todo[c] # <<>> /\ Pending(c).seq # Keep

(* A reorder that listed the steps before one of a smaller id than some of *)
(* its own was committed.                                                  *)
Overlooks(c) ==
    /\ req[c].op = "reorder"
    /\ \E i \in LiveIds \ DOMAIN req[c].positions, k \in DOMAIN req[c].positions : i < k

(* Reorders, creations and deletions wait for each other in a circle only  *)
(* around a reorder that overlooks a step: everybody locks rows in one     *)
(* order, and ids are drawn in another order than steps are committed.     *)
DeadlocksHaveACause ==
    \A S \in SUBSET Clients : Deadlocked(S) => \E c \in S : Moves(c) \/ Overlooks(c)

(* Every request is answered: no lock outlives its request. *)
RequestsAreAnswered == \A c \in Clients : pc[c] # "idle" ~> pc[c] = "idle"
=============================================================================
