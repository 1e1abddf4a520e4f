------------------------- MODULE SequenceMigration -------------------------
(***************************************************************************)
(* The migration that makes the positions of a plan's steps unique among   *)
(* the live ones only, and its downgrade, which has to make them unique    *)
(* among all of them again.  A table is a function from ids to rows with   *)
(* fields seq and live; both are those of one plan, since every query of   *)
(* the downgrade works plan by plan.                                       *)
(***************************************************************************)
EXTENDS Integers, FiniteSets

(* The constraint before the upgrade and after the downgrade. *)
AllDistinct(rs) == \A i, j \in DOMAIN rs : rs[i].seq = rs[j].seq => i = j

(* The index in between. *)
LiveDistinct(rs) ==
    \A i, j \in DOMAIN rs : rs[i].live /\ rs[j].live /\ rs[i].seq = rs[j].seq => i = j

DeletedIds(rs) == {i \in DOMAIN rs : ~rs[i].live}

(* COALESCE(MAX(sequence) FILTER (WHERE deleted_at IS NULL), 0) *)
Bounds(rs, m) == \A i \in DOMAIN rs : rs[i].live => rs[i].seq <= m

ActiveMax(rs) ==
    CHOOSE m \in {0} \cup {rs[i].seq : i \in DOMAIN rs \ DeletedIds(rs)} : Bounds(rs, m)

(* ROW_NUMBER() OVER (ORDER BY deleted_at, id): some order of the deleted  *)
(* rows, each with a number of its own.                                    *)
Orders(S) ==
    {position \in [S -> 1..Cardinality(S)] :
        \A i, j \in S : position[i] = position[j] => i = j}

(* Seeded bug: the deleted rows are numbered from one. *)
RenumberedFromOne(rs, position, m) ==
    [i \in DOMAIN rs |-> [rs[i] EXCEPT !.seq = IF rs[i].live THEN @ ELSE position[i]]]

(* Deleted rows move beyond the largest live position. *)
Renumbered(rs, position, m) ==
    [i \in DOMAIN rs |-> [rs[i] EXCEPT !.seq = IF rs[i].live THEN @ ELSE m + position[i]]]

Downgraded(rs, position) == Renumbered(rs, position, ActiveMax(rs))
=============================================================================
