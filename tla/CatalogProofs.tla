--------------------------- MODULE CatalogProofs ---------------------------
(* Proofs about PlanCatalog, for any number of clients, steps and requests  *)
(* and every order of their sessions and statements, and about the          *)
(* renumbering of SequenceMigration, for any rows.                          *)
EXTENDS PlanCatalog, FiniteSetTheorems, SequenceTheorems, TLAPS

-----------------------------------------------------------------------------
(* The migration between the two constraints. *)

(* The downgrade restores the old constraint: with the deleted rows moved  *)
(* beyond a bound m of the live positions, in any order that numbers them  *)
(* differently, no two rows of the plan share a position.                  *)
THEOREM RenumberedIsDistinct ==
    ASSUME NEW RowIds, NEW rs \in [RowIds -> [seq : Int, live : BOOLEAN]],
           LiveDistinct(rs),
           NEW m \in Nat, Bounds(rs, m),
           NEW position \in Orders(DeletedIds(rs)),
           Cardinality(DeletedIds(rs)) \in Nat
    PROVE  AllDistinct(Renumbered(rs, position, m))
<1> DEFINE new == Renumbered(rs, position, m)
<1>1. /\ DOMAIN new = RowIds
      /\ \A i \in RowIds : new[i].seq = IF rs[i].live THEN rs[i].seq ELSE m + position[i]
  BY DEF Renumbered
<1>2. \A i \in RowIds : ~rs[i].live => i \in DeletedIds(rs) /\ position[i] \in Nat /\ position[i] > 0
  BY DEF DeletedIds, Orders
<1>3. ASSUME NEW i \in RowIds, NEW j \in RowIds, new[i].seq = new[j].seq PROVE i = j
  <2>1. CASE rs[i].live /\ rs[j].live
    BY <2>1, <1>1, <1>3 DEF LiveDistinct
  <2>2. CASE rs[i].live /\ ~rs[j].live
    <3>1. rs[i].seq <= m /\ rs[i].seq = m + position[j]
      BY <2>2, <1>1, <1>3 DEF Bounds
    <3>2. QED BY <3>1, <2>2, <1>2
  <2>3. CASE ~rs[i].live /\ rs[j].live
    <3>1. rs[j].seq <= m /\ rs[j].seq = m + position[i]
      BY <2>3, <1>1, <1>3 DEF Bounds
    <3>2. QED BY <3>1, <2>3, <1>2
  <2>4. CASE ~rs[i].live /\ ~rs[j].live
    <3>1. m + position[i] = m + position[j]
      BY <2>4, <1>1, <1>3
    <3>2. position[i] = position[j]
      BY <3>1, <2>4, <1>2
    <3>3. QED BY <3>2, <2>4, <1>2 DEF Orders
  <2>5. QED BY <2>1, <2>2, <2>3, <2>4
<1>4. QED BY <1>1, <1>3 DEF AllDistinct

(* ... and it leaves every live step where it was. *)
THEOREM RenumberedKeepsLiveSteps ==
    ASSUME NEW RowIds, NEW rs \in [RowIds -> [seq : Int, live : BOOLEAN]],
           NEW m, NEW position, NEW i \in RowIds, rs[i].live
    PROVE  Renumbered(rs, position, m)[i] = rs[i]
BY DEF Renumbered

-----------------------------------------------------------------------------
(* Finite sets of naturals. *)

(* Of the members of a finite set of naturals, as many as there are up to a *)
(* member: each its own number, and every number is somebody's.             *)
Rank(S, i) == Cardinality({j \in S : j <= i})

LEMMA RankIsPosition ==
    ASSUME NEW S \in SUBSET Nat, IsFiniteSet(S)
    PROVE  /\ \A i \in S : Rank(S, i) \in 1..Cardinality(S)
           /\ \A i, j \in S : Rank(S, i) = Rank(S, j) => i = j
           /\ \A n \in 1..Cardinality(S) : \E i \in S : Rank(S, i) = n
<1> DEFINE upTo(i) == {j \in S : j <= i}
<1>1. \A i \in S : IsFiniteSet(upTo(i)) /\ Cardinality(upTo(i)) <= Cardinality(S)
  BY FS_Subset
<1>2. \A i \in S : Cardinality(upTo(i)) \in Nat /\ Cardinality(upTo(i)) # 0
  <2>1. \A i \in S : i \in upTo(i)
    OBVIOUS
  <2> QED
    BY <1>1, <2>1, FS_CardinalityType, FS_EmptySet
<1>3. Cardinality(S) \in Nat
  BY FS_CardinalityType
<1>4. \A i \in S : Rank(S, i) \in 1..Cardinality(S)
  BY <1>1, <1>2, <1>3 DEF Rank
<1>5. ASSUME NEW i \in S, NEW j \in S, i < j
      PROVE  Rank(S, i) # Rank(S, j)
  <2>1. upTo(i) \subseteq upTo(j) /\ j \in upTo(j) /\ j \notin upTo(i)
    <3>1. ASSUME NEW k \in S, k <= i PROVE k <= j
      <4>1. k \in Nat /\ i \in Nat /\ j \in Nat
        OBVIOUS
      <4> QED
        BY <1>5, <3>1, <4>1
    <3>2. i \in Nat /\ j \in Nat /\ j <= j /\ ~(j <= i)
      <4>1. i \in Nat /\ j \in Nat
        OBVIOUS
      <4> QED
        BY <1>5, <4>1
    <3> QED
      BY <3>1, <3>2
  <2>2. Cardinality(upTo(j)) = Cardinality(upTo(i)) => upTo(j) = upTo(i)
    BY <1>1, <2>1, FS_Subset
  <2> QED
    BY <2>1, <2>2 DEF Rank
<1>6. \A i, j \in S : Rank(S, i) = Rank(S, j) => i = j
  BY <1>5
<1>7. \A n \in 1..Cardinality(S) : \E i \in S : Rank(S, i) = n
  <2> DEFINE f == [i \in S |-> Rank(S, i)]
             T == 1..Cardinality(S)
  <2>1. f \in Injection(S, T)
    BY <1>4, <1>6 DEF Injection, IsInjective
  <2>2. IsFiniteSet(T) /\ Cardinality(T) = Cardinality(S)
    BY <1>3, FS_Interval
  <2>3. f \in Surjection(S, T)
    BY <2>1, <2>2, FS_Injection
  <2> QED
    BY <2>3 DEF Surjection
<1> QED
  BY <1>4, <1>6, <1>7

(* A finite set of naturals has a largest member. *)
LEMMA LargestExists ==
    ASSUME NEW S \in SUBSET Nat, IsFiniteSet(S), S # {}
    PROVE  \E m \in S : \A i \in S : i <= m
<1>1. Cardinality(S) \in 1..Cardinality(S)
  BY FS_CardinalityType, FS_EmptySet
<1>2. PICK m \in S : Rank(S, m) = Cardinality(S)
  BY <1>1, RankIsPosition
<1>3. {j \in S : j <= m} = S
  <2>1. {j \in S : j <= m} \in SUBSET S
    OBVIOUS
  <2> QED
    BY <1>2, <2>1, FS_Subset DEF Rank
<1> QED
  BY <1>3

-----------------------------------------------------------------------------
(* The invariant. *)

Writing(c) == pc[c] \in {"write", "index"}

(* A row version has one writer, and only a transaction has any.            *)
Locks ==
    /\ \A c, d \in Clients : c # d => DOMAIN writes[c] \cap DOMAIN writes[d] = {}
    /\ \A c \in Clients : ~Writing(c) => writes[c] = <<>>

(* What each session has of the request. *)
Asked(c) ==
    LET r == req[c] IN
    /\ pc[c] = "plan" => Accepted(r) /\ r.op \in {"append", "create", "reorder", "update-plan"}
    /\ pc[c] = "list" => r.op = "append"
    /\ pc[c] = "add" => r.op \in {"append", "create"} /\ r.seq \in Positions
    /\ pc[c] = "get" => Accepted(r) /\ r.op = "update"
    /\ pc[c] = "load" =>
          Accepted(r) /\ r.op \in {"update", "delete", "reorder", "update-plan", "delete-plan"}

(* A statement that parks a step at a negative sequence, or leaves its      *)
(* sequence alone, is followed by one, or applies to a row, that has a      *)
(* position; so does a version that is parked.                              *)
Settled(stmts) ==
    \A k \in DOMAIN stmts :
        /\ stmts[k].id \in 0..ids
        /\ stmts[k].seq = Keep => stmts[k].id \in DOMAIN rows
        /\ stmts[k].seq < 0 =>
              \E l \in DOMAIN stmts : l > k /\ stmts[l].id = stmts[k].id /\ stmts[l].seq > 0

Positioned(c) ==
    \A i \in DOMAIN writes[c] \ {Plan} :
        writes[c][i].live /\ ~(writes[c][i].seq > 0) =>
            \E l \in DOMAIN todo[c] :
                (pc[c] = "index" => l > 1) /\ todo[c][l].id = i /\ todo[c][l].seq > 0

Detours == \A c \in Clients : Settled(todo[c]) /\ Positioned(c)

(* The index: no two entries of steps are equal, those of open transactions *)
(* included, but for an entry that the transaction itself replaces.         *)
Entries ==
    /\ \A i, j \in DOMAIN rows \ {Plan} :
          rows[i].live /\ rows[j].live /\ rows[i].seq = rows[j].seq => i = j
    /\ \A i \in DOMAIN rows \ {Plan} : rows[i].live => rows[i].seq > 0
    /\ \A c, d \in Clients : \A i \in Indexed(c) \ {Plan}, j \in Indexed(d) \ {Plan} :
          writes[c][i].seq = writes[d][j].seq => c = d /\ i = j
    /\ \A c \in Clients : \A i \in Indexed(c) \ {Plan} :
          \A j \in DOMAIN rows \ (DOMAIN writes[c] \cup {Plan}) :
              rows[j].live => rows[j].seq # writes[c][i].seq

(* A version of a deleted row is deleted. *)
Finality ==
    \A c \in Clients : \A i \in DOMAIN writes[c] \cap DOMAIN rows :
        ~rows[i].live => ~writes[c][i].live

(* Room for the rows that are being inserted. *)
Room == ids + Cardinality(Inserting) <= MaxSteps

PerClient == DOMAIN req = Clients /\ DOMAIN todo = Clients /\ DOMAIN writes = Clients

CatalogInv ==
    /\ TypeOK /\ PerClient
    /\ Locks /\ (\A c \in Clients : Asked(c)) /\ Detours /\ Entries /\ Finality /\ Room

-----------------------------------------------------------------------------
(* The types, without the sets the rows are functions on. *)

LEMMA RowTypes ==
    ASSUME TypeOK
    PROVE  /\ ids \in Nat /\ ids \in 0..MaxSteps
           /\ Plan \in DOMAIN rows /\ DOMAIN rows \subseteq 0..ids
           /\ \A i \in DOMAIN rows : rows[i] \in Row
           /\ rows = [i \in DOMAIN rows |-> rows[i]]
<1>1. PICK S \in SUBSET (1..ids) : rows \in [S \cup {Plan} -> Row]
  BY DEF TypeOK
<1>2. ids \in Nat /\ ids \in 0..MaxSteps
  BY BoundsAssumption DEF TypeOK
<1> QED
  BY <1>1, <1>2 DEF Plan

LEMMA WriteTypes ==
    ASSUME TypeOK, NEW c \in Clients
    PROVE  /\ todo[c] \in Seq(Change)
           /\ DOMAIN writes[c] \subseteq 0..ids
           /\ \A i \in DOMAIN writes[c] : writes[c][i] \in Row
           /\ pc[c] = "index" => todo[c] # <<>> /\ Pending(c).id \in DOMAIN writes[c]
<1>1. PICK S \in SUBSET (0..ids) : writes[c] \in [S -> Row]
  BY DEF TypeOK
<1>2. todo[c] \in Seq(Change)
  BY DEF TypeOK
<1>3. pc[c] = "index" => todo[c] # <<>> /\ Pending(c).id \in DOMAIN writes[c]
  BY DEF TypeOK
<1> QED
  BY <1>1, <1>2, <1>3

(* Conversely, what the rows have to be. *)
LEMMA RowsAreTyped ==
    ASSUME NEW rs, NEW n \in Nat, DOMAIN rs \subseteq 0..n, Plan \in DOMAIN rs,
           rs = [i \in DOMAIN rs |-> rs[i]], \A i \in DOMAIN rs : rs[i] \in Row
    PROVE  \E S \in SUBSET (1..n) : rs \in [S \cup {Plan} -> Row]
<1>1. DOMAIN rs \ {Plan} \in SUBSET (1..n)
  BY DEF Plan
<1>2. (DOMAIN rs \ {Plan}) \cup {Plan} = DOMAIN rs
  OBVIOUS
<1>3. rs \in [DOMAIN rs -> Row]
  OBVIOUS
<1> QED
  BY <1>1, <1>2, <1>3

LEMMA OverType ==
    ASSUME NEW new, NEW old
    PROVE  /\ DOMAIN Over(new, old) = DOMAIN new \cup DOMAIN old
           /\ \A i \in DOMAIN new : Over(new, old)[i] = new[i]
           /\ \A i \in DOMAIN old \ DOMAIN new : Over(new, old)[i] = old[i]
BY DEF Over

LEMMA OverIsFunction ==
    ASSUME NEW new, NEW old
    PROVE  Over(new, old) = [i \in DOMAIN Over(new, old) |-> Over(new, old)[i]]
BY DEF Over

LEMMA LiveIdsFinite ==
    ASSUME TypeOK
    PROVE  IsFiniteSet(LiveIds) /\ LiveIds \in SUBSET Nat /\ LiveIds \subseteq 1..ids
<1>1. LiveIds \subseteq 1..ids /\ ids \in Nat
  BY RowTypes DEF LiveIds, Plan
<1>2. IsFiniteSet(1..ids)
  BY <1>1, FS_Interval
<1>3. IsFiniteSet(LiveIds)
  BY <1>1, <1>2, FS_Subset
<1>4. LiveIds \in SUBSET Nat
  BY <1>1
<1> QED
  BY <1>1, <1>3, <1>4

(* The largest position, or 0. *)
LEMMA LargestPosition ==
    ASSUME NEW S, IsFiniteSet(S), NEW f \in [S -> Nat]
    PROVE  \E m \in {0} \cup {f[i] : i \in S} : m \in Nat /\ \A i \in S : f[i] <= m
<1> DEFINE T == {f[i] : i \in S}
<1>1. f \in Surjection(S, T)
  BY DEF Surjection
<1>2. IsFiniteSet(T)
  BY <1>1, FS_Surjection
<1>3. IsFiniteSet(T \cup {0}) /\ T \cup {0} # {} /\ T \cup {0} \in SUBSET Nat
  BY <1>2, FS_AddElement
<1>4. PICK m \in T \cup {0} : \A i \in T \cup {0} : i <= m
  BY <1>3, LargestExists
<1>5. m \in {0} \cup {f[i] : i \in S} /\ m \in Nat
  BY <1>3, <1>4
<1>6. \A i \in S : f[i] <= m
  BY <1>4
<1> QED
  BY <1>5, <1>6

LEMMA LastSequenceType ==
    ASSUME TypeOK, Entries
    PROVE  LastSequence + 1 \in Positions
<1> DEFINE f == [i \in LiveIds |-> rows[i].seq]
<1>1. \A i \in LiveIds : rows[i].seq \in Nat
  BY RowTypes DEF LiveIds, Entries, Row
<1>2. f \in [LiveIds -> Nat]
  BY <1>1
<1>3. \E m \in {0} \cup {f[i] : i \in LiveIds} : m \in Nat /\ \A i \in LiveIds : f[i] <= m
  BY <1>2, LiveIdsFinite, LargestPosition
<1>4. \E m \in {0} \cup {rows[i].seq : i \in LiveIds} : \A i \in LiveIds : rows[i].seq <= m
  BY <1>3
<1>5. LastSequence \in {0} \cup {rows[i].seq : i \in LiveIds}
  BY <1>4 DEF LastSequence
<1> QED
  BY <1>1, <1>5 DEF Positions

-----------------------------------------------------------------------------
(* The order of a flush lists every change once. *)
LEMMA InOrderPicks ==
    ASSUME NEW changes, NEW n \in 1..Cardinality({w.id : w \in changes}),
           \E w \in changes : Rank({v.id : v \in changes}, w.id) = n
    PROVE  /\ InOrder(changes)[n] \in changes
           /\ Rank({v.id : v \in changes}, InOrder(changes)[n].id) = n
BY DEF InOrder, Rank

LEMMA InOrderLists ==
    ASSUME NEW S \in SUBSET Nat, IsFiniteSet(S),
           NEW f \in [S -> Change], \A i \in S : f[i].id = i
    PROVE  LET stmts == InOrder({f[i] : i \in S})
           IN  /\ stmts \in [1..Cardinality(S) -> Change]
               /\ \A n \in 1..Cardinality(S) : stmts[n].id \in S /\ stmts[n] = f[stmts[n].id]
               /\ \A i \in S : \E n \in 1..Cardinality(S) : stmts[n] = f[i]
<1> DEFINE changes == {f[i] : i \in S}
           stmts == InOrder(changes)
           N == 1..Cardinality(S)
<1>1. {w.id : w \in changes} = S
  OBVIOUS
<1>2. DOMAIN stmts = N /\ stmts = [n \in DOMAIN stmts |-> stmts[n]]
  <2>1. DOMAIN stmts = 1..Cardinality({w.id : w \in changes})
    BY DEF InOrder
  <2>2. ASSUME NEW cs PROVE InOrder(cs) \in [DOMAIN InOrder(cs) -> {InOrder(cs)[n] : n \in DOMAIN InOrder(cs)}]
    BY Zenon DEF InOrder
  <2>3. stmts = [n \in DOMAIN stmts |-> stmts[n]]
    BY <2>2
  <2> HIDE DEF stmts
  <2> QED
    BY <1>1, <2>1, <2>3
<1>3. \A n \in N : stmts[n] \in changes /\ Rank(S, stmts[n].id) = n
  <2>1. TAKE n \in N
  <2>2. \E w \in changes : Rank(S, w.id) = n
    BY RankIsPosition
  <2> HIDE DEF changes
  <2> QED
    BY <1>1, <2>2, InOrderPicks
<1>4. \A n \in N : stmts[n].id \in S /\ stmts[n] = f[stmts[n].id] /\ stmts[n] \in Change
  BY <1>3
<1>5. ASSUME NEW i \in S PROVE \E n \in N : stmts[n] = f[i]
  <2>1. Rank(S, i) \in N
    BY RankIsPosition
  <2>2. stmts[Rank(S, i)].id = i
    BY <1>3, <1>4, <2>1, RankIsPosition
  <2> QED
    BY <1>4, <2>1, <2>2
<1>6. stmts \in [N -> Change]
  BY <1>2, <1>4
<1> HIDE DEF stmts
<1>7. stmts = InOrder({f[i] : i \in S})
  BY DEF stmts
<1> QED
  BY <1>4, <1>5, <1>6, <1>7

(* The places of the steps in the list a reorder has read. *)
Lists(index, S) ==
    index \in [S -> Positions] /\ \A i, j \in S : index[i] = index[j] => i = j

LEMMA ListingLists ==
    ASSUME NEW S, IsFiniteSet(S), NEW index \in Listings(S)
    PROVE  Lists(index, S)
<1>1. Cardinality(S) \in Nat
  BY FS_CardinalityType
<1>2. index \in [S -> 1..Cardinality(S)] /\ \A i, j \in S : index[i] = index[j] => i = j
  BY DEF Listings, Bijection, Injection, IsInjective
<1> QED
  BY <1>1, <1>2 DEF Lists, Positions

(* A reorder parks every step and then gives it its position. *)
LEMMA PermuteSettles ==
    ASSUME TypeOK, NEW positions, NEW D, positions \in [D -> Positions], IsPermutation(positions),
           NEW index, Lists(index, DOMAIN positions)
    PROVE  Permute(positions, index) \in Seq(Change) /\ Settled(Permute(positions, index))
<1> DEFINE f == [i \in LiveIds |-> [id |-> i, seq |-> -index[i], live |-> TRUE]]
           g == [i \in LiveIds |-> [id |-> i, seq |-> positions[i], live |-> TRUE]]
           a == InOrder({f[i] : i \in LiveIds})
           b == InOrder({g[i] : i \in LiveIds})
           N == Cardinality(LiveIds)
<1>1. DOMAIN positions = LiveIds /\ \A i \in LiveIds : positions[i] \in Int /\ positions[i] > 0
  BY DEF IsPermutation, Positions
<1>2. IsFiniteSet(LiveIds) /\ LiveIds \in SUBSET Nat /\ N \in Nat
  BY LiveIdsFinite, FS_CardinalityType
<1>a. \A i \in LiveIds : index[i] \in Int /\ index[i] > 0
  BY <1>1 DEF Lists, Positions
<1>3. \A i \in LiveIds : i \in Ids /\ i \in Int /\ i > 0 /\ i \in 0..ids
  BY LiveIdsFinite, RowTypes, BoundsAssumption DEF Ids
<1>4. f \in [LiveIds -> Change] /\ g \in [LiveIds -> Change]
  BY <1>1, <1>3, <1>a DEF Change
<1>5. \A i \in LiveIds : f[i].id = i /\ g[i].id = i /\ f[i].seq = -index[i] /\ g[i].seq = positions[i]
  OBVIOUS
<1>6. Permute(positions, index) = a \o b
  <2>1. {[id |-> i, seq |-> -index[i], live |-> TRUE] : i \in DOMAIN positions} = {f[i] : i \in LiveIds}
    BY <1>1
  <2>2. {[id |-> i, seq |-> positions[i], live |-> TRUE] : i \in DOMAIN positions} = {g[i] : i \in LiveIds}
    BY <1>1
  <2> QED
    BY <2>1, <2>2, Zenon DEF Permute
<1> HIDE DEF f, g
<1>7. /\ a \in [1..N -> Change]
      /\ \A n \in 1..N : a[n].id \in LiveIds /\ a[n] = f[a[n].id]
  <2>1. f \in [LiveIds -> Change]
    BY <1>4
  <2>2. \A i \in LiveIds : f[i].id = i
    BY <1>5
  <2> QED
    BY <1>2, <2>1, <2>2, InOrderLists
<1>8. /\ b \in [1..N -> Change]
      /\ \A n \in 1..N : b[n].id \in LiveIds /\ b[n] = g[b[n].id]
      /\ \A i \in LiveIds : \E n \in 1..N : b[n] = g[i]
  <2>1. g \in [LiveIds -> Change]
    BY <1>4
  <2>2. \A i \in LiveIds : g[i].id = i
    BY <1>5
  <2> QED
    BY <1>2, <2>1, <2>2, InOrderLists
<1> HIDE DEF a, b, N
<1>9. a \in Seq(Change) /\ Len(a) = N /\ b \in Seq(Change) /\ Len(b) = N
  <2>1. N \in Nat
    BY <1>2
  <2>2. a \in [1..N -> Change]
    BY <1>7
  <2>3. b \in [1..N -> Change]
    BY <1>8
  <2>4. a \in Seq(Change) /\ Len(a) = N
    BY <2>1, <2>2
  <2>5. b \in Seq(Change) /\ Len(b) = N
    BY <2>1, <2>3
  <2> QED
    BY <2>4, <2>5
<1>10. /\ a \o b \in Seq(Change) /\ DOMAIN (a \o b) = 1..(N + N)
       /\ \A n \in 1..N : (a \o b)[n] = a[n] /\ (a \o b)[N + n] = b[n]
  BY <1>2, <1>9
<1>11. ASSUME NEW k \in DOMAIN (a \o b)
       PROVE  /\ (a \o b)[k].id \in 0..ids
              /\ (a \o b)[k].seq # Keep
              /\ (a \o b)[k].seq < 0 =>
                    \E l \in DOMAIN (a \o b) :
                        l > k /\ (a \o b)[l].id = (a \o b)[k].id /\ (a \o b)[l].seq > 0
  <2>1. CASE k \in 1..N
    <3>1. PICK i \in LiveIds : a[k].id = i /\ a[k] = f[i]
      BY <1>7, <2>1
    <3>2. PICK n \in 1..N : b[n] = g[i]
      BY <1>8
    <3>3. N + n \in DOMAIN (a \o b) /\ N + n > k /\ (a \o b)[N + n] = g[i]
      <4>1. N + n \in 1..(N + N) /\ N + n > k
        BY <1>2, <2>1
      <4> QED
        BY <1>10, <3>2, <4>1
    <3>4. (a \o b)[k] = f[i]
      BY <1>10, <2>1, <3>1
    <3>5. g[i].id = i /\ g[i].seq > 0 /\ f[i].id = i /\ i \in 0..ids /\ f[i].seq # Keep
      BY <1>1, <1>3, <1>5, <1>a DEF Keep
    <3> QED
      BY <3>3, <3>4, <3>5
  <2>2. CASE k \notin 1..N
    <3>1. PICK n \in 1..N : k = N + n
      <4>1. k \in 1..(N + N) /\ k - N \in 1..N
        BY <1>2, <1>10, <2>2
      <4>2. k = N + (k - N)
        BY <1>2, <4>1
      <4> QED
        BY <4>1, <4>2
    <3>2. PICK i \in LiveIds : b[n] = g[i]
      BY <1>8
    <3>3. (a \o b)[k] = g[i]
      BY <1>10, <3>1, <3>2
    <3>4. g[i].id = i /\ g[i].seq \in Int /\ g[i].seq > 0 /\ i \in 0..ids
      BY <1>1, <1>3, <1>5
    <3> QED
      BY <3>3, <3>4 DEF Keep
  <2> QED
    BY <2>1, <2>2
<1> HIDE DEF Keep
<1>12. Settled(a \o b)
  BY <1>11 DEF Settled
<1> QED
  BY <1>6, <1>10, <1>12

-----------------------------------------------------------------------------
(* Steps that write nothing: the client holds nothing afterwards, and the   *)
(* rest is untouched.                                                       *)
HoldsNothing(c) ==
    /\ rows' = rows /\ (ids' = ids \/ ids' = ids + 1)
    /\ \A d \in Clients \ {c} : todo'[d] = todo[d] /\ writes'[d] = writes[d] /\ pc'[d] = pc[d]
    /\ writes'[c] = <<>> /\ pc'[c] # "index"

LEMMA EmptyDomain == DOMAIN <<>> = {}
OBVIOUS

LEMMA SettledStays ==
    ASSUME ids \in Nat, ids' \in Nat, ids' >= ids, DOMAIN rows \subseteq DOMAIN rows',
           NEW stmts, Settled(stmts)
    PROVE  Settled(stmts)'
BY DEF Settled, Keep

LEMMA WritingNothing ==
    ASSUME CatalogInv, NEW c \in Clients, HoldsNothing(c), Settled(todo[c])'
    PROVE  Locks' /\ Detours' /\ Entries' /\ Finality'
<1>1. DOMAIN writes'[c] = {} /\ Indexed(c)' = {}
  BY EmptyDomain DEF HoldsNothing, Indexed
<1>2. \A d \in Clients \ {c} : Indexed(d)' = Indexed(d)
  BY DEF HoldsNothing, Indexed, Pending
<1>3. Locks'
  BY <1>1 DEF CatalogInv, Locks, HoldsNothing, Writing
<1>4. ASSUME NEW d \in Clients PROVE Settled(todo[d])' /\ Positioned(d)'
  <2>1. CASE d = c
    BY <1>1, <2>1 DEF Positioned
  <2>2. CASE d # c
    <3>1. Settled(todo[d]) /\ Positioned(d)
      BY DEF CatalogInv, Detours
    <3>2. todo'[d] = todo[d] /\ writes'[d] = writes[d] /\ pc'[d] = pc[d]
      BY <2>2 DEF HoldsNothing
    <3>3. ids \in Nat /\ ids' \in Nat /\ ids' >= ids
      BY RowTypes DEF CatalogInv, HoldsNothing
    <3>4. PICK stmts : stmts = todo[d]
      OBVIOUS
    <3>5. Settled(stmts)'
      BY <3>1, <3>3, <3>4, SettledStays DEF HoldsNothing
    <3> QED
      BY <3>1, <3>2, <3>4, <3>5 DEF Positioned
  <2> QED
    BY <2>1, <2>2
<1>5. Entries'
  BY <1>1, <1>2 DEF CatalogInv, Entries, HoldsNothing, Indexed
<1>6. Finality'
  BY <1>1 DEF CatalogInv, Finality, HoldsNothing
<1> QED
  BY <1>3, <1>4, <1>5, <1>6 DEF Detours

-----------------------------------------------------------------------------
(* Whoever writes inserts nothing more, and knows what it was asked.        *)
LEMMA RoomKept ==
    ASSUME Room, TypeOK, ids' = ids, Inserting' \subseteq Inserting
    PROVE  Room'
<1>1. IsFiniteSet(Inserting)
  BY ClientsAssumption, FS_Subset DEF Inserting, Busy
<1>2. IsFiniteSet(Inserting') /\ Cardinality(Inserting') <= Cardinality(Inserting)
  BY <1>1, FS_Subset
<1>3. Cardinality(Inserting) \in Nat /\ Cardinality(Inserting') \in Nat
  BY <1>1, <1>2, FS_CardinalityType
<1> QED
  BY <1>2, <1>3, RowTypes, BoundsAssumption DEF Room

LEMMA OthersKept ==
    ASSUME CatalogInv, NEW c \in Clients,
           pc[c] \in {"write", "index"}, pc'[c] \in {"write", "index", "idle"},
           ids' = ids,
           \A d \in Clients \ {c} : req'[d] = req[d] /\ pc'[d] = pc[d]
    PROVE  (\A d \in Clients : Asked(d)') /\ Room'
<1>1. \A d \in Clients : Asked(d)'
  BY DEF CatalogInv, Asked
<1>2. Inserting' \subseteq Inserting
  BY DEF Inserting, Busy
<1> QED
  BY <1>1, <1>2, RoomKept DEF CatalogInv

(* The version a statement writes. *)
LEMMA VersionType ==
    ASSUME CatalogInv, NEW c \in Clients, todo[c] # <<>>,
           NEW w, w = Pending(c), NEW v, v = NewVersion(c, w)
    PROVE  /\ w \in Change /\ w = todo[c][1] /\ 1 \in DOMAIN todo[c] /\ w.id \in 0..ids
           /\ v \in Row
           /\ w.seq # Keep => v.seq = w.seq
           /\ v.live => w.live
           /\ w.id \in DOMAIN writes[c] =>
                 /\ w.seq = Keep => v.seq = writes[c][w.id].seq
                 /\ v.live => writes[c][w.id].live
           /\ w.id \in DOMAIN rows \ DOMAIN writes[c] =>
                 /\ w.seq = Keep => v.seq = rows[w.id].seq
                 /\ v.live => rows[w.id].live
           /\ w.id \notin DOMAIN rows => w.seq # Keep
<1> DEFINE old == Over(writes[c], rows)
<1>1. todo[c] \in Seq(Change)
  BY WriteTypes DEF CatalogInv
<1>2. w \in Change /\ w = todo[c][1] /\ 1 \in DOMAIN todo[c]
  BY <1>1 DEF Pending
<1>3. w.id \in 0..ids /\ (w.seq = Keep => w.id \in DOMAIN rows)
  BY <1>2 DEF CatalogInv, Detours, Settled
<1>4. w.seq \in Int /\ w.live \in BOOLEAN
  BY <1>2 DEF Change
<1>5. /\ DOMAIN old = DOMAIN writes[c] \cup DOMAIN rows
      /\ \A i \in DOMAIN writes[c] : old[i] = writes[c][i]
      /\ \A i \in DOMAIN rows \ DOMAIN writes[c] : old[i] = rows[i]
  BY OverType, Zenon
<1>6. \A i \in DOMAIN old : old[i] \in Row /\ old[i].seq \in Int /\ old[i].live \in BOOLEAN
  BY <1>5, RowTypes, WriteTypes DEF CatalogInv, Row
<1>7. v = IF w.id \in DOMAIN old
          THEN [seq |-> IF w.seq = Keep THEN old[w.id].seq ELSE w.seq,
                live |-> old[w.id].live /\ w.live]
          ELSE [seq |-> w.seq, live |-> w.live]
  BY DEF NewVersion
<1> HIDE DEF old
<1>8. v \in Row /\ (w.seq # Keep => v.seq = w.seq) /\ (v.live => w.live)
  BY <1>4, <1>6, <1>7 DEF Row
<1>9. w.id \in DOMAIN old => (w.seq = Keep => v.seq = old[w.id].seq) /\ (v.live => old[w.id].live)
  BY <1>4, <1>6, <1>7
<1> QED
  BY <1>2, <1>3, <1>5, <1>8, <1>9

LEMMA LockRowKeeps ==
    ASSUME CatalogInv, NEW c \in Clients, LockRow(c)
    PROVE  CatalogInv'
<1>1. PICK w : w = Pending(c)
  OBVIOUS
<1>2. PICK v : v = NewVersion(c, w)
  OBVIOUS
<1>3. PICK i : i = w.id
  OBVIOUS
<1>4. /\ pc[c] = "write" /\ todo[c] # <<>> /\ UNCHANGED <<dbVars, req, todo, answer, alone, requests>>
      /\ \A d \in Clients \ {c} : i \notin DOMAIN writes[d]
      /\ pc' = [pc EXCEPT ![c] = "index"]
  BY <1>1, <1>3 DEF LockRow
<1>5. /\ w \in Change /\ w = todo[c][1] /\ 1 \in DOMAIN todo[c] /\ i \in 0..ids
      /\ v \in Row
      /\ w.seq # Keep => v.seq = w.seq
      /\ v.live => w.live
      /\ i \in DOMAIN writes[c] =>
                 /\ w.seq = Keep => v.seq = writes[c][i].seq
                 /\ v.live => writes[c][i].live
      /\ i \in DOMAIN rows \ DOMAIN writes[c] =>
                 /\ w.seq = Keep => v.seq = rows[i].seq
                 /\ v.live => rows[i].live
      /\ i \notin DOMAIN rows => w.seq # Keep
  BY <1>1, <1>2, <1>3, <1>4, VersionType
<1>6. writes' = [writes EXCEPT ![c] = Over([k \in {i} |-> v], @)]
  BY <1>1, <1>2, <1>3 DEF LockRow
<1>7. DOMAIN writes = Clients /\ pc \in [Clients -> PCs]
  BY DEF CatalogInv, PerClient, TypeOK
<1>8. /\ writes'[c] = Over([k \in {i} |-> v], writes[c])
      /\ \A d \in Clients \ {c} : writes'[d] = writes[d]
      /\ DOMAIN writes' = Clients
  BY <1>6, <1>7
<1>9. /\ DOMAIN writes'[c] = DOMAIN writes[c] \cup {i}
      /\ writes'[c][i] = v
      /\ \A k \in DOMAIN writes[c] \ {i} : writes'[c][k] = writes[c][k]
      /\ writes'[c] = [k \in DOMAIN writes'[c] |-> writes'[c][k]]
  <2>1. PICK new : new = [k \in {i} |-> v]
    OBVIOUS
  <2>2. PICK o : o = writes[c]
    OBVIOUS
  <2>3. DOMAIN new = {i} /\ new[i] = v
    BY <2>1
  <2>4. PICK r : r = Over(new, o)
    OBVIOUS
  <2>5. /\ DOMAIN r = {i} \cup DOMAIN o /\ r[i] = v /\ r = [k \in DOMAIN r |-> r[k]]
        /\ \A k \in DOMAIN o \ {i} : r[k] = o[k]
    <3>1. r = [k \in DOMAIN r |-> r[k]]
      BY <2>4, OverIsFunction, Zenon
    <3>2. DOMAIN r = {i} \cup DOMAIN o /\ r[i] = v /\ \A k \in DOMAIN o \ {i} : r[k] = o[k]
      <4>1. /\ DOMAIN Over(new, o) = DOMAIN new \cup DOMAIN o
            /\ \A k \in DOMAIN new : Over(new, o)[k] = new[k]
            /\ \A k \in DOMAIN o \ DOMAIN new : Over(new, o)[k] = o[k]
        BY OverType, Zenon
      <4> QED
        BY <2>3, <2>4, <4>1
    <3> QED
      BY <3>1, <3>2, Zenon
  <2>6. writes'[c] = r
    BY <1>8, <2>1, <2>2, <2>4
  <2> QED
    BY <2>2, <2>5, <2>6
<1>10. /\ pc'[c] = "index" /\ \A d \in Clients \ {c} : pc'[d] = pc[d]
       /\ todo' = todo /\ rows' = rows /\ ids' = ids /\ req' = req
  BY <1>4, <1>7 DEF dbVars
<1>11. Indexed(c)' = Indexed(c) \ {i} /\ \A d \in Clients \ {c} : Indexed(d)' = Indexed(d)
  <2>1. Pending(c)' = w
    BY <1>1, <1>10 DEF Pending
  <2>2. Indexed(c)' = {k \in DOMAIN writes'[c] : writes'[c][k].live /\ k # i}
    BY <1>3, <1>10, <2>1 DEF Indexed
  <2>3. Indexed(c) = {k \in DOMAIN writes[c] : writes[c][k].live}
    BY <1>4 DEF Indexed
  <2>4. \A d \in Clients \ {c} : Indexed(d)' = Indexed(d)
    BY <1>8, <1>10 DEF Indexed, Pending
  <2> QED
    BY <1>9, <2>2, <2>3, <2>4
<1>12. TypeOK'
  <2>1. ASSUME NEW d \in Clients
        PROVE  /\ todo'[d] \in Seq(Change)
               /\ \E S \in SUBSET (0..ids') : writes'[d] \in [S -> Row]
               /\ pc'[d] = "index" => todo'[d] # <<>> /\ Pending(d)'.id \in DOMAIN writes'[d]
    <3>1. CASE d = c
      <4>1. DOMAIN writes'[c] \in SUBSET (0..ids)
        BY <1>5, <1>9, WriteTypes DEF CatalogInv
      <4>2. writes'[c] \in [DOMAIN writes'[c] -> Row]
        BY <1>5, <1>9, WriteTypes DEF CatalogInv
      <4>3. Pending(c)'.id \in DOMAIN writes'[c]
        BY <1>1, <1>3, <1>9, <1>10 DEF Pending
      <4> QED
        BY <1>4, <1>10, <3>1, <4>1, <4>2, <4>3, WriteTypes DEF CatalogInv
    <3>2. CASE d # c
      BY <1>8, <1>10, <3>2 DEF CatalogInv, TypeOK, Pending
    <3> QED
      BY <3>1, <3>2
  <2>2. pc' \in [Clients -> PCs]
    BY <1>4, <1>7 DEF PCs
  <2> QED
    BY <1>4, <2>1, <2>2 DEF CatalogInv, TypeOK, dbVars
<1>13. PerClient'
  BY <1>8, <1>10 DEF CatalogInv, PerClient
<1>14. Locks'
  BY <1>4, <1>8, <1>9, <1>10 DEF CatalogInv, Locks, Writing
<1>15. (\A d \in Clients : Asked(d)') /\ Room'
  BY <1>4, <1>10, OthersKept
<1>16. Detours'
  <2>1. ASSUME NEW d \in Clients PROVE Settled(todo[d])'
    BY <1>10 DEF CatalogInv, Detours, Settled
  <2>2. ASSUME NEW d \in Clients \ {c} PROVE Positioned(d)'
    BY <1>8, <1>10 DEF CatalogInv, Detours, Positioned
  <2>3. Positioned(c)'
    <3> SUFFICES ASSUME NEW k \in DOMAIN writes'[c] \ {Plan}, writes'[c][k].live, ~(writes'[c][k].seq > 0)
                 PROVE  \E l \in DOMAIN todo[c] : l > 1 /\ todo[c][l].id = k /\ todo[c][l].seq > 0
      BY <1>10 DEF Positioned
    <3>0. todo[c] \in Seq(Change) /\ DOMAIN todo[c] \subseteq Nat \ {0}
      BY WriteTypes DEF CatalogInv
    <3>1. CASE k # i
      <4>1. k \in DOMAIN writes[c] \ {Plan} /\ writes[c][k].live /\ ~(writes[c][k].seq > 0)
        BY <1>9, <3>1
      <4>2. PICK l \in DOMAIN todo[c] : todo[c][l].id = k /\ todo[c][l].seq > 0
        BY <4>1 DEF CatalogInv, Detours, Positioned
      <4>3. l # 1
        BY <1>3, <1>5, <3>1, <4>2
      <4> QED
        BY <3>0, <4>2, <4>3
    <3>2. CASE k = i /\ w.seq # Keep
      <4>1. w.seq < 0
        BY <1>5, <1>9, <3>2 DEF Keep, Change
      <4>2. PICK l \in DOMAIN todo[c] : l > 1 /\ todo[c][l].id = i /\ todo[c][l].seq > 0
        BY <1>3, <1>5, <4>1 DEF CatalogInv, Detours, Settled
      <4> QED
        BY <3>2, <4>2
    <3>3. CASE k = i /\ w.seq = Keep /\ i \in DOMAIN writes[c]
      <4>1. writes[c][i].live /\ ~(writes[c][i].seq > 0)
        BY <1>5, <1>9, <3>3
      <4>2. PICK l \in DOMAIN todo[c] : todo[c][l].id = i /\ todo[c][l].seq > 0
        BY <3>3, <4>1 DEF CatalogInv, Detours, Positioned
      <4>3. l # 1
        BY <1>5, <3>3, <4>2 DEF Keep
      <4> QED
        BY <3>0, <3>3, <4>2, <4>3
    <3>4. CASE k = i /\ w.seq = Keep /\ i \notin DOMAIN writes[c]
      <4>1. i \in DOMAIN rows \ {Plan} /\ rows[i].live /\ ~(rows[i].seq > 0)
        BY <1>5, <1>9, <3>4
      <4> QED
        BY <4>1 DEF CatalogInv, Entries
    <3> QED
      BY <3>1, <3>2, <3>3, <3>4
  <2> QED
    BY <2>1, <2>2, <2>3 DEF Detours
<1>17. Entries'
  <2>1. \A d \in Clients : Indexed(d)' \subseteq Indexed(d)
    BY <1>11
  <2>2. \A d \in Clients : \A k \in Indexed(d)' : writes'[d][k] = writes[d][k]
    BY <1>8, <1>9, <1>11 DEF Indexed
  <2>3. \A d \in Clients : DOMAIN writes[d] \subseteq DOMAIN writes'[d]
    BY <1>8, <1>9
  <2> QED
    BY <1>10, <2>1, <2>2, <2>3 DEF CatalogInv, Entries
<1>18. Finality'
  BY <1>5, <1>8, <1>9, <1>10 DEF CatalogInv, Finality
<1> QED
  BY <1>12, <1>13, <1>14, <1>15, <1>16, <1>17, <1>18 DEF CatalogInv

(* An entry is made only when nothing is in its way. *)
LEMMA EnterIndexKeeps ==
    ASSUME CatalogInv, NEW c \in Clients, EnterIndex(c)
    PROVE  CatalogInv'
<1>1. PICK w : w = Pending(c)
  OBVIOUS
<1>2. PICK i : i = w.id
  OBVIOUS
<1>3. /\ pc[c] = "index" /\ Duplicates(c) = {} /\ Undecided(c) = {}
      /\ todo' = [todo EXCEPT ![c] = Tail(todo[c])] /\ pc' = [pc EXCEPT ![c] = "write"]
      /\ UNCHANGED <<dbVars, req, writes, answer, alone, requests>>
  BY DEF EnterIndex
<1>4. DOMAIN todo = Clients /\ pc \in [Clients -> PCs]
  BY DEF CatalogInv, PerClient, TypeOK
<1>5. /\ pc'[c] = "write" /\ todo'[c] = Tail(todo[c]) /\ DOMAIN todo' = Clients
      /\ \A d \in Clients \ {c} : pc'[d] = pc[d] /\ todo'[d] = todo[d]
      /\ rows' = rows /\ ids' = ids /\ req' = req /\ writes' = writes
  BY <1>3, <1>4 DEF dbVars
<1>6. todo[c] \in Seq(Change) /\ todo[c] # <<>> /\ w = todo[c][1] /\ i \in DOMAIN writes[c]
  BY <1>1, <1>2, <1>3, WriteTypes DEF CatalogInv, Pending
<1>7. /\ Tail(todo[c]) \in Seq(Change)
      /\ DOMAIN Tail(todo[c]) = 1..(Len(todo[c]) - 1) /\ DOMAIN todo[c] = 1..Len(todo[c]) /\ Len(todo[c]) \in Nat
      /\ \A k \in 1..(Len(todo[c]) - 1) : Tail(todo[c])[k] = todo[c][k + 1]
  BY <1>6
<1>8. \A l \in DOMAIN todo[c] : l > 1 => l - 1 \in DOMAIN todo'[c] /\ todo'[c][l - 1] = todo[c][l]
  <2>0. PICK old, rest, len : old = todo[c] /\ rest = todo'[c] /\ len = Len(todo[c])
    OBVIOUS
  <2>1. /\ len \in Nat /\ DOMAIN old = 1..len /\ DOMAIN rest = 1..(len - 1)
        /\ \A k \in 1..(len - 1) : rest[k] = old[k + 1]
    BY <1>5, <1>7, <2>0
  <2>2. ASSUME NEW l \in DOMAIN old, l > 1
        PROVE  l - 1 \in DOMAIN rest /\ rest[l - 1] = old[l]
    <3>1. l - 1 \in 1..(len - 1) /\ (l - 1) + 1 = l
      BY <2>1, <2>2
    <3> QED
      BY <2>1, <3>1
  <2> QED
    BY <2>0, <2>2
<1>9. /\ Indexed(c)' = Indexed(c) \cup {k \in {i} : writes[c][i].live}
      /\ \A d \in Clients \ {c} : Indexed(d)' = Indexed(d)
  <2>1. Indexed(c)' = {k \in DOMAIN writes[c] : writes[c][k].live}
    BY <1>5 DEF Indexed
  <2>2. Indexed(c) = {k \in DOMAIN writes[c] : writes[c][k].live /\ k # i}
    BY <1>1, <1>2, <1>3 DEF Indexed
  <2>3. \A d \in Clients \ {c} : Indexed(d)' = Indexed(d)
    BY <1>5 DEF Indexed, Pending
  <2> QED
    BY <1>6, <2>1, <2>2, <2>3
<1>10. TypeOK'
  <2>1. ASSUME NEW d \in Clients
        PROVE  /\ todo'[d] \in Seq(Change)
               /\ \E S \in SUBSET (0..ids') : writes'[d] \in [S -> Row]
               /\ pc'[d] = "index" => todo'[d] # <<>> /\ Pending(d)'.id \in DOMAIN writes'[d]
    BY <1>5, <1>7 DEF CatalogInv, TypeOK, Pending
  <2>2. pc' \in [Clients -> PCs]
    BY <1>3, <1>4 DEF PCs
  <2> QED
    BY <1>3, <2>1, <2>2 DEF CatalogInv, TypeOK, dbVars
<1>11. PerClient'
  BY <1>5 DEF CatalogInv, PerClient
<1>12. Locks'
  BY <1>3, <1>5 DEF CatalogInv, Locks, Writing
<1>13. (\A d \in Clients : Asked(d)') /\ Room'
  BY <1>3, <1>5, OthersKept
<1>14. Detours'
  <2>1. ASSUME NEW d \in Clients \ {c} PROVE Settled(todo[d])' /\ Positioned(d)'
    BY <1>5 DEF CatalogInv, Detours, Settled, Positioned
  <2>2. Settled(todo[c])'
    <3> SUFFICES ASSUME NEW k \in DOMAIN todo'[c]
                 PROVE  /\ todo'[c][k].id \in 0..ids
                        /\ todo'[c][k].seq = Keep => todo'[c][k].id \in DOMAIN rows
                        /\ todo'[c][k].seq < 0 =>
                              \E l \in DOMAIN todo'[c] :
                                  l > k /\ todo'[c][l].id = todo'[c][k].id /\ todo'[c][l].seq > 0
      BY <1>5 DEF Settled, Keep
    <3>1. k \in 1..(Len(todo[c]) - 1) /\ k + 1 \in DOMAIN todo[c] /\ todo'[c][k] = todo[c][k + 1] /\ k \in Nat
      BY <1>5, <1>7
    <3>2. Settled(todo[c])
      BY DEF CatalogInv, Detours
    <3>3. /\ todo[c][k + 1].id \in 0..ids
          /\ todo[c][k + 1].seq = Keep => todo[c][k + 1].id \in DOMAIN rows
          /\ todo[c][k + 1].seq < 0 =>
                \E l \in DOMAIN todo[c] :
                    l > k + 1 /\ todo[c][l].id = todo[c][k + 1].id /\ todo[c][l].seq > 0
      BY <3>1, <3>2 DEF Settled
    <3>4. ASSUME todo'[c][k].seq < 0
          PROVE  \E l \in DOMAIN todo'[c] :
                     l > k /\ todo'[c][l].id = todo'[c][k].id /\ todo'[c][l].seq > 0
      <4>1. PICK l \in DOMAIN todo[c] :
                l > k + 1 /\ todo[c][l].id = todo[c][k + 1].id /\ todo[c][l].seq > 0
        BY <3>1, <3>3, <3>4
      <4>2. l \in Nat /\ l > 1 /\ l - 1 > k
        BY <1>7, <3>1, <4>1
      <4>3. l - 1 \in DOMAIN todo'[c] /\ todo'[c][l - 1] = todo[c][l]
        BY <1>8, <4>2
      <4> QED
        BY <3>1, <4>1, <4>2, <4>3
    <3> QED
      BY <3>1, <3>3, <3>4
  <2>3. Positioned(c)'
    <3> SUFFICES ASSUME NEW k \in DOMAIN writes[c] \ {Plan}, writes[c][k].live, ~(writes[c][k].seq > 0)
                 PROVE  \E l \in DOMAIN todo'[c] : todo'[c][l].id = k /\ todo'[c][l].seq > 0
      BY <1>5 DEF Positioned
    <3>1. PICK l \in DOMAIN todo[c] : l > 1 /\ todo[c][l].id = k /\ todo[c][l].seq > 0
      BY <1>3 DEF CatalogInv, Detours, Positioned
    <3> QED
      BY <1>8, <3>1
  <2> QED
    BY <2>1, <2>2, <2>3 DEF Detours
<1>15. Entries'
  <2>1. ASSUME writes[c][i].live, i # Plan
        PROVE  /\ \A j \in Indexed(c) \ {i} : writes[c][j].seq # writes[c][i].seq
               /\ \A d \in Clients \ {c} : \A j \in Indexed(d) : writes[d][j].seq # writes[c][i].seq
               /\ \A j \in DOMAIN rows \ DOMAIN writes[c] :
                      rows[j].live => rows[j].seq # writes[c][i].seq
    <3>1. \A j \in Indexed(c) : ~InTheWay(c, writes[c][j], j)
      BY <1>1, <1>2, <1>3, <2>1 DEF Duplicates
    <3>2. \A d \in Clients \ {c} :
              /\ \A j \in Indexed(d) : ~InTheWay(c, writes[d][j], j)
              /\ \A j \in DOMAIN writes[d] \cap DOMAIN rows : ~InTheWay(c, rows[j], j)
      BY <1>1, <1>2, <1>3, <2>1 DEF Undecided
    <3>3. \A j \in DOMAIN rows :
              (\A d \in Clients : j \notin DOMAIN writes[d]) => ~InTheWay(c, rows[j], j)
      BY <1>1, <1>2, <1>3, <2>1 DEF Duplicates
    <3>4. \A d \in Clients \ {c} : i \notin DOMAIN writes[d]
      BY <1>6 DEF CatalogInv, Locks
    <3>5. \A j \in Indexed(c) \ {i} : writes[c][j].seq # writes[c][i].seq
      BY <1>1, <1>2, <3>1 DEF InTheWay, Indexed
    <3>6. ASSUME NEW d \in Clients \ {c}, NEW j \in Indexed(d)
          PROVE  writes[d][j].seq # writes[c][i].seq
      BY <1>1, <1>2, <3>2, <3>4 DEF InTheWay, Indexed
    <3>7. ASSUME NEW j \in DOMAIN rows \ DOMAIN writes[c], rows[j].live
          PROVE  rows[j].seq # writes[c][i].seq
      <4>1. ~InTheWay(c, rows[j], j)
        BY <3>2, <3>3
      <4> QED
        BY <1>1, <1>2, <1>6, <3>7, <4>1 DEF InTheWay
    <3> QED
      BY <3>5, <3>6, <3>7
  <2>2. \A d \in Clients : \A k \in DOMAIN writes[d] : k \in Indexed(d)' =>
            k \in Indexed(d) \/ (d = c /\ k = i /\ writes[c][i].live)
    BY <1>9
  <2>3. \A d, e \in Clients : \A k \in Indexed(d)' \ {Plan}, j \in Indexed(e)' \ {Plan} :
            writes[d][k].seq = writes[e][j].seq => d = e /\ k = j
    <3> SUFFICES ASSUME NEW d \in Clients, NEW e \in Clients,
                        NEW k \in Indexed(d)' \ {Plan}, NEW j \in Indexed(e)' \ {Plan},
                        writes[d][k].seq = writes[e][j].seq
                 PROVE  d = e /\ k = j
      OBVIOUS
    <3>1. k \in DOMAIN writes[d] /\ j \in DOMAIN writes[e]
      BY <1>5 DEF Indexed
    <3>2. CASE k \in Indexed(d) /\ j \in Indexed(e)
      BY <3>2 DEF CatalogInv, Entries
    <3>3. CASE k \notin Indexed(d)
      <4>1. d = c /\ k = i /\ writes[c][i].live
        BY <2>2, <3>1, <3>3
      <4>2. j \in Indexed(e) \/ (e = c /\ j = i)
        BY <2>2, <3>1
      <4> QED
        BY <2>1, <4>1, <4>2
    <3>4. CASE j \notin Indexed(e)
      <4>1. e = c /\ j = i /\ writes[c][i].live
        BY <2>2, <3>1, <3>4
      <4>2. k \in Indexed(d) \/ (d = c /\ k = i)
        BY <2>2, <3>1
      <4> QED
        BY <2>1, <4>1, <4>2
    <3> QED
      BY <3>2, <3>3, <3>4
  <2>4. \A d \in Clients : \A k \in Indexed(d)' \ {Plan} :
            \A j \in DOMAIN rows \ (DOMAIN writes[d] \cup {Plan}) :
                rows[j].live => rows[j].seq # writes[d][k].seq
    <3> SUFFICES ASSUME NEW d \in Clients, NEW k \in Indexed(d)' \ {Plan},
                        NEW j \in DOMAIN rows \ (DOMAIN writes[d] \cup {Plan}), rows[j].live
                 PROVE  rows[j].seq # writes[d][k].seq
      OBVIOUS
    <3>1. k \in DOMAIN writes[d]
      BY <1>5 DEF Indexed
    <3>2. CASE k \in Indexed(d)
      BY <3>2 DEF CatalogInv, Entries
    <3>3. CASE k \notin Indexed(d)
      <4>1. d = c /\ k = i /\ writes[c][i].live
        BY <2>2, <3>1, <3>3
      <4> QED
        BY <2>1, <4>1
    <3> QED
      BY <3>2, <3>3
  <2> QED
    BY <1>5, <2>3, <2>4 DEF CatalogInv, Entries
<1>16. Finality'
  BY <1>5 DEF CatalogInv, Finality
<1> QED
  BY <1>10, <1>11, <1>12, <1>13, <1>14, <1>15, <1>16 DEF CatalogInv

(* A commit makes the entries of the transaction the table's. *)
LEMMA CommitKeeps ==
    ASSUME CatalogInv, NEW c \in Clients, Commit(c)
    PROVE  CatalogInv'
<1>1. /\ pc[c] = "write" /\ todo[c] = <<>>
      /\ rows' = Over(writes[c], rows)
      /\ answer' = [answer EXCEPT ![c] = "ok"]
      /\ req' = [req EXCEPT ![c] = NoRequest]
      /\ pc' = [pc EXCEPT ![c] = "idle"]
      /\ todo' = [todo EXCEPT ![c] = <<>>]
      /\ writes' = [writes EXCEPT ![c] = <<>>]
      /\ ids' = ids /\ alone' = alone /\ requests' = requests
  BY DEF Commit, Answer
<1>2. /\ DOMAIN todo = Clients /\ DOMAIN writes = Clients /\ DOMAIN req = Clients
      /\ pc \in [Clients -> PCs]
  BY DEF CatalogInv, PerClient, TypeOK
<1>3. /\ pc'[c] = "idle" /\ todo'[c] = <<>> /\ writes'[c] = <<>>
      /\ \A d \in Clients \ {c} :
            pc'[d] = pc[d] /\ todo'[d] = todo[d] /\ writes'[d] = writes[d] /\ req'[d] = req[d]
      /\ DOMAIN todo' = Clients /\ DOMAIN writes' = Clients /\ DOMAIN req' = Clients
  BY <1>1, <1>2
<1>4. /\ DOMAIN rows' = DOMAIN writes[c] \cup DOMAIN rows
      /\ \A i \in DOMAIN writes[c] : rows'[i] = writes[c][i]
      /\ \A i \in DOMAIN rows \ DOMAIN writes[c] : rows'[i] = rows[i]
  <2>1. /\ DOMAIN Over(writes[c], rows) = DOMAIN writes[c] \cup DOMAIN rows
        /\ \A i \in DOMAIN writes[c] : Over(writes[c], rows)[i] = writes[c][i]
        /\ \A i \in DOMAIN rows \ DOMAIN writes[c] : Over(writes[c], rows)[i] = rows[i]
    BY OverType, Zenon
  <2>2. rows' = Over(writes[c], rows)
    BY <1>1
  <2> QED
    BY <2>1, <2>2
<1>5. rows' = [i \in DOMAIN rows' |-> rows'[i]]
  BY <1>1, OverIsFunction, Zenon
<1>6. /\ Indexed(c)' = {} /\ DOMAIN writes'[c] = {}
      /\ \A d \in Clients \ {c} : Indexed(d)' = Indexed(d)
  BY <1>3, EmptyDomain DEF Indexed, Pending
<1>7. Indexed(c) = {i \in DOMAIN writes[c] : writes[c][i].live}
  BY <1>1 DEF Indexed
<1>8. TypeOK'
  <2>1. \E S \in SUBSET (1..ids) : rows' \in [S \cup {Plan} -> Row]
    <3>1. PICK r : r = rows'
      OBVIOUS
    <3>2. DOMAIN r \subseteq 0..ids /\ Plan \in DOMAIN r /\ \A i \in DOMAIN r : r[i] \in Row
      BY <1>4, <3>1, RowTypes, WriteTypes DEF CatalogInv
    <3>3. r = [i \in DOMAIN r |-> r[i]]
      BY <1>5, <3>1, Zenon
    <3>4. \E S \in SUBSET (1..ids) : r \in [S \cup {Plan} -> Row]
      BY <3>2, <3>3, RowTypes, RowsAreTyped DEF CatalogInv
    <3> QED
      BY <3>1, <3>4
  <2>2. ASSUME NEW d \in Clients
        PROVE  /\ todo'[d] \in Seq(Change)
               /\ \E S \in SUBSET (0..ids) : writes'[d] \in [S -> Row]
               /\ pc'[d] = "index" => todo'[d] # <<>> /\ Pending(d)'.id \in DOMAIN writes'[d]
    <3>1. CASE d = c
      <4>1. <<>> \in [{} -> Row] /\ {} \in SUBSET (0..ids) /\ <<>> \in Seq(Change)
        OBVIOUS
      <4> QED
        BY <1>3, <3>1, <4>1
    <3>2. CASE d # c
      BY <1>3, <3>2 DEF CatalogInv, TypeOK, Pending
    <3> QED
      BY <3>1, <3>2
  <2>3. pc' \in [Clients -> PCs] /\ answer' \in [Clients -> {"none", "ok", "404", "422", "500"}]
    BY <1>1, <1>2 DEF CatalogInv, TypeOK, PCs
  <2> QED
    BY <1>1, <2>1, <2>2, <2>3 DEF CatalogInv, TypeOK
<1>9. PerClient'
  BY <1>3 DEF PerClient
<1>10. Locks'
  BY <1>3, <1>6 DEF CatalogInv, Locks, Writing
<1>11. (\A d \in Clients : Asked(d)') /\ Room'
  BY <1>1, <1>3, OthersKept
<1>12. Detours'
  <2>1. ASSUME NEW d \in Clients \ {c} PROVE Settled(todo[d])' /\ Positioned(d)'
    BY <1>1, <1>3, <1>4 DEF CatalogInv, Detours, Settled, Positioned
  <2>2. Settled(todo[c])' /\ Positioned(c)'
    BY <1>3, <1>6, EmptyDomain DEF Settled, Positioned
  <2> QED
    BY <2>1, <2>2 DEF Detours
<1>13. Entries'
  <2>1. \A i \in DOMAIN rows' \ {Plan} : rows'[i].live =>
            IF i \in DOMAIN writes[c] THEN i \in Indexed(c) /\ rows'[i] = writes[c][i]
            ELSE i \in DOMAIN rows /\ rows'[i] = rows[i]
    BY <1>4, <1>7
  <2>2. \A i, j \in DOMAIN rows' \ {Plan} :
            rows'[i].live /\ rows'[j].live /\ rows'[i].seq = rows'[j].seq => i = j
    BY <2>1 DEF CatalogInv, Entries
  <2>3. \A i \in DOMAIN rows' \ {Plan} : rows'[i].live => rows'[i].seq > 0
    <3> SUFFICES ASSUME NEW i \in DOMAIN rows' \ {Plan}, rows'[i].live PROVE rows'[i].seq > 0
      OBVIOUS
    <3>1. CASE i \in DOMAIN writes[c]
      <4>1. DOMAIN todo[c] = {}
        BY <1>1, EmptyDomain
      <4> QED
        BY <1>1, <2>1, <3>1, <4>1 DEF CatalogInv, Detours, Positioned, Indexed
    <3>2. CASE i \notin DOMAIN writes[c]
      BY <2>1, <3>2 DEF CatalogInv, Entries
    <3> QED
      BY <3>1, <3>2
  <2>4. \A d \in Clients : \A i \in Indexed(d)' : d # c /\ i \in Indexed(d) /\ writes'[d] = writes[d]
    BY <1>3, <1>6
  <2>5. \A d, e \in Clients : \A i \in Indexed(d)' \ {Plan}, j \in Indexed(e)' \ {Plan} :
            writes'[d][i].seq = writes'[e][j].seq => d = e /\ i = j
    BY <2>4 DEF CatalogInv, Entries
  <2>6. \A d \in Clients : \A i \in Indexed(d)' \ {Plan} :
            \A j \in DOMAIN rows' \ (DOMAIN writes'[d] \cup {Plan}) :
                rows'[j].live => rows'[j].seq # writes'[d][i].seq
    <3> SUFFICES ASSUME NEW d \in Clients, NEW i \in Indexed(d)' \ {Plan},
                        NEW j \in DOMAIN rows' \ (DOMAIN writes'[d] \cup {Plan}), rows'[j].live
                 PROVE  rows'[j].seq # writes'[d][i].seq
      OBVIOUS
    <3>1. d # c /\ i \in Indexed(d) /\ writes'[d] = writes[d]
      BY <2>4
    <3>2. CASE j \in DOMAIN writes[c]
      BY <2>1, <3>1, <3>2 DEF CatalogInv, Entries
    <3>3. CASE j \notin DOMAIN writes[c]
      BY <2>1, <3>1, <3>3 DEF CatalogInv, Entries
    <3> QED
      BY <3>2, <3>3
  <2> QED
    BY <2>2, <2>3, <2>5, <2>6 DEF Entries
<1>14. Finality'
  BY <1>3, <1>4, <1>6 DEF CatalogInv, Finality, Locks
<1> QED
  BY <1>8, <1>9, <1>10, <1>11, <1>12, <1>13, <1>14 DEF CatalogInv

-----------------------------------------------------------------------------
(* The sessions before a transaction, and its end without a commit.         *)
LEMMA TypesKept ==
    ASSUME CatalogInv, NEW c \in Clients, HoldsNothing(c),
           todo'[c] \in Seq(Change), ids' \in 0..MaxSteps, pc' \in [Clients -> PCs],
           answer' \in [Clients -> {"none", "ok", "404", "422", "500"}],
           alone' \in [Clients -> BOOLEAN], requests' \in 0..MaxRequests
    PROVE  TypeOK'
<1>1. ids \in Nat /\ ids' \in Nat /\ ids' >= ids
  BY RowTypes DEF CatalogInv, HoldsNothing
<1>2. \E S \in SUBSET (1..ids') : rows' \in [S \cup {Plan} -> Row]
  <2>1. PICK S \in SUBSET (1..ids) : rows \in [S \cup {Plan} -> Row]
    BY DEF CatalogInv, TypeOK
  <2>2. S \in SUBSET (1..ids')
    BY <1>1
  <2> QED
    BY <2>1, <2>2 DEF HoldsNothing
<1>3. ASSUME NEW d \in Clients
      PROVE  /\ todo'[d] \in Seq(Change)
             /\ \E S \in SUBSET (0..ids') : writes'[d] \in [S -> Row]
             /\ pc'[d] = "index" => todo'[d] # <<>> /\ Pending(d)'.id \in DOMAIN writes'[d]
  <2>1. CASE d = c
    <3>1. <<>> \in [{} -> Row] /\ {} \in SUBSET (0..ids')
      OBVIOUS
    <3> QED
      BY <2>1, <3>1 DEF HoldsNothing
  <2>2. CASE d # c
    <3>1. /\ todo[d] \in Seq(Change) /\ \E S \in SUBSET (0..ids) : writes[d] \in [S -> Row]
          /\ pc[d] = "index" => todo[d] # <<>> /\ Pending(d).id \in DOMAIN writes[d]
      BY DEF CatalogInv, TypeOK
    <3>2. \A S \in SUBSET (0..ids) : S \in SUBSET (0..ids')
      BY <1>1
    <3> QED
      BY <2>2, <3>1, <3>2 DEF HoldsNothing, Pending
  <2> QED
    BY <2>1, <2>2
<1> QED
  BY <1>2, <1>3 DEF TypeOK

LEMMA AnswerKeeps ==
    ASSUME CatalogInv, NEW c \in Clients, NEW a \in {"404", "422", "500"}, Answer(c, a),
           UNCHANGED <<dbVars, alone, requests>>
    PROVE  CatalogInv'
<1>1. /\ DOMAIN todo = Clients /\ DOMAIN writes = Clients /\ DOMAIN req = Clients
      /\ pc \in [Clients -> PCs] /\ answer \in [Clients -> {"none", "ok", "404", "422", "500"}]
  BY DEF CatalogInv, PerClient, TypeOK
<1>2. /\ pc'[c] = "idle" /\ todo'[c] = <<>> /\ writes'[c] = <<>>
      /\ \A d \in Clients \ {c} :
            pc'[d] = pc[d] /\ todo'[d] = todo[d] /\ writes'[d] = writes[d] /\ req'[d] = req[d]
      /\ DOMAIN todo' = Clients /\ DOMAIN writes' = Clients /\ DOMAIN req' = Clients
      /\ rows' = rows /\ ids' = ids /\ alone' = alone /\ requests' = requests
      /\ pc' \in [Clients -> PCs] /\ answer' \in [Clients -> {"none", "ok", "404", "422", "500"}]
  BY <1>1 DEF Answer, dbVars, PCs
<1>3. HoldsNothing(c)
  BY <1>2 DEF HoldsNothing
<1>4. Settled(todo[c])' /\ todo'[c] \in Seq(Change)
  BY <1>2, EmptyDomain DEF Settled
<1>5. Locks' /\ Detours' /\ Entries' /\ Finality'
  BY <1>3, <1>4, WritingNothing
<1>6. TypeOK'
  <2>1. ids' \in 0..MaxSteps /\ alone' \in [Clients -> BOOLEAN] /\ requests' \in 0..MaxRequests
    BY <1>2 DEF CatalogInv, TypeOK
  <2> QED
    BY <1>2, <1>3, <1>4, <2>1, TypesKept
<1>7. PerClient'
  BY <1>2 DEF PerClient
<1>8. \A d \in Clients : Asked(d)'
  BY <1>2 DEF CatalogInv, Asked
<1>9. Inserting' \subseteq Inserting
  BY <1>2 DEF Inserting, Busy
<1>10. Room'
  BY <1>2, <1>9, RoomKept DEF CatalogInv
<1> QED
  BY <1>5, <1>6, <1>7, <1>8, <1>10 DEF CatalogInv

(* From one session to the next, with what this one has read.               *)
LEMMA GoKeeps ==
    ASSUME CatalogInv, NEW c \in Clients, pc[c] \in {"plan", "list", "get"},
           NEW label \in {"list", "add", "load"}, pc' = [pc EXCEPT ![c] = label],
           DOMAIN req' = Clients, \A d \in Clients \ {c} : req'[d] = req[d],
           Asked(c)', req'[c].op = req[c].op,
           label \in {"list", "add"} => c \in Inserting,
           UNCHANGED <<dbVars, todo, writes, answer, alone, requests>>
    PROVE  CatalogInv'
<1>1. DOMAIN todo = Clients /\ DOMAIN writes = Clients /\ pc \in [Clients -> PCs]
  BY DEF CatalogInv, PerClient, TypeOK
<1>2. /\ pc'[c] = label /\ \A d \in Clients \ {c} : pc'[d] = pc[d]
      /\ pc' \in [Clients -> PCs]
      /\ rows' = rows /\ ids' = ids /\ todo' = todo /\ writes' = writes
      /\ answer' = answer /\ alone' = alone /\ requests' = requests
  BY <1>1 DEF dbVars, PCs
<1>3. writes[c] = <<>>
  BY DEF CatalogInv, Locks, Writing
<1>4. HoldsNothing(c)
  BY <1>2, <1>3 DEF HoldsNothing
<1>5. Settled(todo[c])'
  BY <1>2 DEF CatalogInv, Detours, Settled
<1>6. Locks' /\ Detours' /\ Entries' /\ Finality'
  BY <1>4, <1>5, WritingNothing
<1>7. TypeOK'
  <2>1. /\ ids' \in 0..MaxSteps /\ alone' \in [Clients -> BOOLEAN] /\ requests' \in 0..MaxRequests
        /\ answer' \in [Clients -> {"none", "ok", "404", "422", "500"}]
        /\ todo'[c] \in Seq(Change)
    BY <1>2 DEF CatalogInv, TypeOK
  <2> QED
    BY <1>2, <1>4, <2>1, TypesKept
<1>8. PerClient'
  BY <1>1, <1>2 DEF PerClient
<1>9. \A d \in Clients : Asked(d)'
  BY <1>2 DEF CatalogInv, Asked
<1>10. Inserting' \subseteq Inserting
  BY <1>2 DEF Inserting, Busy
<1>11. Room'
  BY <1>2, <1>10, RoomKept DEF CatalogInv
<1> QED
  BY <1>6, <1>7, <1>8, <1>9, <1>11 DEF CatalogInv

LEMMA WriteKeeps ==
    ASSUME CatalogInv, NEW c \in Clients, pc[c] = "load",
           NEW changes \in Seq(Change), Settled(changes), Write(c, changes),
           UNCHANGED <<dbVars, alone, requests>>
    PROVE  CatalogInv'
<1>1. DOMAIN todo = Clients /\ DOMAIN writes = Clients /\ DOMAIN req = Clients /\ pc \in [Clients -> PCs]
  BY DEF CatalogInv, PerClient, TypeOK
<1>2. /\ pc'[c] = "write" /\ todo'[c] = changes /\ DOMAIN todo' = Clients
      /\ \A d \in Clients \ {c} : pc'[d] = pc[d] /\ todo'[d] = todo[d]
      /\ pc' \in [Clients -> PCs]
      /\ rows' = rows /\ ids' = ids /\ req' = req /\ writes' = writes
      /\ answer' = answer /\ alone' = alone /\ requests' = requests
  BY <1>1 DEF Write, dbVars, PCs
<1>3. writes[c] = <<>>
  BY DEF CatalogInv, Locks, Writing
<1>4. HoldsNothing(c)
  BY <1>2, <1>3 DEF HoldsNothing
<1>5. Settled(todo[c])'
  BY <1>2 DEF Settled
<1>6. Locks' /\ Detours' /\ Entries' /\ Finality'
  BY <1>4, <1>5, WritingNothing
<1>7. TypeOK'
  <2>1. /\ ids' \in 0..MaxSteps /\ alone' \in [Clients -> BOOLEAN] /\ requests' \in 0..MaxRequests
        /\ answer' \in [Clients -> {"none", "ok", "404", "422", "500"}]
        /\ todo'[c] \in Seq(Change)
    BY <1>2 DEF CatalogInv, TypeOK
  <2> QED
    BY <1>2, <1>4, <2>1, TypesKept
<1>8. PerClient'
  BY <1>1, <1>2 DEF PerClient
<1>9. \A d \in Clients : Asked(d)'
  BY <1>2 DEF CatalogInv, Asked
<1>10. Inserting' \subseteq Inserting
  BY <1>2 DEF Inserting, Busy
<1>11. Room'
  BY <1>2, <1>10, RoomKept DEF CatalogInv
<1> QED
  BY <1>6, <1>7, <1>8, <1>9, <1>11 DEF CatalogInv

-----------------------------------------------------------------------------
(* The endpoints. *)

LEMMA BeginKeeps ==
    ASSUME CatalogInv, NEW c \in Clients, NEW r \in Payloads, Begin(c, r)
    PROVE  CatalogInv'
<1>1. /\ DOMAIN todo = Clients /\ DOMAIN writes = Clients /\ DOMAIN req = Clients
      /\ pc \in [Clients -> PCs] /\ answer \in [Clients -> {"none", "ok", "404", "422", "500"}]
  BY DEF CatalogInv, PerClient, TypeOK
<1>2. Accepted(r)
  BY PayloadsAssumption
<1>3. PICK label \in {"plan", "get", "load"} :
          /\ pc' = [pc EXCEPT ![c] = label]
          /\ label = "plan" <=> r.op \in {"append", "create", "reorder", "update-plan"}
          /\ label = "get" <=> r.op = "update"
          /\ label = "load" <=> r.op \in {"delete", "delete-plan"}
  BY <1>2 DEF Begin, Accepted
<1>4. /\ pc[c] = "idle" /\ pc'[c] = label /\ req'[c] = r /\ DOMAIN req' = Clients
      /\ \A d \in Clients \ {c} : pc'[d] = pc[d] /\ req'[d] = req[d]
      /\ pc' \in [Clients -> PCs]
      /\ rows' = rows /\ ids' = ids /\ todo' = todo /\ writes' = writes
  BY <1>1, <1>3 DEF Begin, dbVars, PCs
<1>5. writes[c] = <<>>
  BY <1>4 DEF CatalogInv, Locks, Writing
<1>6. HoldsNothing(c)
  BY <1>4, <1>5 DEF HoldsNothing
<1>7. Settled(todo[c])'
  BY <1>4 DEF CatalogInv, Detours, Settled
<1>8. Locks' /\ Detours' /\ Entries' /\ Finality'
  BY <1>6, <1>7, WritingNothing
<1>9. TypeOK'
  <2>1. answer' \in [Clients -> {"none", "ok", "404", "422", "500"}]
    BY <1>1 DEF Begin
  <2>2. alone' \in [Clients -> BOOLEAN]
    <3>1. \A d \in Clients : (IF d = c THEN Busy = {} ELSE alone[d] /\ d \notin Busy) \in BOOLEAN
      BY DEF CatalogInv, TypeOK
    <3>2. alone' = [d \in Clients |-> IF d = c THEN Busy = {} ELSE alone[d] /\ d \notin Busy]
      BY DEF Begin
    <3> QED
      BY <3>1, <3>2
  <2>3. requests' \in 0..MaxRequests
    BY BoundsAssumption DEF Begin, CatalogInv, TypeOK
  <2>4. todo'[c] \in Seq(Change) /\ ids' \in 0..MaxSteps
    BY <1>4 DEF CatalogInv, TypeOK
  <2> QED
    BY <1>4, <1>6, <2>1, <2>2, <2>3, <2>4, TypesKept
<1>10. PerClient'
  BY <1>1, <1>4 DEF PerClient
<1>11. \A d \in Clients : Asked(d)'
  <2>1. Asked(c)'
    BY <1>2, <1>3, <1>4 DEF Asked, Accepted
  <2>2. \A d \in Clients \ {c} : Asked(d)'
    BY <1>4 DEF CatalogInv, Asked
  <2> QED
    BY <2>1, <2>2
<1>12. Room'
  <2>1. IsFiniteSet(Inserting) /\ Cardinality(Inserting) \in Nat
    BY ClientsAssumption, FS_Subset, FS_CardinalityType DEF Inserting, Busy
  <2>2. CASE r.op \in {"append", "create"}
    <3>1. Inserting' \subseteq Inserting \cup {c}
      BY <1>4 DEF Inserting, Busy
    <3>2. IsFiniteSet(Inserting \cup {c}) /\ Cardinality(Inserting \cup {c}) <= Cardinality(Inserting) + 1
      <4>1. /\ IsFiniteSet(Inserting \cup {c})
            /\ Cardinality(Inserting \cup {c})
                = IF c \in Inserting THEN Cardinality(Inserting) ELSE Cardinality(Inserting) + 1
        BY <2>1, FS_AddElement, Zenon
      <4> QED
        BY <2>1, <4>1
    <3>3. Cardinality(Inserting') <= Cardinality(Inserting \cup {c})
      BY <3>1, <3>2, FS_Subset
    <3>4. Cardinality(Inserting') \in Nat /\ Cardinality(Inserting \cup {c}) \in Nat
      BY <3>1, <3>2, FS_Subset, FS_CardinalityType
    <3>5. ids + Cardinality(Inserting) < MaxSteps
      BY <2>2 DEF Begin
    <3> QED
      BY <1>4, <2>1, <3>2, <3>3, <3>4, <3>5, RowTypes, BoundsAssumption DEF Room, CatalogInv
  <2>3. CASE r.op \notin {"append", "create"}
    <3>1. Inserting' \subseteq Inserting
      BY <1>4, <2>3 DEF Inserting, Busy
    <3> QED
      BY <1>4, <3>1, RoomKept DEF CatalogInv
  <2> QED
    BY <2>2, <2>3
<1> QED
  BY <1>8, <1>9, <1>10, <1>11, <1>12 DEF CatalogInv

LEMMA FindPlanKeeps ==
    ASSUME CatalogInv, NEW c \in Clients, FindPlan(c)
    PROVE  CatalogInv'
<1>1. pc[c] = "plan" /\ UNCHANGED <<dbVars, alone, requests>>
  BY DEF FindPlan
<1>2. CASE ~planLive
  BY <1>1, <1>2, AnswerKeeps DEF FindPlan
<1>3. CASE planLive
  <2>1. Accepted(req[c]) /\ req[c].op \in {"append", "create", "reorder", "update-plan"}
    BY <1>1 DEF CatalogInv, Asked
  <2>2. PICK label \in {"list", "add", "load"} :
            /\ Go(c, label)
            /\ label = "list" <=> req[c].op = "append"
            /\ label = "add" <=> req[c].op = "create"
    BY <1>3, <2>1 DEF FindPlan
  <2>3. /\ pc' = [pc EXCEPT ![c] = label] /\ pc'[c] = label
        /\ UNCHANGED <<req, todo, writes, answer>>
    BY <2>2 DEF Go, CatalogInv, TypeOK
  <2>4. Asked(c)'
    BY <2>1, <2>2, <2>3 DEF Asked, Accepted
  <2>5. label \in {"list", "add"} => c \in Inserting
    BY <1>1, <2>2 DEF Inserting, Busy
  <2> QED
    BY <1>1, <2>3, <2>4, <2>5, GoKeeps DEF CatalogInv, PerClient
<1> QED
  BY <1>2, <1>3

LEMMA ListStepsKeeps ==
    ASSUME CatalogInv, NEW c \in Clients, ListSteps(c)
    PROVE  CatalogInv'
<1>1. /\ pc[c] = "list" /\ pc' = [pc EXCEPT ![c] = "add"] /\ pc'[c] = "add"
      /\ req' = [req EXCEPT ![c] = [op |-> "append", seq |-> LastSequence + 1]]
      /\ UNCHANGED <<dbVars, todo, writes, answer, alone, requests>>
  BY DEF ListSteps, CatalogInv, TypeOK
<1>2. req[c].op = "append"
  BY <1>1 DEF CatalogInv, Asked
<1>3. /\ req'[c].op = "append" /\ req'[c].seq = LastSequence + 1 /\ DOMAIN req' = Clients
      /\ \A d \in Clients \ {c} : req'[d] = req[d]
  BY <1>1 DEF CatalogInv, PerClient
<1>4. LastSequence + 1 \in Positions
  BY LastSequenceType DEF CatalogInv
<1>5. Asked(c)'
  BY <1>1, <1>3, <1>4 DEF Asked
<1>6. c \in Inserting
  BY <1>1, <1>2 DEF Inserting, Busy
<1> QED
  BY <1>1, <1>2, <1>3, <1>5, <1>6, GoKeeps

LEMMA GetKeeps ==
    ASSUME CatalogInv, NEW c \in Clients, Get(c)
    PROVE  CatalogInv'
<1>1. pc[c] = "get" /\ UNCHANGED <<dbVars, alone, requests>>
  BY DEF Get
<1>2. CASE req[c].id \notin LiveIds
  BY <1>1, <1>2, AnswerKeeps DEF Get
<1>3. CASE req[c].id \in LiveIds
  <2>1. Accepted(req[c]) /\ req[c].op = "update"
    BY <1>1 DEF CatalogInv, Asked
  <2>2. /\ pc' = [pc EXCEPT ![c] = "load"] /\ pc'[c] = "load"
        /\ UNCHANGED <<req, todo, writes, answer>>
    BY <1>3 DEF Get, Go, CatalogInv, TypeOK
  <2>3. Asked(c)'
    BY <2>1, <2>2 DEF Asked, Accepted
  <2> QED
    BY <1>1, <2>2, <2>3, GoKeeps DEF CatalogInv, PerClient
<1> QED
  BY <1>2, <1>3

(* One statement that does not park its step. *)
LEMMA OneStatement ==
    ASSUME TypeOK, NEW w \in Change, w.id \in 0..ids, w.seq = Keep \/ w.seq > 0,
           w.seq = Keep => w.id \in DOMAIN rows
    PROVE  <<w>> \in Seq(Change) /\ Settled(<<w>>)
<1>1. <<w>> \in Seq(Change) /\ DOMAIN <<w>> = {1} /\ <<w>>[1] = w
  OBVIOUS
<1>2. ~(w.seq < 0)
  BY DEF Keep, Change
<1> QED
  BY <1>1, <1>2 DEF Settled

LEMMA LoadKeeps ==
    ASSUME CatalogInv, NEW c \in Clients, Load(c)
    PROVE  CatalogInv'
<1>1. pc[c] = "load" /\ UNCHANGED <<dbVars, alone, requests>>
  BY DEF Load
<1>2. PICK r : r = req[c]
  OBVIOUS
<1>3. Accepted(r) /\ r.op \in {"update", "delete", "reorder", "update-plan", "delete-plan"}
  BY <1>1, <1>2 DEF CatalogInv, Asked
<1>4. /\ LiveIds \subseteq 0..ids /\ Plan \in DOMAIN rows /\ Plan \in 0..ids /\ LiveIds \subseteq DOMAIN rows
      /\ \A i \in LiveIds : i \in Ids /\ rows[i].seq \in Int
  BY RowTypes, LiveIdsFinite, BoundsAssumption DEF CatalogInv, LiveIds, Ids, Row, Plan
<1>5. CASE \E a \in {"404", "422", "500"} : Answer(c, a)
  BY <1>1, <1>5, AnswerKeeps
<1>6. CASE \E w \in Change : /\ w.id \in 0..ids
                             /\ w.seq = Keep \/ w.seq > 0
                             /\ w.seq = Keep => w.id \in DOMAIN rows
                             /\ Write(c, <<w>>)
  <2>1. PICK w \in Change :
            /\ w.id \in 0..ids
            /\ w.seq = Keep \/ w.seq > 0
            /\ w.seq = Keep => w.id \in DOMAIN rows
            /\ Write(c, <<w>>)
    BY <1>6
  <2>2. TypeOK
    BY DEF CatalogInv
  <2>3. <<w>> \in Seq(Change) /\ Settled(<<w>>)
    BY <2>1, <2>2, OneStatement
  <2> QED
    BY <1>1, <2>1, <2>3, WriteKeeps
<1>7. CASE r.op = "update"
  <2>1. CASE r.id \in LiveIds
    <3>1. PICK w : w = [id |-> r.id, live |-> TRUE,
                        seq |-> IF r.seq = rows[r.id].seq THEN Keep ELSE r.seq]
      OBVIOUS
    <3>2. r.seq \in Positions
      BY <1>3, <1>7 DEF Accepted
    <3>3. w \in Change /\ w.id = r.id /\ (w.seq = Keep \/ w.seq > 0)
      <4>1. r.id \in Ids
        BY <1>4, <2>1
      <4>2. r.seq \in Int /\ r.seq > 0
        BY <3>2 DEF Positions
      <4> QED
        BY <3>1, <4>1, <4>2 DEF Change, Keep
    <3>4. Write(c, <<w>>)
      BY <1>2, <1>7, <2>1, <3>1 DEF Load
    <3> QED
      BY <1>4, <1>6, <2>1, <3>3, <3>4
  <2>2. CASE r.id \notin LiveIds
    BY <1>2, <1>5, <1>7, <2>2 DEF Load
  <2> QED
    BY <2>1, <2>2
<1>8. CASE r.op = "delete"
  <2>1. CASE r.id \in LiveIds
    <3>1. PICK w : w = [id |-> r.id, seq |-> Keep, live |-> FALSE]
      OBVIOUS
    <3>2. w \in Change /\ w.id = r.id /\ w.seq = Keep
      <4>1. r.id \in Ids
        BY <1>4, <2>1
      <4> QED
        BY <3>1, <4>1 DEF Change, Keep
    <3>3. Write(c, <<w>>)
      BY <1>2, <1>8, <2>1, <3>1 DEF Load
    <3> QED
      BY <1>4, <1>6, <2>1, <3>2, <3>3
  <2>2. CASE r.id \notin LiveIds
    BY <1>2, <1>5, <1>8, <2>2 DEF Load
  <2> QED
    BY <2>1, <2>2
<1>9. CASE r.op = "reorder"
  <2>1. PICK positions : positions = r.positions
    OBVIOUS
  <2>2. CASE IsPermutation(positions)
    <3>1. PICK D : positions \in [D -> Positions]
      BY <1>3, <1>9, <2>1 DEF Accepted
    <3>0. PICK index \in Listings(DOMAIN positions) : Write(c, Permute(positions, index))
      BY <1>2, <1>9, <2>1, <2>2 DEF Load
    <3>5. Lists(index, DOMAIN positions)
      <4>1. DOMAIN positions = LiveIds /\ IsFiniteSet(LiveIds)
        BY <2>2, LiveIdsFinite DEF IsPermutation, CatalogInv
      <4> QED
        BY <4>1, ListingLists
    <3>2. Permute(positions, index) \in Seq(Change) /\ Settled(Permute(positions, index))
      BY <2>2, <3>1, <3>5, PermuteSettles DEF CatalogInv
    <3>3. PICK changes : changes = Permute(positions, index)
      OBVIOUS
    <3>4. Write(c, changes)
      BY <3>0, <3>3
    <3> QED
      BY <1>1, <3>2, <3>3, <3>4, WriteKeeps
  <2>3. CASE ~IsPermutation(positions)
    BY <1>2, <1>5, <1>9, <2>1, <2>3 DEF Load
  <2> QED
    BY <2>2, <2>3
<1>10. CASE r.op \in {"update-plan", "delete-plan"}
  <2>1. CASE planLive
    <3>1. PICK w : w = [id |-> Plan, seq |-> Keep, live |-> r.op = "update-plan"]
      OBVIOUS
    <3>2. w \in Change /\ w.id = Plan /\ w.seq = Keep
      BY <3>1 DEF Change, Keep
    <3>3. Write(c, <<w>>)
      BY <1>2, <1>10, <2>1, <3>1 DEF Load
    <3> QED
      BY <1>4, <1>6, <3>2, <3>3
  <2>2. CASE ~planLive
    BY <1>2, <1>5, <1>10, <2>2 DEF Load
  <2> QED
    BY <2>1, <2>2
<1> QED
  BY <1>3, <1>7, <1>8, <1>9, <1>10

LEMMA AddKeeps ==
    ASSUME CatalogInv, NEW c \in Clients, Add(c)
    PROVE  CatalogInv'
<1>1. pc[c] = "add" /\ UNCHANGED <<rows, alone, requests>>
  BY DEF Add
<1>2. CASE ~planLive
  BY <1>1, <1>2, AnswerKeeps DEF Add, dbVars
<1>3. CASE planLive
  <2>1. PICK w : w = [id |-> ids + 1, seq |-> req[c].seq, live |-> TRUE]
    OBVIOUS
  <2>2. req[c].op \in {"append", "create"} /\ req[c].seq \in Positions
    BY <1>1 DEF CatalogInv, Asked
  <2>3. /\ DOMAIN todo = Clients /\ DOMAIN writes = Clients /\ DOMAIN req = Clients /\ pc \in [Clients -> PCs]
    BY DEF CatalogInv, PerClient, TypeOK
  <2>4. /\ ids' = ids + 1 /\ rows' = rows /\ pc'[c] = "write" /\ todo'[c] = <<w>> /\ DOMAIN todo' = Clients
        /\ \A d \in Clients \ {c} : pc'[d] = pc[d] /\ todo'[d] = todo[d]
        /\ pc' \in [Clients -> PCs]
        /\ req' = req /\ writes' = writes /\ answer' = answer /\ alone' = alone /\ requests' = requests
    BY <1>1, <1>3, <2>1, <2>3 DEF Add, PCs
  <2>5. writes[c] = <<>>
    BY <1>1 DEF CatalogInv, Locks, Writing
  <2>6. HoldsNothing(c)
    BY <2>4, <2>5 DEF HoldsNothing
  <2>7. c \in Inserting /\ Inserting' = Inserting \ {c}
    BY <1>1, <2>2, <2>4 DEF Inserting, Busy
  <2>8. /\ IsFiniteSet(Inserting) /\ Cardinality(Inserting) \in Nat
        /\ Cardinality(Inserting') = Cardinality(Inserting) - 1 /\ Cardinality(Inserting') \in Nat
    <3>1. IsFiniteSet(Inserting)
      BY ClientsAssumption, FS_Subset DEF Inserting, Busy
    <3>2. /\ IsFiniteSet(Inserting \ {c})
          /\ Cardinality(Inserting \ {c})
              = IF c \in Inserting THEN Cardinality(Inserting) - 1 ELSE Cardinality(Inserting)
      BY <3>1, FS_RemoveElement, Zenon
    <3>3. Cardinality(Inserting) \in Nat /\ Cardinality(Inserting \ {c}) \in Nat
      BY <3>1, <3>2, FS_CardinalityType
    <3> QED
      BY <2>7, <3>1, <3>2, <3>3
  <2>9. ids \in Nat /\ ids + 1 \in 0..MaxSteps /\ Room'
    BY <2>4, <2>8, RowTypes, BoundsAssumption DEF CatalogInv, Room
  <2>10. w \in Change /\ w.id = ids' /\ w.seq > 0 /\ w.seq # Keep
    BY <2>1, <2>2, <2>4, <2>9, BoundsAssumption DEF Change, Ids, Positions, Keep
  <2>11. Settled(todo[c])' /\ todo'[c] \in Seq(Change)
    <3>1. <<w>> \in Seq(Change) /\ DOMAIN <<w>> = {1} /\ <<w>>[1] = w
      BY <2>10
    <3>2. ~(w.seq < 0) /\ ids' \in 0..ids'
      BY <2>4, <2>9, <2>10 DEF Change
    <3> QED
      BY <2>4, <2>10, <3>1, <3>2 DEF Settled, Keep
  <2>12. Locks' /\ Detours' /\ Entries' /\ Finality'
    BY <2>6, <2>11, WritingNothing
  <2>13. TypeOK'
    <3>1. /\ alone' \in [Clients -> BOOLEAN] /\ requests' \in 0..MaxRequests
          /\ answer' \in [Clients -> {"none", "ok", "404", "422", "500"}]
      BY <2>4 DEF CatalogInv, TypeOK
    <3> QED
      BY <2>4, <2>6, <2>9, <2>11, <3>1, TypesKept
  <2>14. PerClient'
    BY <2>3, <2>4 DEF PerClient
  <2>15. \A d \in Clients : Asked(d)'
    BY <2>4 DEF CatalogInv, Asked
  <2> QED
    BY <2>9, <2>12, <2>13, <2>14, <2>15 DEF CatalogInv
<1> QED
  BY <1>2, <1>3

-----------------------------------------------------------------------------
LEMMA InitIsCatalog ==
    ASSUME Init
    PROVE  CatalogInv
<1>1. PICK rs \in InitialRows :
          /\ rows = Over([i \in {Plan} |-> [seq |-> Keep, live |-> TRUE]], rs)
          /\ ids = Cardinality(DOMAIN rs)
  BY DEF Init
<1>2. PICK n \in 0..MaxSteps : rs \in [1..n -> Row]
  BY InitialRowsAssumption
<1>3. IsPlan(rs)
  BY InitialRowsAssumption
<1>4. n \in Nat /\ ids = n /\ DOMAIN rs = 1..n
  BY <1>1, <1>2, BoundsAssumption, FS_Interval
<1>5. /\ rows = [i \in DOMAIN rows |-> rows[i]]
      /\ DOMAIN rows = {Plan} \cup 1..n
      /\ rows[Plan] = [seq |-> Keep, live |-> TRUE]
      /\ \A i \in DOMAIN rows \ {Plan} : i \in DOMAIN rs /\ rows[i] = rs[i]
  <2>1. PICK new : new = [i \in {Plan} |-> [seq |-> Keep, live |-> TRUE]]
    OBVIOUS
  <2>2. DOMAIN new = {Plan} /\ new[Plan] = [seq |-> Keep, live |-> TRUE]
    BY <2>1
  <2>3. rows = Over(new, rs)
    BY <1>1, <2>1
  <2>4. rows = [i \in DOMAIN rows |-> rows[i]]
    BY <2>3, OverIsFunction, Zenon
  <2>5. /\ DOMAIN rows = DOMAIN new \cup DOMAIN rs
        /\ \A i \in DOMAIN new : rows[i] = new[i]
        /\ \A i \in DOMAIN rs \ DOMAIN new : rows[i] = rs[i]
    <3>1. /\ DOMAIN Over(new, rs) = DOMAIN new \cup DOMAIN rs
          /\ \A i \in DOMAIN new : Over(new, rs)[i] = new[i]
          /\ \A i \in DOMAIN rs \ DOMAIN new : Over(new, rs)[i] = rs[i]
      BY OverType, Zenon
    <3> QED
      BY <2>3, <3>1
  <2>6. DOMAIN rows = {Plan} \cup 1..n /\ rows[Plan] = [seq |-> Keep, live |-> TRUE]
    BY <1>4, <2>2, <2>5
  <2>7. \A i \in DOMAIN rows \ {Plan} : i \in DOMAIN rs /\ rows[i] = rs[i]
    BY <2>2, <2>5
  <2> QED
    BY <2>4, <2>6, <2>7, Zenon
<1>6. /\ req = [c \in Clients |-> NoRequest] /\ pc = [c \in Clients |-> "idle"]
      /\ todo = [c \in Clients |-> <<>>] /\ writes = [c \in Clients |-> <<>>]
      /\ answer = [c \in Clients |-> "none"] /\ alone = [c \in Clients |-> TRUE] /\ requests = 0
  BY DEF Init
<1>7. \A c \in Clients : /\ pc[c] = "idle" /\ todo[c] = <<>> /\ writes[c] = <<>>
                         /\ DOMAIN todo[c] = {} /\ DOMAIN writes[c] = {} /\ Indexed(c) = {}
  BY <1>6, EmptyDomain DEF Indexed
<1>8. TypeOK
  <2>1. DOMAIN rows \subseteq 0..n /\ Plan \in DOMAIN rows
    BY <1>4, <1>5 DEF Plan
  <2>2. \A i \in DOMAIN rows : rows[i] \in Row
    <3>1. rows[Plan] \in Row
      BY <1>5 DEF Row, Keep
    <3>2. \A i \in DOMAIN rows \ {Plan} : rows[i] \in Row
      BY <1>2, <1>5
    <3> QED
      BY <3>1, <3>2
  <2>3. \E S \in SUBSET (1..n) : rows \in [S \cup {Plan} -> Row]
    <3>1. PICK r : r = rows
      OBVIOUS
    <3>2. r = [i \in DOMAIN r |-> r[i]]
      BY <1>5, <3>1, Zenon
    <3>3. DOMAIN r \subseteq 0..n /\ Plan \in DOMAIN r /\ \A i \in DOMAIN r : r[i] \in Row
      BY <2>1, <2>2, <3>1
    <3>4. \E S \in SUBSET (1..n) : r \in [S \cup {Plan} -> Row]
      BY <1>4, <3>2, <3>3, RowsAreTyped
    <3> QED
      BY <3>1, <3>4
  <2>4. ASSUME NEW c \in Clients
        PROVE  todo[c] \in Seq(Change) /\ \E S \in SUBSET (0..ids) : writes[c] \in [S -> Row]
    <3>1. <<>> \in [{} -> Row] /\ {} \in SUBSET (0..ids) /\ <<>> \in Seq(Change)
      OBVIOUS
    <3> QED
      BY <1>7, <3>1
  <2>5. pc \in [Clients -> PCs] /\ \A c \in Clients : pc[c] # "index"
    BY <1>6 DEF PCs
  <2>6. /\ answer \in [Clients -> {"none", "ok", "404", "422", "500"}]
        /\ alone \in [Clients -> BOOLEAN] /\ requests \in 0..MaxRequests /\ ids \in 0..MaxSteps
    BY <1>2, <1>4, <1>6, BoundsAssumption
  <2> QED
    BY <1>4, <2>3, <2>4, <2>5, <2>6 DEF TypeOK
<1>9. PerClient
  BY <1>6 DEF PerClient
<1>10. Locks /\ (\A c \in Clients : Asked(c)) /\ Detours /\ Finality
  BY <1>7 DEF Locks, Asked, Detours, Finality, Writing, Settled, Positioned
<1>11. Entries
  BY <1>3, <1>5, <1>7 DEF Entries, IsPlan, LiveDistinct
<1>12. Room
  <2>1. Inserting = {}
    BY <1>7 DEF Inserting, Busy
  <2> QED
    BY <1>2, <1>4, <2>1, BoundsAssumption, FS_EmptySet DEF Room
<1> QED
  BY <1>8, <1>9, <1>10, <1>11, <1>12 DEF CatalogInv

LEMMA NextKeepsCatalog ==
    ASSUME CatalogInv, [Next]_vars
    PROVE  CatalogInv'
<1>1. ASSUME NEW c \in Clients, NEW r \in Payloads, Begin(c, r) PROVE CatalogInv'
  BY <1>1, BeginKeeps
<1>2. ASSUME NEW c \in Clients, Advance(c) PROVE CatalogInv'
  <2>1. CASE FindPlan(c)   BY <2>1, FindPlanKeeps
  <2>2. CASE ListSteps(c)  BY <2>2, ListStepsKeeps
  <2>3. CASE Add(c)        BY <2>3, AddKeeps
  <2>4. CASE Get(c)        BY <2>4, GetKeeps
  <2>5. CASE Load(c)       BY <2>5, LoadKeeps
  <2>6. CASE LockRow(c)    BY <2>6, LockRowKeeps
  <2>7. CASE EnterIndex(c) BY <2>7, EnterIndexKeeps
  <2>8. CASE Violate(c)
    BY <2>8, AnswerKeeps DEF Violate
  <2>9. CASE Commit(c)     BY <2>9, CommitKeeps
  <2>10. CASE AbortDeadlock(c)
    BY <2>10, AnswerKeeps DEF AbortDeadlock
  <2> QED
    BY <1>2, <2>1, <2>2, <2>3, <2>4, <2>5, <2>6, <2>7, <2>8, <2>9, <2>10 DEF Advance
<1>3. CASE UNCHANGED vars
  <2>1. /\ rows' = rows /\ ids' = ids /\ req' = req /\ pc' = pc /\ todo' = todo
        /\ writes' = writes /\ answer' = answer /\ alone' = alone /\ requests' = requests
    BY <1>3 DEF vars, dbVars
  <2>2. TypeOK' /\ PerClient'
    BY <2>1 DEF CatalogInv, TypeOK, PerClient, Pending
  <2>3. Locks' /\ \A c \in Clients : Asked(c)'
    BY <2>1 DEF CatalogInv, Locks, Asked, Writing
  <2>4. Detours'
    BY <2>1 DEF CatalogInv, Detours, Settled, Positioned
  <2>5. Entries' /\ Finality' /\ Room'
    BY <2>1 DEF CatalogInv, Entries, Finality, Room, Indexed, Pending, Inserting, Busy
  <2> QED
    BY <2>2, <2>3, <2>4, <2>5 DEF CatalogInv
<1> QED
  BY <1>1, <1>2, <1>3 DEF Next

(* The invariant, whatever the clients ask for and whoever waits for whom.  *)
THEOREM CatalogInvIsInductive == Spec => []CatalogInv
<1>1. Init => CatalogInv
  BY InitIsCatalog
<1>2. CatalogInv /\ [Next]_vars => CatalogInv'
  BY NextKeepsCatalog
<1> QED
  BY <1>1, <1>2, PTL DEF Spec

(* No statement, answer or commit leaves the types; in particular no        *)
(* behaviour needs more rows than Begin has made room for.                  *)
THEOREM CatalogTypeCorrect == Spec => []TypeOK
<1>1. CatalogInv => TypeOK
  BY DEF CatalogInv
<1> QED
  BY <1>1, CatalogInvIsInductive, PTL

LEMMA StepsArePlan ==
    ASSUME CatalogInv, NEW rs, rs = StepsOf(rows)
    PROVE  /\ DOMAIN rs = DOMAIN rows \ {Plan} /\ rs \in [DOMAIN rs -> Row]
           /\ \A i \in DOMAIN rs : rs[i] = rows[i]
           /\ IsPlan(rs)
<1>1. DOMAIN rs = DOMAIN rows \ {Plan} /\ \A i \in DOMAIN rs : rs[i] = rows[i]
  BY DEF StepsOf
<1>2. rs \in [DOMAIN rs -> Row]
  BY RowTypes DEF StepsOf, CatalogInv
<1>3. IsPlan(rs)
  BY <1>1 DEF CatalogInv, Entries, IsPlan, LiveDistinct
<1> QED
  BY <1>1, <1>2, <1>3

(* Every committed state is a plan: positive and distinct live positions.   *)
THEOREM SequencesCorrect == Spec => []SequencesAreUnique
<1>1. CatalogInv => SequencesAreUnique
  BY StepsArePlan DEF SequencesAreUnique
<1> QED
  BY <1>1, CatalogInvIsInductive, PTL

(* No update that read a row before its deletion brings it back.            *)
THEOREM DeletionsCorrect == Spec => DeletionsAreFinal
<1>1. CatalogInv /\ [Next]_vars => [\A i \in DOMAIN rows : ~rows[i].live => ~rows'[i].live]_vars
  <2> SUFFICES ASSUME CatalogInv, [Next]_vars, NEW i \in DOMAIN rows, ~rows[i].live
               PROVE  ~rows'[i].live
    OBVIOUS
  <2>1. ASSUME NEW c \in Clients, Commit(c) PROVE ~rows'[i].live
    <3>1. rows' = Over(writes[c], rows)
      BY <2>1 DEF Commit
    <3>2. /\ \A k \in DOMAIN writes[c] : rows'[k] = writes[c][k]
          /\ \A k \in DOMAIN rows \ DOMAIN writes[c] : rows'[k] = rows[k]
      <4>1. /\ \A k \in DOMAIN writes[c] : Over(writes[c], rows)[k] = writes[c][k]
            /\ \A k \in DOMAIN rows \ DOMAIN writes[c] : Over(writes[c], rows)[k] = rows[k]
        BY OverType, Zenon
      <4> QED
        BY <3>1, <4>1
    <3> QED
      BY <3>2 DEF CatalogInv, Finality
  <2>2. (\E c \in Clients : Commit(c)) \/ rows' = rows
    BY DEF Next, Advance, Begin, FindPlan, ListSteps, Add, Get, Load, LockRow, EnterIndex,
           Violate, AbortDeadlock, dbVars, vars
  <2> QED
    BY <2>1, <2>2
<1> QED
  BY <1>1, CatalogInvIsInductive, PTL DEF Spec, DeletionsAreFinal

(* In whatever state of the plan the migration is undone, the constraint it *)
(* restores holds and no live step moves.                                   *)
THEOREM DowngradeCorrect == Spec => []DowngradeSucceeds
<1>1. ASSUME CatalogInv PROVE DowngradeSucceeds
  <2>1. PICK rs : rs = StepsOf(rows)
    OBVIOUS
  <2>2. /\ DOMAIN rs = DOMAIN rows \ {Plan} /\ rs \in [DOMAIN rs -> Row]
        /\ \A i \in DOMAIN rs : rs[i] = rows[i]
        /\ LiveDistinct(rs) /\ \A i \in DOMAIN rs : rs[i].live => rs[i].seq > 0
    BY <1>1, <2>1, StepsArePlan DEF IsPlan
  <2>3. IsFiniteSet(DOMAIN rs)
    <3>1. DOMAIN rs \in SUBSET (0..ids) /\ IsFiniteSet(0..ids)
      BY <1>1, <2>2, RowTypes, FS_Interval DEF CatalogInv
    <3> QED
      BY <3>1, FS_Subset
  <2> DEFINE L == DOMAIN rs \ DeletedIds(rs)
             f == [i \in L |-> rs[i].seq]
  <2>4. IsFiniteSet(L) /\ Cardinality(DeletedIds(rs)) \in Nat
    BY <2>3, FS_Subset, FS_CardinalityType DEF DeletedIds
  <2>5. \A i \in L : rs[i].seq \in Nat
    BY <2>2 DEF DeletedIds, Row
  <2>6. f \in [L -> Nat]
    BY <2>5
  <2>7. \E m \in {0} \cup {f[i] : i \in L} : m \in Nat /\ \A i \in L : f[i] <= m
    BY <2>4, <2>6, LargestPosition
  <2>8. \E m \in {0} \cup {rs[i].seq : i \in L} : Bounds(rs, m)
    BY <2>7 DEF Bounds, DeletedIds
  <2>9. ActiveMax(rs) \in {0} \cup {rs[i].seq : i \in L} /\ Bounds(rs, ActiveMax(rs))
    BY <2>8 DEF ActiveMax
  <2>10. ActiveMax(rs) \in Nat
    BY <2>5, <2>9
  <2>11. ASSUME NEW position \in Orders(DeletedIds(rs))
         PROVE  /\ AllDistinct(Downgraded(rs, position))
                /\ \A i \in LiveIds : Downgraded(rs, position)[i] = rs[i]
    <3>1. rs \in [DOMAIN rs -> [seq : Int, live : BOOLEAN]]
      BY <2>2 DEF Row
    <3>2. AllDistinct(Downgraded(rs, position))
      BY <2>2, <2>4, <2>9, <2>10, <3>1, RenumberedIsDistinct DEF Downgraded
    <3>3. \A i \in LiveIds : i \in DOMAIN rs /\ rs[i].live
      BY <2>2 DEF LiveIds
    <3> QED
      BY <3>1, <3>2, <3>3, RenumberedKeepsLiveSteps DEF Downgraded
  <2> QED
    BY <2>1, <2>11 DEF DowngradeSucceeds
<1> QED
  BY <1>1, CatalogInvIsInductive, PTL

-----------------------------------------------------------------------------
(* What a transaction still has to do, and what it has done. *)

(* The statements a reorder has left: it parks steps in the order of their  *)
(* ids before it places any, and places each that it parks.                 *)
Parks(positions, index, stmts) ==
    /\ \A k \in DOMAIN stmts :
          /\ stmts[k].id \in DOMAIN positions /\ stmts[k].live
          /\ stmts[k].seq \in {-index[stmts[k].id], positions[stmts[k].id]}
          /\ stmts[k].seq < 0 =>
                \E l \in DOMAIN stmts :
                    l > k /\ stmts[l].id = stmts[k].id /\ stmts[l].seq = positions[stmts[k].id]
    /\ \A k, l \in DOMAIN stmts :
          k < l /\ stmts[l].seq < 0 => stmts[k].seq < 0 /\ stmts[k].id < stmts[l].id

(* A step it has not locked is still to be parked. *)
Covers(positions, index, stmts, ws) ==
    /\ DOMAIN ws \subseteq DOMAIN positions
    /\ \A i \in DOMAIN positions \ DOMAIN ws :
          \E k \in DOMAIN stmts : stmts[k].id = i /\ stmts[k].seq = -index[i]

(* A step it has locked is placed, or still to be; it has a smaller id than *)
(* the steps still to be parked.                                            *)
Placing(positions, index, stmts, ws, label) ==
    /\ \A i \in DOMAIN ws :
          /\ ws[i].seq \in {-index[i], positions[i]}
          /\ ws[i].seq # positions[i] =>
                \E l \in DOMAIN stmts :
                    /\ label = "index" => l > 1
                    /\ stmts[l].id = i /\ stmts[l].seq = positions[i]
          /\ \A l \in DOMAIN stmts :
                stmts[l].seq < 0 => i < stmts[l].id \/ (label = "index" /\ l = 1 /\ i = stmts[l].id)
    /\ label = "index" =>
          stmts # <<>> /\ stmts[1].id \in DOMAIN ws /\ ws[stmts[1].id].seq = stmts[1].seq

ReorderingBy(positions, index, stmts, ws, label) ==
    /\ Lists(index, DOMAIN positions)
    /\ Parks(positions, index, stmts)
    /\ Covers(positions, index, stmts, ws)
    /\ Placing(positions, index, stmts, ws, label)

Reordering(positions, stmts, ws, label) ==
    \E index : ReorderingBy(positions, index, stmts, ws, label)

(* Any other request writes one row. *)
OneRow(op, stmts, ws, label) ==
    /\ Len(stmts) <= 1
    /\ label = "write" /\ stmts # <<>> => DOMAIN ws = {}
    /\ label = "index" =>
          /\ stmts # <<>> /\ DOMAIN ws = {stmts[1].id}
          /\ ws[stmts[1].id].live => stmts[1].live
          /\ stmts[1].seq # Keep => ws[stmts[1].id].seq = stmts[1].seq
    /\ stmts # <<>> =>
          /\ op \in {"delete", "delete-plan"} => ~stmts[1].live
          /\ op \in {"append", "create"} => stmts[1].seq # Keep
          /\ op \in {"update-plan", "delete-plan"} <=> stmts[1].id = Plan
          /\ stmts[1].id = Plan => stmts[1].seq = Keep

Reorders(c) == Writing(c) /\ req[c].op = "reorder"

Inserts(c) == Writing(c) /\ req[c].op \in {"append", "create"}

Touched(c) == {todo[c][k].id : k \in DOMAIN todo[c]} \cup DOMAIN writes[c]

Numbered(positions) ==
    /\ positions \in [DOMAIN positions -> Positions]
    /\ Range(positions) = 1..Cardinality(DOMAIN positions)

(* The work of a request; it inserts a row of its own, or changes rows.     *)
Works(c) ==
    /\ Reorders(c) =>
          /\ Numbered(req[c].positions)
          /\ DOMAIN req[c].positions \subseteq DOMAIN rows \ {Plan}
          /\ Reordering(req[c].positions, todo[c], writes[c], pc[c])
    /\ Writing(c) /\ ~Reorders(c) =>
          /\ req[c].op \in {"append", "create", "update", "delete", "update-plan", "delete-plan"}
          /\ OneRow(req[c].op, todo[c], writes[c], pc[c])
    /\ Inserts(c) => Touched(c) \subseteq (1..ids) \ DOMAIN rows
    /\ Writing(c) /\ ~Inserts(c) => Touched(c) \subseteq DOMAIN rows

(* No two insert the same row. *)
OwnRows ==
    \A c, d \in Clients : Inserts(c) /\ Inserts(d) /\ c # d => Touched(c) \cap Touched(d) = {}

(* A statement that leaves the position alone leaves the one committed. *)
Kept(c) ==
    /\ Plan \in DOMAIN writes[c] => writes[c][Plan].seq = Keep
    /\ pc[c] = "index" /\ Pending(c).seq = Keep =>
          /\ writes[c][Pending(c).id].seq = rows[Pending(c).id].seq
          /\ writes[c][Pending(c).id].live => rows[Pending(c).id].live

(* A request that has the plan to itself finds it as it read it. *)
Undisturbed(c) ==
    /\ Busy = {c}
    /\ pc[c] \in {"list", "add"} \/ (pc[c] = "load" /\ req[c].op = "update-plan") => planLive
    /\ pc[c] = "add" /\ req[c].op = "append" => \A i \in LiveIds : rows[i].seq < req[c].seq
    /\ Writing(c) /\ req[c].op = "append" =>
          \A i \in LiveIds, k \in DOMAIN todo[c] : rows[i].seq < todo[c][k].seq
    /\ Reorders(c) => DOMAIN req[c].positions = LiveIds /\ \A i \in DOMAIN writes[c] : writes[c][i].live

Working ==
    /\ \A c \in Clients : Works(c) /\ Kept(c)
    /\ OwnRows
    /\ rows[Plan].seq = Keep

WorkInv == Working /\ \A c \in Clients : alone[c] /\ c \in Busy => Undisturbed(c)

-----------------------------------------------------------------------------
(* A statement of a reorder: its row is locked, ... *)
LEMMA ReorderingLocks ==
    ASSUME NEW P, P \in [DOMAIN P -> Positions], DOMAIN P \subseteq Nat \ {0},
           NEW stmts \in Seq(Change), stmts # <<>>,
           NEW ws, Reordering(P, stmts, ws, "write"),
           NEW ws2, DOMAIN ws2 = DOMAIN ws \cup {stmts[1].id}, ws2[stmts[1].id].seq = stmts[1].seq,
           \A i \in DOMAIN ws \ {stmts[1].id} : ws2[i] = ws[i]
    PROVE  Reordering(P, stmts, ws2, "index")
<1>0. PICK w : w = stmts[1]
  OBVIOUS
<1>a. PICK index : ReorderingBy(P, index, stmts, ws, "write")
  BY DEF Reordering
<1>b. Lists(index, DOMAIN P)
  BY <1>a DEF ReorderingBy
<1>1. 1 \in DOMAIN stmts /\ DOMAIN stmts \subseteq Nat \ {0} /\ w \in Change
  BY <1>0
<1>2. w.id \in DOMAIN P /\ w.seq \in {-index[w.id], P[w.id]}
  BY <1>0, <1>1, <1>a DEF ReorderingBy, Parks
<1>3. Parks(P, index, stmts)
  BY <1>a DEF ReorderingBy
<1>4. Covers(P, index, stmts, ws2)
  BY <1>0, <1>2, <1>a DEF ReorderingBy, Covers
<1>5. ASSUME NEW i \in DOMAIN ws2, i # w.id
      PROVE  /\ ws2[i].seq \in {-index[i], P[i]}
             /\ ws2[i].seq # P[i] =>
                    \E l \in DOMAIN stmts : l > 1 /\ stmts[l].id = i /\ stmts[l].seq = P[i]
             /\ \A l \in DOMAIN stmts : stmts[l].seq < 0 => i < stmts[l].id
  <2>1. i \in DOMAIN ws /\ ws2[i] = ws[i]
    BY <1>0, <1>5
  <2>2. ws2[i].seq # P[i] =>
            \E l \in DOMAIN stmts : l > 1 /\ stmts[l].id = i /\ stmts[l].seq = P[i]
    BY <1>0, <1>1, <1>5, <1>a, <2>1 DEF ReorderingBy, Placing
  <2> QED
    BY <1>a, <2>1, <2>2 DEF ReorderingBy, Placing
<1>6. /\ ws2[w.id].seq \in {-index[w.id], P[w.id]}
      /\ ws2[w.id].seq # P[w.id] =>
             \E l \in DOMAIN stmts : l > 1 /\ stmts[l].id = w.id /\ stmts[l].seq = P[w.id]
      /\ \A l \in DOMAIN stmts : stmts[l].seq < 0 /\ l # 1 => w.id < stmts[l].id
  <2>1. ASSUME w.seq # P[w.id]
        PROVE  \E l \in DOMAIN stmts : l > 1 /\ stmts[l].id = w.id /\ stmts[l].seq = P[w.id]
    <3>1. w.seq < 0
      BY <1>2, <1>b, <2>1 DEF Lists, Positions
    <3> QED
      BY <1>0, <1>1, <1>a, <3>1 DEF ReorderingBy, Parks
  <2>2. \A l \in DOMAIN stmts : stmts[l].seq < 0 /\ l # 1 => w.id < stmts[l].id
    <3>1. \A l \in DOMAIN stmts : l # 1 => 1 < l
      BY <1>1
    <3> QED
      BY <1>0, <1>1, <1>3, <3>1 DEF Parks
  <2> QED
    BY <1>0, <1>2, <2>1, <2>2
<1>7. Placing(P, index, stmts, ws2, "index")
  BY <1>0, <1>1, <1>5, <1>6 DEF Placing
<1> QED
  BY <1>3, <1>4, <1>7, <1>b DEF Reordering, ReorderingBy

(* ... and its position enters the index. *)
LEMMA ReorderingEnters ==
    ASSUME NEW P, DOMAIN P \subseteq Nat \ {0},
           NEW stmts \in Seq(Change), NEW ws, Reordering(P, stmts, ws, "index")
    PROVE  Reordering(P, Tail(stmts), ws, "write")
<1> DEFINE rest == Tail(stmts)
<1>a. PICK index : ReorderingBy(P, index, stmts, ws, "index")
  BY DEF Reordering
<1>1. stmts # <<>> /\ stmts[1].id \in DOMAIN ws
  BY <1>a DEF ReorderingBy, Placing
<1>2. /\ \A k \in DOMAIN rest : k + 1 \in DOMAIN stmts /\ rest[k] = stmts[k + 1] /\ k \in Nat \ {0}
      /\ \A k \in DOMAIN stmts : k > 1 => k - 1 \in DOMAIN rest /\ rest[k - 1] = stmts[k]
      /\ DOMAIN stmts \subseteq Nat \ {0}
  BY <1>1
<1> HIDE DEF rest
<1>3. Parks(P, index, rest)
  <2>1. ASSUME NEW k \in DOMAIN rest
        PROVE  /\ rest[k].id \in DOMAIN P /\ rest[k].live
               /\ rest[k].seq \in {-index[rest[k].id], P[rest[k].id]}
    BY <1>2, <1>a DEF ReorderingBy, Parks
  <2>2. ASSUME NEW k \in DOMAIN rest, rest[k].seq < 0
        PROVE  \E l \in DOMAIN rest : l > k /\ rest[l].id = rest[k].id /\ rest[l].seq = P[rest[k].id]
    <3>1. PICK l \in DOMAIN stmts :
              l > k + 1 /\ stmts[l].id = rest[k].id /\ stmts[l].seq = P[rest[k].id]
      BY <1>2, <1>a, <2>2 DEF ReorderingBy, Parks
    <3>2. l - 1 \in DOMAIN rest /\ rest[l - 1] = stmts[l] /\ l - 1 > k
      BY <1>2, <3>1
    <3> QED
      BY <3>1, <3>2
  <2>3. ASSUME NEW k \in DOMAIN rest, NEW l \in DOMAIN rest, k < l, rest[l].seq < 0
        PROVE  rest[k].seq < 0 /\ rest[k].id < rest[l].id
    <3>1. k + 1 < l + 1
      BY <1>2, <2>3
    <3> QED
      BY <1>2, <1>a, <2>3, <3>1 DEF ReorderingBy, Parks
  <2> QED
    BY <2>1, <2>2, <2>3 DEF Parks
<1>4. Covers(P, index, rest, ws)
  <2>1. ASSUME NEW i \in DOMAIN P \ DOMAIN ws
        PROVE  \E k \in DOMAIN rest : rest[k].id = i /\ rest[k].seq = -index[i]
    <3>1. PICK k \in DOMAIN stmts : stmts[k].id = i /\ stmts[k].seq = -index[i]
      BY <1>a DEF ReorderingBy, Covers
    <3>2. k > 1
      BY <1>1, <1>2, <3>1
    <3> QED
      BY <1>2, <3>1, <3>2
  <2> QED
    BY <1>a, <2>1 DEF ReorderingBy, Covers
<1>5. Placing(P, index, rest, ws, "write")
  <2>1. ASSUME NEW i \in DOMAIN ws, ws[i].seq # P[i]
        PROVE  \E l \in DOMAIN rest : rest[l].id = i /\ rest[l].seq = P[i]
    <3>1. PICK l \in DOMAIN stmts : l > 1 /\ stmts[l].id = i /\ stmts[l].seq = P[i]
      BY <1>a, <2>1 DEF ReorderingBy, Placing
    <3> QED
      BY <1>2, <3>1
  <2>2. ASSUME NEW i \in DOMAIN ws, NEW l \in DOMAIN rest, rest[l].seq < 0
        PROVE  i < rest[l].id
    <3>1. l + 1 # 1
      BY <1>2
    <3> QED
      BY <1>2, <1>a, <2>2, <3>1 DEF ReorderingBy, Placing
  <2>3. \A i \in DOMAIN ws : ws[i].seq \in {-index[i], P[i]}
    BY <1>a DEF ReorderingBy, Placing
  <2> QED
    BY <2>1, <2>2, <2>3 DEF Placing
<1>6. rest = Tail(stmts)
  BY DEF rest
<1> QED
  BY <1>3, <1>4, <1>5, <1>6, <1>a DEF Reordering, ReorderingBy

(* A flush goes through the rows in the order of their ids. *)
LEMMA FlushIsSorted ==
    ASSUME NEW S \in SUBSET Nat, IsFiniteSet(S),
           NEW f \in [S -> Change], \A i \in S : f[i].id = i,
           NEW changes, \A i \in S : f[i] \in changes, \A w \in changes : \E i \in S : w = f[i],
           NEW stmts, stmts = InOrder(changes)
    PROVE  /\ stmts \in [1..Cardinality(S) -> Change]
           /\ \A n \in 1..Cardinality(S) : stmts[n].id \in S /\ stmts[n] = f[stmts[n].id]
           /\ \A i \in S : \E n \in 1..Cardinality(S) : stmts[n] = f[i]
           /\ \A m, n \in 1..Cardinality(S) : m < n => stmts[m].id < stmts[n].id
<1> DEFINE N == 1..Cardinality(S)
<1>1. {w.id : w \in changes} = S
  <2>1. ASSUME NEW w \in changes PROVE w.id \in S
    OBVIOUS
  <2>2. ASSUME NEW i \in S PROVE f[i] \in changes /\ f[i].id = i
    OBVIOUS
  <2> QED
    BY <2>1, <2>2
<1>0. stmts = InOrder({f[i] : i \in S})
  <2>1. changes = {f[i] : i \in S}
    OBVIOUS
  <2> QED
    BY <2>1
<1>2. \A n \in N : stmts[n].id \in S /\ stmts[n] = f[stmts[n].id]
  BY <1>0, InOrderLists
<1>3. ASSUME NEW n \in N PROVE Rank(S, stmts[n].id) = n
  <2>1. \E w \in changes : Rank(S, w.id) = n
    BY RankIsPosition
  <2>3. n \in 1..Cardinality({w.id : w \in changes}) /\ \E w \in changes : Rank({v.id : v \in changes}, w.id) = n
    BY <1>1, <2>1
  <2>4. Rank({v.id : v \in changes}, InOrder(changes)[n].id) = n
    BY <2>3, InOrderPicks
  <2> QED
    BY <1>1, <2>4
<1>4. stmts \in [N -> Change]
  BY <1>0, InOrderLists
<1> HIDE DEF N
<1>5. ASSUME NEW i \in S PROVE \E n \in N : stmts[n] = f[i]
  <2>1. Rank(S, i) \in N
    BY RankIsPosition DEF N
  <2>2. PICK j \in S : stmts[Rank(S, i)] = f[j] /\ Rank(S, j) = Rank(S, i)
    BY <1>2, <1>3, <2>1
  <2>3. i = j
    BY <2>2, RankIsPosition
  <2> QED
    BY <2>1, <2>2, <2>3
<1>6. ASSUME NEW m \in N, NEW n \in N, m < n PROVE stmts[m].id < stmts[n].id
  <2>1. PICK a, b : a = stmts[m].id /\ b = stmts[n].id
    OBVIOUS
  <2>2. a \in S /\ b \in S /\ Rank(S, a) = m /\ Rank(S, b) = n
    BY <1>2, <1>3, <2>1
  <2>3. ~(b <= a)
    <3> SUFFICES ASSUME b <= a PROVE FALSE
      OBVIOUS
    <3>1. ASSUME NEW j \in S, j <= b PROVE j <= a
      <4>1. j \in Int /\ a \in Int /\ b \in Int
        BY <2>2
      <4> QED
        BY <3>1, <4>1
    <3>2. {j \in S : j <= b} \subseteq {j \in S : j <= a} /\ {j \in S : j <= a} \subseteq S
      BY <3>1
    <3>3. IsFiniteSet({j \in S : j <= a})
      BY FS_Subset
    <3>4. Cardinality({j \in S : j <= b}) <= Cardinality({j \in S : j <= a})
      BY <3>2, <3>3, FS_Subset
    <3>5. n <= m
      BY <2>2, <3>4 DEF Rank
    <3>6. m \in Int /\ n \in Int
      BY DEF N
    <3> QED
      BY <1>6, <3>5, <3>6
  <2>4. a \in Int /\ b \in Int
    BY <2>2
  <2> QED
    BY <2>1, <2>3, <2>4
<1> QED
  BY <1>2, <1>4, <1>5, <1>6 DEF N

(* The plan of a reorder. *)
LEMMA PermuteBegins ==
    ASSUME NEW P, P \in [DOMAIN P -> Positions], DOMAIN P \subseteq Ids, NEW ws, DOMAIN ws = {},
           NEW index, Lists(index, DOMAIN P)
    PROVE  Reordering(P, Permute(P, index), ws, "write")
<1> DEFINE S == DOMAIN P
           f == [i \in S |-> [id |-> i, seq |-> -index[i], live |-> TRUE]]
           g == [i \in S |-> [id |-> i, seq |-> P[i], live |-> TRUE]]
           N == Cardinality(S)
<1>1. IsFiniteSet(S) /\ N \in Nat
  <2>1. IsFiniteSet(Ids)
    <3>1. 1 \in Int /\ MaxSteps \in Int
      BY BoundsAssumption
    <3> QED
      BY <3>1, FS_Interval DEF Ids
  <2> QED
    BY <2>1, FS_Subset, FS_CardinalityType
<1>2. S \in SUBSET Nat /\ \A i \in S : i \in Int /\ i > 0 /\ i \in Ids /\ P[i] \in Int /\ P[i] > 0
  BY BoundsAssumption DEF Ids, Positions
<1>f. \A i \in S : index[i] \in Int /\ index[i] > 0
  BY DEF Lists, Positions
<1>3. f \in [S -> Change] /\ g \in [S -> Change]
  BY <1>2, <1>f DEF Change
<1>4. /\ \A i \in S : f[i].id = i /\ f[i].seq = -index[i] /\ f[i].live
      /\ \A i \in S : g[i].id = i /\ g[i].seq = P[i] /\ g[i].live
  OBVIOUS
<1>0. PICK parking, placing : parking = {f[i] : i \in S} /\ placing = {g[i] : i \in S}
  OBVIOUS
<1>d. PICK a, b : a = InOrder(parking) /\ b = InOrder(placing)
  OBVIOUS
<1>e. /\ \A i \in S : f[i] \in parking /\ g[i] \in placing
      /\ \A w \in parking : \E i \in S : w = f[i]
      /\ \A w \in placing : \E i \in S : w = g[i]
  BY <1>0
<1>5. Permute(P, index) = a \o b
  <2>1. {[id |-> i, seq |-> -index[i], live |-> TRUE] : i \in DOMAIN P} = {f[i] : i \in S}
    OBVIOUS
  <2>2. {[id |-> i, seq |-> P[i], live |-> TRUE] : i \in DOMAIN P} = {g[i] : i \in S}
    OBVIOUS
  <2> QED
    BY <1>0, <1>d, <2>1, <2>2, Zenon DEF Permute
<1>a. S \in SUBSET Nat /\ IsFiniteSet(S)
  BY <1>1, <1>2
<1>b. (\A i \in S : f[i].id = i) /\ \A i \in S : g[i].id = i
  BY <1>4
<1> HIDE DEF f, g, S
<1>6. /\ a \in [1..N -> Change]
      /\ \A n \in 1..N : a[n].id \in S /\ a[n] = f[a[n].id]
      /\ \A i \in S : \E n \in 1..N : a[n] = f[i]
      /\ \A m, n \in 1..N : m < n => a[m].id < a[n].id
  <2>1. /\ a = InOrder(parking) /\ \A i \in S : f[i] \in parking
        /\ \A w \in parking : \E i \in S : w = f[i]
    BY <1>d, <1>e
  <2>2. f \in [S -> Change]
    BY <1>3
  <2>3. \A i \in S : f[i].id = i
    BY <1>b
  <2>4. S \in SUBSET Nat
    BY <1>a
  <2>5. IsFiniteSet(S)
    BY <1>a
  <2> QED
    BY <2>1, <2>2, <2>3, <2>4, <2>5, FlushIsSorted, SMTT(60)
<1>7. /\ b \in [1..N -> Change]
      /\ \A n \in 1..N : b[n].id \in S /\ b[n] = g[b[n].id]
      /\ \A i \in S : \E n \in 1..N : b[n] = g[i]
  <2>1. /\ b = InOrder(placing) /\ \A i \in S : g[i] \in placing
        /\ \A w \in placing : \E i \in S : w = g[i]
    BY <1>d, <1>e
  <2>2. g \in [S -> Change]
    BY <1>3
  <2>3. \A i \in S : g[i].id = i
    BY <1>b
  <2>4. S \in SUBSET Nat
    BY <1>a
  <2>5. IsFiniteSet(S)
    BY <1>a
  <2> QED
    BY <2>1, <2>2, <2>3, <2>4, <2>5, FlushIsSorted, SMTT(60)
<1>8. \A m, n \in 1..N : m < n => a[m].id < a[n].id
  BY <1>6
<1> HIDE DEF N
<1>9. PICK stmts : stmts = a \o b
  OBVIOUS
<1>10. /\ DOMAIN stmts = 1..(N + N)
       /\ \A n \in 1..N : stmts[n] = a[n] /\ stmts[N + n] = b[n]
  <2>0. N \in Nat /\ a \in [1..N -> Change] /\ b \in [1..N -> Change]
    BY <1>1, <1>6, <1>7
  <2>1. a \in Seq(Change) /\ Len(a) = N /\ b \in Seq(Change) /\ Len(b) = N
    BY <2>0
  <2> QED
    BY <1>1, <1>9, <2>1
<1>11. \A k \in DOMAIN stmts : k \in 1..N \/ \E n \in 1..N : k = N + n
  <2>1. ASSUME NEW k \in DOMAIN stmts, k \notin 1..N PROVE \E n \in 1..N : k = N + n
    <3>1. k - N \in 1..N /\ k = N + (k - N)
      BY <1>1, <1>10, <2>1
    <3> QED
      BY <3>1
  <2> QED
    BY <2>1
(* The first half parks, the second places. *)
<1>12. \A k \in 1..N : /\ stmts[k].id \in S /\ stmts[k].seq = -index[stmts[k].id] /\ stmts[k].live
                       /\ k \in DOMAIN stmts
  BY <1>1, <1>4, <1>6, <1>10
<1>13. \A n \in 1..N : /\ stmts[N + n].id \in S /\ stmts[N + n].seq = P[stmts[N + n].id] /\ stmts[N + n].live
                       /\ N + n \in DOMAIN stmts
  BY <1>1, <1>4, <1>7, <1>10
<1>14. \A i \in S : /\ \E k \in 1..N : stmts[k].id = i
                    /\ \E n \in 1..N : stmts[N + n].id = i
  BY <1>4, <1>6, <1>7, <1>10
<1>15. Parks(P, index, stmts)
  <2>1. ASSUME NEW k \in DOMAIN stmts
        PROVE  /\ stmts[k].id \in S /\ stmts[k].live
               /\ stmts[k].seq \in {-index[stmts[k].id], P[stmts[k].id]}
    BY <1>11, <1>12, <1>13
  <2>2. ASSUME NEW k \in DOMAIN stmts, stmts[k].seq < 0 PROVE k \in 1..N
    <3> SUFFICES ASSUME NEW n \in 1..N, k = N + n PROVE FALSE
      BY <1>11
    <3>1. stmts[k].seq > 0
      BY <1>2, <1>13
    <3> QED
      BY <1>2, <1>13, <2>2, <3>1
  <2>3. ASSUME NEW k \in DOMAIN stmts, stmts[k].seq < 0
        PROVE  \E l \in DOMAIN stmts : l > k /\ stmts[l].id = stmts[k].id /\ stmts[l].seq = P[stmts[k].id]
    <3>1. k \in 1..N
      BY <2>2, <2>3
    <3>2. PICK n \in 1..N : stmts[N + n].id = stmts[k].id
      BY <1>14, <2>1
    <3>3. N + n > k
      BY <1>1, <3>1
    <3> QED
      BY <1>13, <3>2, <3>3
  <2>4. ASSUME NEW k \in DOMAIN stmts, NEW l \in DOMAIN stmts, k < l, stmts[l].seq < 0
        PROVE  stmts[k].seq < 0 /\ stmts[k].id < stmts[l].id
    <3>1. l \in 1..N /\ k \in 1..N
      BY <1>1, <1>10, <2>2, <2>4
    <3>2. stmts[k].id < stmts[l].id
      BY <1>8, <1>10, <2>4, <3>1
    <3>3. stmts[k].seq < 0
      BY <1>f, <1>12, <3>1
    <3> QED
      BY <3>2, <3>3
  <2> QED
    BY <2>1, <2>3, <2>4 DEF Parks, S
<1>16. Covers(P, index, stmts, ws)
  <2>1. ASSUME NEW i \in S PROVE \E k \in DOMAIN stmts : stmts[k].id = i /\ stmts[k].seq = -index[i]
    <3>1. PICK k \in 1..N : stmts[k].id = i
      BY <1>14
    <3>2. k \in DOMAIN stmts /\ stmts[k].seq = -index[stmts[k].id]
      BY <1>12
    <3> QED
      BY <3>1, <3>2
  <2> QED
    BY <2>1 DEF Covers, S
<1>17. Placing(P, index, stmts, ws, "write")
  BY DEF Placing
<1> QED
  BY <1>5, <1>9, <1>15, <1>16, <1>17 DEF Reordering, ReorderingBy

(* The one statement of another request. *)
LEMMA OneRowLocks ==
    ASSUME NEW op, NEW stmts \in Seq(Change), stmts # <<>>, NEW w, w = stmts[1],
           NEW ws, OneRow(op, stmts, ws, "write"),
           NEW ws2, NEW v, w.seq # Keep => v.seq = w.seq, v.live => w.live,
           DOMAIN ws2 = DOMAIN ws \cup {w.id}, ws2[w.id] = v
    PROVE  OneRow(op, stmts, ws2, "index")
BY DEF OneRow

LEMMA OneRowEnters ==
    ASSUME NEW op, NEW stmts \in Seq(Change), NEW ws, OneRow(op, stmts, ws, "index")
    PROVE  OneRow(op, Tail(stmts), ws, "write") /\ Tail(stmts) = <<>>
<1>1. Len(stmts) = 1 /\ stmts # <<>>
  <2>1. Len(stmts) <= 1 /\ stmts # <<>>
    BY DEF OneRow
  <2>2. PICK n \in Nat : n = Len(stmts)
    BY LenProperties
  <2>3. n # 0
    BY <2>1, <2>2, EmptySeq
  <2>4. n = 1
    BY <2>1, <2>2, <2>3
  <2> QED
    BY <2>1, <2>2, <2>4
<1>2. Tail(stmts) = <<>>
  <2>1. Tail(stmts) \in Seq(Change) /\ Len(Tail(stmts)) = 0
    BY <1>1
  <2> QED
    BY <2>1, EmptySeq
<1> QED
  BY <1>2 DEF OneRow
-----------------------------------------------------------------------------
(* A step of one client leaves the work of the others. *)
Others(c) ==
    \A d \in Clients \ {c} :
        pc'[d] = pc[d] /\ req'[d] = req[d] /\ todo'[d] = todo[d] /\ writes'[d] = writes[d]

LEMMA OthersTouch ==
    ASSUME NEW c \in Clients, Others(c), NEW d \in Clients \ {c}
    PROVE  /\ Touched(d)' = Touched(d) /\ (Inserts(d)' <=> Inserts(d)) /\ (Reorders(d)' <=> Reorders(d))
           /\ Writing(d)' <=> Writing(d)
BY DEF Others, Touched, Inserts, Reorders, Writing

LEMMA WorkCarried ==
    ASSUME CatalogInv, Working, NEW c \in Clients, Others(c), ids' \in Nat, ids' >= ids,
           DOMAIN rows \subseteq DOMAIN rows', DOMAIN rows' \subseteq DOMAIN rows \cup DOMAIN writes[c],
           \A i \in DOMAIN rows \ DOMAIN writes[c] : rows'[i] = rows[i],
           Plan \in DOMAIN writes[c] => rows'[Plan].seq = Keep,
           Works(c)', Kept(c)',
           Inserts(c)' => \A d \in Clients \ {c} : Inserts(d) => Touched(c)' \cap Touched(d) = {}
    PROVE  Working'
<1>1. ASSUME NEW d \in Clients \ {c}
      PROVE  DOMAIN writes[d] \cap DOMAIN writes[c] = {} /\ (Inserts(d) => Touched(d) \cap DOMAIN writes[c] = {})
  <2>1. DOMAIN writes[d] \cap DOMAIN writes[c] = {}
    BY DEF CatalogInv, Locks
  <2>2. ASSUME Inserts(d), NEW i \in Touched(d), i \in DOMAIN writes[c] PROVE FALSE
    <3>1. Writing(c)
      BY <2>2, EmptyDomain DEF CatalogInv, Locks
    <3>2. i \in Touched(c) /\ i \notin DOMAIN rows
      BY <2>2 DEF Touched, Working, Works
    <3> QED
      BY <2>2, <3>1, <3>2 DEF Working, Works, OwnRows
  <2> QED
    BY <2>1, <2>2
<1>2. ids \in Nat
  BY RowTypes DEF CatalogInv
<1>3. ASSUME NEW d \in Clients \ {c} PROVE Works(d)'
  <2>1. /\ Touched(d)' = Touched(d) /\ (Inserts(d)' <=> Inserts(d)) /\ (Reorders(d)' <=> Reorders(d))
        /\ (Writing(d)' <=> Writing(d))
    BY OthersTouch
  <2>2. pc'[d] = pc[d] /\ req'[d] = req[d] /\ todo'[d] = todo[d] /\ writes'[d] = writes[d]
    BY DEF Others
  <2>3. ASSUME Reorders(d)
        PROVE  /\ Numbered(req'[d].positions)
               /\ DOMAIN req'[d].positions \subseteq DOMAIN rows' \ {Plan}
               /\ Reordering(req'[d].positions, todo'[d], writes'[d], pc'[d])
    BY <2>2, <2>3 DEF Working, Works
  <2>4. ASSUME Writing(d), ~Reorders(d)
        PROVE  /\ req'[d].op \in {"append", "create", "update", "delete", "update-plan", "delete-plan"}
               /\ OneRow(req'[d].op, todo'[d], writes'[d], pc'[d])
    BY <2>2, <2>4 DEF Working, Works
  <2>5. ASSUME Inserts(d) PROVE Touched(d)' \subseteq (1..ids') \ DOMAIN rows'
    <3>1. Touched(d) \subseteq (1..ids) \ DOMAIN rows
      BY <2>5 DEF Working, Works
    <3>2. 1..ids \subseteq 1..ids'
      BY <1>2
    <3> QED
      BY <1>1, <2>1, <2>5, <3>1, <3>2
  <2>6. ASSUME Writing(d), ~Inserts(d) PROVE Touched(d)' \subseteq DOMAIN rows'
    BY <2>1, <2>6 DEF Working, Works
  <2>7. /\ Reorders(d)' =>
             /\ Numbered(req'[d].positions)
             /\ DOMAIN req'[d].positions \subseteq DOMAIN rows' \ {Plan}
             /\ Reordering(req'[d].positions, todo'[d], writes'[d], pc'[d])
        /\ Writing(d)' /\ ~Reorders(d)' =>
             /\ req'[d].op \in {"append", "create", "update", "delete", "update-plan", "delete-plan"}
             /\ OneRow(req'[d].op, todo'[d], writes'[d], pc'[d])
    BY <2>1, <2>3, <2>4
  <2>8. /\ Inserts(d)' => Touched(d)' \subseteq (1..ids') \ DOMAIN rows'
        /\ Writing(d)' /\ ~Inserts(d)' => Touched(d)' \subseteq DOMAIN rows'
    BY <2>1, <2>5, <2>6
  <2> QED
    BY <2>7, <2>8 DEF Works
<1>4. ASSUME NEW d \in Clients \ {c} PROVE Kept(d)'
  <2>2. pc'[d] = pc[d] /\ todo'[d] = todo[d] /\ writes'[d] = writes[d] /\ Pending(d)' = Pending(d)
    BY DEF Others, Pending
  <2>3. ASSUME pc[d] = "index", Pending(d).seq = Keep
        PROVE  rows'[Pending(d).id] = rows[Pending(d).id]
    <3>1. Pending(d).id \in DOMAIN writes[d] /\ Pending(d).id \notin DOMAIN writes[c]
      BY <1>1, <2>3, WriteTypes DEF CatalogInv
    <3>2. Pending(d).id \in DOMAIN rows
      BY <2>3, VersionType DEF CatalogInv, TypeOK
    <3> QED
      BY <3>1, <3>2
  <2>4. Kept(d)
    BY DEF Working
  <2>5. Plan \in DOMAIN writes'[d] => writes'[d][Plan].seq = Keep
    BY <2>2, <2>4 DEF Kept
  <2>6. pc'[d] = "index" /\ Pending(d)'.seq = Keep =>
          /\ writes'[d][Pending(d)'.id].seq = rows'[Pending(d)'.id].seq
          /\ writes'[d][Pending(d)'.id].live => rows'[Pending(d)'.id].live
    BY <2>2, <2>3, <2>4 DEF Kept
  <2> QED
    BY <2>5, <2>6 DEF Kept
<1>5. OwnRows'
  <2> SUFFICES ASSUME NEW d \in Clients, NEW e \in Clients, Inserts(d)', Inserts(e)', d # e
               PROVE  Touched(d)' \cap Touched(e)' = {}
    BY DEF OwnRows
  <2>1. CASE d = c
    BY <2>1, OthersTouch
  <2>2. CASE e = c
    BY <2>2, OthersTouch
  <2>3. CASE d # c /\ e # c
    BY <2>3, OthersTouch DEF Working, OwnRows
  <2> QED
    BY <2>1, <2>2, <2>3
<1>6. rows'[Plan].seq = Keep
  BY RowTypes DEF CatalogInv, Working
<1> QED
  BY <1>3, <1>4, <1>5, <1>6 DEF Working

(* A client that does not write, or no more. *)
LEMMA StopsKeepWork ==
    ASSUME CatalogInv, Working, NEW c \in Clients, Others(c), rows' = rows, ids' = ids,
           writes'[c] = <<>>, pc'[c] \notin {"write", "index"}
    PROVE  Working'
<1>1. ids \in Nat
  BY RowTypes DEF CatalogInv
<1>2. ~Writing(c)' /\ ~Inserts(c)' /\ ~Reorders(c)'
  BY DEF Writing, Inserts, Reorders
<1>3. Works(c)'
  BY <1>2 DEF Works
<1>4. Kept(c)'
  BY EmptyDomain DEF Kept
<1>5. Plan \in DOMAIN writes[c] => rows'[Plan].seq = Keep
  BY DEF Working
<1> QED
  BY <1>1, <1>2, <1>3, <1>4, <1>5, WorkCarried

(* A client that begins to write. *)
LEMMA StartKeepsWork ==
    ASSUME CatalogInv, Working, NEW c \in Clients, Others(c), rows' = rows, ids' \in Nat, ids' >= ids,
           writes'[c] = <<>>, pc'[c] = "write", Works(c)',
           Inserts(c)' => \A d \in Clients \ {c} : Inserts(d) => Touched(c)' \cap Touched(d) = {}
    PROVE  Working'
<1>1. Kept(c)'
  BY EmptyDomain DEF Kept
<1>2. Plan \in DOMAIN writes[c] => rows'[Plan].seq = Keep
  BY DEF Working
<1> QED
  BY <1>1, <1>2, WorkCarried

LEMMA OneStatementWorks ==
    ASSUME NEW c \in Clients, NEW w \in Change, pc'[c] = "write", todo'[c] = <<w>>, writes'[c] = <<>>,
           req'[c].op \in {"append", "create", "update", "delete", "update-plan", "delete-plan"},
           req'[c].op \in {"delete", "delete-plan"} => ~w.live,
           req'[c].op \in {"append", "create"} => w.seq # Keep,
           req'[c].op \in {"update-plan", "delete-plan"} <=> w.id = Plan,
           w.id = Plan => w.seq = Keep,
           req'[c].op \in {"append", "create"} => w.id \in (1..ids') \ DOMAIN rows',
           ~(req'[c].op \in {"append", "create"}) => w.id \in DOMAIN rows'
    PROVE  Works(c)' /\ Touched(c)' = {w.id}
<1>1. Len(<<w>>) = 1 /\ <<w>>[1] = w /\ DOMAIN <<w>> = {1}
  OBVIOUS
<1>2. Touched(c)' = {w.id}
  BY <1>1, EmptyDomain DEF Touched
<1>3. OneRow(req'[c].op, todo'[c], writes'[c], pc'[c])
  BY <1>1, EmptyDomain DEF OneRow
<1>4. Writing(c)' /\ ~Reorders(c)' /\ (Inserts(c)' <=> req'[c].op \in {"append", "create"})
  BY DEF Writing, Reorders, Inserts
<1> QED
  BY <1>2, <1>3, <1>4 DEF Works

LEMMA LoadKeepsWork ==
    ASSUME CatalogInv, Working, NEW c \in Clients, Load(c)
    PROVE  Working'
<1>1. pc[c] = "load" /\ rows' = rows /\ ids' = ids
  BY DEF Load, dbVars
<1>2. /\ DOMAIN todo = Clients /\ DOMAIN writes = Clients /\ DOMAIN req = Clients /\ pc \in [Clients -> PCs]
      /\ ids \in Nat
  BY RowTypes DEF CatalogInv, PerClient, TypeOK
<1>3. PICK r : r = req[c]
  OBVIOUS
<1>4. Accepted(r) /\ r.op \in {"update", "delete", "reorder", "update-plan", "delete-plan"}
  BY <1>1, <1>3 DEF CatalogInv, Asked
<1>5. writes[c] = <<>>
  BY <1>1 DEF CatalogInv, Locks, Writing
<1>6. /\ LiveIds \subseteq DOMAIN rows \ {Plan} /\ Plan \in DOMAIN rows
      /\ \A i \in LiveIds : i \in Ids /\ rows[i].seq \in Int
  BY RowTypes, LiveIdsFinite, BoundsAssumption DEF CatalogInv, LiveIds, Ids, Row, Plan
<1>7. CASE \E a \in {"404", "422", "500"} : Answer(c, a)
  <2>1. Others(c) /\ writes'[c] = <<>> /\ pc'[c] = "idle"
    BY <1>2, <1>7 DEF Answer, Others
  <2> QED
    BY <1>1, <2>1, StopsKeepWork
<1>8. ASSUME NEW changes, Write(c, changes)
      PROVE  /\ Others(c) /\ pc'[c] = "write" /\ todo'[c] = changes /\ writes'[c] = <<>> /\ req'[c] = r
             /\ (Works(c)' => Working')
  <2>1. Others(c) /\ pc'[c] = "write" /\ todo'[c] = changes /\ writes'[c] = <<>> /\ req'[c] = r
    BY <1>2, <1>3, <1>5, <1>8 DEF Write, Others
  <2>2. ~Inserts(c)'
    BY <1>4, <2>1 DEF Inserts
  <2> QED
    BY <1>1, <1>2, <2>1, <2>2, StartKeepsWork
<1>9. ASSUME NEW w \in Change, Write(c, <<w>>), r.op # "reorder", w.id \in DOMAIN rows, w.live <=> r.op \in {"update", "update-plan"},
             r.op \in {"update-plan", "delete-plan"} <=> w.id = Plan, w.id = Plan => w.seq = Keep
      PROVE  Working'
  <2>1. Works(c)'
    BY <1>1, <1>4, <1>8, <1>9, OneStatementWorks
  <2> QED
    BY <1>8, <1>9, <2>1
<1>10. CASE r.op = "update"
  <2>1. CASE r.id \in LiveIds
    <3>1. PICK w : w = [id |-> r.id, live |-> TRUE,
                        seq |-> IF r.seq = rows[r.id].seq THEN Keep ELSE r.seq]
      OBVIOUS
    <3>2. r.seq \in Int
      BY <1>4, <1>10 DEF Accepted, Positions
    <3>3. w \in Change /\ w.id = r.id /\ w.live
      <4>1. r.id \in Ids
        BY <1>6, <2>1
      <4> QED
        BY <3>1, <3>2, <4>1 DEF Change, Keep
    <3>4. Write(c, <<w>>)
      BY <1>3, <1>10, <2>1, <3>1 DEF Load
    <3>5. w.id \in DOMAIN rows /\ w.id # Plan
      BY <1>6, <2>1, <3>3
    <3> QED
      BY <1>9, <1>10, <3>3, <3>4, <3>5
  <2>2. CASE r.id \notin LiveIds
    BY <1>3, <1>7, <1>10, <2>2 DEF Load
  <2> QED
    BY <2>1, <2>2
<1>11. CASE r.op = "delete"
  <2>1. CASE r.id \in LiveIds
    <3>1. PICK w : w = [id |-> r.id, seq |-> Keep, live |-> FALSE]
      OBVIOUS
    <3>2. w \in Change /\ w.id = r.id /\ ~w.live
      <4>1. r.id \in Ids
        BY <1>6, <2>1
      <4> QED
        BY <3>1, <4>1 DEF Change, Keep
    <3>3. Write(c, <<w>>)
      BY <1>3, <1>11, <2>1, <3>1 DEF Load
    <3>4. w.id \in DOMAIN rows /\ w.id # Plan
      BY <1>6, <2>1, <3>2
    <3> QED
      BY <1>9, <1>11, <3>2, <3>3, <3>4
  <2>2. CASE r.id \notin LiveIds
    BY <1>3, <1>7, <1>11, <2>2 DEF Load
  <2> QED
    BY <2>1, <2>2
<1>12. CASE r.op = "reorder"
  <2>1. PICK P : P = r.positions
    OBVIOUS
  <2>2. CASE IsPermutation(P)
    <3>1. PICK S \in SUBSET Ids : P \in [S -> Positions]
      BY <1>4, <1>12, <2>1 DEF Accepted
    <3>2. P \in [DOMAIN P -> Positions] /\ DOMAIN P \subseteq Ids
      BY <3>1
    <3>3. DOMAIN P = LiveIds /\ Range(P) = 1..Cardinality(DOMAIN P)
      BY <2>2 DEF IsPermutation
    <3>0. PICK index \in Listings(DOMAIN P) : Write(c, Permute(P, index))
      BY <1>3, <1>12, <2>1, <2>2 DEF Load
    <3>12. Lists(index, DOMAIN P)
      <4>1. IsFiniteSet(LiveIds)
        BY LiveIdsFinite DEF CatalogInv
      <4> QED
        BY <3>3, <4>1, ListingLists
    <3>4. PICK changes : changes = Permute(P, index)
      OBVIOUS
    <3>5. Write(c, changes)
      BY <3>0, <3>4
    <3>6. /\ pc'[c] = "write" /\ todo'[c] = changes /\ writes'[c] = <<>> /\ req'[c].positions = P
          /\ req'[c].op = "reorder"
      BY <1>8, <1>12, <2>1, <3>5
    <3>7. Reordering(P, changes, <<>>, "write")
      BY <3>2, <3>4, <3>12, PermuteBegins, EmptyDomain
    <3>8. Touched(c)' \subseteq LiveIds
      BY <3>3, <3>6, <3>7, EmptyDomain DEF Touched, Reordering, ReorderingBy, Parks
    <3>9. Reorders(c)' /\ ~Inserts(c)'
      BY <3>6 DEF Reorders, Inserts, Writing
    <3>10. /\ Numbered(req'[c].positions)
           /\ DOMAIN req'[c].positions \subseteq DOMAIN rows' \ {Plan}
           /\ Reordering(req'[c].positions, todo'[c], writes'[c], pc'[c])
      BY <1>1, <1>6, <3>2, <3>3, <3>6, <3>7 DEF Numbered
    <3>11. Works(c)'
      BY <1>1, <1>6, <3>8, <3>9, <3>10 DEF Works
    <3> QED
      BY <1>8, <3>5, <3>11
  <2>3. CASE ~IsPermutation(P)
    BY <1>3, <1>7, <1>12, <2>1, <2>3 DEF Load
  <2> QED
    BY <2>2, <2>3
<1>13. CASE r.op \in {"update-plan", "delete-plan"}
  <2>1. CASE planLive
    <3>1. PICK w : w = [id |-> Plan, seq |-> Keep, live |-> r.op = "update-plan"]
      OBVIOUS
    <3>0. w.live <=> r.op = "update-plan"
      BY <3>1
    <3>1a. w \in Change /\ w.id = Plan /\ w.seq = Keep
      BY <3>1 DEF Change, Keep
    <3>2. w \in Change /\ w.id = Plan /\ w.seq = Keep /\ (w.live <=> r.op = "update-plan")
      BY <3>0, <3>1a
    <3>3. Write(c, <<w>>)
      BY <1>3, <1>13, <2>1, <3>1 DEF Load
    <3>4. (w.live <=> r.op \in {"update", "update-plan"}) /\ r.op # "reorder"
      BY <1>13, <3>2
    <3> QED
      BY <1>6, <1>9, <1>13, <3>2, <3>3, <3>4
  <2>2. CASE ~planLive
    BY <1>3, <1>7, <1>13, <2>2 DEF Load
  <2> QED
    BY <2>1, <2>2
<1> QED
  BY <1>4, <1>10, <1>11, <1>12, <1>13

LEMMA AddKeepsWork ==
    ASSUME CatalogInv, Working, NEW c \in Clients, Add(c)
    PROVE  Working'
<1>1. /\ DOMAIN todo = Clients /\ DOMAIN writes = Clients /\ DOMAIN req = Clients /\ pc \in [Clients -> PCs]
      /\ ids \in Nat
  BY RowTypes DEF CatalogInv, PerClient, TypeOK
<1>2. pc[c] = "add" /\ rows' = rows
  BY DEF Add
<1>3. CASE ~planLive
  <2>1. Others(c) /\ writes'[c] = <<>> /\ pc'[c] = "idle" /\ ids' = ids
    BY <1>1, <1>3 DEF Add, Answer, Others
  <2> QED
    BY <1>2, <2>1, StopsKeepWork
<1>4. CASE planLive
  <2>1. PICK w : w = [id |-> ids + 1, seq |-> req[c].seq, live |-> TRUE]
    OBVIOUS
  <2>2. req[c].op \in {"append", "create"} /\ req[c].seq \in Positions
    BY <1>2 DEF CatalogInv, Asked
  <2>3. writes[c] = <<>>
    BY <1>2 DEF CatalogInv, Locks, Writing
  <2>4. /\ Others(c) /\ ids' = ids + 1 /\ pc'[c] = "write" /\ todo'[c] = <<w>> /\ req'[c] = req[c]
        /\ writes'[c] = <<>>
    BY <1>1, <1>2, <1>4, <2>1, <2>3 DEF Add, Others
  <2>5. w \in Change
    <3>1. ids + 1 \in Ids
      <4>1. ids' \in 0..MaxSteps
        BY <1>4, AddKeeps DEF CatalogInv, TypeOK
      <4> QED
        BY <1>1, <2>4, <4>1, BoundsAssumption DEF Ids
    <3>2. req[c].seq \in Int
      BY <2>2 DEF Positions
    <3> QED
      BY <2>1, <3>1, <3>2 DEF Change
  <2>6. w.id = ids + 1 /\ w.id # Plan /\ w.seq # Keep /\ w.id \in (1..ids') \ DOMAIN rows'
    BY <1>1, <1>2, <2>1, <2>2, <2>4, RowTypes DEF CatalogInv, Plan, Keep, Positions
  <2>7. Works(c)' /\ Touched(c)' = {w.id}
    BY <2>2, <2>4, <2>5, <2>6, OneStatementWorks
  <2>8. ASSUME NEW d \in Clients \ {c}, Inserts(d) PROVE Touched(c)' \cap Touched(d) = {}
    <3>1. Touched(d) \subseteq 1..ids
      BY <2>8 DEF Working, Works
    <3> QED
      BY <1>1, <2>6, <2>7, <3>1
  <2>9. ids' \in Nat /\ ids' >= ids
    BY <1>1, <2>4
  <2> QED
    BY <1>2, <2>4, <2>7, <2>8, <2>9, StartKeepsWork
<1> QED
  BY <1>3, <1>4

(* A row is locked: the step of a reorder is parked or placed, the one row  *)
(* of another request is written.                                           *)
LEMMA LockRowKeepsWork ==
    ASSUME CatalogInv, Working, NEW c \in Clients, LockRow(c)
    PROVE  Working'
<1>1. PICK w : w = Pending(c)
  OBVIOUS
<1>2. PICK v : v = NewVersion(c, w)
  OBVIOUS
<1>3. PICK i : i = w.id
  OBVIOUS
<1>4. PICK stmts : stmts = todo[c]
  OBVIOUS
<1>5. PICK ws : ws = writes[c]
  OBVIOUS
<1>6. /\ pc[c] = "write" /\ stmts # <<>> /\ pc' = [pc EXCEPT ![c] = "index"]
      /\ rows' = rows /\ ids' = ids /\ req' = req /\ todo' = todo
      /\ writes' = [writes EXCEPT ![c] = Over([k \in {i} |-> v], @)]
  BY <1>1, <1>2, <1>3, <1>4 DEF LockRow, dbVars
<1>7. DOMAIN writes = Clients /\ pc \in [Clients -> PCs] /\ stmts \in Seq(Change) /\ ids \in Nat
  BY <1>4, RowTypes, WriteTypes DEF CatalogInv, PerClient, TypeOK
<1>8. PICK ws2 : ws2 = writes'[c]
  OBVIOUS
<1>9. DOMAIN ws2 = DOMAIN ws \cup {i} /\ ws2[i] = v /\ \A k \in DOMAIN ws \ {i} : ws2[k] = ws[k]
  <2>1. PICK new : new = [k \in {i} |-> v]
    OBVIOUS
  <2>2. DOMAIN new = {i} /\ new[i] = v
    BY <2>1
  <2>3. ws2 = Over(new, ws)
    BY <1>5, <1>6, <1>7, <1>8, <2>1
  <2>4. /\ DOMAIN Over(new, ws) = DOMAIN new \cup DOMAIN ws
        /\ \A k \in DOMAIN new : Over(new, ws)[k] = new[k]
        /\ \A k \in DOMAIN ws \ DOMAIN new : Over(new, ws)[k] = ws[k]
    BY OverType, Zenon
  <2> QED
    BY <2>2, <2>3, <2>4
<1>10. /\ w \in Change /\ w = stmts[1] /\ 1 \in DOMAIN stmts
       /\ v \in Row
       /\ w.seq # Keep => v.seq = w.seq
       /\ v.live => w.live
       /\ i \in DOMAIN rows \ DOMAIN ws =>
             (w.seq = Keep => v.seq = rows[i].seq) /\ (v.live => rows[i].live)
  BY <1>1, <1>2, <1>3, <1>4, <1>5, <1>6, VersionType
<1>11. Others(c) /\ pc'[c] = "index" /\ req'[c] = req[c] /\ todo'[c] = stmts
  BY <1>4, <1>6, <1>7 DEF Others
<1>12. Writing(c) /\ Writing(c)' /\ (Reorders(c)' <=> Reorders(c)) /\ (Inserts(c)' <=> Inserts(c))
  BY <1>6, <1>11 DEF Writing, Reorders, Inserts
<1>13. Touched(c)' = Touched(c)
  <2>1. Touched(c) = {stmts[k].id : k \in DOMAIN stmts} \cup DOMAIN ws
    BY <1>4, <1>5 DEF Touched
  <2>2. Touched(c)' = {stmts[k].id : k \in DOMAIN stmts} \cup DOMAIN ws2
    BY <1>8, <1>11 DEF Touched
  <2> QED
    BY <1>3, <1>9, <1>10, <2>1, <2>2
<1>14. ASSUME Reorders(c)
       PROVE  /\ Reordering(req[c].positions, stmts, ws2, "index")
              /\ w.seq # Keep /\ i # Plan
  <2>1. PICK P : P = req[c].positions
    OBVIOUS
  <2>2. /\ Reordering(P, stmts, ws, "write") /\ P \in [DOMAIN P -> Positions]
        /\ DOMAIN P \subseteq DOMAIN rows \ {Plan}
    BY <1>4, <1>5, <1>6, <1>14, <2>1 DEF Working, Works, Numbered
  <2>3. DOMAIN P \subseteq Nat \ {0}
    BY <2>2, RowTypes DEF CatalogInv, Plan
  <2>0. PICK index : ReorderingBy(P, index, stmts, ws, "write")
    BY <2>2 DEF Reordering
  <2>4. i \in DOMAIN P /\ w.seq \in {-index[i], P[i]}
    BY <1>3, <1>10, <2>0 DEF ReorderingBy, Parks
  <2>5. w.seq # Keep
    BY <2>0, <2>2, <2>4 DEF ReorderingBy, Lists, Positions, Keep
  <2>6. Reordering(P, stmts, ws2, "index")
    <3>1. /\ DOMAIN ws2 = DOMAIN ws \cup {stmts[1].id} /\ ws2[stmts[1].id].seq = stmts[1].seq
          /\ \A k \in DOMAIN ws \ {stmts[1].id} : ws2[k] = ws[k]
      BY <1>3, <1>9, <1>10, <2>5
    <3>2. stmts \in Seq(Change) /\ stmts # <<>>
      BY <1>6, <1>7
    <3> QED
      BY <2>2, <2>3, <3>1, <3>2, ReorderingLocks
  <2> QED
    BY <2>1, <2>2, <2>4, <2>5, <2>6
<1>15. ASSUME ~Reorders(c)
       PROVE  /\ OneRow(req[c].op, stmts, ws2, "index") /\ DOMAIN ws = {}
              /\ i = Plan => w.seq = Keep
              /\ w.seq = Keep => i \in DOMAIN rows
  <2>1. OneRow(req[c].op, stmts, ws, "write")
    BY <1>4, <1>5, <1>6, <1>12, <1>15 DEF Working, Works
  <2>2. OneRow(req[c].op, stmts, ws2, "index")
    <3>1. PICK op : op = req[c].op
      OBVIOUS
    <3>2. OneRow(op, stmts, ws, "write")
      BY <2>1, <3>1
    <3>3. DOMAIN ws2 = DOMAIN ws \cup {w.id} /\ ws2[w.id] = v
      BY <1>3, <1>9
    <3>4. w = stmts[1] /\ (w.seq # Keep => v.seq = w.seq) /\ (v.live => w.live)
      BY <1>10
    <3>5. stmts \in Seq(Change) /\ stmts # <<>>
      BY <1>6, <1>7
    <3>6. OneRow(op, stmts, ws2, "index")
      BY <3>2, <3>3, <3>4, <3>5, OneRowLocks
    <3> QED
      BY <3>1, <3>6
  <2>3. DOMAIN ws = {} /\ (i = Plan => w.seq = Keep)
    BY <1>3, <1>6, <1>10, <2>1 DEF OneRow
  <2>4. w.seq = Keep => i \in DOMAIN rows
    BY <1>1, <1>3, <1>4, <1>6, VersionType
  <2> QED
    BY <2>2, <2>3, <2>4
<1>16. Works(c)'
  <2>1. ASSUME Reorders(c)
        PROVE  /\ Numbered(req'[c].positions)
               /\ DOMAIN req'[c].positions \subseteq DOMAIN rows' \ {Plan}
               /\ Reordering(req'[c].positions, todo'[c], writes'[c], pc'[c])
    BY <1>6, <1>8, <1>11, <1>14, <2>1 DEF Working, Works
  <2>2. ASSUME ~Reorders(c)
        PROVE  /\ req'[c].op \in {"append", "create", "update", "delete", "update-plan", "delete-plan"}
               /\ OneRow(req'[c].op, todo'[c], writes'[c], pc'[c])
    BY <1>8, <1>11, <1>12, <1>15, <2>2 DEF Working, Works
  <2>3. /\ Inserts(c) => Touched(c)' \subseteq (1..ids') \ DOMAIN rows'
        /\ ~Inserts(c) => Touched(c)' \subseteq DOMAIN rows'
    BY <1>6, <1>12, <1>13 DEF Working, Works
  <2> QED
    BY <1>12, <2>1, <2>2, <2>3 DEF Works
<1>17. Kept(c)'
  <2>1. Pending(c)' = w
    BY <1>1, <1>6 DEF Pending
  <2>2. Kept(c) /\ rows[Plan].seq = Keep /\ Plan \in DOMAIN rows
    BY RowTypes DEF Working, CatalogInv
  <2>3. w.seq = Keep => v.seq = rows[i].seq /\ (v.live => rows[i].live)
    BY <1>10, <1>14, <1>15
  <2>4. Plan \in DOMAIN ws2 => ws2[Plan].seq = Keep
    BY <1>5, <1>9, <1>10, <1>14, <1>15, <2>2, <2>3 DEF Kept
  <2>5. Plan \in DOMAIN writes'[c] => writes'[c][Plan].seq = Keep
    BY <1>8, <2>4
  <2>6. pc'[c] = "index" /\ w.seq = Keep =>
            writes'[c][w.id].seq = rows'[w.id].seq /\ (writes'[c][w.id].live => rows'[w.id].live)
    BY <1>3, <1>6, <1>8, <1>9, <2>3
  <2> QED
    BY <2>1, <2>5, <2>6 DEF Kept
<1>18. Inserts(c)' => \A d \in Clients \ {c} : Inserts(d) => Touched(c)' \cap Touched(d) = {}
  BY <1>12, <1>13 DEF Working, OwnRows
<1>19. ids' \in Nat /\ ids' >= ids
  BY <1>6, <1>7
<1>20. Plan \in DOMAIN writes[c] => rows'[Plan].seq = Keep
  BY <1>6 DEF Working
<1> QED
  BY <1>6, <1>11, <1>16, <1>17, <1>18, <1>19, <1>20, WorkCarried

LEMMA EnterIndexKeepsWork ==
    ASSUME CatalogInv, Working, NEW c \in Clients, EnterIndex(c)
    PROVE  Working'
<1>1. PICK stmts : stmts = todo[c]
  OBVIOUS
<1>2. /\ pc[c] = "index" /\ pc' = [pc EXCEPT ![c] = "write"]
      /\ todo' = [todo EXCEPT ![c] = Tail(stmts)]
      /\ rows' = rows /\ ids' = ids /\ req' = req /\ writes' = writes
  BY <1>1 DEF EnterIndex, dbVars
<1>3. /\ DOMAIN todo = Clients /\ pc \in [Clients -> PCs] /\ ids \in Nat
      /\ stmts \in Seq(Change) /\ stmts # <<>>
  BY <1>1, <1>2, RowTypes, WriteTypes DEF CatalogInv, PerClient, TypeOK
<1>4. Others(c) /\ pc'[c] = "write" /\ todo'[c] = Tail(stmts) /\ req'[c] = req[c] /\ writes'[c] = writes[c]
  BY <1>2, <1>3 DEF Others
<1>5. Writing(c) /\ Writing(c)' /\ (Reorders(c)' <=> Reorders(c)) /\ (Inserts(c)' <=> Inserts(c))
  BY <1>2, <1>4 DEF Writing, Reorders, Inserts
<1>6. Touched(c)' \subseteq Touched(c)
  <2>1. Touched(c) = {stmts[k].id : k \in DOMAIN stmts} \cup DOMAIN writes[c]
    BY <1>1 DEF Touched
  <2>2. Touched(c)' = {Tail(stmts)[k].id : k \in DOMAIN Tail(stmts)} \cup DOMAIN writes[c]
    BY <1>4 DEF Touched
  <2>3. \A k \in DOMAIN Tail(stmts) : k + 1 \in DOMAIN stmts /\ Tail(stmts)[k] = stmts[k + 1]
    BY <1>3
  <2> QED
    BY <2>1, <2>2, <2>3
<1>7. Works(c)'
  <2>1. ASSUME Reorders(c)
        PROVE  /\ Numbered(req'[c].positions)
               /\ DOMAIN req'[c].positions \subseteq DOMAIN rows' \ {Plan}
               /\ Reordering(req'[c].positions, todo'[c], writes'[c], pc'[c])
    <3>1. PICK P : P = req[c].positions
      OBVIOUS
    <3>2. Numbered(P) /\ DOMAIN P \subseteq DOMAIN rows \ {Plan} /\ Reordering(P, stmts, writes[c], "index")
      BY <1>1, <1>2, <2>1, <3>1 DEF Working, Works
    <3>3. DOMAIN P \subseteq Nat \ {0}
      BY <3>2, RowTypes DEF CatalogInv, Plan
    <3>4. Reordering(P, Tail(stmts), writes[c], "write")
      BY <1>3, <3>2, <3>3, ReorderingEnters
    <3> QED
      BY <1>2, <1>4, <3>1, <3>2, <3>4
  <2>2. ASSUME ~Reorders(c)
        PROVE  /\ req'[c].op \in {"append", "create", "update", "delete", "update-plan", "delete-plan"}
               /\ OneRow(req'[c].op, todo'[c], writes'[c], pc'[c])
    <3>1. OneRow(req[c].op, stmts, writes[c], "index")
      BY <1>1, <1>2, <1>5, <2>2 DEF Working, Works
    <3>2. OneRow(req[c].op, Tail(stmts), writes[c], "write")
      BY <1>3, <3>1, OneRowEnters
    <3> QED
      BY <1>4, <1>5, <2>2, <3>2 DEF Working, Works
  <2>3. /\ Inserts(c) => Touched(c)' \subseteq (1..ids') \ DOMAIN rows'
        /\ ~Inserts(c) => Touched(c)' \subseteq DOMAIN rows'
    BY <1>2, <1>5, <1>6 DEF Working, Works
  <2> QED
    BY <1>5, <2>1, <2>2, <2>3 DEF Works
<1>8. Kept(c)'
  BY <1>4 DEF Working, Kept
<1>9. Inserts(c)' => \A d \in Clients \ {c} : Inserts(d) => Touched(c)' \cap Touched(d) = {}
  BY <1>5, <1>6 DEF Working, OwnRows
<1>10. ids' \in Nat /\ ids' >= ids
  BY <1>2, <1>3
<1>11. Plan \in DOMAIN writes[c] => rows'[Plan].seq = Keep
  BY <1>2 DEF Working
<1> QED
  BY <1>2, <1>4, <1>7, <1>8, <1>9, <1>10, <1>11, WorkCarried

LEMMA CommitKeepsWork ==
    ASSUME CatalogInv, Working, NEW c \in Clients, Commit(c)
    PROVE  Working'
<1>1. /\ rows' = Over(writes[c], rows) /\ ids' = ids
      /\ req' = [req EXCEPT ![c] = NoRequest] /\ pc' = [pc EXCEPT ![c] = "idle"]
      /\ todo' = [todo EXCEPT ![c] = <<>>] /\ writes' = [writes EXCEPT ![c] = <<>>]
  BY DEF Commit, Answer
<1>2. /\ DOMAIN todo = Clients /\ DOMAIN writes = Clients /\ DOMAIN req = Clients /\ pc \in [Clients -> PCs]
      /\ ids \in Nat
  BY RowTypes DEF CatalogInv, PerClient, TypeOK
<1>3. Others(c) /\ pc'[c] = "idle" /\ writes'[c] = <<>>
  BY <1>1, <1>2 DEF Others
<1>4. /\ DOMAIN rows' = DOMAIN writes[c] \cup DOMAIN rows
      /\ \A i \in DOMAIN writes[c] : rows'[i] = writes[c][i]
      /\ \A i \in DOMAIN rows \ DOMAIN writes[c] : rows'[i] = rows[i]
  <2>1. /\ DOMAIN Over(writes[c], rows) = DOMAIN writes[c] \cup DOMAIN rows
        /\ \A i \in DOMAIN writes[c] : Over(writes[c], rows)[i] = writes[c][i]
        /\ \A i \in DOMAIN rows \ DOMAIN writes[c] : Over(writes[c], rows)[i] = rows[i]
    BY OverType, Zenon
  <2> QED
    BY <1>1, <2>1
<1>5. ~Writing(c)' /\ ~Inserts(c)' /\ ~Reorders(c)'
  BY <1>3 DEF Writing, Inserts, Reorders
<1>6. Works(c)' /\ Kept(c)'
  BY <1>3, <1>5, EmptyDomain DEF Works, Kept
<1>7. Plan \in DOMAIN writes[c] => rows'[Plan].seq = Keep
  BY <1>4 DEF Working, Kept
<1>8. ids' \in Nat /\ ids' >= ids
  BY <1>1, <1>2
<1> QED
  BY <1>3, <1>4, <1>5, <1>6, <1>7, <1>8, WorkCarried

-----------------------------------------------------------------------------
(* A request that has the plan to itself. *)

LEMMA AdvanceIsOwn ==
    ASSUME CatalogInv, NEW c \in Clients, Advance(c)
    PROVE  Others(c) /\ c \in Busy /\ alone' = alone
<1>1. /\ DOMAIN todo = Clients /\ DOMAIN writes = Clients /\ DOMAIN req = Clients /\ pc \in [Clients -> PCs]
  BY DEF CatalogInv, PerClient, TypeOK
<1>2. ASSUME NEW a, Answer(c, a) PROVE Others(c)
  BY <1>1, <1>2 DEF Answer, Others
<1>3. ASSUME NEW label, Go(c, label) PROVE Others(c)
  BY <1>1, <1>3 DEF Go, Others
<1>4. ASSUME NEW changes, Write(c, changes) PROVE Others(c)
  BY <1>1, <1>4 DEF Write, Others
<1>5. CASE FindPlan(c)
  <2>1. (\E a : Answer(c, a)) \/ (\E label : Go(c, label))
    BY <1>5 DEF FindPlan
  <2>2. pc[c] = "plan" /\ alone' = alone
    BY <1>5 DEF FindPlan
  <2> QED
    BY <1>2, <1>3, <2>1, <2>2 DEF Busy
<1>6. CASE ListSteps(c)
  BY <1>1, <1>6 DEF ListSteps, Others, Busy
<1>7. CASE Add(c)
  BY <1>1, <1>2, <1>7 DEF Add, Others, Busy
<1>8. CASE Get(c)
  <2>1. (\E a : Answer(c, a)) \/ (\E label : Go(c, label))
    BY <1>8 DEF Get
  <2>2. pc[c] = "get" /\ alone' = alone
    BY <1>8 DEF Get
  <2> QED
    BY <1>2, <1>3, <2>1, <2>2 DEF Busy
<1>9. CASE Load(c)
  <2>1. pc[c] = "load" /\ alone' = alone
    BY <1>9 DEF Load
  <2>2. req[c].op \in {"update", "delete", "reorder", "update-plan", "delete-plan"}
    BY <2>1 DEF CatalogInv, Asked
  <2>3. (\E a : Answer(c, a)) \/ (\E changes : Write(c, changes))
    BY <1>9, <2>2 DEF Load
  <2> QED
    BY <1>2, <1>4, <2>1, <2>3 DEF Busy
<1>10. CASE LockRow(c)
  BY <1>1, <1>10 DEF LockRow, Others, Busy
<1>11. CASE EnterIndex(c)
  BY <1>1, <1>11 DEF EnterIndex, Others, Busy
<1>12. CASE Violate(c)
  BY <1>2, <1>12 DEF Violate, Busy
<1>13. CASE Commit(c)
  BY <1>2, <1>13 DEF Commit, Busy
<1>14. CASE AbortDeadlock(c)
  <2>1. WaitsFor(c) # {}
    BY <1>14 DEF AbortDeadlock, Deadlocked
  <2>2. pc[c] # "idle"
    BY <2>1 DEF WaitsFor
  <2> QED
    BY <1>2, <1>14, <2>2 DEF AbortDeadlock, Busy
<1> QED
  BY <1>5, <1>6, <1>7, <1>8, <1>9, <1>10, <1>11, <1>12, <1>13, <1>14 DEF Advance

LEMMA LastSequenceBounds ==
    ASSUME TypeOK, Entries, NEW i \in LiveIds
    PROVE  rows[i].seq < LastSequence + 1
<1> DEFINE f == [k \in LiveIds |-> rows[k].seq]
<1>1. \A k \in LiveIds : rows[k].seq \in Nat
  BY RowTypes DEF LiveIds, Entries, Row
<1>2. f \in [LiveIds -> Nat]
  BY <1>1
<1>3. \E m \in {0} \cup {f[k] : k \in LiveIds} : m \in Nat /\ \A k \in LiveIds : f[k] <= m
  BY <1>2, LiveIdsFinite, LargestPosition
<1>4. \E m \in {0} \cup {rows[k].seq : k \in LiveIds} : \A k \in LiveIds : rows[k].seq <= m
  BY <1>3
<1>5. LastSequence \in {0} \cup {rows[k].seq : k \in LiveIds} /\ \A k \in LiveIds : rows[k].seq <= LastSequence
  BY <1>4 DEF LastSequence
<1>6. LastSequence \in Nat /\ rows[i].seq \in Nat /\ rows[i].seq <= LastSequence
  BY <1>1, <1>5
<1> QED
  BY <1>6

(* What is left to show of a step of the client itself: it has moved on.    *)
LEMMA UndisturbedStep ==
    ASSUME CatalogInv, NEW c \in Clients, Works(c), Undisturbed(c), Advance(c), pc'[c] # "idle"
    PROVE  Undisturbed(c)'
<1>1. Others(c) /\ Busy = {c}
  BY AdvanceIsOwn DEF Undisturbed
<1>2. /\ DOMAIN todo = Clients /\ DOMAIN writes = Clients /\ DOMAIN req = Clients /\ pc \in [Clients -> PCs]
  BY DEF CatalogInv, PerClient, TypeOK
<1>3. Busy' = {c}
  BY <1>1 DEF Others, Busy
<1>4. ASSUME NEW a, Answer(c, a) PROVE FALSE
  BY <1>2, <1>4 DEF Answer
<1>5. CASE FindPlan(c)
  <2>1. planLive /\ rows' = rows /\ pc[c] = "plan"
    BY <1>4, <1>5 DEF FindPlan, dbVars
  <2>2. Accepted(req[c])
    BY <2>1 DEF CatalogInv, Asked
  <2>3. PICK label \in {"list", "add", "load"} : Go(c, label) /\ (label = "add" => req[c].op = "create")
    BY <1>5, <2>1 DEF FindPlan
  <2>4. pc'[c] = label /\ req' = req
    BY <1>2, <2>3 DEF Go
  <2>5. ~Writing(c)' /\ ~Reorders(c)' /\ ~(pc'[c] = "add" /\ req'[c].op = "append")
    BY <2>3, <2>4 DEF Writing, Reorders
  <2> QED
    BY <1>3, <2>1, <2>5 DEF Undisturbed, planLive
<1>6. CASE ListSteps(c)
  <2>1. /\ pc'[c] = "add" /\ rows' = rows /\ pc[c] = "list" /\ req'[c].seq = LastSequence + 1
    BY <1>2, <1>6 DEF ListSteps, dbVars
  <2>2. planLive /\ \A i \in LiveIds : rows[i].seq < LastSequence + 1
    BY <2>1, LastSequenceBounds DEF Undisturbed, CatalogInv
  <2>3. ~Writing(c)' /\ ~Reorders(c)' /\ LiveIds' = LiveIds /\ planLive'
    BY <2>1, <2>2 DEF Writing, Reorders, LiveIds, planLive
  <2> QED
    BY <1>3, <2>1, <2>2, <2>3 DEF Undisturbed
<1>7. CASE Add(c)
  <2>1. planLive /\ pc[c] = "add" /\ rows' = rows /\ req' = req /\ pc'[c] = "write"
    BY <1>2, <1>4, <1>7 DEF Add
  <2>2. PICK w : todo'[c] = <<w>> /\ w.seq = req[c].seq
    BY <1>2, <1>7, <2>1 DEF Add
  <2>3. req[c].op \in {"append", "create"} /\ LiveIds' = LiveIds
    BY <2>1 DEF CatalogInv, Asked, LiveIds
  <2>4. \A k \in DOMAIN todo'[c] : todo'[c][k].seq = req[c].seq
    BY <2>2
  <2>5. req[c].op = "append" => \A i \in LiveIds : rows[i].seq < req[c].seq
    BY <2>1 DEF Undisturbed
  <2>6. ~Reorders(c)'
    BY <2>1, <2>3 DEF Reorders
  <2> QED
    BY <1>3, <2>1, <2>3, <2>4, <2>5, <2>6 DEF Undisturbed
<1>8. CASE Get(c)
  <2>1. Go(c, "load") /\ pc[c] = "get"
    BY <1>4, <1>8 DEF Get
  <2>2. pc'[c] = "load" /\ req'[c].op = "update"
    BY <1>2, <2>1 DEF Go, CatalogInv, Asked
  <2>3. ~Writing(c)' /\ ~Reorders(c)'
    BY <2>2 DEF Writing, Reorders
  <2> QED
    BY <1>3, <2>2, <2>3 DEF Undisturbed
<1>9. CASE Load(c)
  <2>1. pc[c] = "load" /\ rows' = rows
    BY <1>9 DEF Load, dbVars
  <2>2. req[c].op \in {"update", "delete", "reorder", "update-plan", "delete-plan"} /\ writes[c] = <<>>
    BY <2>1 DEF CatalogInv, Asked, Locks, Writing
  <2>3. (\E changes : Write(c, changes)) /\ (req[c].op = "reorder" => IsPermutation(req[c].positions))
    BY <1>4, <1>9, <2>2 DEF Load
  <2>4. pc'[c] = "write" /\ req' = req /\ writes'[c] = <<>>
    BY <1>2, <2>2, <2>3 DEF Write
  <2>5. LiveIds' = LiveIds
    BY <2>1 DEF LiveIds
  <2>6. Reorders(c)' => DOMAIN req'[c].positions = LiveIds' /\ \A i \in DOMAIN writes'[c] : writes'[c][i].live
    BY <2>3, <2>4, <2>5, EmptyDomain DEF Reorders, IsPermutation
  <2> QED
    BY <1>3, <2>2, <2>4, <2>6 DEF Undisturbed
<1>10. CASE LockRow(c)
  <2>1. PICK i, v : /\ writes'[c] = Over([k \in {i} |-> v], writes[c])
                    /\ i = Pending(c).id /\ v = NewVersion(c, Pending(c))
    BY <1>2, <1>10 DEF LockRow
  <2>2. pc[c] = "write" /\ todo[c] # <<>> /\ pc'[c] = "index" /\ req' = req /\ todo' = todo /\ rows' = rows
    BY <1>2, <1>10 DEF LockRow, dbVars
  <2>3. LiveIds' = LiveIds /\ Writing(c) /\ (Reorders(c)' <=> Reorders(c))
    BY <2>2 DEF LiveIds, Reorders, Writing
  <2>4. ASSUME Reorders(c)
        PROVE  DOMAIN req[c].positions = LiveIds /\ \A k \in DOMAIN writes'[c] : writes'[c][k].live
    <3>1. DOMAIN req[c].positions = LiveIds /\ \A k \in DOMAIN writes[c] : writes[c][k].live
      BY <2>4 DEF Undisturbed
    <3>2. i \in LiveIds /\ Pending(c).live
      <4>1. Pending(c) = todo[c][1] /\ 1 \in DOMAIN todo[c]
        BY <2>2, VersionType
      <4> QED
        <5>1. Reordering(req[c].positions, todo[c], writes[c], pc[c])
          BY <2>4 DEF Works
        <5>2. \A k \in DOMAIN todo[c] :
                  todo[c][k].id \in DOMAIN req[c].positions /\ todo[c][k].live
          BY <5>1 DEF Reordering, ReorderingBy, Parks
        <5>3. todo[c][1].id \in DOMAIN req[c].positions /\ todo[c][1].live
          BY <4>1, <5>2
        <5> QED
          BY <2>1, <3>1, <4>1, <5>3
    <3>3. PICK old : old = Over(writes[c], rows)
      OBVIOUS
    <3>4. i \in DOMAIN old /\ old[i].live
      <4>1. /\ DOMAIN Over(writes[c], rows) = DOMAIN writes[c] \cup DOMAIN rows
            /\ \A k \in DOMAIN writes[c] : Over(writes[c], rows)[k] = writes[c][k]
            /\ \A k \in DOMAIN rows \ DOMAIN writes[c] : Over(writes[c], rows)[k] = rows[k]
        BY OverType, Zenon
      <4>2. i \in DOMAIN rows /\ rows[i].live
        BY <3>2 DEF LiveIds
      <4> QED
        BY <3>1, <3>3, <4>1, <4>2
    <3>5. v.live
      BY <2>1, <3>2, <3>3, <3>4 DEF NewVersion
    <3>6. PICK new : new = [k \in {i} |-> v]
      OBVIOUS
    <3>7. /\ DOMAIN Over(new, writes[c]) = DOMAIN new \cup DOMAIN writes[c]
          /\ \A k \in DOMAIN new : Over(new, writes[c])[k] = new[k]
          /\ \A k \in DOMAIN writes[c] \ DOMAIN new : Over(new, writes[c])[k] = writes[c][k]
      BY OverType, Zenon
    <3>8. DOMAIN new = {i} /\ new[i] = v
      BY <3>6
    <3>9. \A k \in DOMAIN writes'[c] : writes'[c][k].live
      BY <2>1, <3>1, <3>5, <3>6, <3>7, <3>8
    <3> QED
      BY <3>1, <3>9
  <2> QED
    BY <1>3, <2>2, <2>3, <2>4 DEF Undisturbed
<1>11. CASE EnterIndex(c)
  <2>1. /\ pc[c] = "index" /\ pc'[c] = "write" /\ req' = req /\ rows' = rows /\ writes' = writes
        /\ todo'[c] = Tail(todo[c])
    BY <1>2, <1>11 DEF EnterIndex, dbVars
  <2>2. LiveIds' = LiveIds /\ Writing(c) /\ (Reorders(c)' <=> Reorders(c))
    BY <2>1 DEF LiveIds, Reorders, Writing
  <2>3. todo[c] \in Seq(Change) /\ todo[c] # <<>>
    BY <2>1, WriteTypes DEF CatalogInv
  <2>4. \A k \in DOMAIN todo'[c] : \E l \in DOMAIN todo[c] : todo'[c][k] = todo[c][l]
    <3>1. \A k \in DOMAIN Tail(todo[c]) : k + 1 \in DOMAIN todo[c] /\ Tail(todo[c])[k] = todo[c][k + 1]
      BY <2>3
    <3> QED
      BY <2>1, <3>1
  <2> QED
    BY <1>3, <2>1, <2>2, <2>4 DEF Undisturbed
<1>12. CASE Violate(c) \/ Commit(c) \/ AbortDeadlock(c)
  BY <1>4, <1>12 DEF Violate, Commit, AbortDeadlock
<1> QED
  BY <1>5, <1>6, <1>7, <1>8, <1>9, <1>10, <1>11, <1>12 DEF Advance

LEMMA AdvanceKeepsWork ==
    ASSUME CatalogInv, WorkInv, NEW c \in Clients, Advance(c)
    PROVE  WorkInv'
<1>1. /\ DOMAIN todo = Clients /\ DOMAIN writes = Clients /\ DOMAIN req = Clients /\ pc \in [Clients -> PCs]
  BY DEF CatalogInv, PerClient, TypeOK
<1>2. Others(c) /\ c \in Busy /\ alone' = alone
  BY AdvanceIsOwn
<1>3. Working
  BY DEF WorkInv
<1>4. Working'
  <2>1. ASSUME NEW a, Answer(c, a), rows' = rows, ids' = ids PROVE Working'
    <3>1. writes'[c] = <<>> /\ pc'[c] = "idle"
      BY <1>1, <2>1 DEF Answer
    <3> QED
      BY <1>2, <1>3, <2>1, <3>1, StopsKeepWork
  <2>2. ASSUME NEW label, pc'[c] = label, label \in {"list", "add", "load"}, writes' = writes, ~Writing(c),
               rows' = rows, ids' = ids
        PROVE  Working'
    <3>1. writes'[c] = <<>> /\ pc'[c] \notin {"write", "index"}
      BY <2>2 DEF CatalogInv, Locks
    <3> QED
      BY <1>2, <1>3, <2>2, <3>1, StopsKeepWork
  <2>3. CASE FindPlan(c)
    <3>1. pc[c] = "plan" /\ rows' = rows /\ ids' = ids /\ ~Writing(c)
      BY <2>3 DEF FindPlan, dbVars, Writing
    <3>2. (\E a : Answer(c, a)) \/ \E label \in {"list", "add", "load"} : Go(c, label)
      BY <2>3 DEF FindPlan
    <3>3. ASSUME NEW label \in {"list", "add", "load"}, Go(c, label) PROVE Working'
      BY <1>1, <2>2, <3>1, <3>3 DEF Go
    <3> QED
      BY <2>1, <3>1, <3>2, <3>3
  <2>4. CASE ListSteps(c)
    BY <1>1, <2>2, <2>4 DEF ListSteps, dbVars, Writing
  <2>5. CASE Add(c)
    BY <1>3, <2>5, AddKeepsWork
  <2>6. CASE Get(c)
    <3>1. pc[c] = "get" /\ rows' = rows /\ ids' = ids /\ ~Writing(c)
      BY <2>6 DEF Get, dbVars, Writing
    <3>2. (\E a : Answer(c, a)) \/ Go(c, "load")
      BY <2>6 DEF Get
    <3>3. ASSUME Go(c, "load") PROVE Working'
      BY <1>1, <2>2, <3>1, <3>3 DEF Go
    <3> QED
      BY <2>1, <3>1, <3>2, <3>3
  <2>7. CASE Load(c)
    BY <1>3, <2>7, LoadKeepsWork
  <2>8. CASE LockRow(c)
    BY <1>3, <2>8, LockRowKeepsWork
  <2>9. CASE EnterIndex(c)
    BY <1>3, <2>9, EnterIndexKeepsWork
  <2>10. CASE Violate(c)
    BY <2>1, <2>10 DEF Violate, dbVars
  <2>11. CASE Commit(c)
    BY <1>3, <2>11, CommitKeepsWork
  <2>12. CASE AbortDeadlock(c)
    BY <2>1, <2>12 DEF AbortDeadlock, dbVars
  <2> QED
    BY <2>3, <2>4, <2>5, <2>6, <2>7, <2>8, <2>9, <2>10, <2>11, <2>12 DEF Advance
<1>5. ASSUME NEW d \in Clients, alone'[d], d \in Busy' PROVE Undisturbed(d)'
  <2>1. CASE d = c
    <3>1. alone[c] /\ pc'[c] # "idle"
      BY <1>2, <1>5, <2>1 DEF Busy
    <3>2. Undisturbed(c) /\ Works(c)
      BY <1>2, <3>1 DEF WorkInv, Working
    <3> QED
      BY <2>1, <3>1, <3>2, UndisturbedStep
  <2>2. CASE d # c
    <3>1. alone[d] /\ d \in Busy
      BY <1>2, <1>5, <2>2 DEF Busy, Others
    <3>2. Busy = {d}
      BY <3>1 DEF WorkInv, Undisturbed
    <3> QED
      BY <1>2, <2>2, <3>2
  <2> QED
    BY <2>1, <2>2
<1> QED
  BY <1>4, <1>5 DEF WorkInv

LEMMA BeginKeepsWork ==
    ASSUME CatalogInv, WorkInv, NEW c \in Clients, NEW r \in Payloads, Begin(c, r)
    PROVE  WorkInv'
<1>1. /\ DOMAIN todo = Clients /\ DOMAIN writes = Clients /\ DOMAIN req = Clients /\ pc \in [Clients -> PCs]
  BY DEF CatalogInv, PerClient, TypeOK
<1>2. Accepted(r)
  BY PayloadsAssumption
<1>3. /\ pc[c] = "idle" /\ rows' = rows /\ ids' = ids /\ todo' = todo /\ writes' = writes
      /\ pc'[c] \in {"plan", "get", "load"} /\ req'[c] = r
      /\ pc'[c] = "load" => r.op \in {"delete", "delete-plan"}
      /\ alone' = [d \in Clients |-> IF d = c THEN Busy = {} ELSE alone[d] /\ d \notin Busy]
  BY <1>1, <1>2 DEF Begin, Accepted, dbVars
<1>4. Others(c)
  BY <1>1 DEF Begin, Others
<1>5. writes'[c] = <<>> /\ pc'[c] \notin {"write", "index"}
  BY <1>3 DEF CatalogInv, Locks, Writing
<1>6. Working'
  BY <1>3, <1>4, <1>5, StopsKeepWork DEF WorkInv
<1>7. ASSUME NEW d \in Clients, alone'[d], d \in Busy' PROVE Undisturbed(d)'
  <2>1. CASE d = c
    <3>1. Busy = {}
      BY <1>3, <1>7, <2>1
    <3>2. Busy' = {c}
      BY <1>3, <1>4, <3>1 DEF Busy, Others
    <3>3. ~Writing(c)' /\ ~Reorders(c)'
      BY <1>3 DEF Writing, Reorders
    <3> QED
      BY <1>3, <2>1, <3>2, <3>3 DEF Undisturbed
  <2>2. CASE d # c
    <3>1. d \notin Busy
      BY <1>3, <1>7, <2>2
    <3> QED
      BY <1>4, <1>7, <2>2, <3>1 DEF Busy, Others
  <2> QED
    BY <2>1, <2>2
<1> QED
  BY <1>6, <1>7 DEF WorkInv

LEMMA InitIsWork == Init => WorkInv
<1> SUFFICES ASSUME Init PROVE WorkInv
  OBVIOUS
<1>1. PICK rs \in InitialRows : rows = Over([i \in {Plan} |-> [seq |-> Keep, live |-> TRUE]], rs)
  BY DEF Init
<1>2. PICK new : new = [i \in {Plan} |-> [seq |-> Keep, live |-> TRUE]]
  OBVIOUS
<1>3. Plan \in DOMAIN new /\ new[Plan].seq = Keep
  BY <1>2
<1>4. \A i \in DOMAIN new : Over(new, rs)[i] = new[i]
  BY OverType, Zenon
<1>5. rows[Plan].seq = Keep
  BY <1>1, <1>2, <1>3, <1>4
<1>6. \A c \in Clients : pc[c] = "idle" /\ writes[c] = <<>>
  BY DEF Init
<1>7. \A c \in Clients : ~Writing(c) /\ ~Reorders(c) /\ ~Inserts(c) /\ c \notin Busy
  BY <1>6 DEF Writing, Reorders, Inserts, Busy
<1>8. \A c \in Clients : Works(c) /\ Kept(c)
  BY <1>6, <1>7, EmptyDomain DEF Works, Kept
<1>9. OwnRows
  BY <1>7 DEF OwnRows
<1> QED
  BY <1>5, <1>7, <1>8, <1>9 DEF WorkInv, Working

(* What every transaction has still to do and has done, and what a request  *)
(* that has the plan to itself can rely on, whoever else edits the plan.    *)
THEOREM WorkInvIsInductive == Spec => []WorkInv
<1>1. Init => WorkInv
  BY InitIsWork
<1>2. CatalogInv /\ WorkInv /\ [Next]_vars => WorkInv'
  <2> SUFFICES ASSUME CatalogInv, WorkInv, [Next]_vars PROVE WorkInv'
    OBVIOUS
  <2>1. ASSUME NEW c \in Clients, NEW r \in Payloads, Begin(c, r) PROVE WorkInv'
    BY <2>1, BeginKeepsWork
  <2>2. ASSUME NEW c \in Clients, Advance(c) PROVE WorkInv'
    BY <2>2, AdvanceKeepsWork
  <2>3. CASE UNCHANGED vars
    <3>1. /\ rows' = rows /\ ids' = ids /\ req' = req /\ pc' = pc /\ todo' = todo
          /\ writes' = writes /\ alone' = alone
      BY <2>3 DEF vars, dbVars
    <3>2. \A c \in Clients : Touched(c)' = Touched(c) /\ (Inserts(c)' <=> Inserts(c)) /\ (Writing(c)' <=> Writing(c))
                             /\ (Reorders(c)' <=> Reorders(c))
      BY <3>1 DEF Touched, Inserts, Writing, Reorders
    <3>3. \A c \in Clients : Works(c)' /\ Kept(c)'
      BY <3>1, <3>2 DEF WorkInv, Working, Works, Kept, Pending, Numbered
    <3>4. OwnRows' /\ rows'[Plan].seq = Keep
      BY <3>1, <3>2 DEF WorkInv, Working, OwnRows
    <3>5. Busy' = Busy /\ LiveIds' = LiveIds /\ (planLive' <=> planLive)
      BY <3>1 DEF Busy, LiveIds, planLive
    <3>6. \A c \in Clients : alone'[c] /\ c \in Busy' => Undisturbed(c)'
      BY <3>1, <3>2, <3>5 DEF WorkInv, Undisturbed
    <3> QED
      BY <3>3, <3>4, <3>6 DEF WorkInv, Working
  <2> QED
    BY <2>1, <2>2, <2>3 DEF Next
<1> QED
  BY <1>1, <1>2, CatalogInvIsInductive, PTL DEF Spec

-----------------------------------------------------------------------------
(* Deadlocks. *)

(* A reorder that places a step has locked them all. *)
LEMMA PlacingHoldsAll ==
    ASSUME NEW P, DOMAIN P \subseteq Nat \ {0}, NEW stmts \in Seq(Change), NEW ws, NEW label,
           Reordering(P, stmts, ws, label), stmts # <<>> => ~(stmts[1].seq < 0)
    PROVE  DOMAIN ws = DOMAIN P
<1>0. PICK index : ReorderingBy(P, index, stmts, ws, label)
  BY DEF Reordering
<1> SUFFICES ASSUME NEW i \in DOMAIN P \ DOMAIN ws PROVE FALSE
  BY <1>0 DEF ReorderingBy, Covers
<1>a. index[i] \in Int /\ index[i] > 0
  BY <1>0 DEF ReorderingBy, Lists, Positions
<1>1. PICK k \in DOMAIN stmts : stmts[k].id = i /\ stmts[k].seq = -index[i]
  BY <1>0 DEF ReorderingBy, Covers
<1>2. stmts # <<>> /\ 1 \in DOMAIN stmts /\ k \in Nat \ {0} /\ stmts[k].seq < 0
  BY <1>1, <1>a
<1>3. k # 1
  BY <1>2
<1>4. 1 < k
  BY <1>2, <1>3
<1> QED
  BY <1>0, <1>2, <1>4 DEF ReorderingBy, Parks

(* Whoever is waited for holds the row, or has the position, in the way.    *)
LEMMA WaitedForHolds ==
    ASSUME NEW c \in Clients, NEW d \in WaitsFor(c)
    PROVE  /\ d \in Clients \ {c}
           /\ \/ pc[c] = "write" /\ todo[c] # <<>> /\ Pending(c).id \in DOMAIN writes[d]
              \/ /\ pc[c] = "index" /\ writes[c][Pending(c).id].live
                 /\ \E i \in DOMAIN writes[d] :
                       /\ i # Pending(c).id
                       /\ \/ /\ i \in Indexed(d) /\ writes[d][i].live
                             /\ writes[d][i].seq = writes[c][Pending(c).id].seq
                          \/ /\ i \in DOMAIN rows /\ rows[i].live
                             /\ rows[i].seq = writes[c][Pending(c).id].seq
<1>1. CASE pc[c] = "write" /\ todo[c] # <<>>
  BY <1>1 DEF WaitsFor, Writing
<1>2. CASE pc[c] = "index"
  BY <1>2 DEF WaitsFor, Undecided, InTheWay, Indexed, Writing
<1> QED
  BY <1>1, <1>2 DEF WaitsFor

(* No position is 0. *)
LEMMA EntriesArePositive ==
    ASSUME CatalogInv, WorkInv, NEW d \in Clients, NEW i \in Indexed(d), i # Plan
    PROVE  writes[d][i].seq # Keep
<1>1. i \in DOMAIN writes[d] /\ writes[d][i].live /\ ~(pc[d] = "index" /\ Pending(d).id = i)
  BY DEF Indexed
<1>2. Writing(d)
  BY <1>1, EmptyDomain DEF CatalogInv, Locks
<1>3. CASE Reorders(d)
  <2>1. PICK P : P = req[d].positions
    OBVIOUS
  <2>2. /\ P \in [DOMAIN P -> Positions] /\ DOMAIN P \subseteq DOMAIN rows \ {Plan}
        /\ Reordering(P, todo[d], writes[d], pc[d])
    BY <1>3, <2>1 DEF WorkInv, Working, Works, Numbered
  <2>3. DOMAIN P \subseteq Nat \ {0}
    BY <2>2, RowTypes DEF CatalogInv, Plan
  <2>0. PICK index : ReorderingBy(P, index, todo[d], writes[d], pc[d])
    BY <2>2 DEF Reordering
  <2>4. i \in DOMAIN P /\ writes[d][i].seq \in {-index[i], P[i]}
    BY <1>1, <2>0 DEF ReorderingBy, Covers, Placing
  <2> QED
    BY <2>0, <2>2, <2>4 DEF ReorderingBy, Lists, Positions, Keep
<1>4. CASE ~Reorders(d)
  <2>1. OneRow(req[d].op, todo[d], writes[d], pc[d])
    BY <1>2, <1>4 DEF WorkInv, Working, Works
  <2>2. pc[d] = "write" /\ todo[d] = <<>>
    <3>1. pc[d] # "index"
      <4> SUFFICES ASSUME pc[d] = "index" PROVE FALSE
        OBVIOUS
      <4>1. todo[d] # <<>> /\ DOMAIN writes[d] = {todo[d][1].id}
        BY <2>1 DEF OneRow
      <4>2. Pending(d) = todo[d][1]
        BY <4>1, VersionType
      <4> QED
        BY <1>1, <4>1, <4>2
    <3> QED
      BY <1>1, <1>2, <2>1, <3>1 DEF OneRow, Writing
  <2>3. Positioned(d)
    BY DEF CatalogInv, Detours
  <2>4. writes[d][i].seq > 0
    BY <1>1, <2>2, <2>3, EmptyDomain DEF Positioned
  <2> QED
    BY <2>4 DEF Keep
<1> QED
  BY <1>3, <1>4

LEMMA WaitersReorderOrMove ==
    ASSUME CatalogInv, WorkInv, NEW c \in Clients, NEW d \in WaitsFor(c), WaitsFor(d) # {}
    PROVE  Reorders(d) \/ Moves(d)
<1> SUFFICES ASSUME ~Reorders(d), ~Moves(d) PROVE FALSE
  OBVIOUS
<1>1. d \in Clients /\ d # c
  BY WaitedForHolds
<1>2. DOMAIN writes[d] # {}
  BY WaitedForHolds
<1>3. Writing(d)
  BY <1>1, <1>2, EmptyDomain DEF CatalogInv, Locks
<1>4. /\ OneRow(req[d].op, todo[d], writes[d], pc[d])
      /\ req[d].op \in {"append", "create", "update", "delete", "update-plan", "delete-plan"}
  BY <1>1, <1>3 DEF WorkInv, Working, Works
<1>5. PICK e : e \in WaitsFor(d)
  OBVIOUS
<1>6. pc[d] = "index"
  BY <1>1, <1>2, <1>4, <1>5, WaitedForHolds DEF OneRow
<1>7. PICK x : x = Pending(d).id
  OBVIOUS
<1>8. /\ todo[d] # <<>> /\ Pending(d) = todo[d][1] /\ DOMAIN writes[d] = {x}
      /\ 1 \in DOMAIN todo[d] /\ x \in Touched(d)
  <2>1. todo[d] # <<>> /\ DOMAIN writes[d] = {todo[d][1].id}
    BY <1>4, <1>6 DEF OneRow
  <2>2. Pending(d) = todo[d][1] /\ 1 \in DOMAIN todo[d]
    BY <1>1, <2>1, VersionType
  <2> QED
    BY <1>7, <2>1, <2>2 DEF Touched
<1>9. writes[d][x].live
  BY <1>1, <1>5, <1>6, <1>7, WaitedForHolds
<1>10. x \notin Indexed(d)
  BY <1>6, <1>7 DEF Indexed
(* An insertion that waits is in nobody's way. *)
<1>11. ~Inserts(d)
  <2> SUFFICES ASSUME Inserts(d) PROVE FALSE
    OBVIOUS
  <2>1. x \notin DOMAIN rows
    BY <1>1, <1>8 DEF WorkInv, Working, Works
  <2>2. pc[c] = "write" /\ todo[c] # <<>> /\ Pending(c).id = x
    BY <1>8, <1>10, <2>1, WaitedForHolds DEF Indexed
  <2>3. x \in Touched(c) /\ Writing(c)
    <3>1. Pending(c) = todo[c][1] /\ 1 \in DOMAIN todo[c]
      BY <2>2, VersionType
    <3> QED
      BY <2>2, <3>1 DEF Touched, Writing
  <2> QED
    BY <1>1, <1>8, <2>1, <2>3 DEF WorkInv, Working, Works, OwnRows
<1>12. req[d].op \in {"update", "update-plan"}
  <2>1. todo[d][1].live
    BY <1>4, <1>6, <1>7, <1>8, <1>9 DEF OneRow
  <2> QED
    BY <1>3, <1>4, <1>8, <1>11, <2>1 DEF OneRow, Inserts
<1>13. x \in DOMAIN rows /\ (x = Plan <=> req[d].op = "update-plan")
  BY <1>1, <1>3, <1>4, <1>7, <1>8, <1>11, <1>12 DEF WorkInv, Working, Works, OneRow
<1>14. Pending(d).seq = Keep
  BY <1>4, <1>7, <1>8, <1>12, <1>13 DEF Moves, OneRow
<1>15. writes[d][x].seq = rows[x].seq /\ rows[x].live /\ rows[Plan].seq = Keep
  BY <1>1, <1>6, <1>7, <1>9, <1>14 DEF WorkInv, Working, Kept
<1>16. /\ \A i \in DOMAIN rows \ {Plan} : rows[i].live => rows[i].seq > 0
       /\ \A i \in DOMAIN rows \ {Plan}, j \in DOMAIN rows \ {Plan} :
             rows[i].live /\ rows[j].live /\ rows[i].seq = rows[j].seq => i = j
  BY DEF CatalogInv, Entries
<1>17. PICK i \in DOMAIN writes[e] :
           /\ i # x
           /\ \/ i \in Indexed(e) /\ writes[e][i].seq = rows[x].seq
              \/ i \in DOMAIN rows /\ rows[i].live /\ rows[i].seq = rows[x].seq
  BY <1>1, <1>5, <1>6, <1>7, <1>15, WaitedForHolds
<1>18. e \in Clients /\ e # d
  BY <1>1, <1>5, WaitedForHolds
<1>19. CASE i \in Indexed(e) /\ writes[e][i].seq = rows[x].seq
  <2>1. CASE i = Plan
    <3>1. writes[e][Plan].seq = Keep
      BY <1>18, <2>1 DEF WorkInv, Working, Kept
    <3> QED
      BY <1>13, <1>15, <1>16, <1>17, <1>19, <2>1, <3>1 DEF Keep
  <2>2. CASE i # Plan /\ x = Plan
    BY <1>15, <1>18, <1>19, <2>2, EntriesArePositive
  <2>3. CASE i # Plan /\ x # Plan
    <3>1. x \notin DOMAIN writes[e]
      BY <1>1, <1>8, <1>18 DEF CatalogInv, Locks
    <3> QED
      BY <1>13, <1>15, <1>18, <1>19, <2>3, <3>1 DEF CatalogInv, Entries
  <2> QED
    BY <2>1, <2>2, <2>3
<1>20. CASE i \in DOMAIN rows /\ rows[i].live /\ rows[i].seq = rows[x].seq
  <2>1. CASE i = Plan \/ x = Plan
    BY <1>13, <1>15, <1>16, <1>17, <1>20, <2>1 DEF Keep
  <2>2. CASE i # Plan /\ x # Plan
    BY <1>13, <1>15, <1>16, <1>17, <1>20, <2>2
  <2> QED
    BY <2>1, <2>2
<1> QED
  BY <1>17, <1>19, <1>20

(* A reorder that overlooks no step waits for one that holds a larger id.   *)
LEMMA ReordersWaitUpwards ==
    ASSUME CatalogInv, WorkInv, NEW c \in Clients, NEW d \in WaitsFor(c),
           Reorders(c), Reorders(d), ~Overlooks(c)
    PROVE  \E x \in DOMAIN writes[d] : \A i \in DOMAIN writes[c] : i < x
<1>1. d \in Clients /\ d # c /\ DOMAIN writes[c] \cap DOMAIN writes[d] = {}
  BY WaitedForHolds DEF CatalogInv, Locks
<1>2. PICK P, Q : P = req[c].positions /\ Q = req[d].positions
  OBVIOUS
<1>3. PICK stmts : stmts = todo[c]
  OBVIOUS
<1>4. /\ P \in [DOMAIN P -> Positions] /\ DOMAIN P \subseteq DOMAIN rows \ {Plan}
      /\ Reordering(P, stmts, writes[c], pc[c])
  BY <1>2, <1>3 DEF WorkInv, Working, Works, Numbered
<1>5. /\ Q \in [DOMAIN Q -> Positions] /\ DOMAIN Q \subseteq DOMAIN rows \ {Plan}
      /\ Reordering(Q, todo[d], writes[d], pc[d])
  BY <1>1, <1>2 DEF WorkInv, Working, Works, Numbered
<1>6. DOMAIN P \subseteq Nat \ {0} /\ DOMAIN Q \subseteq Nat \ {0}
  BY <1>4, <1>5, RowTypes DEF CatalogInv, Plan
<1>7. stmts \in Seq(Change)
  BY <1>3, WriteTypes DEF CatalogInv
<1>8. pc[c] \in {"write", "index"} /\ stmts # <<>>
  BY <1>3, WaitedForHolds, WriteTypes DEF CatalogInv
<1>9. PICK w : w = stmts[1]
  OBVIOUS
<1>a. PICK index : ReorderingBy(P, index, stmts, writes[c], pc[c])
  BY <1>4 DEF Reordering
<1>b. PICK index2 : ReorderingBy(Q, index2, todo[d], writes[d], pc[d])
  BY <1>5 DEF Reordering
<1>10. Pending(c) = w /\ 1 \in DOMAIN stmts /\ w.id \in DOMAIN P
  <2>1. Pending(c) = w /\ 1 \in DOMAIN stmts
    BY <1>3, <1>8, <1>9, VersionType
  <2> QED
    BY <1>9, <1>a, <2>1 DEF ReorderingBy, Parks
<1>11. DOMAIN writes[c] \subseteq DOMAIN P /\ DOMAIN writes[d] \subseteq DOMAIN Q
  BY <1>a, <1>b DEF ReorderingBy, Covers
<1>12. ~(w.seq < 0) => DOMAIN writes[c] = DOMAIN P
  BY <1>4, <1>6, <1>7, <1>9, PlacingHoldsAll
<1>13. CASE pc[c] = "write"
  <2>1. w.id \in DOMAIN writes[d]
    BY <1>10, <1>13, WaitedForHolds
  <2>2. w.seq < 0
    BY <1>1, <1>10, <1>12, <2>1
  <2>3. \A i \in DOMAIN writes[c] : i < w.id
    BY <1>9, <1>10, <1>13, <1>a, <2>2 DEF ReorderingBy, Placing
  <2> QED
    BY <2>1, <2>3
<1>14. CASE pc[c] = "index"
  <2>1. writes[c][w.id].seq = w.seq
    BY <1>9, <1>14, <1>a DEF ReorderingBy, Placing
  <2>2. PICK i \in DOMAIN writes[d] :
            /\ i # w.id
            /\ \/ writes[d][i].live /\ writes[d][i].seq = w.seq
               \/ i \in DOMAIN rows /\ rows[i].live /\ rows[i].seq = w.seq
    BY <1>10, <1>14, <2>1, WaitedForHolds
  <2>3. i \in DOMAIN Q /\ i \in DOMAIN rows \ {Plan}
    BY <1>5, <1>11
  <2>4. rows[i].live
    BY <1>1, <2>2, <2>3 DEF CatalogInv, Finality
(* A row of its own that another holds is still to be parked, and later. *)
  <2>5. CASE i \in DOMAIN P
    <3>1. i \in DOMAIN P \ DOMAIN writes[c]
      BY <1>1, <2>5
    <3>2. PICK k \in DOMAIN stmts : stmts[k].id = i /\ stmts[k].seq = -index[i]
      BY <1>a, <3>1 DEF ReorderingBy, Covers
    <3>3. stmts[k].seq < 0
      BY <1>a, <2>5, <3>2 DEF ReorderingBy, Lists, Positions
    <3>4. \A j \in DOMAIN writes[c] : j < i \/ j = stmts[k].id
      BY <1>a, <3>2, <3>3 DEF ReorderingBy, Placing
    <3> QED
      BY <2>2, <3>1, <3>2, <3>4
  <2>6. CASE i \notin DOMAIN P
    <3>1. i \in LiveIds
      BY <2>3, <2>4 DEF LiveIds
    <3>2. \A k \in DOMAIN P : ~(i < k)
      BY <1>2, <2>6, <3>1 DEF Overlooks, Reorders
    <3>3. ASSUME NEW k \in DOMAIN P PROVE k < i
      <4>1. k \in Nat /\ i \in Nat /\ k # i /\ ~(i < k)
        BY <1>6, <2>3, <2>6, <3>2
      <4> QED
        BY <4>1
    <3> QED
      BY <1>11, <3>3
  <2> QED
    BY <2>5, <2>6
<1> QED
  BY <1>8, <1>13, <1>14

(* Requests that wait in a circle, if none of them moves a step or overlooks *)
(* one, would all be reorders that each wait for a larger id.               *)
THEOREM DeadlocksCorrect == Spec => []DeadlocksHaveACause
<1>1. ASSUME CatalogInv, WorkInv PROVE DeadlocksHaveACause
  <2> SUFFICES ASSUME NEW S \in SUBSET Clients, Deadlocked(S), \A c \in S : ~Moves(c) /\ ~Overlooks(c)
               PROVE  FALSE
    BY DEF DeadlocksHaveACause
  <2> DEFINE T == {d \in S : \E c \in S : d \in WaitsFor(c)}
             X == UNION {DOMAIN writes[d] : d \in T}
  <2>1. \A c \in S : \E d \in T : d \in WaitsFor(c)
    BY DEF Deadlocked
  <2>2. ASSUME NEW d \in T PROVE d \in Clients /\ Reorders(d) /\ DOMAIN writes[d] # {}
    <3>1. PICK c \in S : d \in WaitsFor(c)
      OBVIOUS
    <3>2. WaitsFor(d) # {} /\ ~Moves(d)
      BY <2>1
    <3> QED
      BY <1>1, <3>1, <3>2, WaitersReorderOrMove, WaitedForHolds
  <2>3. X \in SUBSET Nat /\ IsFiniteSet(X)
    <3>1. X \subseteq 0..ids /\ ids \in Nat
      BY <1>1, <2>2, WriteTypes, RowTypes DEF CatalogInv
    <3>2. IsFiniteSet(0..ids)
      BY <3>1, FS_Interval
    <3>3. IsFiniteSet(X)
      BY <3>1, <3>2, FS_Subset
    <3>4. X \in SUBSET Nat
      BY <3>1
    <3> QED
      BY <3>3, <3>4
  <2>4. X # {}
    <3>1. PICK c \in S : TRUE
      BY DEF Deadlocked
    <3>2. PICK d \in T : d \in WaitsFor(c)
      BY <2>1
    <3>3. PICK i : i \in DOMAIN writes[d]
      BY <2>2
    <3> QED
      BY <3>3
  <2>5. PICK m \in X : \A i \in X : i <= m
    BY <2>3, <2>4, LargestExists
  <2>6. PICK c \in T : m \in DOMAIN writes[c]
    OBVIOUS
  <2>7. PICK d \in T : d \in WaitsFor(c)
    BY <2>1
  <2>8. PICK x \in DOMAIN writes[d] : \A i \in DOMAIN writes[c] : i < x
    BY <1>1, <2>2, <2>7, ReordersWaitUpwards
  <2>9. m < x /\ x <= m /\ m \in Nat /\ x \in Nat
    <3>1. x \in X
      OBVIOUS
    <3> QED
      BY <2>3, <2>5, <2>6, <2>8, <3>1
  <2> QED
    BY <2>9
<1> QED
  BY <1>1, CatalogInvIsInductive, WorkInvIsInductive, PTL

-----------------------------------------------------------------------------
(* What a reorder leaves, and when a request fails. *)

LEMMA Injective ==
    ASSUME NEW P, Numbered(P), IsFiniteSet(DOMAIN P), NEW i \in DOMAIN P, NEW j \in DOMAIN P, P[i] = P[j]
    PROVE  i = j
<1>1. Cardinality(DOMAIN P) \in Nat
  BY FS_CardinalityType
<1>2. Cardinality(1..Cardinality(DOMAIN P)) = Cardinality(DOMAIN P)
  BY <1>1, FS_Interval
<1>3. P \in Surjection(DOMAIN P, 1..Cardinality(DOMAIN P))
  <2>1. Range(P) = 1..Cardinality(DOMAIN P)
    BY DEF Numbered
  <2>2. P \in [DOMAIN P -> Range(P)] /\ \A t \in Range(P) : \E s \in DOMAIN P : P[s] = t
    BY DEF Numbered, Range
  <2> QED
    BY <2>1, <2>2 DEF Surjection
<1>4. P \in Injection(DOMAIN P, 1..Cardinality(DOMAIN P))
  BY <1>2, <1>3, FS_SurjSameCardinalityImpliesInj
<1> QED
  BY <1>4 DEF Injection, IsInjective

(* Only a commit answers ok. *)
LEMMA OkIsCommit ==
    ASSUME CatalogInv, [Next]_vars, NEW c \in Clients, answer'[c] = "ok", answer[c] # "ok"
    PROVE  Commit(c)
<1>1. answer \in [Clients -> {"none", "ok", "404", "422", "500"}]
  BY DEF CatalogInv, TypeOK
<1>2. PICK d \in Clients : (\E r \in Payloads : Begin(d, r)) \/ Advance(d)
  BY DEF Next, vars
<1>3. ~\E r \in Payloads : Begin(d, r)
  BY <1>1 DEF Begin
<1>4. ASSUME NEW a, a # "ok", Answer(d, a) PROVE FALSE
  BY <1>1, <1>4 DEF Answer
<1>5. answer' # answer
  OBVIOUS
<1>6. CASE FindPlan(d)
  BY <1>4, <1>5, <1>6 DEF FindPlan, Go
<1>7. CASE ListSteps(d) \/ LockRow(d) \/ EnterIndex(d)
  BY <1>5, <1>7 DEF ListSteps, LockRow, EnterIndex
<1>8. CASE Add(d)
  BY <1>4, <1>5, <1>8 DEF Add
<1>9. CASE Get(d)
  BY <1>4, <1>5, <1>9 DEF Get, Go
<1>10. CASE Load(d)
  <2>1. req[d].op \in {"update", "delete", "reorder", "update-plan", "delete-plan"}
    BY <1>10 DEF Load, CatalogInv, Asked
  <2>2. (\E a \in {"404", "422", "500"} : Answer(d, a)) \/ \E changes : Write(d, changes)
    BY <1>10, <2>1 DEF Load
  <2> QED
    BY <1>4, <1>5, <2>2 DEF Write
<1>11. CASE Violate(d) \/ AbortDeadlock(d)
  BY <1>4, <1>11 DEF Violate, AbortDeadlock
<1>12. CASE Commit(d)
  BY <1>1, <1>12 DEF Commit, Answer
<1> QED
  BY <1>2, <1>3, <1>6, <1>7, <1>8, <1>9, <1>10, <1>11, <1>12 DEF Advance

(* A reorder that succeeds leaves every step it names where it was asked to *)
(* be; without company it leaves the plan numbered without gaps.            *)
THEOREM ReorderCorrect == Spec => ReorderedAsAsked
<1>1. CatalogInv /\ WorkInv /\ [Next]_vars =>
        [\A c \in Clients :
          answer'[c] = "ok" /\ answer[c] # "ok" /\ req[c].op = "reorder"
          => /\ \A i \in DOMAIN req[c].positions : rows'[i].seq = req[c].positions[i]
             /\ alone[c] => {rows'[i].seq : i \in LiveIds'} = 1..Cardinality(LiveIds')]_vars
  <2> SUFFICES ASSUME CatalogInv, WorkInv, [Next]_vars, NEW c \in Clients,
                      answer'[c] = "ok", answer[c] # "ok", req[c].op = "reorder"
               PROVE  /\ \A i \in DOMAIN req[c].positions : rows'[i].seq = req[c].positions[i]
                      /\ alone[c] => {rows'[i].seq : i \in LiveIds'} = 1..Cardinality(LiveIds')
    OBVIOUS
  <2>1. Commit(c)
    BY OkIsCommit
  <2>2. pc[c] = "write" /\ todo[c] = <<>> /\ rows' = Over(writes[c], rows)
    BY <2>1 DEF Commit
  <2>3. Reorders(c) /\ c \in Busy
    BY <2>2 DEF Reorders, Writing, Busy
  <2>4. PICK P : P = req[c].positions
    OBVIOUS
  <2>5. /\ Numbered(P) /\ DOMAIN P \subseteq DOMAIN rows \ {Plan}
        /\ Reordering(P, <<>>, writes[c], "write")
    BY <2>2, <2>3, <2>4 DEF WorkInv, Working, Works
  <2>6. DOMAIN writes[c] = DOMAIN P /\ \A i \in DOMAIN P : writes[c][i].seq = P[i]
    BY <2>5, EmptyDomain DEF Reordering, ReorderingBy, Covers, Placing
  <2>7. /\ DOMAIN rows' = DOMAIN rows \cup DOMAIN P
        /\ \A i \in DOMAIN P : rows'[i] = writes[c][i]
        /\ \A i \in DOMAIN rows \ DOMAIN P : rows'[i] = rows[i]
    <3>1. /\ DOMAIN Over(writes[c], rows) = DOMAIN writes[c] \cup DOMAIN rows
          /\ \A i \in DOMAIN writes[c] : Over(writes[c], rows)[i] = writes[c][i]
          /\ \A i \in DOMAIN rows \ DOMAIN writes[c] : Over(writes[c], rows)[i] = rows[i]
      <4>1. PICK ws : ws = writes[c]
        OBVIOUS
      <4>2. PICK rs : rs = rows
        OBVIOUS
      <4>3. /\ DOMAIN Over(ws, rs) = DOMAIN ws \cup DOMAIN rs
            /\ \A i \in DOMAIN ws : Over(ws, rs)[i] = ws[i]
            /\ \A i \in DOMAIN rs \ DOMAIN ws : Over(ws, rs)[i] = rs[i]
        BY DEF Over
      <4> QED
        BY <4>1, <4>2, <4>3
    <3> QED
      BY <2>2, <2>6, <3>1
  <2>8. \A i \in DOMAIN P : rows'[i].seq = P[i]
    BY <2>6, <2>7
  <2>9. ASSUME alone[c] PROVE {rows'[i].seq : i \in LiveIds'} = 1..Cardinality(LiveIds')
    <3>1. DOMAIN P = LiveIds /\ \A i \in DOMAIN writes[c] : writes[c][i].live
      BY <2>3, <2>4, <2>9 DEF WorkInv, Undisturbed
    <3>2. LiveIds' = DOMAIN P
      <4>1. \A i : i \in LiveIds' <=> i \in DOMAIN rows' \ {Plan} /\ rows'[i].live
        BY DEF LiveIds
      <4>2. \A i : i \in LiveIds <=> i \in DOMAIN rows \ {Plan} /\ rows[i].live
        BY DEF LiveIds
      <4> QED
        BY <2>5, <2>6, <2>7, <3>1, <4>1, <4>2
    <3>3. {rows'[i].seq : i \in LiveIds'} = Range(P)
      BY <2>8, <3>2 DEF Range
    <3> QED
      BY <2>5, <3>2, <3>3 DEF Numbered
  <2> QED
    BY <2>4, <2>8, <2>9
<1> QED
  BY <1>1, CatalogInvIsInductive, WorkInvIsInductive, PTL DEF Spec, ReorderedAsAsked

(* Alone, a request that names no position finds nothing in its way.        *)
LEMMA LoneRequestsCollide ==
    ASSUME CatalogInv, WorkInv, NEW c \in Clients, alone[c], Violate(c)
    PROVE  req[c].op \in {"create", "update"}
<1> SUFFICES ASSUME req[c].op \notin {"create", "update"} PROVE FALSE
  OBVIOUS
<1>1. pc[c] = "index" /\ Duplicates(c) # {} /\ Writing(c) /\ c \in Busy
  BY DEF Violate, Writing, Busy
<1>2. Undisturbed(c) /\ Works(c) /\ Kept(c) /\ rows[Plan].seq = Keep
  BY <1>1 DEF WorkInv, Working
<1>3. PICK stmts : stmts = todo[c]
  OBVIOUS
<1>4. stmts \in Seq(Change) /\ stmts # <<>>
  BY <1>1, <1>3, WriteTypes DEF CatalogInv
<1>5. PICK w : w = stmts[1]
  OBVIOUS
<1>6. Pending(c) = w /\ 1 \in DOMAIN stmts
  BY <1>3, <1>4, <1>5, VersionType
<1>7. writes[c][w.id].live
  BY <1>1, <1>6 DEF Duplicates
<1>8. PICK i : /\ i # w.id
               /\ \/ i \in DOMAIN writes[c] /\ writes[c][i].seq = writes[c][w.id].seq
                  \/ /\ i \in DOMAIN rows \ DOMAIN writes[c] /\ rows[i].live
                     /\ rows[i].seq = writes[c][w.id].seq
  BY <1>1, <1>6, <1>7 DEF Duplicates, InTheWay, Indexed
<1>9. ASSUME NEW j \in DOMAIN rows, rows[j].live PROVE (j = Plan /\ rows[j].seq = Keep) \/ (j \in LiveIds /\ rows[j].seq > 0)
  BY <1>2, <1>9 DEF LiveIds, CatalogInv, Entries
<1>10. CASE Reorders(c)
  <2>1. PICK P : P = req[c].positions
    OBVIOUS
  <2>2. /\ Numbered(P) /\ DOMAIN P = LiveIds /\ Reordering(P, stmts, writes[c], "index")
    BY <1>1, <1>2, <1>3, <1>10, <2>1 DEF Works, Undisturbed
  <2>3. IsFiniteSet(DOMAIN P) /\ DOMAIN P \subseteq Nat \ {0} /\ \A j \in DOMAIN P : P[j] \in Int /\ P[j] > 0
    <3>1. LiveIds \subseteq 1..ids /\ ids \in Nat /\ IsFiniteSet(LiveIds)
      BY LiveIdsFinite, RowTypes DEF CatalogInv
    <3> QED
      BY <2>2, <3>1 DEF Numbered, Positions
  <2>0. PICK index : ReorderingBy(P, index, stmts, writes[c], "index")
    BY <2>2 DEF Reordering
  <2>4. w.id \in DOMAIN P /\ writes[c][w.id].seq = w.seq /\ w.seq \in {-index[w.id], P[w.id]}
    BY <1>5, <1>6, <2>0 DEF ReorderingBy, Parks, Placing
  <2>5. DOMAIN writes[c] \subseteq DOMAIN P /\ \A j \in DOMAIN writes[c] : writes[c][j].seq \in {-index[j], P[j]}
    BY <2>0 DEF ReorderingBy, Covers, Placing
  <2>8. Lists(index, DOMAIN P)
    BY <2>0 DEF ReorderingBy
  <2>6. CASE i \in DOMAIN writes[c] /\ writes[c][i].seq = w.seq
    <3>1. i \in DOMAIN P /\ w.seq \in {-index[i], P[i]}
      BY <2>5, <2>6
    <3>2. P[i] # P[w.id]
      BY <1>8, <2>2, <2>3, <2>4, <3>1, Injective
    <3>3. /\ P[i] > 0 /\ P[w.id] > 0 /\ P[i] \in Int /\ P[w.id] \in Int
          /\ index[i] > 0 /\ index[w.id] > 0 /\ index[i] \in Int /\ index[w.id] \in Int
          /\ index[i] # index[w.id]
      BY <1>8, <2>3, <2>4, <2>8, <3>1 DEF Lists, Positions
    <3> QED
      BY <1>8, <2>4, <3>1, <3>2, <3>3
  <2>7. CASE i \in DOMAIN rows \ DOMAIN writes[c] /\ rows[i].live /\ rows[i].seq = w.seq
    <3>0. index[w.id] \in Int /\ index[w.id] > 0
      BY <2>4, <2>8 DEF Lists, Positions
    <3>1. w.seq # Keep
      BY <2>3, <2>4, <3>0 DEF Keep
    <3>2. i \in DOMAIN P /\ w.seq > 0
      BY <1>9, <2>2, <2>7, <3>1
    <3>3. ~(w.seq < 0)
      BY <2>3, <2>4, <3>0, <3>2
    <3> QED
      BY <1>4, <1>5, <2>2, <2>3, <2>7, <3>2, <3>3, PlacingHoldsAll
  <2> QED
    BY <1>8, <2>4, <2>6, <2>7
<1>11. CASE ~Reorders(c)
  <2>1. OneRow(req[c].op, stmts, writes[c], "index") /\ req[c].op \in {"append", "delete", "update-plan", "delete-plan"}
    BY <1>1, <1>2, <1>3, <1>11 DEF Works
  <2>2. DOMAIN writes[c] = {w.id} /\ w.live
    BY <1>5, <1>7, <2>1 DEF OneRow
  <2>3. i \in DOMAIN rows /\ rows[i].live /\ rows[i].seq = writes[c][w.id].seq
    BY <1>8, <2>2
  <2>4. req[c].op \in {"append", "update-plan"}
    BY <1>4, <1>5, <2>1, <2>2 DEF OneRow
  <2>5. CASE req[c].op = "append"
    <3>1. w.seq # Keep /\ writes[c][w.id].seq = w.seq
      BY <1>4, <1>5, <2>1, <2>5 DEF OneRow
    <3>2. \A j \in LiveIds : rows[j].seq < w.seq
      BY <1>1, <1>2, <1>3, <1>5, <1>6, <2>5 DEF Undisturbed
    <3>3. i \in LiveIds
      BY <1>9, <2>3, <3>1
    <3>4. rows[i].seq \in Int /\ rows[i].seq < w.seq /\ rows[i].seq = w.seq
      BY <2>3, <3>1, <3>2, <3>3, RowTypes DEF CatalogInv, Row
    <3> QED
      BY <3>4
  <2>6. CASE req[c].op = "update-plan"
    <3>1. w.id = Plan
      BY <1>4, <1>5, <2>1, <2>6 DEF OneRow
    <3>2. writes[c][Plan].seq = Keep
      BY <1>2, <2>2, <3>1 DEF Kept
    <3> QED
      BY <1>8, <1>9, <2>3, <3>1, <3>2 DEF Keep
  <2> QED
    BY <2>4, <2>5, <2>6
<1> QED
  BY <1>10, <1>11

(* A request that has the plan to itself does not fail inside, unless it    *)
(* names a position.                                                        *)
THEOREM LoneRequestsCorrect == Spec => LoneRequestsSucceed
<1>1. CatalogInv /\ WorkInv /\ [Next]_vars =>
        [\A c \in Clients :
          answer'[c] = "500" /\ answer[c] # "500" /\ alone[c]
              => req[c].op \in {"create", "update"}]_vars
  <2> SUFFICES ASSUME CatalogInv, WorkInv, [Next]_vars, NEW c \in Clients,
                      answer'[c] = "500", answer[c] # "500", alone[c]
               PROVE  req[c].op \in {"create", "update"}
    OBVIOUS
  <2>1. answer \in [Clients -> {"none", "ok", "404", "422", "500"}]
    BY DEF CatalogInv, TypeOK
  <2>2. PICK d \in Clients : (\E r \in Payloads : Begin(d, r)) \/ Advance(d)
    BY DEF Next, vars
  <2>3. ~\E r \in Payloads : Begin(d, r)
    BY <2>1 DEF Begin
  <2>4. ASSUME NEW a, Answer(d, a) PROVE d = c /\ a = "500"
    BY <2>1, <2>4 DEF Answer
  <2>5. answer' # answer
    OBVIOUS
  <2>6. c \in Busy /\ d = c => Undisturbed(c)
    BY DEF WorkInv
  <2>7. CASE FindPlan(d)
    BY <2>4, <2>5, <2>7 DEF FindPlan, Go
  <2>8. CASE ListSteps(d) \/ LockRow(d) \/ EnterIndex(d)
    BY <2>5, <2>8 DEF ListSteps, LockRow, EnterIndex
  <2>9. CASE Add(d)
    <3>1. ~planLive /\ pc[d] = "add" /\ d = c
      BY <2>4, <2>5, <2>9 DEF Add
    <3> QED
      BY <2>6, <3>1 DEF Busy, Undisturbed
  <2>10. CASE Get(d)
    BY <2>4, <2>5, <2>10 DEF Get, Go
  <2>11. CASE Load(d)
    <3>1. pc[d] = "load" /\ req[d].op \in {"update", "delete", "reorder", "update-plan", "delete-plan"}
      BY <2>11 DEF Load, CatalogInv, Asked
    <3>2. ~\E changes : Write(d, changes)
      BY <2>5 DEF Write
    <3>3. CASE req[d].op = "update"
      <4>1. Answer(d, "500")
        BY <2>11, <3>2, <3>3 DEF Load
      <4> QED
        BY <2>4, <3>3, <4>1
    <3>4. CASE req[d].op = "delete"
      <4>1. Answer(d, "404")
        BY <2>11, <3>2, <3>4 DEF Load
      <4> QED
        BY <2>4, <4>1
    <3>5. CASE req[d].op = "reorder"
      <4>1. Answer(d, "422")
        BY <2>11, <3>2, <3>5 DEF Load
      <4> QED
        BY <2>4, <4>1
    <3>6. CASE req[d].op = "delete-plan"
      <4>1. Answer(d, "404")
        BY <2>11, <3>2, <3>6 DEF Load
      <4> QED
        BY <2>4, <4>1
    <3>7. CASE req[d].op = "update-plan"
      <4>1. ~planLive /\ Answer(d, "500")
        BY <2>11, <3>2, <3>7 DEF Load
      <4>2. d = c
        BY <2>4, <4>1
      <4> QED
        BY <2>6, <3>1, <3>7, <4>1, <4>2 DEF Busy, Undisturbed
    <3> QED
      BY <3>1, <3>3, <3>4, <3>5, <3>6, <3>7
  <2>12. CASE Violate(d)
    <3>1. d = c
      BY <2>4, <2>12 DEF Violate
    <3> QED
      BY <2>12, <3>1, LoneRequestsCollide
  <2>13. CASE Commit(d)
    BY <2>4, <2>13 DEF Commit
  <2>14. CASE AbortDeadlock(d)
    <3>1. d = c /\ WaitsFor(c) # {}
      BY <2>4, <2>14 DEF AbortDeadlock, Deadlocked
    <3>2. PICK e \in WaitsFor(c) : e \in Clients \ {c} /\ DOMAIN writes[e] # {}
      BY <3>1, WaitedForHolds
    <3>3. e \in Busy
      BY <3>2, EmptyDomain DEF CatalogInv, Locks, Writing, Busy
    <3>4. c \in Busy
      BY <2>14, <3>1, AdvanceIsOwn DEF Advance
    <3> QED
      BY <2>6, <3>1, <3>2, <3>3, <3>4 DEF Undisturbed
  <2> QED
    BY <2>2, <2>3, <2>7, <2>8, <2>9, <2>10, <2>11, <2>12, <2>13, <2>14 DEF Advance
<1> QED
  BY <1>1, CatalogInvIsInductive, WorkInvIsInductive, PTL DEF Spec, LoneRequestsSucceed

=============================================================================
