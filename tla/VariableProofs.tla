--------------------------- MODULE VariableProofs ---------------------------
(***************************************************************************)
(* Proofs about VariableFlow, for any plan, any responses and any number   *)
(* of executions and workers: the two readers of a body compute what their *)
(* recursion says at every path, a placeholder is replaced by its variable *)
(* whole, and the variables of an execution are as the runs find them.     *)
(*                                                                         *)
(* The induction over the parts of a path is a least counterexample: where *)
(* two functions on 0..n differ there is a first place where they do.      *)
(***************************************************************************)
EXTENDS VariableFlow, SequenceTheorems, FiniteSetTheorems, WellFoundedInduction, TLAPS

-----------------------------------------------------------------------------
(* Paths. *)

(* The first n parts of a path, and the rest of it. *)
LEMMA Parted ==
    ASSUME NEW p \in Seq(STRING), NEW n \in 0..Len(p)
    PROVE  /\ SubSeq(p, 1, n) \in Seq(STRING) /\ Len(SubSeq(p, 1, n)) = n
           /\ SubSeq(p, n + 1, Len(p)) \in Seq(STRING)
           /\ p = SubSeq(p, 1, n) \o SubSeq(p, n + 1, Len(p))
<1>1. Len(p) \in Nat /\ n \in Nat /\ n <= Len(p)
  OBVIOUS
<1>2. 1 \in 1..(Len(p) + 1) /\ n \in (1 - 1)..Len(p) /\ Len(p) \in n..Len(p)
  BY <1>1
<1>3. SubSeq(p, 1, n) \o SubSeq(p, n + 1, Len(p)) = SubSeq(p, 1, Len(p))
  BY <1>2, ConcatAdjacentSubSeq
<1>4. SubSeq(p, 1, Len(p)) = p
  BY SubSeqFull
<1>5. SubSeq(p, 1, n) \in Seq(STRING) /\ Len(SubSeq(p, 1, n)) = n
  BY <1>1
<1>6. SubSeq(p, n + 1, Len(p)) \in Seq(STRING)
  BY <1>1
<1> QED
  BY <1>3, <1>4, <1>5, <1>6

(* The two parts of a joined path are found in it again. *)
LEMMA Joined ==
    ASSUME NEW p \in Seq(STRING), NEW r \in Seq(STRING)
    PROVE  /\ p \o r \in Seq(STRING) /\ Len(p \o r) = Len(p) + Len(r)
           /\ SubSeq(p \o r, 1, Len(p)) = p
           /\ SubSeq(p \o r, Len(p) + 1, Len(p \o r)) = r
OBVIOUS

(* A prefix that is longer than the first part, or shorter. *)
LEMMA PrefixOfJoined ==
    ASSUME NEW p \in Seq(STRING), NEW r \in Seq(STRING), NEW n \in 0..Len(r)
    PROVE  SubSeq(p \o r, 1, Len(p) + n) = p \o SubSeq(r, 1, n)
OBVIOUS

LEMMA PrefixOfFirst ==
    ASSUME NEW p \in Seq(STRING), NEW r \in Seq(STRING), NEW n \in 0..Len(p)
    PROVE  SubSeq(p \o r, 1, n) = SubSeq(p, 1, n)
OBVIOUS

(* Joining is associative, and the empty path is its unit. *)
LEMMA JoinedTwice ==
    ASSUME NEW p \in Seq(STRING), NEW q \in Seq(STRING), NEW r \in Seq(STRING)
    PROVE  (p \o q) \o r = p \o (q \o r)
BY SMTT(60)

LEMMA JoinedEmpty ==
    ASSUME NEW p \in Seq(STRING)
    PROVE  p \o <<>> = p /\ <<>> \o p = p /\ <<>> \in Seq(STRING)
OBVIOUS

(* A prefix is the one before it and one more part. *)
LEMMA LastPart ==
    ASSUME NEW p \in Seq(STRING), NEW n \in 1..Len(p)
    PROVE  /\ SubSeq(p, 1, n) = SubSeq(p, 1, n - 1) \o <<p[n]>>
           /\ p[n] \in STRING /\ <<p[n]>> \in Seq(STRING) /\ SubSeq(p, 1, 0) = <<>>
OBVIOUS
-----------------------------------------------------------------------------
(* Values. *)

(* A path goes on below p exactly as it does in the value at p.             *)
LEMMA BelowPaths ==
    ASSUME NEW v, DOMAIN v \subseteq Seq(STRING), NEW p \in Seq(STRING)
    PROVE  /\ Below(v, p) = [r \in DOMAIN Below(v, p) |-> Below(v, p)[r]]
           /\ DOMAIN Below(v, p) \subseteq Seq(STRING)
           /\ \A r \in Seq(STRING) : r \in DOMAIN Below(v, p) <=> p \o r \in DOMAIN v
           /\ \A r \in DOMAIN Below(v, p) : Below(v, p)[r] = v[p \o r]
<1> DEFINE rests == {SubSeq(q, Len(p) + 1, Len(q)) : q \in DOMAIN v}
<1>1. /\ DOMAIN Below(v, p) = {r \in rests : p \o r \in DOMAIN v}
      /\ \A r \in DOMAIN Below(v, p) : Below(v, p)[r] = v[p \o r]
      /\ Below(v, p) = [r \in DOMAIN Below(v, p) |-> Below(v, p)[r]]
  BY DEF Below
<1>2. rests \subseteq Seq(STRING)
  <2>1. ASSUME NEW q \in Seq(STRING) PROVE SubSeq(q, Len(p) + 1, Len(q)) \in Seq(STRING)
    OBVIOUS
  <2> QED
    BY <2>1
<1>3. ASSUME NEW r \in Seq(STRING), p \o r \in DOMAIN v PROVE r \in rests
  <2>1. SubSeq(p \o r, Len(p) + 1, Len(p \o r)) = r
    BY Joined
  <2> QED
    BY <1>3, <2>1
<1> HIDE DEF rests
<1> QED
  BY <1>1, <1>2, <1>3

(* The same for a value, whose nodes are at paths. *)
LEMMA BelowIs ==
    ASSUME NEW v, IsValue(v), NEW p \in Seq(STRING)
    PROVE  /\ Below(v, p) = [r \in DOMAIN Below(v, p) |-> Below(v, p)[r]]
           /\ DOMAIN Below(v, p) \subseteq Seq(STRING)
           /\ \A r \in Seq(STRING) : r \in DOMAIN Below(v, p) <=> p \o r \in DOMAIN v
           /\ \A r \in DOMAIN Below(v, p) : Below(v, p)[r] = v[p \o r]
<1>1. DOMAIN v \subseteq Seq(STRING)
  BY DEF IsValue
<1> QED
  BY <1>1, BelowPaths

(* Values that agree at every path are equal. *)
LEMMA EqualValues ==
    ASSUME NEW v, NEW w, v = [p \in DOMAIN v |-> v[p]], w = [p \in DOMAIN w |-> w[p]],
           DOMAIN v \subseteq Seq(STRING), DOMAIN w \subseteq Seq(STRING),
           \A p \in Seq(STRING) : p \in DOMAIN v <=> p \in DOMAIN w,
           \A p \in DOMAIN v : v[p] = w[p]
    PROVE  v = w
<1>1. DOMAIN v = DOMAIN w
  OBVIOUS
<1>2. [p \in DOMAIN v |-> v[p]] = [p \in DOMAIN w |-> w[p]]
  BY <1>1
<1> QED
  BY <1>2

(* What is below a path of a value is a value. *)
LEMMA BelowIsValue ==
    ASSUME NEW v, IsValue(v), NEW p \in DOMAIN v
    PROVE  IsValue(Below(v, p))
<1> DEFINE w == Below(v, p)
<1>1. p \in Seq(STRING)
  BY DEF IsValue
<1>2. /\ w = [r \in DOMAIN w |-> w[r]]
      /\ DOMAIN w \subseteq Seq(STRING)
      /\ \A r \in Seq(STRING) : r \in DOMAIN w <=> p \o r \in DOMAIN v
      /\ \A r \in DOMAIN w : w[r] = v[p \o r]
  BY <1>1, BelowIs
<1> HIDE DEF w
<1>3. <<>> \in DOMAIN w
  BY <1>1, <1>2, JoinedEmpty
<1>4. ASSUME NEW r \in DOMAIN w
      PROVE  /\ w[r][1] \in Tags
             /\ w[r][1] = "text" => w[r][2] \in Seq(Range(w[r][2]))
             /\ \A n \in 0..(Len(r) - 1) :
                   SubSeq(r, 1, n) \in DOMAIN w /\ w[SubSeq(r, 1, n)][1] \in Containers
  <2>1. p \o r \in DOMAIN v /\ w[r] = v[p \o r] /\ r \in Seq(STRING)
    BY <1>2
  <2>2. ASSUME NEW n \in 0..(Len(r) - 1)
        PROVE  SubSeq(r, 1, n) \in DOMAIN w /\ w[SubSeq(r, 1, n)][1] \in Containers
    <3>1. n \in 0..Len(r) /\ SubSeq(r, 1, n) \in Seq(STRING) /\ Len(p) \in Nat /\ Len(r) \in Nat
      BY <2>1, <1>1
    <3>2. SubSeq(p \o r, 1, Len(p) + n) = p \o SubSeq(r, 1, n)
      BY <1>1, <2>1, <3>1, PrefixOfJoined
    <3>3. Len(p) + n \in 0..(Len(p \o r) - 1)
      BY <1>1, <2>1, <3>1, Joined
    <3>4. SubSeq(p \o r, 1, Len(p) + n) \in DOMAIN v /\ v[SubSeq(p \o r, 1, Len(p) + n)][1] \in Containers
      BY <2>1, <3>3 DEF IsValue
    <3> QED
      BY <1>2, <3>1, <3>2, <3>4
  <2> QED
    BY <2>1, <2>2 DEF IsValue
<1>5. IsValue(w)
  BY <1>2, <1>3, <1>4 DEF IsValue
<1> QED
  BY <1>5 DEF w

(* Below the empty path is the value itself. *)
LEMMA BelowRoot ==
    ASSUME NEW v, IsValue(v)
    PROVE  Below(v, <<>>) = v
<1>0. PICK z \in Seq(STRING) : z = <<>>
  BY EmptySeq
<1>1. \A r \in Seq(STRING) : z \o r = r
  BY <1>0
<1>2. v = [p \in DOMAIN v |-> v[p]] /\ DOMAIN v \subseteq Seq(STRING)
  BY DEF IsValue
<1>3. PICK w : w = Below(v, z)
  OBVIOUS
<1>4. /\ w = [r \in DOMAIN w |-> w[r]]
      /\ DOMAIN w \subseteq Seq(STRING)
      /\ \A r \in Seq(STRING) : r \in DOMAIN w <=> z \o r \in DOMAIN v
      /\ \A r \in DOMAIN w : w[r] = v[z \o r]
  BY <1>3, BelowIs
<1>5. \A r \in Seq(STRING) : r \in DOMAIN w <=> r \in DOMAIN v
  BY <1>1, <1>4
<1>6. \A r \in DOMAIN w : w[r] = v[r]
  BY <1>1, <1>4
<1>7. w = v
  BY <1>2, <1>4, <1>5, <1>6, EqualValues
<1> QED
  BY <1>0, <1>3, <1>7

(* Going down twice is going down the joined path. *)
LEMMA BelowBelow ==
    ASSUME NEW v, IsValue(v), NEW p \in DOMAIN v, NEW q \in Seq(STRING), p \o q \in DOMAIN v
    PROVE  q \in DOMAIN Below(v, p) /\ Below(Below(v, p), q) = Below(v, p \o q)
<1>1. p \in Seq(STRING) /\ p \o q \in Seq(STRING)
  BY DEF IsValue
<1>2. q \in DOMAIN Below(v, p)
  BY <1>1, BelowIs
<1>3. IsValue(Below(v, p))
  BY BelowIsValue
<1>4. PICK w : w = Below(v, p)
  OBVIOUS
<1>5. /\ DOMAIN w \subseteq Seq(STRING)
      /\ \A r \in Seq(STRING) : r \in DOMAIN w <=> p \o r \in DOMAIN v
      /\ \A r \in DOMAIN w : w[r] = v[p \o r]
  BY <1>1, <1>4, BelowIs
<1>6. /\ Below(w, q) = [r \in DOMAIN Below(w, q) |-> Below(w, q)[r]]
      /\ DOMAIN Below(w, q) \subseteq Seq(STRING)
      /\ \A r \in Seq(STRING) : r \in DOMAIN Below(w, q) <=> q \o r \in DOMAIN w
      /\ \A r \in DOMAIN Below(w, q) : Below(w, q)[r] = w[q \o r]
  BY <1>3, <1>4, BelowIs
<1>7. PICK x : x = Below(v, p \o q)
  OBVIOUS
<1>8. /\ x = [r \in DOMAIN x |-> x[r]]
      /\ DOMAIN x \subseteq Seq(STRING)
      /\ \A r \in Seq(STRING) : r \in DOMAIN x <=> (p \o q) \o r \in DOMAIN v
      /\ \A r \in DOMAIN x : x[r] = v[(p \o q) \o r]
  <2>1. PICK z \in Seq(STRING) : z = p \o q
    BY <1>1
  <2>2. x = Below(v, z)
    BY <1>7, <2>1
  <2>3. /\ x = [r \in DOMAIN x |-> x[r]]
        /\ DOMAIN x \subseteq Seq(STRING)
        /\ \A r \in Seq(STRING) : r \in DOMAIN x <=> z \o r \in DOMAIN v
        /\ \A r \in DOMAIN x : x[r] = v[z \o r]
    BY <2>2, BelowIs
  <2> QED
    BY <2>1, <2>3
<1>9. \A r \in Seq(STRING) : (p \o q) \o r = p \o (q \o r) /\ q \o r \in Seq(STRING)
  <2>1. ASSUME NEW r \in Seq(STRING) PROVE (p \o q) \o r = p \o (q \o r)
    BY <1>1, JoinedTwice, SMTT(60)
  <2>2. ASSUME NEW r \in Seq(STRING) PROVE q \o r \in Seq(STRING)
    BY Joined
  <2> QED
    BY <2>1, <2>2
<1>10. PICK y : y = Below(w, q)
  OBVIOUS
<1>11. /\ y = [r \in DOMAIN y |-> y[r]] /\ DOMAIN y \subseteq Seq(STRING)
       /\ \A r \in Seq(STRING) : r \in DOMAIN y <=> q \o r \in DOMAIN w
       /\ \A r \in DOMAIN y : y[r] = w[q \o r]
  BY <1>6, <1>10
<1>12. ASSUME NEW r \in Seq(STRING) PROVE r \in DOMAIN y <=> r \in DOMAIN x
  <2>1. r \in DOMAIN y <=> p \o (q \o r) \in DOMAIN v
    BY <1>5, <1>9, <1>11
  <2>2. r \in DOMAIN x <=> p \o (q \o r) \in DOMAIN v
    BY <1>8, <1>9
  <2> QED
    BY <2>1, <2>2
<1>13. ASSUME NEW r \in DOMAIN y PROVE y[r] = x[r]
  <2>1. r \in Seq(STRING) /\ r \in DOMAIN x
    BY <1>11, <1>12
  <2>2. y[r] = w[q \o r] /\ q \o r \in DOMAIN w
    BY <2>1, <1>11
  <2>3. y[r] = v[p \o (q \o r)]
    BY <2>2, <1>5
  <2>4. x[r] = v[p \o (q \o r)]
    BY <2>1, <1>8, <1>9
  <2> QED
    BY <2>3, <2>4
<1>14. y = x
  <2>1. /\ \A r \in Seq(STRING) : r \in DOMAIN y <=> r \in DOMAIN x
        /\ \A r \in DOMAIN y : y[r] = x[r]
    BY <1>12, <1>13
  <2>2. /\ x = [r \in DOMAIN x |-> x[r]] /\ DOMAIN x \subseteq Seq(STRING)
        /\ y = [r \in DOMAIN y |-> y[r]] /\ DOMAIN y \subseteq Seq(STRING)
    BY <1>8, <1>11
  <2> QED
    BY <2>1, <2>2, EqualValues
<1> QED
  BY <1>2, <1>4, <1>7, <1>10, <1>14

(* None, numbers and flags are values; what raises is not. *)
LEMMA ScalarIsValue ==
    ASSUME NEW tag \in Tags \ {"text"}, NEW payload
    PROVE  IsValue(Scalar(tag, payload))
<1>1. <<>> \in Seq(STRING) /\ Len(<<>>) = 0
  OBVIOUS
<1>2. 0..(0 - 1) = {}
  OBVIOUS
<1>3. /\ DOMAIN Scalar(tag, payload) = {<<>>} /\ Scalar(tag, payload)[<<>>] = <<tag, payload>>
      /\ Scalar(tag, payload) = [p \in DOMAIN Scalar(tag, payload) |-> Scalar(tag, payload)[p]]
  BY DEF Scalar
<1>4. \A p \in DOMAIN Scalar(tag, payload) : Scalar(tag, payload)[p][1] = tag
  BY <1>3
<1> QED
  BY <1>1, <1>2, <1>3, <1>4 DEF IsValue

LEMMA RaisedIsNoValue ==
    ASSUME NEW v, IsValue(v)
    PROVE  v # Raised
<1>1. Raised[<<>>][1] = "raised"
  BY DEF Raised, Scalar
<1>2. v[<<>>][1] \in Tags
  BY DEF IsValue
<1> QED
  BY <1>1, <1>2 DEF Tags, Containers

(* A set of naturals has a smallest element. *)
LEMMA SmallestExists ==
    ASSUME NEW S \in SUBSET Nat, S # {}
    PROVE  \E m \in S : \A n \in S : m <= n
<1> DEFINE less == OpToRel(<, Nat)
<1>1. less = {ss \in Nat \X Nat : ss[1] < ss[2]}
  BY DEF OpToRel
<1>2. PICK m \in S : \A n \in S : ~ (<<n, m>> \in less)
  BY NatLessThanWellFounded, WFMin
<1> HIDE DEF less
<1>3. ASSUME NEW n \in S PROVE m <= n
  <2>1. m \in Nat /\ n \in Nat /\ ~ (n < m)
    BY <1>1, <1>2
  <2> QED
    BY <2>1
<1> QED
  BY <1>3

(* A path and the path one part shorter. *)
LEMMA OneFurther ==
    ASSUME NEW v, IsValue(v), NEW path \in Seq(STRING), NEW n \in 1..Len(path)
    PROVE  LET p == SubSeq(path, 1, n - 1)
               q == <<path[n]>>
           IN  /\ p \in Seq(STRING) /\ q \in Seq(STRING) /\ SubSeq(path, 1, n) = p \o q
               /\ p \o q \in DOMAIN v => p \in DOMAIN v /\ v[p][1] \in Containers
<1> DEFINE p == SubSeq(path, 1, n - 1)
           q == <<path[n]>>
<1>1. n - 1 \in 0..Len(path) /\ n \in 0..Len(path)
  OBVIOUS
<1>2. SubSeq(path, 1, n) = p \o q /\ q \in Seq(STRING)
  BY LastPart
<1>3. p \in Seq(STRING) /\ Len(p) = n - 1
  BY <1>1, Parted
<1>4. SubSeq(p \o q, 1, n - 1) = p
  BY <1>2, <1>3, Joined
<1>5. p \o q \in Seq(STRING) /\ Len(p \o q) = n
  BY <1>1, <1>2, Parted
<1>6. ASSUME p \o q \in DOMAIN v PROVE p \in DOMAIN v /\ v[p][1] \in Containers
  <2>1. n - 1 \in 0..(Len(p \o q) - 1)
    BY <1>5
  <2> HIDE DEF p, q
  <2> QED
    BY <1>4, <1>6, <2>1 DEF IsValue
<1> QED
  BY <1>2, <1>3, <1>6

(* What extraction finds at a path: the value there, or it raises. *)
THEOREM ReadPathIs ==
    ASSUME NEW body, IsValue(body), NEW path \in Seq(STRING)
    PROVE  ReadPath(body, path) = IF path \in DOMAIN body THEN Below(body, path) ELSE Raised
<1> DEFINE Found(n) ==
        IF SubSeq(path, 1, n) \in DOMAIN body THEN Below(body, SubSeq(path, 1, n)) ELSE Raised
<1> DEFINE Follows(f) ==
        f = [n \in 0..Len(path) |->
                IF n = 0 THEN body ELSE ReadPathPart(f[n - 1], path[n])]
<1>1. Found(0) = body
  <2>1. SubSeq(path, 1, 0) = <<>>
    OBVIOUS
  <2>2. <<>> \in DOMAIN body
    BY DEF IsValue
  <2> QED
    BY <2>1, <2>2, BelowRoot
<1>2. ASSUME NEW n \in 1..Len(path)
      PROVE  ReadPathPart(Found(n - 1), path[n]) = Found(n)
  <2> DEFINE p == SubSeq(path, 1, n - 1)
             q == <<path[n]>>
  <2>2. p \in Seq(STRING) /\ q \in Seq(STRING) /\ SubSeq(path, 1, n) = p \o q
    BY OneFurther
  <2>3. p \o q \in DOMAIN body => p \in DOMAIN body
    BY OneFurther
  <2> HIDE DEF p, q
  <2>7. CASE p \in DOMAIN body
    <3>1. q \in DOMAIN Below(body, p) <=> p \o q \in DOMAIN body
      BY <2>2, BelowIs
    <3>2. CASE p \o q \in DOMAIN body
      <4>1. Below(Below(body, p), q) = Below(body, p \o q)
        BY <2>2, <2>7, <3>2, BelowBelow
      <4>2. ReadPathPart(Below(body, p), path[n]) = Below(Below(body, p), q)
        BY <3>1, <3>2 DEF ReadPathPart, q
      <4> QED
        BY <2>2, <2>7, <3>2, <4>1, <4>2 DEF p
    <3>3. CASE p \o q \notin DOMAIN body
      <4>1. ReadPathPart(Below(body, p), path[n]) = Raised
        BY <3>1, <3>3 DEF ReadPathPart, q
      <4> QED
        BY <2>2, <2>7, <3>3, <4>1 DEF p
    <3> QED
      BY <3>2, <3>3
  <2>8. CASE p \notin DOMAIN body
    <3>1. Found(n - 1) = Raised
      BY <2>8 DEF p
    <3>2. <<path[n]>> \notin DOMAIN Raised
      <4>1. Len(<<path[n]>>) = 1 /\ Len(<<>>) = 0
        OBVIOUS
      <4>2. DOMAIN Raised = {<<>>}
        BY DEF Raised, Scalar
      <4> QED
        BY <4>1, <4>2
    <3>3. ReadPathPart(Raised, path[n]) = Raised
      BY <3>2 DEF ReadPathPart
    <3>4. Found(n) = Raised
      BY <2>2, <2>3, <2>8
    <3> QED
      BY <3>1, <3>3, <3>4
  <2> QED
    BY <2>7, <2>8
<1> HIDE DEF Found
<1> DEFINE g == [n \in 0..Len(path) |-> Found(n)]
<1>3. Follows(g)
  <2>1. ASSUME NEW n \in 0..Len(path)
        PROVE  Found(n) = IF n = 0 THEN body ELSE ReadPathPart(g[n - 1], path[n])
    <3>1. CASE n = 0
      BY <1>1, <3>1
    <3>2. CASE n # 0
      <4>1. n \in 1..Len(path) /\ n - 1 \in 0..Len(path)
        BY <3>2
      <4>2. g[n - 1] = Found(n - 1)
        BY <4>1
      <4> QED
        BY <1>2, <3>2, <4>1, <4>2
    <3> QED
      BY <3>1, <3>2
  <2> QED
    BY <2>1
<1>4. PICK f : Follows(f) /\ ReadPath(body, path) = f[Len(path)]
  <2> HIDE DEF g
  <2> QED
    BY <1>3 DEF ReadPath
<1>5. /\ Len(path) \in 0..Len(path)
      /\ f[0] = body
      /\ \A n \in 0..Len(path) : n # 0 => f[n] = ReadPathPart(f[n - 1], path[n])
  <2> HIDE DEF Found
  <2>1. f = [n \in 0..Len(path) |->
                IF n = 0 THEN body ELSE ReadPathPart(f[n - 1], path[n])]
    BY <1>4
  <2>2. Len(path) \in 0..Len(path) /\ 0 \in 0..Len(path)
    OBVIOUS
  <2>3. \A n \in 0..Len(path) : f[n] = IF n = 0 THEN body ELSE ReadPathPart(f[n - 1], path[n])
    BY <2>1
  <2> QED
    BY <2>2, <2>3
<1>6. \A n \in 0..Len(path) : f[n] = Found(n)
  <2> DEFINE Wrong == {n \in 0..Len(path) : f[n] # Found(n)}
  <2>1. SUFFICES ASSUME Wrong # {} PROVE FALSE
    OBVIOUS
  <2>2. Wrong \in SUBSET Nat
    OBVIOUS
  <2>3. PICK n \in Wrong : \A m \in Wrong : n <= m
    <3> HIDE DEF Wrong
    <3> QED
      BY <2>1, <2>2, SmallestExists
  <2>4. n # 0
    BY <1>1, <1>5
  <2>5. n - 1 \in 0..Len(path) /\ n - 1 \notin Wrong
    BY <2>3, <2>4
  <2>6. f[n - 1] = Found(n - 1)
    BY <2>5
  <2>7. f[n] = Found(n)
    BY <1>2, <1>5, <2>4, <2>6
  <2> QED
    BY <2>7
<1>7. SubSeq(path, 1, Len(path)) = path
  OBVIOUS
<1> QED
  BY <1>4, <1>5, <1>6, <1>7 DEF Found

(* The tag of the value at a path. *)
LEMMA BelowTag ==
    ASSUME NEW v, IsValue(v), NEW p \in DOMAIN v
    PROVE  Tag(Below(v, p)) = v[p][1]
<1>1. p \in Seq(STRING)
  BY DEF IsValue
<1>2. PICK z \in Seq(STRING) : z = <<>>
  BY EmptySeq
<1>3. p \o z = p
  BY <1>1, <1>2
<1>4. z \in DOMAIN Below(v, p) /\ Below(v, p)[z] = v[p]
  <2>1. PICK w : w = Below(v, p)
    OBVIOUS
  <2>2. /\ z \in DOMAIN w <=> p \o z \in DOMAIN v
        /\ z \in DOMAIN w => w[z] = v[p \o z]
    BY <1>1, <2>1, BelowIs
  <2> QED
    BY <1>3, <2>1, <2>2
<1> QED
  BY <1>2, <1>4 DEF Tag

(* What an assertion finds at a path: the value there, or None when there  *)
(* is none or the path enters a list.                                      *)
THEOREM ReadBodyPathIs ==
    ASSUME NEW body, IsValue(body), NEW path \in Seq(STRING)
    PROVE  ReadBodyPath(body, path) =
              IF path \in DOMAIN body
                    /\ \A n \in 0..(Len(path) - 1) : body[SubSeq(path, 1, n)][1] # "list"
              THEN Below(body, path) ELSE Null
<1> DEFINE Dicts(n) == \A k \in 0..(n - 1) : body[SubSeq(path, 1, k)][1] # "list"
<1> DEFINE Found(n) ==
        IF SubSeq(path, 1, n) \in DOMAIN body /\ Dicts(n) THEN Below(body, SubSeq(path, 1, n))
        ELSE Null
<1> DEFINE Follows(f) ==
        f = [n \in 0..Len(path) |->
                IF n = 0 THEN body ELSE ReadBodyPart(f[n - 1], path[n])]
<1>1. Found(0) = body
  <2>1. SubSeq(path, 1, 0) = <<>> /\ Dicts(0)
    OBVIOUS
  <2>2. <<>> \in DOMAIN body
    BY DEF IsValue
  <2> QED
    BY <2>1, <2>2, BelowRoot
<1>2. ASSUME NEW n \in 1..Len(path)
      PROVE  ReadBodyPart(Found(n - 1), path[n]) = Found(n)
  <2> DEFINE p == SubSeq(path, 1, n - 1)
             q == <<path[n]>>
  <2>2. p \in Seq(STRING) /\ q \in Seq(STRING) /\ SubSeq(path, 1, n) = p \o q
    BY OneFurther
  <2>3. p \o q \in DOMAIN body => p \in DOMAIN body /\ body[p][1] \in Containers
    BY OneFurther
  <2>4. Dicts(n) <=> Dicts(n - 1) /\ body[p][1] # "list"
    <3>1. 0..(n - 1) = (0..((n - 1) - 1)) \cup {n - 1}
      OBVIOUS
    <3> QED
      BY <3>1
  <2> HIDE DEF p, q, Dicts
  <2>7. CASE p \in DOMAIN body /\ Dicts(n - 1)
    <3>1. q \in DOMAIN Below(body, p) <=> p \o q \in DOMAIN body
      BY <2>2, BelowIs
    <3>2. Tag(Below(body, p)) = body[p][1]
      BY <2>7, BelowTag
    <3>3. Found(n - 1) = Below(body, p)
      BY <2>7 DEF p
    <3>4. CASE p \o q \in DOMAIN body /\ body[p][1] = "dict"
      <4>1. Below(Below(body, p), q) = Below(body, p \o q)
        BY <2>2, <2>7, <3>4, BelowBelow
      <4>2. ReadBodyPart(Below(body, p), path[n]) = Below(Below(body, p), q)
        BY <3>1, <3>2, <3>4 DEF ReadBodyPart, q
      <4>3. Found(n) = Below(body, p \o q)
        BY <2>2, <2>4, <2>7, <3>4
      <4> QED
        BY <3>3, <4>1, <4>2, <4>3
    <3>5. CASE ~ (p \o q \in DOMAIN body /\ body[p][1] = "dict")
      <4>1. ReadBodyPart(Below(body, p), path[n]) = Null
        BY <3>1, <3>2, <3>5 DEF ReadBodyPart, q
      <4>2. Found(n) = Null
        BY <2>2, <2>3, <2>4, <3>5 DEF Containers
      <4> QED
        BY <3>3, <4>1, <4>2
    <3> QED
      BY <3>4, <3>5
  <2>8. CASE ~ (p \in DOMAIN body /\ Dicts(n - 1))
    <3>1. Found(n - 1) = Null
      BY <2>8 DEF p
    <3>2. ReadBodyPart(Null, path[n]) = Null
      BY DEF ReadBodyPart, Null, Scalar, Tag
    <3>3. Found(n) = Null
      BY <2>2, <2>3, <2>4, <2>8
    <3> QED
      BY <3>1, <3>2, <3>3
  <2> QED
    BY <2>7, <2>8
<1> HIDE DEF Found
<1> DEFINE g == [n \in 0..Len(path) |-> Found(n)]
<1>3. Follows(g)
  <2>1. ASSUME NEW n \in 0..Len(path)
        PROVE  Found(n) = IF n = 0 THEN body ELSE ReadBodyPart(g[n - 1], path[n])
    <3>1. CASE n = 0
      BY <1>1, <3>1
    <3>2. CASE n # 0
      <4>1. n \in 1..Len(path) /\ n - 1 \in 0..Len(path)
        BY <3>2
      <4>2. g[n - 1] = Found(n - 1)
        BY <4>1
      <4> QED
        BY <1>2, <3>2, <4>1, <4>2
    <3> QED
      BY <3>1, <3>2
  <2> QED
    BY <2>1
<1>4. PICK f : Follows(f) /\ ReadBodyPath(body, path) = f[Len(path)]
  <2> HIDE DEF g
  <2> QED
    BY <1>3 DEF ReadBodyPath
<1>5. /\ Len(path) \in 0..Len(path)
      /\ f[0] = body
      /\ \A n \in 0..Len(path) : n # 0 => f[n] = ReadBodyPart(f[n - 1], path[n])
  <2>1. f = [n \in 0..Len(path) |->
                IF n = 0 THEN body ELSE ReadBodyPart(f[n - 1], path[n])]
    BY <1>4
  <2>2. Len(path) \in 0..Len(path) /\ 0 \in 0..Len(path)
    OBVIOUS
  <2>3. \A n \in 0..Len(path) : f[n] = IF n = 0 THEN body ELSE ReadBodyPart(f[n - 1], path[n])
    BY <2>1
  <2> QED
    BY <2>2, <2>3
<1>6. \A n \in 0..Len(path) : f[n] = Found(n)
  <2> DEFINE Wrong == {n \in 0..Len(path) : f[n] # Found(n)}
  <2>1. SUFFICES ASSUME Wrong # {} PROVE FALSE
    OBVIOUS
  <2>2. Wrong \in SUBSET Nat
    OBVIOUS
  <2>3. PICK n \in Wrong : \A m \in Wrong : n <= m
    <3> HIDE DEF Wrong
    <3> QED
      BY <2>1, <2>2, SmallestExists
  <2>4. n # 0
    BY <1>1, <1>5
  <2>5. n - 1 \in 0..Len(path) /\ n - 1 \notin Wrong
    BY <2>3, <2>4
  <2>6. f[n - 1] = Found(n - 1)
    BY <2>5
  <2>7. f[n] = Found(n)
    BY <1>2, <1>5, <2>4, <2>6
  <2> QED
    BY <2>7
<1>7. SubSeq(path, 1, Len(path)) = path
  OBVIOUS
<1> QED
  BY <1>4, <1>5, <1>6, <1>7 DEF Found

(* What takes the place of a node has paths of its own.                     *)
LEMMA InPlaceOfPaths ==
    ASSUME NEW node, NEW map, IsExact(node) => IsValue(map[node[2][1][2]])
    PROVE  /\ DOMAIN InPlaceOf(node, map) \subseteq Seq(STRING)
           /\ node[1] \in Containers => DOMAIN InPlaceOf(node, map) = {<<>>}
<1>1. CASE IsExact(node)
  BY <1>1 DEF InPlaceOf, IsExact, Containers, IsValue
<1>2. CASE ~ IsExact(node)
  <2>1. DOMAIN InPlaceOf(node, map) = {<<>>}
    BY <1>2 DEF InPlaceOf, Text, Scalar
  <2>2. <<>> \in Seq(STRING)
    BY EmptySeq
  <2> QED
    BY <2>1, <2>2
<1> QED
  BY <1>1, <1>2

(* A text has nothing below it, so only what takes its own place is found  *)
(* at its path or below it.                                                *)
LEMMA OnePlace ==
    ASSUME NEW v, IsValue(v), NEW map,
           \A p \in DOMAIN v : IsExact(v[p]) => IsValue(map[v[p][2][1][2]]),
           NEW p \in DOMAIN v, IsExact(v[p]), NEW r \in Seq(STRING),
           NEW q \in DOMAIN v, NEW rest \in DOMAIN InPlaceOf(v[q], map),
           q \o rest = p \o r
    PROVE  q = p /\ rest = r
<1>1. p \in Seq(STRING) /\ q \in Seq(STRING) /\ v[p][1] = "text"
  BY DEF IsValue, IsExact
<1>2. /\ rest \in Seq(STRING)
      /\ v[q][1] \in Containers => rest = <<>>
  BY InPlaceOfPaths
<1>3. /\ Len(p) \in Nat /\ Len(q) \in Nat /\ Len(r) \in Nat /\ Len(rest) \in Nat
      /\ Len(q) + Len(rest) = Len(p) + Len(r)
  <2>1. Len(q \o rest) = Len(q) + Len(rest)
    BY <1>1, <1>2, Joined
  <2>2. Len(p \o r) = Len(p) + Len(r)
    BY <1>1, Joined
  <2> QED
    BY <1>1, <1>2, <2>1, <2>2
<1>4. CASE Len(q) < Len(p)
  <2>1. SubSeq(p \o r, 1, Len(q)) = SubSeq(p, 1, Len(q))
    BY <1>1, <1>3, <1>4, PrefixOfFirst
  <2>2. SubSeq(q \o rest, 1, Len(q)) = q
    BY <1>1, <1>2, Joined
  <2>3. q = SubSeq(p, 1, Len(q)) /\ Len(q) \in 0..(Len(p) - 1)
    BY <1>3, <1>4, <2>1, <2>2
  <2>4. v[q][1] \in Containers
    BY <2>3 DEF IsValue
  <2>5. Len(rest) = 0
    BY <1>2, <2>4
  <2> QED
    BY <1>3, <1>4, <2>5
<1>5. CASE Len(q) > Len(p)
  <2>1. SubSeq(q \o rest, 1, Len(p)) = SubSeq(q, 1, Len(p))
    BY <1>1, <1>2, <1>3, <1>5, PrefixOfFirst
  <2>2. SubSeq(p \o r, 1, Len(p)) = p
    BY <1>1, Joined
  <2>3. p = SubSeq(q, 1, Len(p)) /\ Len(p) \in 0..(Len(q) - 1)
    BY <1>3, <1>5, <2>1, <2>2
  <2>4. v[p][1] \in Containers
    BY <2>3 DEF IsValue
  <2> QED
    BY <1>1, <2>4 DEF Containers
<1>6. CASE Len(q) = Len(p)
  <2>1. SubSeq(q \o rest, 1, Len(q)) = q /\ SubSeq(p \o r, 1, Len(p)) = p
    BY <1>1, <1>2, Joined
  <2>2. SubSeq(q \o rest, Len(q) + 1, Len(q \o rest)) = rest
    BY <1>1, <1>2, Joined
  <2>3. SubSeq(p \o r, Len(p) + 1, Len(p \o r)) = r
    BY <1>1, Joined
  <2> QED
    BY <1>6, <2>1, <2>2, <2>3
<1> QED
  BY <1>3, <1>4, <1>5, <1>6

(* A template that is one placeholder becomes the variable, whole: at its  *)
(* path the rendered value has the variable's value and nothing else.      *)
THEOREM RenderKeeps ==
    ASSUME NEW v, IsValue(v), NEW map,
           \A p \in DOMAIN v : IsExact(v[p]) => IsValue(map[v[p][2][1][2]]),
           NEW p \in DOMAIN v, IsExact(v[p])
    PROVE  Below(Render(v, map), p) = map[v[p][2][1][2]]
<1> DEFINE new(q) == InPlaceOf(v[q], map)
<1>1. PICK x : x = map[v[p][2][1][2]]
  OBVIOUS
<1>2. IsValue(x) /\ new(p) = x
  BY <1>1 DEF InPlaceOf
<1>3. PICK R : R = Render(v, map)
  OBVIOUS
<1>4. \A path \in DOMAIN R :
            LET q == CHOOSE q \in DOMAIN v : \E rest \in DOMAIN new(q) : path = q \o rest
            IN  R[path] = new(q)[SubSeq(path, Len(q) + 1, Len(path))]
  BY <1>3 DEF Render
<1>0. DOMAIN R = UNION {{q \o rest : rest \in DOMAIN new(q)} : q \in DOMAIN v}
  BY <1>3 DEF Render
<1> HIDE DEF new
<1>5. \A path : path \in DOMAIN R <=> \E q \in DOMAIN v : \E rest \in DOMAIN new(q) : path = q \o rest
  <2> DEFINE places(q) == {q \o rest : rest \in DOMAIN new(q)}
  <2>1. DOMAIN R = UNION {places(q) : q \in DOMAIN v}
    BY <1>0
  <2>2. \A q, path : path \in places(q) <=> \E rest \in DOMAIN new(q) : path = q \o rest
    OBVIOUS
  <2> HIDE DEF places
  <2>3. \A path : path \in DOMAIN R <=> \E q \in DOMAIN v : path \in places(q)
    BY <2>1
  <2> SUFFICES ASSUME NEW path
               PROVE  path \in DOMAIN R <=> \E q \in DOMAIN v : \E rest \in DOMAIN new(q) : path = q \o rest
    OBVIOUS
  <2>4. path \in DOMAIN R <=> \E q \in DOMAIN v : path \in places(q)
    BY <2>3
  <2>5. \A q : path \in places(q) <=> \E rest \in DOMAIN new(q) : path = q \o rest
    BY <2>2
  <2> QED
    BY <2>4, <2>5
<1>6. p \in Seq(STRING) /\ DOMAIN v \subseteq Seq(STRING)
  BY DEF IsValue
<1>7. DOMAIN R \subseteq Seq(STRING)
  <2>1. \A q \in DOMAIN v : DOMAIN new(q) \subseteq Seq(STRING)
    BY InPlaceOfPaths DEF new
  <2>2. ASSUME NEW path \in DOMAIN R PROVE path \in Seq(STRING)
    <3>1. PICK q \in DOMAIN v : \E rest \in DOMAIN new(q) : path = q \o rest
      BY <1>5
    <3>2. PICK rest \in DOMAIN new(q) : path = q \o rest
      BY <3>1
    <3>3. q \in Seq(STRING) /\ rest \in Seq(STRING)
      BY <1>6, <2>1
    <3> QED
      BY <3>2, <3>3, Joined
  <2> QED
    BY <2>2
<1>8. DOMAIN x \subseteq Seq(STRING) /\ x = [r \in DOMAIN x |-> x[r]]
  BY <1>2 DEF IsValue
<1>9. ASSUME NEW r \in Seq(STRING)
      PROVE  /\ p \o r \in DOMAIN R <=> r \in DOMAIN x
             /\ r \in DOMAIN x => R[p \o r] = x[r]
  <2>1. ASSUME NEW q \in DOMAIN v, NEW rest \in DOMAIN new(q), p \o r = q \o rest
        PROVE  q = p /\ rest = r
    BY <2>1, OnePlace DEF new
  <2>2. p \o r \in DOMAIN R <=> r \in DOMAIN x
    BY <1>2, <1>5, <2>1
  <2>3. ASSUME r \in DOMAIN x PROVE R[p \o r] = x[r]
    <3>1. PICK q \in DOMAIN v :
             /\ \E rest \in DOMAIN new(q) : p \o r = q \o rest
             /\ R[p \o r] = new(q)[SubSeq(p \o r, Len(q) + 1, Len(p \o r))]
      <4>1. \E q \in DOMAIN v : \E rest \in DOMAIN new(q) : p \o r = q \o rest
        BY <1>2, <2>3
      <4>2. p \o r \in DOMAIN R
        BY <2>2, <2>3
      <4> QED
        BY <1>4, <4>1, <4>2
    <3>2. q = p
      BY <2>1, <3>1
    <3>3. SubSeq(p \o r, Len(p) + 1, Len(p \o r)) = r
      BY <1>6, Joined
    <3> QED
      BY <1>2, <3>1, <3>2, <3>3
  <2> QED
    BY <2>2, <2>3
<1>10. PICK y : y = Below(R, p)
  OBVIOUS
<1>11. /\ y = [r \in DOMAIN y |-> y[r]]
       /\ DOMAIN y \subseteq Seq(STRING)
       /\ \A r \in Seq(STRING) : r \in DOMAIN y <=> p \o r \in DOMAIN R
       /\ \A r \in DOMAIN y : y[r] = R[p \o r]
  BY <1>6, <1>7, <1>10, BelowPaths
<1>12. \A r \in Seq(STRING) : r \in DOMAIN y <=> r \in DOMAIN x
  BY <1>9, <1>11
<1>13. \A r \in DOMAIN y : y[r] = x[r]
  BY <1>9, <1>11, <1>12
<1>14. y = x
  BY <1>8, <1>11, <1>12, <1>13, EqualValues
<1> QED
  BY <1>1, <1>3, <1>10, <1>14

-----------------------------------------------------------------------------
(* What is extracted. *)

(* A source yields a value or raises. *)
LEMMA ExtractIsValue ==
    ASSUME NEW i \in Positions, NEW n \in Names(i), NEW r \in Responses
    PROVE  \/ Extract(Plan[i].extracts[n], r) = Raised
           \/ IsValue(Extract(Plan[i].extracts[n], r))
<1> DEFINE source == Plan[i].extracts[n]
<1>1. CASE source[1] = "status_code"
  <2>1. IsValue(Num(r.status))
    BY ScalarIsValue DEF Num, Tags
  <2> QED
    BY <1>1, <2>1 DEF Extract
<1>2. CASE source[1] = "header"
  <2>1. IsValue(Null)
    BY ScalarIsValue DEF Null, Tags
  <2>2. IsValue(Header(r, source[2]))
    BY <2>1, ResponsesAssumption DEF Header
  <2>3. Extract(source, r) = Header(r, source[2])
    BY <1>2 DEF Extract
  <2> QED
    BY <2>2, <2>3
<1>3. CASE source[1] = "body"
  <2>1. source[2] \in Seq(STRING) /\ IsValue(r.body)
    BY <1>3, PlanAssumption, ResponsesAssumption
  <2>2. Extract(source, r) = ReadPath(r.body, source[2])
    BY <1>3 DEF Extract
  <2>3. source[2] \in DOMAIN r.body => IsValue(Below(r.body, source[2]))
    BY <2>1, BelowIsValue
  <2> QED
    BY <2>1, <2>2, <2>3, ReadPathIs
<1>4. CASE source[1] \notin {"status_code", "header", "body"}
  BY <1>4 DEF Extract
<1> QED
  BY <1>1, <1>2, <1>3, <1>4

(* What is extracted is a map of the step's names, unless a source is missing. *)
LEMMA ExtractedIsMap ==
    ASSUME NEW i \in Positions, NEW r \in Responses
    PROVE  /\ DOMAIN ExtractVariables(Plan[i].extracts, r) = Names(i)
           /\ \A n \in Names(i) :
                 ExtractVariables(Plan[i].extracts, r)[n] = Extract(Plan[i].extracts[n], r)
           /\ AllFound(Plan[i].extracts, r) => IsMap(ExtractVariables(Plan[i].extracts, r))
<1>1. PICK x : x = ExtractVariables(Plan[i].extracts, r)
  OBVIOUS
<1>2. /\ DOMAIN x = Names(i) /\ x = [n \in DOMAIN x |-> x[n]]
      /\ \A n \in Names(i) : x[n] = Extract(Plan[i].extracts[n], r)
  BY <1>1 DEF ExtractVariables, Names
<1>3. ASSUME AllFound(Plan[i].extracts, r) PROVE \A n \in Names(i) : IsValue(x[n])
  BY <1>2, <1>3, ExtractIsValue DEF AllFound, Names
<1> QED
  BY <1>1, <1>2, <1>3 DEF IsMap

(* Where an exact placeholder is, its variable is among those a step needs. *)
LEMMA ExactIsMentioned ==
    ASSUME NEW v, IsValue(v), NEW p \in DOMAIN v, IsExact(v[p])
    PROVE  v[p][2][1][2] \in Mentioned(v)
<1> DEFINE names(path) == {t[2] : t \in {t \in Range(v[path][2]) : IsPlaceholder(t)}}
<1>1. v[p][1] = "text" /\ IsPlaceholder(v[p][2][1]) /\ Len(v[p][2]) = 1
  BY DEF IsExact
<1>2. v[p][2] \in Seq(Range(v[p][2]))
  BY <1>1 DEF IsValue
<1>3. v[p][2][1] \in Range(v[p][2])
  <2>1. PICK x, S : x = v[p][2] /\ S = Range(v[p][2])
    OBVIOUS
  <2>2. x \in Seq(S) /\ Len(x) = 1
    BY <1>1, <1>2, <2>1
  <2>3. 1 \in 1..Len(x)
    BY <2>2
  <2>4. x[1] \in S
    BY <2>2, <2>3, ElementOfSeq
  <2> QED
    BY <2>1, <2>4
<1>4. v[p][2][1][2] \in names(p)
  BY <1>1, <1>3
<1>5. Mentioned(v) = UNION {names(path) : path \in {path \in DOMAIN v : v[path][1] = "text"}}
  BY DEF Mentioned
<1> HIDE DEF names
<1> QED
  BY <1>1, <1>4, <1>5

-----------------------------------------------------------------------------
(* The invariant. *)

Sourced(map, e) == \A n \in DOMAIN map : map[n] \in Sources(e, n)

(* What is sent has, where the template has one placeholder, its value. *)
Travels(body, sent, e) ==
    \A path \in DOMAIN body :
        IsExact(body[path]) => Below(sent, path) \in Sources(e, body[path][2][1][2])

ExecutionInv(e) ==
    /\ status[e] = "absent" => done[e] = {} /\ \A i \in Positions : queued[e][i] = 0
    /\ Whole(variables[e], e) /\ Sourced(variables[e], e)
    /\ e \notin raced => \A i \in done[e] : Names(i) \subseteq DOMAIN variables[e]

WorkerInv(w) ==
    /\ IF pc[w] = "idle" THEN task[w] = <<>> ELSE status[Exec(w)] # "absent"
    /\ pc[w] = "run" => Travels(Plan[At(w)].body, request[w].body, Exec(w))
    /\ pc[w] \in {"read", "write"} =>
          \E r \in answers[Exec(w)][At(w)] :
              extracted[w] = ExtractVariables(Plan[At(w)].extracts, r)
    /\ pc[w] = "write" =>
          /\ Whole(base[w], Exec(w)) /\ Sourced(base[w], Exec(w))
          /\ Exec(w) \notin raced => base[w] = variables[Exec(w)]
    /\ pc[w] = "completed" /\ Exec(w) \notin raced =>
          Names(At(w)) \subseteq DOMAIN variables[Exec(w)]

WritersRace ==
    \A v, w \in Workers :
        v # w /\ pc[v] = "write" /\ pc[w] = "write" /\ Exec(v) = Exec(w) => Exec(v) \in raced

(* What TypeOK leaves open. *)
Tables ==
    /\ DOMAIN task = Workers /\ DOMAIN request = Workers
    /\ DOMAIN extracted = Workers /\ DOMAIN base = Workers
    /\ DOMAIN variables = Executions /\ DOMAIN given = Executions

FlowInv ==
    /\ TypeOK /\ Tables
    /\ \A e \in Executions : ExecutionInv(e)
    /\ \A w \in Workers : WorkerInv(w)
    /\ WritersRace

-----------------------------------------------------------------------------
(* A row's history only grows.  *)
Grows(e) ==
    /\ given'[e] = given[e]
    /\ \A i \in Positions : answers[e][i] \subseteq answers'[e][i]

(* The sources of a name, now and in the next state. *)
LEMMA SourcesAre ==
    ASSUME NEW e, NEW n, NEW x
    PROVE  x \in Sources(e, n) <=>
              \/ n \in DOMAIN given[e] /\ x = given[e][n]
              \/ \E i \in Positions : n \in Names(i)
                    /\ \E r \in answers[e][i] : x = Extract(Plan[i].extracts[n], r)
<1> DEFINE had(i) == {Extract(Plan[i].extracts[n], r) : r \in answers[e][i]}
           own == {given[e][m] : m \in {n} \cap DOMAIN given[e]}
           those == {i \in Positions : n \in Names(i)}
<1>1. Sources(e, n) = own \cup UNION {had(i) : i \in those}
  BY DEF Sources
<1>2. \A i : x \in had(i) <=> \E r \in answers[e][i] : x = Extract(Plan[i].extracts[n], r)
  OBVIOUS
<1>3. x \in own <=> n \in DOMAIN given[e] /\ x = given[e][n]
  OBVIOUS
<1>4. \A i : i \in those <=> i \in Positions /\ n \in Names(i)
  OBVIOUS
<1> HIDE DEF had, own, those
<1>5. x \in UNION {had(i) : i \in those} <=> \E i \in those : x \in had(i)
  OBVIOUS
<1> QED
  BY <1>1, <1>2, <1>3, <1>4, <1>5

LEMMA SourcesAreNext ==
    ASSUME NEW e, NEW n, NEW x
    PROVE  x \in Sources(e, n)' <=>
              \/ n \in DOMAIN given'[e] /\ x = given'[e][n]
              \/ \E i \in Positions : n \in Names(i)
                    /\ \E r \in answers'[e][i] : x = Extract(Plan[i].extracts[n], r)
<1> DEFINE had(i) == {Extract(Plan[i].extracts[n], r) : r \in answers'[e][i]}
           own == {given'[e][m] : m \in {n} \cap DOMAIN given'[e]}
           those == {i \in Positions : n \in Names(i)}
<1>1. Sources(e, n)' = own \cup UNION {had(i) : i \in those}
  BY DEF Sources
<1>2. \A i : x \in had(i) <=> \E r \in answers'[e][i] : x = Extract(Plan[i].extracts[n], r)
  OBVIOUS
<1>3. x \in own <=> n \in DOMAIN given'[e] /\ x = given'[e][n]
  OBVIOUS
<1>4. \A i : i \in those <=> i \in Positions /\ n \in Names(i)
  OBVIOUS
<1> HIDE DEF had, own, those
<1>5. x \in UNION {had(i) : i \in those} <=> \E i \in those : x \in had(i)
  OBVIOUS
<1> QED
  BY <1>1, <1>2, <1>3, <1>4, <1>5

(* What was a source, whole, sourced or sent stays so while the history grows. *)
LEMMA SourcesGrow ==
    ASSUME NEW e, NEW n, NEW x, Grows(e), x \in Sources(e, n)
    PROVE  x \in Sources(e, n)'
BY SourcesAre, SourcesAreNext DEF Grows

LEMMA WholeGrows ==
    ASSUME NEW map, NEW e, Grows(e), Whole(map, e)
    PROVE  Whole(map, e)'
<1>1. PICK passed \in SUBSET {i \in Positions : answers[e][i] # {}}, rank \in Orders :
         \E kept \in [passed -> Responses] :
            /\ \A i \in passed : kept[i] \in answers[e][i]
            /\ LaidOver(map, given[e], kept, rank)
  BY DEF Whole
<1>2. PICK kept \in [passed -> Responses] :
         /\ \A i \in passed : kept[i] \in answers[e][i]
         /\ LaidOver(map, given[e], kept, rank)
  BY <1>1
<1>3. /\ \A i \in passed : kept[i] \in answers'[e][i]
      /\ LaidOver(map, given'[e], kept, rank)
  BY <1>1, <1>2 DEF Grows
<1>4. passed \in SUBSET {i \in Positions : answers'[e][i] # {}}
  BY <1>1, <1>3
<1> QED
  BY <1>1, <1>2, <1>3, <1>4 DEF Whole

LEMMA SourcedGrows ==
    ASSUME NEW map, NEW e, Grows(e), Sourced(map, e)
    PROVE  Sourced(map, e)'
BY SourcesGrow DEF Sourced

LEMMA TravelsGrows ==
    ASSUME NEW body, NEW sent, NEW e, Grows(e), Travels(body, sent, e)
    PROVE  Travels(body, sent, e)'
BY SourcesGrow DEF Travels

(* The new values, and the old ones under other names. *)
LEMMA MergedIs ==
    ASSUME NEW old, NEW new
    PROVE  /\ Merged(old, new) = [n \in DOMAIN Merged(old, new) |-> Merged(old, new)[n]]
           /\ \A n : n \in DOMAIN Merged(old, new) <=> n \in DOMAIN old \/ n \in DOMAIN new
           /\ \A n \in DOMAIN new : Merged(old, new)[n] = new[n]
           /\ \A n \in DOMAIN old : n \notin DOMAIN new => Merged(old, new)[n] = old[n]
<1>1. PICK m : m = Merged(old, new)
  OBVIOUS
<1>2. /\ DOMAIN m = DOMAIN old \cup DOMAIN new /\ m = [n \in DOMAIN m |-> m[n]]
      /\ \A n \in DOMAIN old \cup DOMAIN new : m[n] = IF n \in DOMAIN new THEN new[n] ELSE old[n]
  BY <1>1 DEF Merged
<1> QED
  BY <1>1, <1>2

(* A step that writes again, or first, comes last: the others keep their   *)
(* order.                                                                  *)
LEMMA LastInOrder ==
    ASSUME NEW rank \in Orders, NEW i \in Positions
    PROVE  \E later \in Orders :
              \A j \in Positions :
                 /\ later[j] <= later[i]
                 /\ \A k \in Positions :
                       j # i /\ k # i => (later[j] <= later[k] <=> rank[j] <= rank[k])
<1> DEFINE later == [j \in Positions |->
                        IF j = i THEN Len(Plan)
                        ELSE IF rank[j] > rank[i] THEN rank[j] - 1 ELSE rank[j]]
<1>1. Positions = 1..Len(Plan) /\ Len(Plan) \in Nat
  BY PlanAssumption
<1>2. /\ \A j \in Positions : rank[j] \in Positions
      /\ \A j, k \in Positions : rank[j] = rank[k] => j = k
  BY DEF Orders
<1>3. \A j \in Positions : rank[j] \in 1..Len(Plan) /\ (j # i => rank[j] # rank[i])
  BY <1>1, <1>2
<1>4. ASSUME NEW j \in Positions PROVE later[j] \in Positions /\ later[j] <= Len(Plan)
  BY <1>1, <1>3
<1>5. ASSUME NEW j \in Positions, NEW k \in Positions, j # i, k # i
      PROVE  later[j] <= later[k] <=> rank[j] <= rank[k]
  BY <1>3, <1>5
<1>6. ASSUME NEW j \in Positions, j # i PROVE later[j] < later[i]
  BY <1>1, <1>3, <1>6
<1>7. ASSUME NEW j \in Positions, NEW k \in Positions, later[j] = later[k] PROVE j = k
  <2>1. CASE j = i
    BY <1>6, <1>7, <2>1, <1>4, <1>1
  <2>2. CASE k = i
    BY <1>6, <1>7, <2>2, <1>4, <1>1
  <2>3. CASE j # i /\ k # i
    BY <1>2, <1>3, <1>5, <1>7, <2>3, <1>4, <1>1
  <2> QED
    BY <2>1, <2>2, <2>3
<1>8. later \in Orders
  <2>1. later \in [Positions -> Positions]
    BY <1>4
  <2> HIDE DEF later
  <2> QED
    BY <2>1, <1>7 DEF Orders
<1>9. \A j \in Positions : later[j] <= later[i]
  BY <1>4
<1> HIDE DEF later
<1> QED
  BY <1>5, <1>8, <1>9

(* What step i extracts from r, laid over the map old. *)
OneLaidOver(m, old, i, r) ==
    /\ DOMAIN m = DOMAIN old \cup Names(i)
    /\ \A n \in Names(i) : m[n] = Extract(Plan[i].extracts[n], r)
    /\ \A n \in DOMAIN old \ Names(i) : m[n] = old[n]

LEMMA LaysOver ==
    ASSUME NEW old, NEW m, NEW e, NEW i \in Positions, NEW r \in answers[e][i],
           r \in Responses, Whole(old, e), OneLaidOver(m, old, i, r)
    PROVE  Whole(m, e)
<1>1. PICK passed \in SUBSET {j \in Positions : answers[e][j] # {}}, rank \in Orders :
         \E kept \in [passed -> Responses] :
            /\ \A j \in passed : kept[j] \in answers[e][j]
            /\ LaidOver(old, given[e], kept, rank)
  BY DEF Whole
<1>2. PICK kept \in [passed -> Responses] :
         /\ \A j \in passed : kept[j] \in answers[e][j]
         /\ LaidOver(old, given[e], kept, rank)
  BY <1>1
<1>3. PICK later \in Orders :
         \A j \in Positions :
            /\ later[j] <= later[i]
            /\ \A k \in Positions :
                  j # i /\ k # i => (later[j] <= later[k] <=> rank[j] <= rank[k])
  BY LastInOrder
<1> DEFINE now == passed \cup {i}
           those == [j \in now |-> IF j = i THEN r ELSE kept[j]]
<1>4. /\ now \in SUBSET {j \in Positions : answers[e][j] # {}}
      /\ now \subseteq Positions
  OBVIOUS
<1>5. /\ those \in [now -> Responses] /\ DOMAIN those = now
      /\ those[i] = r /\ \A j \in now : j # i => j \in passed /\ those[j] = kept[j]
  OBVIOUS
<1>6. \A j \in now : those[j] \in answers[e][j]
  BY <1>2, <1>5
<1>7. \A j : j \in now <=> j \in passed \/ j = i
  OBVIOUS
<1>8. PICK below : below = given[e]
  OBVIOUS
<1> HIDE DEF now, those
<1>9. DOMAIN kept = passed
  OBVIOUS
<1>10. LaidOver(m, below, those, later)
  <2>1. DOMAIN m = DOMAIN below \cup UNION {Names(j) : j \in DOMAIN those}
    <3>1. DOMAIN old = DOMAIN below \cup UNION {Names(j) : j \in DOMAIN kept}
      BY <1>2, <1>8 DEF LaidOver
    <3>2. UNION {Names(j) : j \in DOMAIN those}
             = (UNION {Names(j) : j \in DOMAIN kept}) \cup Names(i)
      BY <1>5, <1>7, <1>9
    <3> QED
      BY <3>1, <3>2 DEF OneLaidOver
  <2>2. ASSUME NEW n \in DOMAIN m, n \in Names(i)
        PROVE  \E k \in DOMAIN those :
                 /\ n \in Names(k) /\ m[n] = Extract(Plan[k].extracts[n], those[k])
                 /\ \A j \in DOMAIN those : n \in Names(j) => later[j] <= later[k]
    <3>1. m[n] = Extract(Plan[i].extracts[n], those[i])
      BY <1>5, <2>2 DEF OneLaidOver
    <3>2. i \in DOMAIN those /\ n \in Names(i)
      BY <1>5, <1>7, <2>2
    <3>3. \A j \in DOMAIN those : later[j] <= later[i]
      BY <1>3, <1>4, <1>5
    <3> QED
      BY <3>1, <3>2, <3>3
  <2>3. ASSUME NEW n \in DOMAIN m, n \notin Names(i)
        PROVE  \/ (\A j \in DOMAIN those : n \notin Names(j)) /\ m[n] = below[n]
               \/ \E k \in DOMAIN those :
                    /\ n \in Names(k) /\ m[n] = Extract(Plan[k].extracts[n], those[k])
                    /\ \A j \in DOMAIN those : n \in Names(j) => later[j] <= later[k]
    <3>1. n \in DOMAIN old /\ m[n] = old[n] /\ n \notin Names(i)
      BY <2>3 DEF OneLaidOver
    <3>2. \/ (\A j \in DOMAIN kept : n \notin Names(j)) /\ old[n] = below[n]
          \/ \E k \in DOMAIN kept :
                /\ n \in Names(k) /\ old[n] = Extract(Plan[k].extracts[n], kept[k])
                /\ \A j \in DOMAIN kept : n \in Names(j) => rank[j] <= rank[k]
      BY <1>2, <1>8, <3>1 DEF LaidOver
    <3>3. CASE (\A j \in DOMAIN kept : n \notin Names(j)) /\ old[n] = below[n]
      BY <1>5, <1>7, <1>9, <3>1, <3>3
    <3>4. ASSUME NEW k \in DOMAIN kept, n \in Names(k),
                 old[n] = Extract(Plan[k].extracts[n], kept[k]),
                 \A j \in DOMAIN kept : n \in Names(j) => rank[j] <= rank[k]
          PROVE  \E k_1 \in DOMAIN those :
                    /\ n \in Names(k_1) /\ m[n] = Extract(Plan[k_1].extracts[n], those[k_1])
                    /\ \A j \in DOMAIN those : n \in Names(j) => later[j] <= later[k_1]
      <4>1. k \in DOMAIN those /\ k # i /\ k \in Positions /\ those[k] = kept[k]
        BY <1>4, <1>5, <1>7, <1>9, <3>1, <3>4
      <4>2. ASSUME NEW j \in DOMAIN those, n \in Names(j) PROVE later[j] <= later[k]
        <5>1. j # i /\ j \in Positions /\ j \in DOMAIN kept
          BY <1>4, <1>5, <1>9, <3>1, <4>2
        <5> QED
          BY <1>3, <3>4, <4>1, <4>2, <5>1
      <4> QED
        BY <3>1, <3>4, <4>1, <4>2
    <3> QED
      BY <3>2, <3>3, <3>4
  <2> QED
    BY <2>1, <2>2, <2>3 DEF LaidOver
<1> QED
  BY <1>3, <1>4, <1>5, <1>6, <1>8, <1>10 DEF Whole

(* Merging what one step extracted leaves the variables of every step      *)
(* whole, and each of them sourced.                                        *)
LEMMA MergeKeepsWhole ==
    ASSUME NEW old, NEW new, IsMap(old), IsMap(new), NEW e, NEW i \in Positions,
           NEW r \in answers[e][i], r \in Responses,
           new = ExtractVariables(Plan[i].extracts, r), Whole(old, e), Sourced(old, e)
    PROVE  /\ IsMap(Merged(old, new))
           /\ Whole(Merged(old, new), e) /\ Sourced(Merged(old, new), e)
           /\ Names(i) \subseteq DOMAIN Merged(old, new)
           /\ DOMAIN old \subseteq DOMAIN Merged(old, new)
<1>1. PICK m : m = Merged(old, new)
  OBVIOUS
<1>2. /\ m = [n \in DOMAIN m |-> m[n]]
      /\ \A n : n \in DOMAIN m <=> n \in DOMAIN old \/ n \in DOMAIN new
      /\ \A n \in DOMAIN new : m[n] = new[n]
      /\ \A n \in DOMAIN old : n \notin DOMAIN new => m[n] = old[n]
  BY <1>1, MergedIs
<1>3. /\ DOMAIN new = Names(i) /\ new = [n \in DOMAIN new |-> new[n]]
      /\ \A n \in Names(i) : new[n] = Extract(Plan[i].extracts[n], r)
  BY ExtractedIsMap DEF IsMap
<1>4. IsMap(m)
  BY <1>2 DEF IsMap
<1>5. Whole(m, e)
  <2>1. DOMAIN m = DOMAIN old \cup Names(i)
    BY <1>2, <1>3
  <2>2. OneLaidOver(m, old, i, r)
    BY <1>2, <1>3, <2>1 DEF OneLaidOver
  <2> QED
    BY <2>2, LaysOver
<1>6. Sourced(m, e)
  <2> SUFFICES ASSUME NEW n \in DOMAIN m PROVE m[n] \in Sources(e, n)
    BY DEF Sourced
  <2>1. CASE n \in DOMAIN new
    BY <1>2, <1>3, <2>1, SourcesAre
  <2>2. CASE n \notin DOMAIN new
    BY <1>2, <2>2 DEF Sourced
  <2> QED
    BY <2>1, <2>2
<1> QED
  BY <1>1, <1>2, <1>3, <1>4, <1>5, <1>6

(* No step has written: a map laid under nothing. *)
LEMMA NothingLaidOver ==
    ASSUME NEW map
    PROVE  \E rank \in Orders, kept \in [{} -> Responses] : LaidOver(map, map, kept, rank)
<1> DEFINE rank == [i \in Positions |-> i]
           kept == [i \in {} |-> i]
<1>1. rank \in Orders
  BY DEF Orders
<1>2. kept \in [{} -> Responses] /\ DOMAIN kept = {}
  OBVIOUS
<1>3. LaidOver(map, map, kept, rank)
  BY <1>2 DEF LaidOver
<1> QED
  BY <1>1, <1>2, <1>3

LEMMA WholeAsGiven ==
    ASSUME NEW e, NEW map, given[e] = map
    PROVE  Whole(map, e)
<1>1. {} \in SUBSET {i \in Positions : answers[e][i] # {}}
  OBVIOUS
<1> QED
  BY <1>1, NothingLaidOver DEF Whole

LEMMA WholeAsGivenNext ==
    ASSUME NEW e, NEW map, given'[e] = map
    PROVE  Whole(map, e)'
<1>1. {} \in SUBSET {i \in Positions : answers'[e][i] # {}}
  OBVIOUS
<1> QED
  BY <1>1, NothingLaidOver DEF Whole

(* A row as it was given is whole, and everything in it sourced. *)
LEMMA AsGiven ==
    ASSUME NEW e, NEW map, given'[e] = map
    PROVE  Whole(map, e)' /\ Sourced(map, e)'
<1>1. Whole(map, e)'
  BY WholeAsGivenNext
<1>2. Sourced(map, e)'
  BY SourcesAreNext DEF Sourced
<1> QED
  BY <1>1, <1>2

(* A row keeps its invariant when its variables and its completed steps    *)
(* stay as they are.                                                       *)
LEMMA RowKeeps ==
    ASSUME NEW e \in Executions, ExecutionInv(e), Grows(e),
           variables'[e] = variables[e], done'[e] = done[e], e \in raced => e \in raced',
           status'[e] = "absent" =>
              status[e] = "absent" /\ \A i \in Positions : queued'[e][i] = queued[e][i]
    PROVE  ExecutionInv(e)'
<1>1. PICK map : map = variables[e]
  OBVIOUS
<1>2. Whole(map, e)' /\ Sourced(map, e)'
  BY <1>1, WholeGrows, SourcedGrows DEF ExecutionInv
<1>3. Whole(variables[e], e)' /\ Sourced(variables[e], e)'
  BY <1>1, <1>2
<1>4. (status[e] = "absent" => done[e] = {} /\ \A i \in Positions : queued[e][i] = 0)'
  BY DEF ExecutionInv
<1>5. (e \notin raced => \A i \in done[e] : Names(i) \subseteq DOMAIN variables[e])'
  BY DEF ExecutionInv, Names
<1> QED
  BY <1>3, <1>4, <1>5 DEF ExecutionInv

(* A worker keeps its invariant when it does nothing and nobody writes the *)
(* row it works on; or when the row is raced.                              *)
LEMMA WorkerKeeps ==
    ASSUME NEW w \in Workers, WorkerInv(w),
           pc'[w] = pc[w], task'[w] = task[w], request'[w] = request[w],
           extracted'[w] = extracted[w], base'[w] = base[w],
           pc[w] # "idle" =>
              /\ At(w) \in Positions /\ Grows(Exec(w)) /\ status'[Exec(w)] # "absent"
              /\ Exec(w) \in raced => Exec(w) \in raced'
              /\ Exec(w) \notin raced' =>
                    /\ pc[w] = "write" => variables'[Exec(w)] = variables[Exec(w)]
                    /\ DOMAIN variables[Exec(w)] \subseteq DOMAIN variables'[Exec(w)]
    PROVE  WorkerInv(w)'
<1>1. CASE pc[w] = "idle"
  BY <1>1 DEF WorkerInv
<1>2. CASE pc[w] # "idle"
  <2>1. PICK e, i, b, x, s : e = Exec(w) /\ i = At(w) /\ b = base[w] /\ x = extracted[w] /\ s = request[w].body
    OBVIOUS
  <2>2. Exec(w)' = e /\ At(w)' = i
    BY <2>1 DEF Exec, At
  <2>3. i \in Positions /\ Grows(e) /\ status'[e] # "absent"
    BY <1>2, <2>1
  <2>4. pc[w] = "run" => Travels(Plan[i].body, s, e)'
    BY <2>1, <2>3, TravelsGrows DEF WorkerInv
  <2>5. pc[w] \in {"read", "write"} => \E r \in answers'[e][i] : x = ExtractVariables(Plan[i].extracts, r)
    BY <2>1, <2>3 DEF WorkerInv, Grows
  <2>6. pc[w] = "write" => Whole(b, e)' /\ Sourced(b, e)'
    BY <2>1, <2>3, WholeGrows, SourcedGrows DEF WorkerInv
  <2>7. pc[w] = "write" /\ e \notin raced' => b = variables'[e]
    BY <1>2, <2>1 DEF WorkerInv
  <2>8. pc[w] = "completed" /\ e \notin raced' => Names(i) \subseteq DOMAIN variables'[e]
    BY <1>2, <2>1 DEF WorkerInv
  <2>9. /\ pc'[w] = pc[w] /\ extracted'[w] = x /\ base'[w] = b /\ request'[w].body = s
    BY <2>1
  <2>10. (IF pc[w] = "idle" THEN task[w] = <<>> ELSE status[Exec(w)] # "absent")'
    BY <1>2, <2>2, <2>3
  <2>11. (pc[w] = "run" => Travels(Plan[At(w)].body, request[w].body, Exec(w)))'
    BY <2>2, <2>4, <2>9
  <2>12. (pc[w] \in {"read", "write"} =>
            \E r \in answers[Exec(w)][At(w)] :
              extracted[w] = ExtractVariables(Plan[At(w)].extracts, r))'
    BY <2>2, <2>5, <2>9
  <2>13. (pc[w] = "write" =>
            /\ Whole(base[w], Exec(w)) /\ Sourced(base[w], Exec(w))
            /\ Exec(w) \notin raced => base[w] = variables[Exec(w)])'
    BY <2>2, <2>6, <2>7, <2>9
  <2>14. (pc[w] = "completed" /\ Exec(w) \notin raced =>
            Names(At(w)) \subseteq DOMAIN variables[Exec(w)])'
    BY <2>2, <2>8, <2>9 DEF Names
  <2> QED
    BY <2>10, <2>11, <2>12, <2>13, <2>14 DEF WorkerInv
<1> QED
  BY <1>1, <1>2

-----------------------------------------------------------------------------
(* Steps. *)

(* A step neither touches a row that does not exist nor takes one away. *)
RowsStay ==
    \A e \in Executions : status'[e] = "absent" =>
        status[e] = "absent" /\ \A i \in Positions : queued'[e][i] = queued[e][i]

Untouched(v) ==
    /\ pc'[v] = pc[v] /\ task'[v] = task[v] /\ request'[v] = request[v]
    /\ extracted'[v] = extracted[v] /\ base'[v] = base[v]

(* A busy worker is in a step of a row that exists. *)
LEMMA WorkingOn ==
    ASSUME FlowInv, NEW w \in Workers, pc[w] # "idle"
    PROVE  /\ Exec(w) \in Executions /\ At(w) \in Positions /\ status[Exec(w)] # "absent"
           /\ task[w] = <<Exec(w), At(w)>>
<1>1. task[w] \in Executions \X Positions
  BY DEF FlowInv, TypeOK
<1>2. status[Exec(w)] # "absent"
  BY DEF FlowInv, WorkerInv
<1> QED
  BY <1>1, <1>2 DEF Exec, At

(* Two writers of a row were there before, if the worker that moves is none. *)
LEMMA OthersWrite ==
    ASSUME FlowInv, NEW w \in Workers, raced \subseteq raced',
           \A v \in Workers \ {w} : Untouched(v), pc'[w] # "write"
    PROVE  WritersRace'
<1>1. ASSUME NEW u \in Workers, NEW v \in Workers, u # v, pc'[u] = "write", pc'[v] = "write",
             Exec(u)' = Exec(v)'
      PROVE  Exec(u)' \in raced'
  <2>1. u # w /\ v # w
    BY <1>1
  <2>2. Exec(u)' = Exec(u) /\ Exec(v)' = Exec(v) /\ pc[u] = "write" /\ pc[v] = "write"
    BY <1>1, <2>1 DEF Untouched, Exec
  <2>3. Exec(u) \in raced
    BY <1>1, <2>2 DEF FlowInv, WritersRace
  <2> QED
    BY <2>2, <2>3
<1> QED
  BY <1>1 DEF WritersRace

(* A step of one worker that writes no variables. *)
LEMMA OneWorkerMoves ==
    ASSUME FlowInv, NEW w \in Workers, UNCHANGED <<variables, given>>, RowsStay,
           \A e \in Executions, i \in Positions : answers[e][i] \subseteq answers'[e][i],
           raced \subseteq raced',
           \A v \in Workers \ {w} : Untouched(v)
    PROVE  /\ \A v \in Workers \ {w} : WorkerInv(v)'
           /\ \A e \in Executions : done'[e] = done[e] => ExecutionInv(e)'
           /\ pc'[w] # "write" => WritersRace'
<1>1. \A e \in Executions : Grows(e)
  BY DEF Grows
<1>2. ASSUME NEW v \in Workers \ {w} PROVE WorkerInv(v)'
  <2>1. WorkerInv(v) /\ Untouched(v)
    BY DEF FlowInv
  <2>2. pc[v] # "idle" =>
              /\ At(v) \in Positions /\ Grows(Exec(v)) /\ status'[Exec(v)] # "absent"
              /\ Exec(v) \in raced => Exec(v) \in raced'
              /\ Exec(v) \notin raced' =>
                    /\ pc[v] = "write" => variables'[Exec(v)] = variables[Exec(v)]
                    /\ DOMAIN variables[Exec(v)] \subseteq DOMAIN variables'[Exec(v)]
    BY <1>1, WorkingOn DEF RowsStay
  <2> QED
    BY <2>1, <2>2, WorkerKeeps DEF Untouched
<1>3. ASSUME NEW e \in Executions, done'[e] = done[e] PROVE ExecutionInv(e)'
  <2>1. ExecutionInv(e) /\ Grows(e) /\ variables'[e] = variables[e]
    BY <1>1 DEF FlowInv
  <2> QED
    BY <1>3, <2>1, RowKeeps DEF RowsStay
<1>4. ASSUME pc'[w] # "write" PROVE WritersRace'
  BY <1>4, OthersWrite
<1> QED
  BY <1>2, <1>3, <1>4

(* A task is queued for one row only. *)
LEMMA QueueGrows ==
    ASSUME TypeOK, NEW e \in Executions, NEW i \in Positions, Enqueue(e, i)
    PROVE  /\ queued' \in [Executions -> [Positions -> Nat]]
           /\ faults' \in Nat
           /\ \A d \in Executions : d # e => queued'[d] = queued[d]
<1>1. PICK n \in 1..2 :
         /\ faults' = faults \/ faults' = faults + 1
         /\ queued' = [queued EXCEPT ![e][i] = @ + n]
  BY DEF Enqueue, Fault
<1>2. queued \in [Executions -> [Positions -> Nat]] /\ faults \in Nat
  BY DEF TypeOK
<1> QED
  BY <1>1, <1>2

-----------------------------------------------------------------------------
(* One lemma for each action: it preserves the invariant. *)

(* Stop cancels a row that exists, and nothing else. *)
LEMMA StopStep ==
    ASSUME FlowInv, NEW e \in Executions, Stop(e)
    PROVE  FlowInv'
<1>1. /\ status[e] = "running" /\ status' = [status EXCEPT ![e] = "cancelled"]
      /\ UNCHANGED <<variables, given, queued, pc, task, request, extracted, base,
                     answers, done, raced, faults>>
  BY DEF Stop, workerVars, historyVars
<1>2. TypeOK'
  <2>1. status' \in [Executions -> Statuses]
    BY <1>1 DEF FlowInv, TypeOK, Statuses
  <2> QED
    BY <1>1, <2>1 DEF FlowInv, TypeOK
<1>3. Tables'
  BY <1>1 DEF FlowInv, Tables
<1>4. RowsStay
  BY <1>1 DEF RowsStay, FlowInv, TypeOK
<1>5. \A d \in Executions : ExecutionInv(d)'
  <2> SUFFICES ASSUME NEW d \in Executions PROVE ExecutionInv(d)'
    OBVIOUS
  <2>1. ExecutionInv(d) /\ Grows(d)
    BY <1>1 DEF FlowInv, Grows
  <2> QED
    BY <1>1, <1>4, <2>1, RowKeeps DEF RowsStay
<1>6. \A w \in Workers : WorkerInv(w)'
  <2> SUFFICES ASSUME NEW w \in Workers PROVE WorkerInv(w)'
    OBVIOUS
  <2>1. WorkerInv(w)
    BY DEF FlowInv
  <2>2. pc[w] # "idle" =>
           At(w) \in Positions /\ Grows(Exec(w)) /\ status'[Exec(w)] # "absent"
    BY <1>1, <1>4, WorkingOn DEF RowsStay, Grows
  <2> QED
    BY <1>1, <2>1, <2>2, WorkerKeeps
<1>7. WritersRace'
  BY <1>1 DEF FlowInv, WritersRace, Exec
<1> QED
  BY <1>2, <1>3, <1>5, <1>6, <1>7 DEF FlowInv

(* A new row, from the API, a retry or a restart, is as it was given. *)
LEMMA CreateStep ==
    ASSUME FlowInv, NEW e \in Executions, NEW map, IsMap(map), Create(e, map)
    PROVE  FlowInv'
<1>1. /\ status[e] = "absent" /\ status' = [status EXCEPT ![e] = "running"]
      /\ variables' = [variables EXCEPT ![e] = map] /\ given' = [given EXCEPT ![e] = map]
      /\ Enqueue(e, 1)
      /\ UNCHANGED <<pc, task, request, extracted, base, answers, done, raced>>
  BY DEF Create, workerVars
<1>2. 1 \in Positions
  BY PlanAssumption
<1>3. /\ queued' \in [Executions -> [Positions -> Nat]] /\ faults' \in Nat
      /\ \A d \in Executions : d # e => queued'[d] = queued[d]
  BY <1>1, <1>2, QueueGrows DEF FlowInv
<1>4. TypeOK /\ Tables
  BY DEF FlowInv
<1>5. /\ \A d \in Executions : d # e => variables'[d] = variables[d] /\ given'[d] = given[d]
                                          /\ status'[d] = status[d]
      /\ variables'[e] = map /\ given'[e] = map /\ status'[e] = "running"
  BY <1>1, <1>4 DEF Tables, TypeOK
<1>6. TypeOK'
  <2>1. \A d \in Executions : IsMap(variables'[d]) /\ IsMap(given'[d])
    BY <1>4, <1>5 DEF TypeOK
  <2>2. status' \in [Executions -> Statuses]
    BY <1>1, <1>4 DEF TypeOK, Statuses
  <2> QED
    BY <1>1, <1>3, <1>4, <2>1, <2>2 DEF TypeOK
<1>7. Tables'
  BY <1>1, <1>4 DEF Tables
<1>8. \A d \in Executions : ExecutionInv(d)'
  <2>1. ASSUME NEW d \in Executions, d # e PROVE ExecutionInv(d)'
    <3>1. ExecutionInv(d) /\ Grows(d)
      BY <1>1, <1>5, <2>1 DEF FlowInv, Grows
    <3> QED
      BY <1>1, <1>3, <1>5, <2>1, <3>1, RowKeeps
  <2>2. ExecutionInv(e)'
    <3>1. Whole(map, e)' /\ Sourced(map, e)'
      BY <1>5, AsGiven
    <3>2. Whole(variables[e], e)' /\ Sourced(variables[e], e)'
      BY <1>5, <3>1
    <3>3. done'[e] = {}
      BY <1>1 DEF FlowInv, ExecutionInv
    <3>4. (status[e] = "absent" => done[e] = {} /\ \A i \in Positions : queued[e][i] = 0)'
      BY <1>5
    <3>5. (e \notin raced => \A i \in done[e] : Names(i) \subseteq DOMAIN variables[e])'
      BY <3>3
    <3> QED
      BY <3>2, <3>4, <3>5 DEF ExecutionInv
  <2> QED
    BY <2>1, <2>2
<1>9. \A w \in Workers : WorkerInv(w)'
  <2> SUFFICES ASSUME NEW w \in Workers PROVE WorkerInv(w)'
    OBVIOUS
  <2>1. WorkerInv(w)
    BY DEF FlowInv
  <2>2. ASSUME pc[w] # "idle"
        PROVE  /\ At(w) \in Positions /\ Grows(Exec(w)) /\ status'[Exec(w)] # "absent"
               /\ variables'[Exec(w)] = variables[Exec(w)]
    <3>1. Exec(w) \in Executions /\ Exec(w) # e /\ At(w) \in Positions /\ status[Exec(w)] # "absent"
      BY <1>1, <2>2, WorkingOn
    <3> QED
      BY <1>1, <1>5, <3>1 DEF Grows
  <2> QED
    BY <1>1, <2>1, <2>2, WorkerKeeps
<1>10. WritersRace'
  BY <1>1 DEF FlowInv, WritersRace, Exec
<1> QED
  BY <1>6, <1>7, <1>8, <1>9, <1>10 DEF FlowInv

LEMMA NoMapIsMap == IsMap(NoMap) /\ DOMAIN NoMap = {}
BY DEF IsMap, NoMap

(* Type correctness of the next state, field by field. *)
LEMMA TypesNext ==
    ASSUME status' \in [Executions -> Statuses],
           \A e \in Executions : IsMap(variables'[e]) /\ IsMap(given'[e]),
           queued' \in [Executions -> [Positions -> Nat]],
           pc' \in [Workers -> PCs],
           \A w \in Workers : pc'[w] # "idle" => task'[w] \in Executions \X Positions,
           \A w \in Workers : IsMap(extracted'[w]) /\ IsMap(base'[w]),
           answers' \in [Executions -> [Positions -> SUBSET Responses]],
           done' \in [Executions -> SUBSET Positions],
           raced' \subseteq Executions,
           faults' \in Nat
    PROVE  TypeOK'
BY DEF TypeOK, IsMap

LEMMA TypesNow ==
    ASSUME TypeOK
    PROVE  /\ status \in [Executions -> Statuses]
           /\ \A e \in Executions : IsMap(variables[e]) /\ IsMap(given[e])
           /\ queued \in [Executions -> [Positions -> Nat]]
           /\ pc \in [Workers -> PCs]
           /\ \A w \in Workers : pc[w] # "idle" => task[w] \in Executions \X Positions
           /\ \A w \in Workers : IsMap(extracted[w]) /\ IsMap(base[w])
           /\ answers \in [Executions -> [Positions -> SUBSET Responses]]
           /\ done \in [Executions -> SUBSET Positions]
           /\ raced \subseteq Executions
           /\ faults \in Nat
BY DEF TypeOK

(* A worker only takes the task of a row that exists. *)
LEMMA TakeStep ==
    ASSUME FlowInv, NEW w \in Workers, NEW e \in Executions, NEW i \in Positions, Take(w, e, i)
    PROVE  FlowInv'
<1>1. /\ pc[w] = "idle" /\ queued[e][i] > 0
      /\ queued' = [queued EXCEPT ![e][i] = @ - 1]
      /\ task' = [task EXCEPT ![w] = <<e, i>>]
      /\ pc' = [pc EXCEPT ![w] = "render"]
      /\ UNCHANGED <<status, variables, request, extracted, base, given, answers, done,
                     raced, faults>>
  BY DEF Take, Goto, historyVars
<1>2. TypeOK /\ Tables /\ ExecutionInv(e)
  BY DEF FlowInv
<1>3. /\ pc'[w] = "render" /\ task'[w] = <<e, i>>
      /\ \A v \in Workers \ {w} : Untouched(v)
  BY <1>1, <1>2 DEF TypeOK, Tables, Untouched
<1>4. /\ queued' \in [Executions -> [Positions -> Nat]]
      /\ \A d \in Executions : d # e => queued'[d] = queued[d]
  BY <1>1, <1>2 DEF TypeOK
<1>5. status[e] # "absent"
  BY <1>1, <1>2 DEF ExecutionInv
<1>6. TypeOK'
  <2>1. pc' \in [Workers -> PCs]
    BY <1>1, <1>2 DEF TypeOK, PCs
  <2>2. ASSUME NEW v \in Workers, pc'[v] # "idle"
        PROVE  task'[v] \in Executions \X Positions
    <3>1. CASE v = w
      BY <1>3, <3>1
    <3>2. CASE v # w
      <4>1. Untouched(v)
        BY <1>3, <3>2
      <4> QED
        BY <1>2, <2>2, <4>1 DEF TypeOK, Untouched
    <3> QED
      BY <3>1, <3>2
  <2> QED
    BY <1>1, <1>4, <2>1, <2>2, TypesNext, TypesNow, <1>2
<1>7. Tables'
  BY <1>1, <1>2 DEF Tables
<1>8. RowsStay
  BY <1>1, <1>4, <1>5 DEF RowsStay
<1>9. /\ \A v \in Workers \ {w} : WorkerInv(v)'
      /\ \A d \in Executions : ExecutionInv(d)'
      /\ WritersRace'
  BY <1>1, <1>3, <1>8, OneWorkerMoves
<1>10. WorkerInv(w)'
  <2>1. Exec(w)' = e
    BY <1>3 DEF Exec
  <2> QED
    BY <1>1, <1>3, <1>5, <2>1 DEF WorkerInv
<1> QED
  BY <1>6, <1>7, <1>9, <1>10 DEF FlowInv

(* What a worker renders has every value it names from the row. *)
LEMMA RenderTravels ==
    ASSUME FlowInv, NEW e \in Executions, NEW i \in Positions,
           Placeholders(Plan[i]) \subseteq DOMAIN variables[e]
    PROVE  Travels(Plan[i].body, RenderStep(Plan[i], variables[e]).body, e)
<1>1. PICK body, map : body = Plan[i].body /\ map = variables[e]
  OBVIOUS
<1>2. IsValue(body)
  BY <1>1, PlanAssumption
<1>3. IsMap(map) /\ Sourced(map, e)
  BY <1>1 DEF FlowInv, TypeOK, ExecutionInv
<1>4. Mentioned(body) \subseteq DOMAIN map
  BY <1>1 DEF Placeholders
<1>5. RenderStep(Plan[i], variables[e]).body = Render(body, map)
  BY <1>1 DEF RenderStep
<1>6. \A p \in DOMAIN body : IsExact(body[p]) => body[p][2][1][2] \in DOMAIN map
  BY <1>2, <1>4, ExactIsMentioned
<1>7. \A p \in DOMAIN body : IsExact(body[p]) => IsValue(map[body[p][2][1][2]])
  BY <1>3, <1>6 DEF IsMap
<1>8. ASSUME NEW p \in DOMAIN body, IsExact(body[p])
      PROVE  Below(Render(body, map), p) \in Sources(e, body[p][2][1][2])
  <2>1. Below(Render(body, map), p) = map[body[p][2][1][2]]
    BY <1>2, <1>7, <1>8, RenderKeeps
  <2>2. map[body[p][2][1][2]] \in Sources(e, body[p][2][1][2])
    BY <1>3, <1>6, <1>8 DEF Sourced
  <2> QED
    BY <2>1, <2>2
<1> QED
  BY <1>1, <1>5, <1>8 DEF Travels

(* What is rendered travels, or the step fails. *)
LEMMA RenderRequestStep ==
    ASSUME FlowInv, NEW w \in Workers, RenderRequest(w)
    PROVE  FlowInv'
<1>1. PICK e, i : e = Exec(w) /\ i = At(w)
  OBVIOUS
<1>2. /\ pc[w] = "render"
      /\ \/ /\ Placeholders(Plan[i]) \subseteq DOMAIN variables[e]
            /\ request' = [request EXCEPT ![w] = RenderStep(Plan[i], variables[e])]
            /\ pc' = [pc EXCEPT ![w] = "run"]
         \/ request' = request /\ pc' = [pc EXCEPT ![w] = "failed"]
      /\ UNCHANGED <<status, variables, queued, task, extracted, base, given, answers, done,
                     raced, faults>>
  BY <1>1 DEF RenderRequest, Goto, historyVars
<1>3. TypeOK /\ Tables
  BY DEF FlowInv
<1>4. e \in Executions /\ i \in Positions /\ status[e] # "absent"
  BY <1>1, <1>2, WorkingOn
<1>5. \A v \in Workers \ {w} : Untouched(v)
  BY <1>2, <1>3 DEF TypeOK, Tables, Untouched
<1>6. TypeOK'
  <2>1. pc' \in [Workers -> PCs]
    BY <1>2, <1>3 DEF TypeOK, PCs
  <2>2. \A v \in Workers : pc'[v] # "idle" => task'[v] \in Executions \X Positions
    BY <1>2, <1>3 DEF TypeOK
  <2> QED
    BY <1>2, <1>3, <2>1, <2>2, TypesNext, TypesNow
<1>7. Tables'
  BY <1>2, <1>3 DEF Tables
<1>8. RowsStay
  BY <1>2 DEF RowsStay
<1>9. pc'[w] \in {"run", "failed"}
  BY <1>2, <1>3 DEF TypeOK
<1>10. /\ \A v \in Workers \ {w} : WorkerInv(v)'
       /\ \A d \in Executions : ExecutionInv(d)'
       /\ WritersRace'
  BY <1>2, <1>5, <1>8, <1>9, OneWorkerMoves
<1>11. WorkerInv(w)'
  <2>1. Exec(w)' = e /\ At(w)' = i
    BY <1>1, <1>2 DEF Exec, At
  <2>2. pc'[w] = "run" => Travels(Plan[i].body, request[w].body, e)'
    <3>1. SUFFICES ASSUME pc'[w] = "run" PROVE Travels(Plan[i].body, request[w].body, e)'
      OBVIOUS
    <3>2. /\ Placeholders(Plan[i]) \subseteq DOMAIN variables[e]
          /\ request' = [request EXCEPT ![w] = RenderStep(Plan[i], variables[e])]
      BY <1>2, <1>3, <3>1 DEF TypeOK
    <3>3. PICK s : s = RenderStep(Plan[i], variables[e]).body
      OBVIOUS
    <3>4. request'[w].body = s
      BY <1>3, <3>2, <3>3 DEF Tables
    <3>5. Travels(Plan[i].body, s, e)
      BY <1>4, <3>2, <3>3, RenderTravels
    <3>6. Grows(e)
      BY <1>2 DEF Grows
    <3>7. Travels(Plan[i].body, s, e)'
      BY <3>5, <3>6, TravelsGrows
    <3> QED
      BY <3>4, <3>7
  <2>3. (pc[w] = "run" => Travels(Plan[At(w)].body, request[w].body, Exec(w)))'
    BY <2>1, <2>2
  <2> QED
    BY <1>2, <1>4, <1>9, <2>1, <2>3 DEF WorkerInv
<1> QED
  BY <1>6, <1>7, <1>10, <1>11 DEF FlowInv

(* What is extracted is what the answer it passed with has. *)
LEMMA RunStep ==
    ASSUME FlowInv, NEW w \in Workers, NEW r \in Responses, Run(w, r)
    PROVE  FlowInv'
<1>1. PICK e, i, x : e = Exec(w) /\ i = At(w) /\ x = ExtractVariables(Plan[i].extracts, r)
  OBVIOUS
<1>2. /\ pc[w] = "run"
      /\ \/ /\ AllFound(Plan[i].extracts, r)
            /\ extracted' = [extracted EXCEPT ![w] = x]
            /\ answers' = [answers EXCEPT ![e][i] = @ \cup {r}]
            /\ pc' = [pc EXCEPT ![w] = IF DOMAIN x = {} THEN "completed" ELSE "read"]
         \/ extracted' = extracted /\ answers' = answers /\ pc' = [pc EXCEPT ![w] = "failed"]
      /\ request' = [request EXCEPT ![w] = <<>>]
      /\ UNCHANGED <<status, variables, queued, task, base, given, done, raced, faults>>
  BY <1>1 DEF Run, Goto
<1>3. TypeOK /\ Tables
  BY DEF FlowInv
<1>4. e \in Executions /\ i \in Positions /\ status[e] # "absent" /\ task[w] = <<e, i>>
  BY <1>1, <1>2, WorkingOn
<1>5. \A v \in Workers \ {w} : Untouched(v)
  BY <1>2, <1>3 DEF TypeOK, Tables, Untouched
<1>6. /\ answers' \in [Executions -> [Positions -> SUBSET Responses]]
      /\ \A d \in Executions, j \in Positions : answers[d][j] \subseteq answers'[d][j]
  <2>1. answers \in [Executions -> [Positions -> SUBSET Responses]]
    BY <1>3 DEF TypeOK
  <2>2. CASE answers' = answers
    BY <2>1, <2>2
  <2>3. CASE answers' = [answers EXCEPT ![e][i] = @ \cup {r}]
    <3>1. answers[e][i] \cup {r} \in SUBSET Responses
      BY <1>4, <2>1
    <3>2. answers' \in [Executions -> [Positions -> SUBSET Responses]]
      BY <1>4, <2>1, <2>3, <3>1
    <3>3. \A d \in Executions, j \in Positions : answers[d][j] \subseteq answers'[d][j]
      BY <1>4, <2>1, <2>3
    <3> QED
      BY <3>2, <3>3
  <2> QED
    BY <1>2, <2>2, <2>3
<1>7. TypeOK'
  <2>1. pc' \in [Workers -> PCs]
    BY <1>2, <1>3 DEF TypeOK, PCs
  <2>2. \A v \in Workers : pc'[v] # "idle" => task'[v] \in Executions \X Positions
    BY <1>2, <1>3 DEF TypeOK
  <2>3. \A v \in Workers : IsMap(extracted'[v])
    <3>1. AllFound(Plan[i].extracts, r) => IsMap(x)
      BY <1>1, <1>4, ExtractedIsMap
    <3> QED
      BY <1>2, <1>3, <3>1 DEF TypeOK, Tables
  <2>4. \A v \in Workers : IsMap(base'[v])
    BY <1>2, <1>3 DEF TypeOK
  <2> QED
    BY <1>2, <1>3, <1>6, <2>1, <2>2, <2>3, <2>4, TypesNext, TypesNow
<1>8. Tables'
  BY <1>2, <1>3 DEF Tables
<1>9. RowsStay
  BY <1>2 DEF RowsStay
<1>10. pc'[w] \in {"completed", "read", "failed"}
  BY <1>2, <1>3 DEF TypeOK
<1>11. /\ \A v \in Workers \ {w} : WorkerInv(v)'
       /\ \A d \in Executions : ExecutionInv(d)'
       /\ WritersRace'
  BY <1>2, <1>5, <1>6, <1>9, <1>10, OneWorkerMoves
<1>12. WorkerInv(w)'
  <2>1. Exec(w)' = e /\ At(w)' = i
    BY <1>1, <1>2 DEF Exec, At
  <2>2. CASE /\ extracted' = [extracted EXCEPT ![w] = x]
             /\ answers' = [answers EXCEPT ![e][i] = @ \cup {r}]
             /\ pc' = [pc EXCEPT ![w] = IF DOMAIN x = {} THEN "completed" ELSE "read"]
    <3>1. r \in answers'[e][i] /\ extracted'[w] = x
      BY <1>3, <1>4, <2>2 DEF TypeOK, Tables
    <3>2. (\E s \in answers[Exec(w)][At(w)] :
              extracted[w] = ExtractVariables(Plan[At(w)].extracts, s))'
      BY <1>1, <2>1, <3>1
    <3>3. pc'[w] = "completed" => Names(i) = {}
      <4>1. DOMAIN x = Names(i)
        BY <1>1, <1>4, ExtractedIsMap
      <4> QED
        BY <1>3, <2>2, <4>1 DEF TypeOK
    <3>4. (pc[w] = "completed" /\ Exec(w) \notin raced =>
              Names(At(w)) \subseteq DOMAIN variables[Exec(w)])'
      BY <2>1, <3>3 DEF Names
    <3>5. (IF pc[w] = "idle" THEN task[w] = <<>> ELSE status[Exec(w)] # "absent")'
      BY <1>2, <1>4, <1>10, <2>1
    <3> QED
      BY <1>10, <3>2, <3>4, <3>5 DEF WorkerInv
  <2>3. CASE pc' = [pc EXCEPT ![w] = "failed"]
    <3>1. pc'[w] = "failed"
      BY <1>3, <2>3 DEF TypeOK
    <3> QED
      BY <1>2, <1>4, <2>1, <3>1 DEF WorkerInv
  <2> QED
    BY <1>2, <2>2, <2>3
<1> QED
  BY <1>7, <1>8, <1>11, <1>12 DEF FlowInv

(* What is read is the row, and a row somebody is about to write is raced. *)
LEMMA MergeReadStep ==
    ASSUME FlowInv, NEW w \in Workers, MergeRead(w)
    PROVE  FlowInv'
<1>1. PICK e, i : e = Exec(w) /\ i = At(w)
  OBVIOUS
<1>2. /\ pc[w] = "read" /\ pc' = [pc EXCEPT ![w] = "write"]
      /\ base' = [base EXCEPT ![w] = variables[e]]
      /\ raced' = raced \cup {d \in Executions :
                      d = e /\ \E v \in Workers : pc[v] = "write" /\ Exec(v) = d}
      /\ UNCHANGED <<status, variables, queued, task, request, extracted, given,
                     answers, done, faults>>
  BY <1>1 DEF MergeRead, Goto
<1>3. TypeOK /\ Tables
  BY DEF FlowInv
<1>4. e \in Executions /\ i \in Positions /\ status[e] # "absent"
  BY <1>1, <1>2, WorkingOn
<1>5. /\ \A v \in Workers \ {w} : Untouched(v)
      /\ pc'[w] = "write" /\ base'[w] = variables[e]
  BY <1>2, <1>3 DEF TypeOK, Tables, Untouched
<1>6. raced \subseteq raced' /\ raced' \subseteq Executions
  BY <1>2, <1>3 DEF TypeOK
<1>7. \A v \in Workers : pc[v] = "write" /\ Exec(v) = e => e \in raced'
  BY <1>2, <1>4
<1>8. TypeOK'
  <2>1. pc' \in [Workers -> PCs]
    BY <1>2, <1>3 DEF TypeOK, PCs
  <2>2. \A v \in Workers : pc'[v] # "idle" => task'[v] \in Executions \X Positions
    BY <1>2, <1>3 DEF TypeOK
  <2>3. \A v \in Workers : IsMap(extracted'[v]) /\ IsMap(base'[v])
    BY <1>2, <1>3, <1>4, <1>5 DEF TypeOK, Untouched
  <2> QED
    BY <1>2, <1>3, <1>6, <2>1, <2>2, <2>3, TypesNext, TypesNow
<1>9. Tables'
  BY <1>2, <1>3 DEF Tables
<1>10. RowsStay
  BY <1>2 DEF RowsStay
<1>11. /\ \A v \in Workers \ {w} : WorkerInv(v)'
       /\ \A d \in Executions : ExecutionInv(d)'
  BY <1>2, <1>5, <1>6, <1>10, OneWorkerMoves
<1>12. WorkerInv(w)'
  <2>1. Exec(w)' = e /\ At(w)' = i
    BY <1>1, <1>2 DEF Exec, At
  <2>2. Whole(variables[e], e)' /\ Sourced(variables[e], e)'
    BY <1>4, <1>11 DEF ExecutionInv
  <2>3. (Whole(base[w], Exec(w)) /\ Sourced(base[w], Exec(w)))'
    <3>1. base'[w] = variables'[e]
      BY <1>2, <1>5
    <3>2. PICK b : b = base'[w]
      OBVIOUS
    <3>3. Whole(b, e)' /\ Sourced(b, e)'
      BY <2>2, <3>1, <3>2
    <3> QED
      BY <2>1, <3>2, <3>3
  <2>4. base'[w] = variables'[e]
    BY <1>2, <1>5
  <2>5. (\E r \in answers[Exec(w)][At(w)] :
             extracted[w] = ExtractVariables(Plan[At(w)].extracts, r))'
    <3>1. \E r \in answers[e][i] : extracted[w] = ExtractVariables(Plan[i].extracts, r)
      BY <1>1, <1>2 DEF FlowInv, WorkerInv
    <3>2. answers' = answers /\ extracted' = extracted
      BY <1>2
    <3> QED
      BY <2>1, <3>1, <3>2
  <2>6. (IF pc[w] = "idle" THEN task[w] = <<>> ELSE status[Exec(w)] # "absent")'
    BY <1>2, <1>4, <1>5, <2>1
  <2> QED
    BY <1>5, <2>1, <2>3, <2>4, <2>5, <2>6 DEF WorkerInv
<1>13. WritersRace'
  <2>1. ASSUME NEW u \in Workers, NEW v \in Workers, u # v, pc'[u] = "write", pc'[v] = "write",
               Exec(u)' = Exec(v)'
        PROVE  Exec(u)' \in raced'
    <3>1. Exec(u)' = Exec(u) /\ Exec(v)' = Exec(v)
      BY <1>2 DEF Exec
    <3>2. CASE u = w
      BY <1>1, <1>5, <1>7, <2>1, <3>1, <3>2 DEF Untouched
    <3>3. CASE v = w
      BY <1>1, <1>5, <1>7, <2>1, <3>1, <3>3 DEF Untouched
    <3>4. CASE u # w /\ v # w
      <4>1. pc[u] = "write" /\ pc[v] = "write"
        BY <1>5, <2>1, <3>4 DEF Untouched
      <4> QED
        BY <1>6, <2>1, <3>1, <4>1 DEF FlowInv, WritersRace
    <3> QED
      BY <3>2, <3>3, <3>4
  <2> QED
    BY <2>1 DEF WritersRace
<1> QED
  BY <1>8, <1>9, <1>11, <1>12, <1>13 DEF FlowInv

(* The merge of what was read and extracted is whole and sourced. *)
LEMMA MergeWriteStep ==
    ASSUME FlowInv, NEW w \in Workers, MergeWrite(w)
    PROVE  FlowInv'
<1>1. PICK e, i, b, x, m : /\ e = Exec(w) /\ i = At(w) /\ b = base[w] /\ x = extracted[w]
                           /\ m = Merged(b, x)
  OBVIOUS
<1>2. /\ pc[w] = "write" /\ pc' = [pc EXCEPT ![w] = "completed"]
      /\ variables' = [variables EXCEPT ![e] = m]
      /\ base' = [base EXCEPT ![w] = NoMap] /\ extracted' = [extracted EXCEPT ![w] = NoMap]
      /\ UNCHANGED <<status, queued, task, request, given, answers, done, raced, faults>>
  BY <1>1 DEF MergeWrite, Goto, historyVars
<1>3. TypeOK /\ Tables
  BY DEF FlowInv
<1>4. e \in Executions /\ i \in Positions /\ status[e] # "absent"
  BY <1>1, <1>2, WorkingOn
<1>5. /\ \A v \in Workers \ {w} : Untouched(v)
      /\ pc'[w] = "completed" /\ variables'[e] = m
      /\ \A d \in Executions \ {e} : variables'[d] = variables[d]
  BY <1>2, <1>3, <1>4 DEF TypeOK, Tables, Untouched
<1>6. PICK r \in answers[e][i] : x = ExtractVariables(Plan[i].extracts, r)
  BY <1>1, <1>2 DEF FlowInv, WorkerInv
<1>7. r \in Responses
  BY <1>3, <1>4, <1>6 DEF TypeOK
<1>8. /\ IsMap(b) /\ IsMap(x) /\ Whole(b, e) /\ Sourced(b, e)
      /\ e \notin raced => b = variables[e]
  BY <1>1, <1>2, <1>3 DEF TypeOK, FlowInv, WorkerInv
<1>9. /\ IsMap(m) /\ Whole(m, e) /\ Sourced(m, e)
      /\ Names(i) \subseteq DOMAIN m /\ DOMAIN b \subseteq DOMAIN m
  BY <1>1, <1>4, <1>6, <1>7, <1>8, MergeKeepsWhole
<1>10. \A d \in Executions : Grows(d)
  BY <1>2 DEF Grows
<1>11. TypeOK'
  <2>1. pc' \in [Workers -> PCs]
    BY <1>2, <1>3 DEF TypeOK, PCs
  <2>2. \A v \in Workers : pc'[v] # "idle" => task'[v] \in Executions \X Positions
    BY <1>2, <1>3 DEF TypeOK
  <2>3. \A v \in Workers : IsMap(extracted'[v]) /\ IsMap(base'[v])
    BY <1>2, <1>3, NoMapIsMap DEF TypeOK, Tables
  <2>4. \A d \in Executions : IsMap(variables'[d]) /\ IsMap(given'[d])
    BY <1>2, <1>3, <1>5, <1>9 DEF TypeOK
  <2> QED
    BY <1>2, <1>3, <2>1, <2>2, <2>3, <2>4, TypesNext, TypesNow
<1>12. Tables'
  BY <1>2, <1>3 DEF Tables
<1>13. ASSUME NEW d \in Executions PROVE ExecutionInv(d)'
  <2>1. ExecutionInv(d) /\ Grows(d)
    BY <1>10 DEF FlowInv
  <2>2. CASE d # e
    BY <1>2, <1>5, <2>1, <2>2, RowKeeps
  <2>3. CASE d = e
    <3>1. Whole(m, e)' /\ Sourced(m, e)'
      BY <1>9, <2>1, <2>3, WholeGrows, SourcedGrows
    <3>2. Whole(variables[e], e)' /\ Sourced(variables[e], e)'
      BY <1>5, <3>1
    <3>3. (status[e] = "absent" => done[e] = {} /\ \A j \in Positions : queued[e][j] = 0)'
      BY <1>2, <1>4
    <3>4. (e \notin raced => \A j \in done[e] : Names(j) \subseteq DOMAIN variables[e])'
      <4>1. ASSUME e \notin raced, NEW j \in done[e] PROVE Names(j) \subseteq DOMAIN m
        <5>1. Names(j) \subseteq DOMAIN variables[e]
          BY <2>1, <2>3, <4>1 DEF ExecutionInv
        <5> QED
          BY <1>8, <1>9, <4>1, <5>1
      <4> QED
        BY <1>2, <1>5, <4>1 DEF Names
    <3> QED
      BY <2>3, <3>2, <3>3, <3>4 DEF ExecutionInv
  <2> QED
    BY <2>2, <2>3
<1>14. ASSUME NEW v \in Workers \ {w} PROVE WorkerInv(v)'
  <2>1. WorkerInv(v) /\ Untouched(v)
    BY <1>5 DEF FlowInv
  <2>2. ASSUME pc[v] # "idle"
        PROVE  /\ At(v) \in Positions /\ Grows(Exec(v)) /\ status'[Exec(v)] # "absent"
               /\ Exec(v) \in raced => Exec(v) \in raced'
               /\ Exec(v) \notin raced' =>
                     /\ pc[v] = "write" => variables'[Exec(v)] = variables[Exec(v)]
                     /\ DOMAIN variables[Exec(v)] \subseteq DOMAIN variables'[Exec(v)]
    <3>1. Exec(v) \in Executions /\ At(v) \in Positions /\ status[Exec(v)] # "absent"
      BY <2>2, WorkingOn
    <3>2. CASE Exec(v) # e
      BY <1>2, <1>5, <1>10, <3>1, <3>2
    <3>3. CASE Exec(v) = e
      <4>1. e \notin raced => pc[v] # "write"
        BY <1>1, <1>2, <3>3 DEF FlowInv, WritersRace
      <4>2. e \notin raced => DOMAIN variables[e] \subseteq DOMAIN variables'[e]
        BY <1>5, <1>8, <1>9
      <4> QED
        BY <1>2, <1>10, <3>1, <3>3, <4>1, <4>2
    <3> QED
      BY <3>2, <3>3
  <2> QED
    BY <2>1, <2>2, WorkerKeeps DEF Untouched
<1>15. WorkerInv(w)'
  <2>1. Exec(w)' = e /\ At(w)' = i
    BY <1>1, <1>2 DEF Exec, At
  <2>2. (pc[w] = "completed" /\ Exec(w) \notin raced =>
            Names(At(w)) \subseteq DOMAIN variables[Exec(w)])'
    BY <1>5, <1>9, <2>1 DEF Names
  <2> QED
    BY <1>2, <1>4, <1>5, <2>1, <2>2 DEF WorkerInv
<1>16. WritersRace'
  BY <1>2, <1>5, OthersWrite
<1> QED
  BY <1>11, <1>12, <1>13, <1>14, <1>15, <1>16 DEF FlowInv

(* A worker that goes idle holds nothing. *)
LEMMA IdleWorker ==
    ASSUME FlowInv, NEW w \in Workers, GoIdle(w)
    PROVE  /\ \A v \in Workers \ {w} : Untouched(v)
           /\ pc' \in [Workers -> PCs] /\ pc'[w] = "idle"
           /\ \A v \in Workers : pc'[v] # "idle" => task'[v] \in Executions \X Positions
           /\ \A v \in Workers : IsMap(extracted'[v]) /\ IsMap(base'[v])
           /\ DOMAIN task' = Workers /\ DOMAIN request' = Workers
           /\ DOMAIN extracted' = Workers /\ DOMAIN base' = Workers
           /\ WorkerInv(w)'
<1>1. /\ pc' = [pc EXCEPT ![w] = "idle"] /\ task' = [task EXCEPT ![w] = <<>>]
      /\ request' = [request EXCEPT ![w] = <<>>]
      /\ extracted' = [extracted EXCEPT ![w] = NoMap] /\ base' = [base EXCEPT ![w] = NoMap]
  BY DEF GoIdle, Goto
<1>2. TypeOK /\ Tables
  BY DEF FlowInv
<1>3. /\ \A v \in Workers \ {w} : Untouched(v)
      /\ pc'[w] = "idle" /\ task'[w] = <<>> /\ extracted'[w] = NoMap /\ base'[w] = NoMap
  BY <1>1, <1>2 DEF TypeOK, Tables, Untouched
<1>4. pc' \in [Workers -> PCs]
  BY <1>1, <1>2 DEF TypeOK, PCs
<1>5. \A v \in Workers : pc'[v] # "idle" => task'[v] \in Executions \X Positions
  BY <1>2, <1>3 DEF TypeOK, Untouched
<1>6. \A v \in Workers : IsMap(extracted'[v]) /\ IsMap(base'[v])
  BY <1>2, <1>3, NoMapIsMap DEF TypeOK, Untouched
<1>7. /\ DOMAIN task' = Workers /\ DOMAIN request' = Workers
      /\ DOMAIN extracted' = Workers /\ DOMAIN base' = Workers
  BY <1>1, <1>2 DEF Tables
<1>8. WorkerInv(w)'
  BY <1>3 DEF WorkerInv
<1> QED
  BY <1>3, <1>4, <1>5, <1>6, <1>7, <1>8

(* The step that is reported is known, if the row is not raced. *)
LEMMA ReportCompletedStep ==
    ASSUME FlowInv, NEW w \in Workers, ReportCompleted(w)
    PROVE  FlowInv'
<1>1. PICK e, i : e = Exec(w) /\ i = At(w)
  OBVIOUS
<1>2. /\ pc[w] = "completed" /\ done' = [done EXCEPT ![e] = @ \cup {i}]
      /\ \/ UNCHANGED <<status, queued, faults>>
         \/ i + 1 \in Positions /\ Enqueue(e, i + 1) /\ UNCHANGED status
         \/ status' = [status EXCEPT ![e] = "completed"] /\ UNCHANGED <<queued, faults>>
      /\ GoIdle(w)
      /\ UNCHANGED <<variables, given, answers, raced>>
  BY <1>1 DEF ReportCompleted
<1>3. TypeOK /\ Tables
  BY DEF FlowInv
<1>4. e \in Executions /\ i \in Positions /\ status[e] # "absent"
  BY <1>1, <1>2, WorkingOn
<1>5. /\ status' \in [Executions -> Statuses]
      /\ queued' \in [Executions -> [Positions -> Nat]] /\ faults' \in Nat
      /\ status'[e] # "absent"
      /\ \A d \in Executions \ {e} : status'[d] = status[d] /\ queued'[d] = queued[d]
  <2>1. CASE UNCHANGED <<status, queued, faults>>
    BY <1>3, <1>4, <2>1 DEF TypeOK
  <2>2. CASE i + 1 \in Positions /\ Enqueue(e, i + 1) /\ UNCHANGED status
    BY <1>3, <1>4, <2>2, QueueGrows, TypesNow
  <2>3. CASE status' = [status EXCEPT ![e] = "completed"] /\ UNCHANGED <<queued, faults>>
    BY <1>3, <1>4, <2>3 DEF TypeOK, Statuses
  <2> QED
    BY <1>2, <2>1, <2>2, <2>3
<1>6. /\ done' \in [Executions -> SUBSET Positions]
      /\ \A d \in Executions \ {e} : done'[d] = done[d]
      /\ done'[e] = done[e] \cup {i}
  BY <1>2, <1>3, <1>4 DEF TypeOK
<1>7. TypeOK'
  BY <1>2, <1>3, <1>5, <1>6, IdleWorker, TypesNext, TypesNow
<1>8. Tables'
  BY <1>2, <1>3, IdleWorker DEF Tables
<1>9. RowsStay
  BY <1>5 DEF RowsStay
<1>10. /\ \A v \in Workers \ {w} : WorkerInv(v)'
       /\ \A d \in Executions : done'[d] = done[d] => ExecutionInv(d)'
       /\ WritersRace'
  BY <1>2, <1>9, IdleWorker, OneWorkerMoves
<1>11. ExecutionInv(e)'
  <2>1. ExecutionInv(e) /\ Grows(e) /\ WorkerInv(w)
    BY <1>2, <1>4 DEF FlowInv, Grows
  <2>2. PICK map : map = variables[e]
    OBVIOUS
  <2>3. Whole(map, e)' /\ Sourced(map, e)'
    BY <2>1, <2>2, WholeGrows, SourcedGrows DEF ExecutionInv
  <2>4. Whole(variables[e], e)' /\ Sourced(variables[e], e)'
    BY <1>2, <2>2, <2>3
  <2>5. (status[e] = "absent" => done[e] = {} /\ \A j \in Positions : queued[e][j] = 0)'
    BY <1>5
  <2>6. (e \notin raced => \A j \in done[e] : Names(j) \subseteq DOMAIN variables[e])'
    BY <1>1, <1>2, <1>6, <2>1 DEF ExecutionInv, WorkerInv, Names
  <2> QED
    BY <2>4, <2>5, <2>6 DEF ExecutionInv
<1>12. \A d \in Executions : ExecutionInv(d)'
  BY <1>6, <1>10, <1>11
<1> QED
  BY <1>2, <1>7, <1>8, <1>10, <1>12, IdleWorker DEF FlowInv

(* A failure, a raised call and a restart leave the variables alone. *)
LEMMA ReportFailedStep ==
    ASSUME FlowInv, NEW w \in Workers, ReportFailed(w)
    PROVE  FlowInv'
<1>1. PICK e : e = Exec(w)
  OBVIOUS
<1>2. /\ pc[w] = "failed" /\ status' = [status EXCEPT ![e] = "failed"] /\ GoIdle(w)
      /\ UNCHANGED <<variables, queued, given, answers, done, raced, faults>>
  BY <1>1 DEF ReportFailed, historyVars
<1>3. TypeOK /\ Tables
  BY DEF FlowInv
<1>4. e \in Executions /\ status[e] # "absent"
  BY <1>1, <1>2, WorkingOn
<1>5. status' \in [Executions -> Statuses] /\ RowsStay
  BY <1>2, <1>3, <1>4 DEF TypeOK, Statuses, RowsStay
<1>6. TypeOK'
  BY <1>2, <1>3, <1>5, IdleWorker, TypesNext, TypesNow
<1>7. Tables'
  BY <1>2, <1>3, IdleWorker DEF Tables
<1>8. /\ \A v \in Workers \ {w} : WorkerInv(v)'
      /\ \A d \in Executions : ExecutionInv(d)'
      /\ WritersRace'
  BY <1>2, <1>5, IdleWorker, OneWorkerMoves
<1> QED
  BY <1>2, <1>6, <1>7, <1>8, IdleWorker DEF FlowInv

LEMMA CallRaisesStep ==
    ASSUME FlowInv, NEW w \in Workers, CallRaises(w)
    PROVE  FlowInv'
<1>1. /\ pc[w] # "idle" /\ faults' = faults + 1 /\ pc' = [pc EXCEPT ![w] = "failed"]
      /\ UNCHANGED <<status, variables, queued, task, request, extracted, base,
                     given, answers, done, raced>>
  BY DEF CallRaises, Fault, Goto, historyVars
<1>2. TypeOK /\ Tables
  BY DEF FlowInv
<1>3. pc' \in [Workers -> PCs] /\ pc'[w] = "failed" /\ faults' \in Nat
  BY <1>1, <1>2 DEF TypeOK, PCs
<1>4. \A v \in Workers \ {w} : Untouched(v)
  BY <1>1, <1>2 DEF TypeOK, Untouched
<1>5. \A v \in Workers : pc'[v] # "idle" => task'[v] \in Executions \X Positions
  BY <1>1, <1>2, <1>4 DEF TypeOK, Untouched
<1>6. TypeOK'
  BY <1>1, <1>2, <1>3, <1>5, TypesNext, TypesNow
<1>7. Tables'
  BY <1>1, <1>2 DEF Tables
<1>8. RowsStay
  BY <1>1 DEF RowsStay
<1>9. /\ \A v \in Workers \ {w} : WorkerInv(v)'
      /\ \A d \in Executions : ExecutionInv(d)'
      /\ WritersRace'
  BY <1>1, <1>3, <1>4, <1>8, OneWorkerMoves
<1>10. WorkerInv(w)'
  <2>1. status[Exec(w)] # "absent"
    BY <1>1, WorkingOn
  <2>2. Exec(w)' = Exec(w)
    BY <1>1 DEF Exec
  <2> QED
    BY <1>1, <1>3, <2>1, <2>2 DEF WorkerInv
<1> QED
  BY <1>6, <1>7, <1>9, <1>10 DEF FlowInv

LEMMA NodeRestartsStep ==
    ASSUME FlowInv, NodeRestarts
    PROVE  FlowInv'
<1> DEFINE held(e, i) == {w \in Workers : task[w] = <<e, i>>}
<1>1. /\ faults' = faults + 1
      /\ queued' = [e \in Executions |-> [i \in Positions |-> queued[e][i] + Cardinality(held(e, i))]]
      /\ pc' = [w \in Workers |-> "idle"] /\ task' = [w \in Workers |-> <<>>]
      /\ request' = [w \in Workers |-> <<>>]
      /\ extracted' = [w \in Workers |-> NoMap] /\ base' = [w \in Workers |-> NoMap]
      /\ UNCHANGED <<status, variables, given, answers, done, raced>>
  BY DEF NodeRestarts, Fault, historyVars
<1>2. TypeOK /\ Tables
  BY DEF FlowInv
<1>3. \A e \in Executions, i \in Positions : Cardinality(held(e, i)) \in Nat
  <2> SUFFICES ASSUME NEW e \in Executions, NEW i \in Positions
               PROVE  Cardinality(held(e, i)) \in Nat
    OBVIOUS
  <2>1. IsFiniteSet(held(e, i))
    <3>1. held(e, i) \in SUBSET Workers
      OBVIOUS
    <3> HIDE DEF held
    <3> QED
      BY <3>1, WorkersAssumption, FS_Subset
  <2> QED
    BY <2>1, FS_CardinalityType
<1>4. ASSUME NEW e \in Executions, NEW i \in Positions, status[e] = "absent"
      PROVE  Cardinality(held(e, i)) = 0
  <2>1. ASSUME NEW w \in Workers PROVE task[w] # <<e, i>>
    <3>1. CASE pc[w] = "idle"
      <4>1. task[w] = <<>>
        BY <3>1 DEF FlowInv, WorkerInv
      <4> QED
        BY <4>1
    <3>2. CASE pc[w] # "idle"
      <4>1. task[w] = <<Exec(w), At(w)>> /\ status[Exec(w)] # "absent"
        BY <3>2, WorkingOn
      <4> QED
        BY <1>4, <4>1
    <3> QED
      BY <3>1, <3>2
  <2>2. held(e, i) = {}
    BY <2>1
  <2> HIDE DEF held
  <2> QED
    BY <2>2, FS_EmptySet
<1> HIDE DEF held
<1>5. /\ \A e \in Executions, i \in Positions : queued[e][i] \in Nat
      /\ \A e \in Executions, i \in Positions : queued'[e][i] = queued[e][i] + Cardinality(held(e, i))
      /\ queued' \in [Executions -> [Positions -> Nat]]
  <2>1. \A e \in Executions, i \in Positions : queued[e][i] \in Nat
    BY <1>2 DEF TypeOK
  <2>2. \A e \in Executions, i \in Positions : queued[e][i] + Cardinality(held(e, i)) \in Nat
    BY <1>3, <2>1
  <2> QED
    BY <1>1, <2>1, <2>2
<1>6. TypeOK'
  <2>1. pc' \in [Workers -> PCs] /\ \A w \in Workers : pc'[w] = "idle"
    BY <1>1 DEF PCs
  <2>2. \A w \in Workers : IsMap(extracted'[w]) /\ IsMap(base'[w])
    BY <1>1, NoMapIsMap
  <2>3. faults' \in Nat
    BY <1>1, <1>2 DEF TypeOK
  <2> QED
    BY <1>1, <1>2, <1>5, <2>1, <2>2, <2>3, TypesNext, TypesNow
<1>7. Tables'
  BY <1>1, <1>2 DEF Tables
<1>8. \A e \in Executions : ExecutionInv(e)'
  <2> SUFFICES ASSUME NEW e \in Executions PROVE ExecutionInv(e)'
    OBVIOUS
  <2>1. ExecutionInv(e) /\ Grows(e)
    BY <1>1 DEF FlowInv, Grows
  <2>2. status[e] = "absent" => \A i \in Positions : queued'[e][i] = queued[e][i]
    BY <1>4, <1>5
  <2> QED
    BY <1>1, <2>1, <2>2, RowKeeps
<1>9. \A w \in Workers : WorkerInv(w)'
  BY <1>1 DEF WorkerInv
<1>10. WritersRace'
  BY <1>1 DEF WritersRace
<1> QED
  BY <1>6, <1>7, <1>8, <1>9, <1>10 DEF FlowInv

(* The first state, every step, and stuttering. *)
LEMMA InitFlow == Init => FlowInv
<1> SUFFICES ASSUME Init PROVE FlowInv
  OBVIOUS
<1>1. /\ status = [e \in Executions |-> "absent"]
      /\ variables = [e \in Executions |-> NoMap] /\ given = variables
      /\ queued = [e \in Executions |-> [i \in Positions |-> 0]]
      /\ pc = [w \in Workers |-> "idle"] /\ task = [w \in Workers |-> <<>>]
      /\ request = [w \in Workers |-> <<>>]
      /\ extracted = [w \in Workers |-> NoMap] /\ base = [w \in Workers |-> NoMap]
      /\ answers = [e \in Executions |-> [i \in Positions |-> {}]]
      /\ done = [e \in Executions |-> {}] /\ raced = {} /\ faults = 0
  BY DEF Init
<1>2. TypeOK
  BY <1>1, NoMapIsMap DEF TypeOK, Statuses, PCs
<1>3. Tables
  BY <1>1 DEF Tables
<1>4. ASSUME NEW e \in Executions PROVE ExecutionInv(e)
  <2>1. variables[e] = given[e] /\ DOMAIN variables[e] = {} /\ done[e] = {}
        /\ \A i \in Positions : queued[e][i] = 0
    BY <1>1, NoMapIsMap
  <2>2. PICK map : map = given[e]
    OBVIOUS
  <2>3. Whole(map, e)
    BY <2>2, WholeAsGiven
  <2> QED
    BY <2>1, <2>2, <2>3 DEF ExecutionInv, Sourced
<1>5. \A w \in Workers : WorkerInv(w)
  BY <1>1 DEF WorkerInv
<1>6. WritersRace
  BY <1>1 DEF WritersRace
<1> QED
  BY <1>2, <1>3, <1>4, <1>5, <1>6 DEF FlowInv

LEMMA NextFlow ==
    ASSUME FlowInv, Next
    PROVE  FlowInv'
<1>1. ASSUME NEW e \in Executions, NEW map \in Given, Schedule(e, map) PROVE FlowInv'
  BY <1>1, GivenAssumption, CreateStep DEF Schedule
<1>2. ASSUME NEW e \in Executions, NEW old \in Executions, Retry(old, e) PROVE FlowInv'
  <2>1. IsMap(variables[old]) /\ Create(e, variables[old])
    BY <1>2 DEF Retry, FlowInv, TypeOK
  <2>2. PICK map : map = variables[old]
    OBVIOUS
  <2> QED
    BY <2>1, <2>2, CreateStep
<1>3. ASSUME NEW e \in Executions, NEW old \in Executions, WsRestart(old, e) PROVE FlowInv'
  BY <1>3, NoMapIsMap, CreateStep DEF WsRestart
<1>4. ASSUME NEW e \in Executions, Stop(e) PROVE FlowInv'
  BY <1>4, StopStep
<1>5. ASSUME NEW w \in Workers, Attempt(w) PROVE FlowInv'
  <2>1. ASSUME NEW e \in Executions, NEW i \in Positions, Take(w, e, i) PROVE FlowInv'
    BY <2>1, TakeStep
  <2>2. ASSUME NEW r \in Responses, Run(w, r) PROVE FlowInv'
    BY <2>2, RunStep
  <2>3. CASE RenderRequest(w)
    BY <2>3, RenderRequestStep
  <2>4. CASE MergeRead(w)
    BY <2>4, MergeReadStep
  <2>5. CASE MergeWrite(w)
    BY <2>5, MergeWriteStep
  <2>6. CASE ReportCompleted(w)
    BY <2>6, ReportCompletedStep
  <2>7. CASE ReportFailed(w)
    BY <2>7, ReportFailedStep
  <2>8. CASE CallRaises(w)
    BY <2>8, CallRaisesStep
  <2> QED
    BY <1>5, <2>1, <2>2, <2>3, <2>4, <2>5, <2>6, <2>7, <2>8 DEF Attempt
<1>6. CASE NodeRestarts
  BY <1>6, NodeRestartsStep
<1> QED
  BY <1>1, <1>2, <1>3, <1>4, <1>5, <1>6 DEF Next

LEMMA StutterFlow ==
    ASSUME FlowInv, UNCHANGED vars
    PROVE  FlowInv'
<1>1. UNCHANGED <<status, variables, given, queued, pc, task, request, extracted, base,
                  answers, done, raced, faults>>
  BY DEF vars
<1>2. TypeOK'
  BY <1>1, TypesNow, TypesNext DEF FlowInv
<1>3. Tables'
  BY <1>1 DEF FlowInv, Tables
<1>4. ASSUME NEW e \in Executions PROVE ExecutionInv(e)'
  <2>1. ExecutionInv(e) /\ Grows(e)
    BY <1>1 DEF FlowInv, Grows
  <2> QED
    BY <1>1, <2>1, RowKeeps
<1>5. ASSUME NEW w \in Workers PROVE WorkerInv(w)'
  <2>1. WorkerInv(w)
    BY DEF FlowInv
  <2>2. pc[w] # "idle" => At(w) \in Positions /\ Grows(Exec(w)) /\ status'[Exec(w)] # "absent"
    BY <1>1, WorkingOn DEF Grows
  <2> QED
    BY <1>1, <2>1, <2>2, WorkerKeeps
<1>6. WritersRace'
  BY <1>1 DEF FlowInv, WritersRace, Exec
<1> QED
  BY <1>2, <1>3, <1>4, <1>5, <1>6 DEF FlowInv

-----------------------------------------------------------------------------
(* The invariant holds in every state. *)
THEOREM FlowInvIsInductive == Spec => []FlowInv
<1>1. FlowInv /\ [Next]_vars => FlowInv'
  BY NextFlow, StutterFlow
<1> QED
  BY <1>1, InitFlow, PTL DEF Spec

(* Type correctness: rows, worker memory and the broker's queue hold what  *)
(* they should, the maps of JSON values among them.                        *)
THEOREM VariableTypesCorrect == Spec => []TypeOK
<1>1. FlowInv => TypeOK
  BY DEF FlowInv
<1> QED
  BY <1>1, FlowInvIsInductive, PTL

(* The variables are those given, overlaid in some order of the steps by   *)
(* all that some of them extracted from one response each: merges that     *)
(* overlap, raised calls, node restarts and retries leave no mixture,      *)
(* whichever names the steps of the plan share.                            *)
THEOREM VariablesAreWhole == Spec => []ExtractsAreWhole
<1>1. FlowInv => ExtractsAreWhole
  BY DEF FlowInv, ExecutionInv, ExtractsAreWhole
<1> QED
  BY <1>1, FlowInvIsInductive, PTL

(* While no two merges of an execution overlapped, the variables of every  *)
(* completed step are there.                                               *)
THEOREM CompletedStepsAreAlwaysKnown == Spec => []CompletedStepsAreKnown
<1>1. FlowInv => CompletedStepsAreKnown
  BY DEF FlowInv, ExecutionInv, CompletedStepsAreKnown
<1> QED
  BY <1>1, FlowInvIsInductive, PTL

(* A placeholder alone is sent as the value a response had or the client   *)
(* gave, at any depth of the body.                                         *)
THEOREM ValuesAlwaysTravelUnchanged == Spec => []ValuesTravelUnchanged
<1>1. FlowInv => ValuesTravelUnchanged
  BY DEF FlowInv, WorkerInv, ValuesTravelUnchanged, Travels, IsExact
<1> QED
  BY <1>1, FlowInvIsInductive, PTL

(* Extraction and assertions read the same at every path into no list.     *)
THEOREM ReadersAlwaysAgree == Spec => []ReadersAgree
<1>1. FlowInv => ReadersAgree
  <2> SUFFICES ASSUME FlowInv, NEW e \in Executions, NEW i \in Positions, NEW j \in Positions,
                      NEW r \in answers[e][i], NEW n \in Names(j),
                      Plan[j].extracts[n][1] = "body", ~EntersList(r.body, Plan[j].extracts[n][2])
               PROVE  ReadBodyPath(r.body, Plan[j].extracts[n][2]) =
                         IF Extract(Plan[j].extracts[n], r) = Raised THEN Null
                         ELSE Extract(Plan[j].extracts[n], r)
    BY DEF ReadersAgree
  <2>1. PICK source, body, path : /\ source = Plan[j].extracts[n] /\ body = r.body
                                  /\ path = source[2]
    OBVIOUS
  <2>2. IsValue(body) /\ path \in Seq(STRING)
    <3>1. r \in Responses
      BY DEF FlowInv, TypeOK
    <3> QED
      BY <2>1, <3>1, ResponsesAssumption, PlanAssumption
  <2>3. Extract(source, r) = IF path \in DOMAIN body THEN Below(body, path) ELSE Raised
    <3>1. Extract(source, r) = ReadPath(body, path)
      BY <2>1 DEF Extract
    <3> QED
      BY <2>2, <3>1, ReadPathIs
  <2>4. CASE path \in DOMAIN body
    <3>1. \A k \in 0..(Len(path) - 1) : body[SubSeq(path, 1, k)][1] # "list"
      <4>1. \A k \in 0..(Len(path) - 1) : SubSeq(path, 1, k) \in DOMAIN body
        BY <2>2, <2>4 DEF IsValue
      <4>2. ~EntersList(body, path)
        BY <2>1
      <4> QED
        BY <4>1, <4>2 DEF EntersList
    <3>2. ReadBodyPath(body, path) = Below(body, path)
      BY <2>2, <2>4, <3>1, ReadBodyPathIs
    <3>3. Below(body, path) # Raised
      BY <2>2, <2>4, BelowIsValue, RaisedIsNoValue
    <3> QED
      BY <2>1, <2>3, <2>4, <3>2, <3>3
  <2>5. CASE path \notin DOMAIN body
    <3>1. ReadBodyPath(body, path) = Null
      BY <2>2, <2>5, ReadBodyPathIs
    <3> QED
      BY <2>1, <2>3, <2>5, <3>1
  <2> QED
    BY <2>4, <2>5
<1> QED
  BY <1>1, FlowInvIsInductive, PTL
=============================================================================
