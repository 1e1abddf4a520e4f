--------------------------- MODULE RealtimeProofs ---------------------------
(***************************************************************************)
(* What the clients of Realtime see, for any connections and plans.        *)
(***************************************************************************)
EXTENDS Realtime, SequenceTheorems, TLAPS

-----------------------------------------------------------------------------
(* Sequences. *)

(* What is appended is last, and nothing else changes.                     *)
LEMMA Added ==
    ASSUME NEW S, NEW s \in Seq(S), NEW x \in S
    PROVE  /\ Append(s, x) \in Seq(S)
           /\ Len(Append(s, x)) = Len(s) + 1
           /\ DOMAIN Append(s, x) = 1..(Len(s) + 1)
           /\ \A i \in 1..Len(s) : Append(s, x)[i] = s[i]
           /\ Append(s, x)[Len(s) + 1] = x
           /\ Range(Append(s, x)) = Range(s) \cup {x}
<1>1. /\ Append(s, x) \in Seq(S) /\ Len(Append(s, x)) = Len(s) + 1
      /\ \A i \in 1..Len(s) : Append(s, x)[i] = s[i]
      /\ Append(s, x)[Len(s) + 1] = x
  BY AppendProperties
<1>2. DOMAIN Append(s, x) = 1..(Len(s) + 1) /\ DOMAIN s = 1..Len(s) /\ Len(s) \in Nat
  BY <1>1, LenProperties
<1>3. \A y : y \in Range(Append(s, x)) <=> y \in Range(s) \cup {x}
  <2>1. 1..(Len(s) + 1) = (1..Len(s)) \cup {Len(s) + 1}
    BY <1>2
  <2>2. Range(Append(s, x)) = {Append(s, x)[i] : i \in (1..Len(s)) \cup {Len(s) + 1}}
    BY <1>2, <2>1 DEF Range
  <2> QED BY <1>1, <1>2, <2>2 DEF Range
<1> QED BY <1>1, <1>2, <1>3

(* Removing place k keeps the others in their order.                       *)
LEMMA Removed ==
    ASSUME NEW S, NEW s \in Seq(S), NEW k \in DOMAIN s
    PROVE  /\ RemoveAt(s, k) \in Seq(S)
           /\ Len(RemoveAt(s, k)) = Len(s) - 1
           /\ DOMAIN RemoveAt(s, k) = 1..(Len(s) - 1)
           /\ \A i \in 1..(Len(s) - 1) : RemoveAt(s, k)[i] = s[IF i < k THEN i ELSE i + 1]
<1> DEFINE a == SubSeq(s, 1, k - 1)
           b == SubSeq(s, k + 1, Len(s))
<1>1. Len(s) \in Nat /\ DOMAIN s = 1..Len(s) /\ k \in 1..Len(s) /\ \A i \in 1..Len(s) : s[i] \in S
  BY LenProperties, ElementOfSeq
<1>2. /\ a \in Seq(S) /\ Len(a) = k - 1
      /\ \A i \in 1..(k - 1) : a[i] = s[i]
  <2>1. 1 \in Int /\ k - 1 \in Int /\ \A i \in 1..(k - 1) : s[i] \in S
    BY <1>1
  <2>2. /\ a \in Seq(S) /\ Len(a) = (IF 1 <= k - 1 THEN (k - 1) - 1 + 1 ELSE 0)
        /\ \A i \in 1..((k - 1) - 1 + 1) : a[i] = s[1 + i - 1]
    BY <2>1, SubSeqProperties
  <2> QED BY <1>1, <2>2
<1>3. /\ b \in Seq(S) /\ Len(b) = Len(s) - k
      /\ \A i \in 1..(Len(s) - k) : b[i] = s[k + i]
  <2>1. k + 1 \in Int /\ Len(s) \in Int /\ \A i \in (k + 1)..Len(s) : s[i] \in S
    BY <1>1
  <2>2. /\ b \in Seq(S) /\ Len(b) = (IF k + 1 <= Len(s) THEN Len(s) - (k + 1) + 1 ELSE 0)
        /\ \A i \in 1..(Len(s) - (k + 1) + 1) : b[i] = s[(k + 1) + i - 1]
    BY <2>1, SubSeqProperties
  <2> HIDE DEF b
  <2>3. Len(b) = Len(s) - k
    BY <1>1, <2>2
  <2>4. ASSUME NEW i \in 1..(Len(s) - k) PROVE b[i] = s[k + i]
    <3>1. i \in 1..(Len(s) - (k + 1) + 1) /\ (k + 1) + i - 1 = k + i
      BY <1>1
    <3> QED BY <2>2, <3>1
  <2> QED BY <2>2, <2>3, <2>4
<1>4. RemoveAt(s, k) = a \o b
  BY DEF RemoveAt
<1>5. /\ a \o b \in Seq(S) /\ Len(a \o b) = Len(s) - 1
      /\ \A i \in 1..(Len(s) - 1) : (a \o b)[i] = IF i <= k - 1 THEN a[i] ELSE b[i - (k - 1)]
  <2> HIDE DEF a, b
  <2>1. a \o b \in Seq(S) /\ Len(a \o b) = Len(a) + Len(b)
    BY <1>2, <1>3, ConcatProperties
  <2>2. \A i \in 1..(Len(a) + Len(b)) : (a \o b)[i] = IF i <= Len(a) THEN a[i] ELSE b[i - Len(a)]
    BY <1>2, <1>3, ConcatProperties
  <2>3. Len(a) = k - 1 /\ Len(a) + Len(b) = Len(s) - 1
    BY <1>1, <1>2, <1>3
  <2> QED BY <2>1, <2>2, <2>3
<1>6. ASSUME NEW i \in 1..(Len(s) - 1)
      PROVE  (a \o b)[i] = s[IF i < k THEN i ELSE i + 1]
  <2> HIDE DEF a, b
  <2>1. CASE i < k
    <3>1. i \in 1..(k - 1) /\ i <= k - 1
      BY <1>1, <2>1
    <3> QED BY <1>2, <1>5, <2>1, <3>1
  <2>2. CASE ~(i < k)
    <3>1. ~(i <= k - 1) /\ i - (k - 1) \in 1..(Len(s) - k) /\ k + (i - (k - 1)) = i + 1
      BY <1>1, <2>2
    <3> QED BY <1>3, <1>5, <2>2, <3>1
  <2> QED BY <2>1, <2>2
<1> HIDE DEF a, b
<1>7. DOMAIN (a \o b) = 1..(Len(s) - 1)
  BY <1>5, LenProperties
<1> QED BY <1>4, <1>5, <1>6, <1>7

-----------------------------------------------------------------------------
(* The invariant. *)

(* What is in order whatever ends or breaks; started events have had their *)
(* broadcast begun, or needed none.                                        *)
Ordered(started) ==
    /\ started \in Nat
    /\ connections = {c \in Connections : state[c] \in {"open", "broken", "dead"}}
    /\ ~loop => connections = {} /\ scheduled = <<>>
    /\ started + Len(scheduled) <= Len(log)
    /\ consumer # "dead" =>
          started + Len(scheduled) = offset + (IF consumer = "handling" THEN 1 ELSE 0)
    /\ \A i \in DOMAIN scheduled : scheduled[i] = started + i

(* Connections are numbered as they are accepted.                          *)
Numbered ==
    /\ \A c \in Connections : state[c] = "new" => received[c] = <<>>
    /\ \A c \in Connections : state[c] # "new" => arrival[c] <= arrivals
    /\ \A c, d \in Connections :
          state[c] # "new" /\ state[d] # "new" /\ arrival[c] = arrival[d] => c = d

(* A broadcast walks connections of its plan in the order of their numbers. *)
Walks(b) ==
    \A d \in b.rest : /\ PlanOf[d] = log[b.event]
                      /\ state[d] # "new"
                      /\ arrival[b.at] < arrival[d]
                      /\ b.event \notin Range(received[d])

Walking(q, started) ==
    /\ \A i \in DOMAIN q : /\ q[i].event <= started
                           /\ PlanOf[q[i].at] = log[q[i].event]
                           /\ state[q[i].at] # "new"
                           /\ Walks(q[i])
    /\ \A i, j \in DOMAIN q : q[i].event = q[j].event => i = j

Heard(started) == \A c \in connections : \A n \in Range(received[c]) : n <= started

(* Client c is connected, and no connection before it has ended.           *)
Following(c) == state[c] = "open" /\ c \notin disturbed

Ahead(c, d) == d \in connections /\ PlanOf[d] = PlanOf[c] /\ arrival[d] < arrival[c]

(* The broadcast is on its way to client c.                                *)
Comes(b, c) ==
    /\ Ahead(c, b.at)
    /\ \A d \in b.rest : arrival[d] < arrival[c] => d \in connections
    /\ \A d \in Connections : Ahead(c, d) /\ arrival[b.at] < arrival[d] => d \in b.rest
    /\ \A n \in Range(received[c]) : n < b.event

Reaching(c, q) == {i \in DOMAIN q : c \in q[i].rest}

(* Broadcasts on their way to client c do not overtake each other.         *)
InTurn(c, q) ==
    \A i, j \in Reaching(c, q) : q[i].event < q[j].event =>
        /\ arrival[q[j].at] <= arrival[q[i].at]
        /\ q[j].at = q[i].at => i < j

Carried(c, q, n) == \E i \in Reaching(c, q) : q[i].event = n

(* From the first event that client c is told of, all of its plan come.    *)
NoGap(c, q, started) ==
    \A n \in DOMAIN log, m \in DOMAIN log :
        /\ n \in Range(received[c]) \/ Carried(c, q, n)
        /\ n < m /\ m <= started /\ log[m] = PlanOf[c]
        => m \in Range(received[c]) \/ Carried(c, q, m)

AllAheadOpen(c) == \A d \in Connections : Ahead(c, d) => state[d] = "open"

AllCome(c, q) == \A i \in Reaching(c, q) : Comes(q[i], c)

Follows(c, q, started) ==
    AllAheadOpen(c) /\ AllCome(c, q) /\ InTurn(c, q) /\ NoGap(c, q, started)

At(started) ==
    /\ Ordered(started) /\ Walking(sending, started) /\ Heard(started)
    /\ \A c \in Connections : Following(c) => Follows(c, sending, started)

RealtimeInv ==
    /\ TypeOK /\ Numbered /\ NobodyIsToldTwice /\ FollowersSeeARun
    /\ \E started \in 0..Len(log) : At(started)

-----------------------------------------------------------------------------
(* Types. *)

LEMMA TypedInit == Init => TypeOK
<1> SUFFICES ASSUME Init PROVE TypeOK
  OBVIOUS
<1>1. /\ log \in Seq(Plans) /\ Len(log) = 0 /\ scheduled \in Seq(DOMAIN log)
      /\ sending \in Seq([event : DOMAIN log, at : Connections, rest : SUBSET Connections])
      /\ \A c \in Connections : received[c] \in Seq(DOMAIN log)
  BY EmptySeq DEF Init
<1>2. /\ state \in [Connections -> States] /\ arrival \in [Connections -> Nat]
      /\ received \in [Connections -> Seq(DOMAIN log)]
  BY <1>1 DEF Init, States
<1>3. /\ loop \in BOOLEAN /\ connections \subseteq Connections /\ disturbed \subseteq Connections
      /\ offset = 0 /\ consumer = "polling" /\ arrivals \in Nat /\ faults \in Nat
  BY <1>1 DEF Init
<1>4. offset \in 0..Len(log)
  BY <1>1, <1>3
<1> QED BY <1>1, <1>2, <1>3, <1>4 DEF TypeOK

(* The topic only grows.                                                   *)
LEMMA Grown ==
    ASSUME TypeOK, NEW p \in Plans, log' = Append(log, p)
    PROVE  /\ log' \in Seq(Plans)
           /\ Len(log') = Len(log) + 1
           /\ DOMAIN log = 1..Len(log) /\ DOMAIN log' = 1..(Len(log) + 1)
           /\ DOMAIN log \subseteq DOMAIN log'
           /\ \A n \in DOMAIN log : log'[n] = log[n]
<1>1. log \in Seq(Plans)
  BY DEF TypeOK
<1>2. DOMAIN log = 1..Len(log) /\ Len(log) \in Nat
  BY <1>1, LenProperties
<1> QED BY <1>1, <1>2, Added

LEMMA TypedPublish ==
    ASSUME TypeOK, NEW p \in Plans, Extend(p),
           UNCHANGED <<offset, consumer, managerVars, taskVars, clientVars, faults>>
    PROVE  TypeOK'
<1>1. log' = Append(log, p)
  BY DEF Extend
<1>2. /\ log' \in Seq(Plans) /\ Len(log') = Len(log) + 1
      /\ DOMAIN log \subseteq DOMAIN log' /\ Len(log) \in Nat
  BY <1>1, Grown, LenProperties DEF TypeOK
<1>3. (scheduled \in Seq(DOMAIN log))'
  BY <1>2, SeqMonotonic DEF TypeOK, taskVars
<1>4. (sending \in Seq([event : DOMAIN log, at : Connections, rest : SUBSET Connections]))'
  <2>1. [event : DOMAIN log, at : Connections, rest : SUBSET Connections]
          \subseteq [event : DOMAIN log', at : Connections, rest : SUBSET Connections]
    BY <1>2
  <2> QED BY <2>1, SeqMonotonic DEF TypeOK, taskVars
<1>5. (received \in [Connections -> Seq(DOMAIN log)])'
  <2>1. Seq(DOMAIN log) \subseteq Seq(DOMAIN log')
    BY <1>2, SeqMonotonic
  <2> QED BY <2>1 DEF TypeOK, taskVars
<1> QED BY <1>2, <1>3, <1>4, <1>5 DEF TypeOK, taskVars, managerVars, clientVars

(* A broadcast that waits or is over leaves the others and the events seen *)
(* well formed.                                                            *)
LEMMA TypedSend ==
    ASSUME TypeOK, NEW n \in DOMAIN log, NEW queue \in SUBSET Connections,
           NEW others \in Seq([event : DOMAIN log, at : Connections, rest : SUBSET Connections]),
           Send(n, queue, others)
    PROVE  /\ sending' \in Seq([event : DOMAIN log, at : Connections, rest : SUBSET Connections])
           /\ received' \in [Connections -> Seq(DOMAIN log)]
<1> DEFINE B == [event : DOMAIN log, at : Connections, rest : SUBSET Connections]
<1>1. PICK c \in queue :
        /\ \/ /\ sending' = Append(others, [event |-> n, at |-> c, rest |-> queue \ {c}])
              /\ received' = IF state[c] = "open"
                             THEN [received EXCEPT ![c] = Append(@, n)] ELSE received
           \/ sending' = others /\ UNCHANGED received
  BY DEF Send
<1>2. [event |-> n, at |-> c, rest |-> queue \ {c}] \in B
  OBVIOUS
<1>3. Append(others, [event |-> n, at |-> c, rest |-> queue \ {c}]) \in Seq(B)
  BY <1>2, Added
<1>4. c \in Connections /\ received \in [Connections -> Seq(DOMAIN log)]
  BY DEF TypeOK
<1>5. Append(received[c], n) \in Seq(DOMAIN log)
  BY <1>4, Added
<1>6. [received EXCEPT ![c] = Append(@, n)] \in [Connections -> Seq(DOMAIN log)]
  BY <1>4, <1>5
<1> QED BY <1>1, <1>3, <1>4, <1>6

LEMMA TypedNext == TypeOK /\ [Next]_vars => TypeOK'
<1> SUFFICES ASSUME TypeOK, [Next]_vars PROVE TypeOK'
  OBVIOUS
<1> DEFINE B == [event : DOMAIN log, at : Connections, rest : SUBSET Connections]
<1>1. /\ log \in Seq(Plans) /\ Len(log) \in Nat /\ DOMAIN log = 1..Len(log)
      /\ sending \in Seq(B) /\ DOMAIN sending = 1..Len(sending)
      /\ scheduled \in Seq(DOMAIN log) /\ received \in [Connections -> Seq(DOMAIN log)]
  BY LenProperties DEF TypeOK
<1>2. ASSUME NEW p \in Plans, Publish(p) PROVE TypeOK'
  BY <1>2, TypedPublish DEF Publish
<1>3. CASE Poll
  <2>1. (scheduled \in Seq(DOMAIN log))'
    <3>1. offset + 1 \in DOMAIN log
      BY <1>1, <1>3 DEF Poll, TypeOK
    <3>2. Append(scheduled, offset + 1) \in Seq(DOMAIN log)
      BY <1>1, <3>1, Added
    <3> QED BY <1>1, <1>3, <3>2 DEF Poll
  <2> QED BY <1>3, <2>1 DEF Poll, TypeOK, managerVars, clientVars
<1>4. CASE Commit
  BY <1>1, <1>4 DEF Commit, TypeOK, managerVars, clientVars, taskVars
<1>5. CASE ConsumerDies
  BY <1>5 DEF ConsumerDies, Fault, TypeOK, managerVars, clientVars, taskVars
<1>6. ASSUME NEW c \in Connections, Connect(c) PROVE TypeOK'
  <2>1. state' \in [Connections -> States] /\ arrival' \in [Connections -> Nat] /\ arrivals' \in Nat
    BY <1>6 DEF Connect, TypeOK, States
  <2> QED BY <1>6, <2>1 DEF Connect, TypeOK, topicVars, taskVars
<1>7. ASSUME NEW c \in Connections, Command(c) PROVE TypeOK'
  <2>1. PlanOf[c] \in Plans
    BY PlanOfAssumption
  <2> QED BY <1>7, <2>1, TypedPublish DEF Command
<1>8. ASSUME NEW c \in Connections, NEW how \in States, NEW kind, Fault(kind), Ends(c, how) PROVE TypeOK'
  <2>1. state' \in [Connections -> States] /\ disturbed' \subseteq Connections
    BY <1>8 DEF Ends, TypeOK, SamePlan
  <2> QED BY <1>8, <2>1 DEF Ends, Fault, TypeOK, topicVars, taskVars, managerVars
<1>9. ASSUME NEW c \in Connections, Break(c) PROVE TypeOK'
  BY <1>8, <1>9 DEF Break, States
<1>10. ASSUME NEW c \in Connections, InvalidCommand(c) PROVE TypeOK'
  BY <1>8, <1>10 DEF InvalidCommand, States
<1>11. ASSUME NEW c \in Connections, Notice(c) PROVE TypeOK'
  <2>1. state' \in [Connections -> States] /\ connections' \subseteq Connections
    BY <1>11 DEF Notice, TypeOK, States
  <2> QED BY <1>11, <2>1 DEF Notice, TypeOK, topicVars, taskVars
<1>12. CASE Start
  <2>1. Head(scheduled) \in DOMAIN log /\ Tail(scheduled) \in Seq(DOMAIN log)
    BY <1>1, <1>12, HeadTailProperties DEF Start
  <2>2. Snapshot(Head(scheduled)) \in SUBSET Connections
    BY DEF Snapshot, SamePlan, TypeOK
  <2>3. sending' \in Seq(B) /\ received' \in [Connections -> Seq(DOMAIN log)]
    BY <1>1, <1>12, <2>1, <2>2, TypedSend DEF Start
  <2> QED BY <1>1, <1>12, <2>1, <2>3 DEF Start, TypeOK, topicVars, managerVars, clientVars
<1>13. ASSUME NEW i \in DOMAIN sending, Continue(i) PROVE TypeOK'
  <2>1. RemoveAt(sending, i) \in Seq(B)
    BY <1>1, Removed
  <2>2. sending[i].event \in DOMAIN log /\ sending[i].rest \in SUBSET Connections
    <3>1. sending[i] \in B
      BY <1>1, ElementOfSeq
    <3> QED BY <3>1
  <2>3. sending' \in Seq(B) /\ received' \in [Connections -> Seq(DOMAIN log)]
    BY <1>1, <1>13, <2>1, <2>2, TypedSend DEF Continue
  <2> QED BY <1>1, <1>13, <2>3 DEF Continue, TypeOK, topicVars, managerVars, clientVars
<1>14. CASE Restart
  <2>1. /\ scheduled' \in Seq(DOMAIN log) /\ sending' \in Seq(B)
    BY <1>14, EmptySeq DEF Restart
  <2>2. state' \in [Connections -> States]
    BY <1>14 DEF Restart, States
  <2>3. /\ connections' \subseteq Connections /\ loop' \in BOOLEAN /\ faults' \in Nat
        /\ consumer' = "polling"
    <3>1. faults \in Nat /\ faults' = faults + 1
      BY <1>14 DEF Restart, Fault, TypeOK
    <3>2. connections' = {} /\ loop' = FALSE /\ consumer' = "polling"
      BY <1>14 DEF Restart
    <3>3. faults' \in Nat
      BY <3>1
    <3> QED BY <3>2, <3>3
  <2>4. UNCHANGED <<log, offset, arrival, arrivals, received, disturbed>>
    BY <1>14 DEF Restart
  <2> HIDE DEF B
  <2>5. /\ offset' \in 0..Len(log') /\ log' \in Seq(Plans)
        /\ arrival' \in [Connections -> Nat] /\ arrivals' \in Nat
        /\ received' \in [Connections -> Seq(DOMAIN log')] /\ disturbed' \subseteq Connections
    <3>1. /\ offset \in 0..Len(log) /\ log \in Seq(Plans)
          /\ arrival \in [Connections -> Nat] /\ arrivals \in Nat
          /\ received \in [Connections -> Seq(DOMAIN log)] /\ disturbed \subseteq Connections
      BY DEF TypeOK
    <3>2. /\ offset' = offset /\ log' = log /\ arrival' = arrival /\ arrivals' = arrivals
          /\ received' = received /\ disturbed' = disturbed
      BY <2>4
    <3> QED BY ONLY <3>1, <3>2
  <2> QED BY <2>1, <2>2, <2>3, <2>4, <2>5 DEF TypeOK, B
<1>15. CASE UNCHANGED vars
  BY <1>15 DEF vars, TypeOK
<1> QED BY <1>2, <1>3, <1>4, <1>5, <1>6, <1>7, <1>9, <1>10, <1>11, <1>12, <1>13, <1>14, <1>15 DEF Next

(* The values of the variables are of their types: a message committed is  *)
(* one of the topic, and broadcasts carry events of it to connections.     *)
THEOREM RealtimeTypeCorrect == Spec => []TypeOK
<1> QED BY TypedInit, TypedNext, PTL DEF Spec

-----------------------------------------------------------------------------
(* One step of a broadcast. *)

Broadcasts == [event : DOMAIN log, at : Connections, rest : SUBSET Connections]

(* Event n is about to be sent along queue, while others wait.             *)
MayBeSent(n, queue, others, started) ==
    /\ n \in DOMAIN log /\ n <= started
    /\ queue \in SUBSET Connections /\ queue # {}
    /\ others \in Seq(Broadcasts)
    /\ Walking(others, started)
    /\ \A i \in DOMAIN others : others[i].event # n
    /\ \A d \in queue : /\ PlanOf[d] = log[n] /\ state[d] # "new"
                        /\ n \notin Range(received[d])

(* Who is sent the event, and what happens to it.                          *)
Sent(n, queue, others, c) ==
    /\ c \in queue /\ c \in Connections
    /\ \A d \in queue : arrival[c] <= arrival[d]
    /\ \/ /\ state[c] \in {"open", "broken"}
          /\ sending' = Append(others, [event |-> n, at |-> c, rest |-> queue \ {c}])
       \/ state[c] # "open" /\ sending' = others
    /\ IF state[c] = "open"
       THEN /\ received' \in [Connections -> Seq(DOMAIN log)]
            /\ received'[c] = Append(received[c], n)
            /\ \A d \in Connections : d # c => received'[d] = received[d]
       ELSE received' = received

Quiet == UNCHANGED <<log, state, connections, arrival, arrivals, disturbed>>

LEMMA SendIsSent ==
    ASSUME TypeOK, NEW n, NEW queue, NEW others, NEW started,
           MayBeSent(n, queue, others, started), Send(n, queue, others)
    PROVE  \E c \in queue : Sent(n, queue, others, c)
<1>1. PICK c \in queue :
        /\ \A d \in queue : arrival[c] <= arrival[d]
        /\ \/ /\ state[c] \in {"open", "broken"}
              /\ sending' = Append(others, [event |-> n, at |-> c, rest |-> queue \ {c}])
              /\ received' = IF state[c] = "open"
                             THEN [received EXCEPT ![c] = Append(@, n)] ELSE received
           \/ /\ state[c] # "open"
              /\ sending' = others
              /\ UNCHANGED received
  BY DEF Send
<1>2. c \in Connections /\ n \in DOMAIN log
  BY DEF MayBeSent
<1>3. received \in [Connections -> Seq(DOMAIN log)]
  BY DEF TypeOK
<1>4. ASSUME state[c] = "open", received' = [received EXCEPT ![c] = Append(@, n)]
      PROVE  /\ received' \in [Connections -> Seq(DOMAIN log)]
             /\ received'[c] = Append(received[c], n)
             /\ \A d \in Connections : d # c => received'[d] = received[d]
  <2>1. Append(received[c], n) \in Seq(DOMAIN log)
    BY <1>2, <1>3, Added
  <2> QED BY <1>2, <1>3, <1>4, <2>1
<1>5. Sent(n, queue, others, c)
  BY <1>1, <1>2, <1>4 DEF Sent
<1> QED BY <1>5

(* Who is not sent the event has heard what it had, and the other has      *)
(* heard this event too.                                                   *)
LEMMA HeardSent ==
    ASSUME TypeOK, NEW n \in DOMAIN log, NEW queue, NEW others, NEW c, Sent(n, queue, others, c),
           NEW d \in Connections
    PROVE  /\ Range(received'[d]) = IF d = c /\ state[c] = "open"
                                    THEN Range(received[d]) \cup {n} ELSE Range(received[d])
           /\ (state[c] # "open" \/ d # c) => received'[d] = received[d]
<1>1. received[d] \in Seq(DOMAIN log)
  BY DEF TypeOK
<1>2. Range(Append(received[d], n)) = Range(received[d]) \cup {n}
  BY <1>1, Added
<1> QED BY <1>1, <1>2 DEF Sent

LEMMA SentKeepsWalking ==
    ASSUME TypeOK, Numbered, NobodyIsToldTwice, Quiet,
           NEW n, NEW queue, NEW others, NEW started \in Nat, NEW c,
           MayBeSent(n, queue, others, started), Sent(n, queue, others, c), Heard(started)
    PROVE  Numbered' /\ NobodyIsToldTwice' /\ Walking(sending, started)' /\ Heard(started)'
<1>1. n \in DOMAIN log /\ n <= started /\ c \in queue /\ c \in Connections /\ queue \subseteq Connections
  BY DEF MayBeSent, Sent
<1>2. /\ log' = log /\ state' = state /\ connections' = connections
      /\ arrival' = arrival /\ arrivals' = arrivals
  BY DEF Quiet
<1>3. \A d \in Connections :
        /\ Range(received'[d]) = IF d = c /\ state[c] = "open"
                                 THEN Range(received[d]) \cup {n} ELSE Range(received[d])
        /\ (state[c] # "open" \/ d # c) => received'[d] = received[d]
  BY <1>1, HeardSent
<1>4. Numbered'
  BY <1>1, <1>2, <1>3 DEF Numbered, MayBeSent
<1>5. NobodyIsToldTwice'
  <2> SUFFICES ASSUME NEW d \in Connections
               PROVE  /\ IsInjective(received'[d])
                      /\ \A m \in Range(received'[d]) : log'[m] = PlanOf[d]
    BY DEF NobodyIsToldTwice
  <2>1. IsInjective(received[d]) /\ \A m \in Range(received[d]) : log[m] = PlanOf[d]
    BY DEF NobodyIsToldTwice
  <2>2. CASE state[c] # "open" \/ d # c
    BY <1>2, <1>3, <2>1, <2>2
  <2>3. CASE state[c] = "open" /\ d = c
    <3>1. received'[d] = Append(received[d], n) /\ received[d] \in Seq(DOMAIN log)
      BY <2>3 DEF Sent, TypeOK
    <3>2. n \notin Range(received[d]) /\ log[n] = PlanOf[d]
      BY <1>1, <2>3 DEF MayBeSent
    <3>3. /\ Len(received[d]) \in Nat /\ DOMAIN received[d] = 1..Len(received[d])
          /\ DOMAIN received'[d] = 1..(Len(received[d]) + 1)
          /\ \A i \in 1..Len(received[d]) : received'[d][i] = received[d][i]
          /\ received'[d][Len(received[d]) + 1] = n
      BY <1>1, <3>1, Added, LenProperties
    <3>4. \A i \in 1..Len(received[d]) : received[d][i] \in Range(received[d])
      BY <3>3 DEF Range
    <3>5. ASSUME NEW i \in DOMAIN received'[d], NEW j \in DOMAIN received'[d],
                 received'[d][i] = received'[d][j]
          PROVE  i = j
      <4>1. i \in 1..Len(received[d]) \/ i = Len(received[d]) + 1
        BY <3>3
      <4>2. j \in 1..Len(received[d]) \/ j = Len(received[d]) + 1
        BY <3>3
      <4> QED BY <2>1, <3>2, <3>3, <3>4, <3>5, <4>1, <4>2 DEF IsInjective
    <3>6. IsInjective(received'[d])
      BY <3>5 DEF IsInjective
    <3> QED BY <1>2, <1>3, <2>1, <2>3, <3>2, <3>6
  <2> QED BY <2>2, <2>3
<1>6. Heard(started)'
  <2> SUFFICES ASSUME NEW d \in connections, NEW m \in Range(received'[d])
               PROVE  m <= started
    BY <1>2 DEF Heard
  <2>1. d \in Connections
    BY DEF TypeOK
  <2> QED BY <1>1, <1>3, <2>1 DEF Heard
<1>7. /\ DOMAIN others = 1..Len(others) /\ Len(others) \in Nat
      /\ \A i \in DOMAIN others : others[i] \in Broadcasts
  BY LenProperties, ElementOfSeq DEF MayBeSent
<1>8. ASSUME NEW i \in DOMAIN others
      PROVE  /\ others[i].event <= started /\ PlanOf[others[i].at] = log'[others[i].event]
             /\ state'[others[i].at] # "new"
             /\ Walks(others[i])' /\ others[i].event # n
  <2>1. others[i].event # n /\ Walks(others[i])
    BY DEF MayBeSent, Walking
  <2>2. others[i].rest \subseteq Connections
    BY <1>7 DEF Broadcasts
  <2>3. Walks(others[i])'
    BY <1>2, <1>3, <2>1, <2>2 DEF Walks
  <2> QED BY <1>2, <2>1, <2>3 DEF MayBeSent, Walking
<1>9. ASSUME NEW b, b = [event |-> n, at |-> c, rest |-> queue \ {c}]
      PROVE  /\ b \in Broadcasts /\ b.event = n /\ PlanOf[b.at] = log'[n]
             /\ state'[b.at] # "new" /\ Walks(b)'
  <2>1. b \in Broadcasts /\ b.event = n /\ b.at = c /\ b.rest = queue \ {c}
    BY <1>1, <1>9 DEF Broadcasts
  <2>2. \A d \in queue : /\ PlanOf[d] = log[n] /\ state[d] # "new"
                         /\ n \notin Range(received[d])
    BY DEF MayBeSent
  <2>3. ASSUME NEW d \in queue \ {c}
        PROVE  /\ PlanOf[d] = log'[n] /\ state'[d] # "new"
               /\ n \notin Range(received'[d]) /\ arrival'[c] < arrival'[d]
    <3>1. arrival[c] <= arrival[d] /\ state[c] # "new" /\ state[d] # "new"
      BY <1>1, <2>2 DEF Sent
    <3>2. arrival[c] # arrival[d]
      BY <1>1, <3>1 DEF Numbered
    <3>3. arrival[c] \in Nat /\ arrival[d] \in Nat
      BY <1>1 DEF TypeOK
    <3>4. arrival[c] < arrival[d]
      BY <3>1, <3>2, <3>3
    <3>5. d \in Connections /\ d \in queue /\ d # c
      BY <1>1
    <3>6. Range(received'[d]) = Range(received[d])
      BY <1>3, <3>5
    <3> QED BY <1>2, <2>2, <3>4, <3>5, <3>6
  <2>4. Walks(b)'
    BY <2>1, <2>3 DEF Walks
  <2> QED BY <1>1, <1>2, <2>1, <2>2, <2>4
<1>10. Walking(sending, started)'
  <2>1. CASE sending' = others
    BY <1>8, <2>1 DEF Walking, MayBeSent
  <2>2. CASE sending' = Append(others, [event |-> n, at |-> c, rest |-> queue \ {c}])
    <3> DEFINE b == [event |-> n, at |-> c, rest |-> queue \ {c}]
    <3>1. /\ b \in Broadcasts /\ b.event = n /\ PlanOf[b.at] = log'[n]
          /\ state'[b.at] # "new" /\ Walks(b)'
      BY <1>9
    <3> HIDE DEF b
    <3>2. /\ DOMAIN sending' = 1..(Len(others) + 1)
          /\ \A i \in 1..Len(others) : sending'[i] = others[i]
          /\ sending'[Len(others) + 1] = b
      BY <2>2, <3>1, Added DEF b, MayBeSent
    <3>3. ASSUME NEW i \in DOMAIN sending'
          PROVE  /\ sending'[i].event <= started
                 /\ PlanOf[sending'[i].at] = log'[sending'[i].event]
                 /\ state'[sending'[i].at] # "new"
                 /\ Walks(sending[i])'
      <4>1. CASE i \in DOMAIN others
        <5>1. sending'[i] = others[i]
          BY <1>7, <3>2, <4>1
        <5> QED BY <1>8, <4>1, <5>1 DEF Walks
      <4>2. CASE i = Len(others) + 1
        <5>1. sending'[i] = b
          BY <3>2, <4>2
        <5> QED BY <1>1, <3>1, <5>1 DEF Walks
      <4> QED BY <1>7, <3>2, <4>1, <4>2
    <3>4. ASSUME NEW i \in DOMAIN sending', NEW j \in DOMAIN sending',
                 sending'[i].event = sending'[j].event
          PROVE  i = j
      <4>1. i \in DOMAIN others \/ i = Len(others) + 1
        BY <1>7, <3>2
      <4>2. j \in DOMAIN others \/ j = Len(others) + 1
        BY <1>7, <3>2
      <4>3. \A k \in DOMAIN others : sending'[k].event = others[k].event /\ others[k].event # n
        BY <1>7, <1>8, <3>2
      <4>4. sending'[Len(others) + 1].event = n
        BY <3>1, <3>2
      <4>5. \A k, l \in DOMAIN others : others[k].event = others[l].event => k = l
        BY DEF MayBeSent, Walking
      <4> QED BY <3>4, <4>1, <4>2, <4>3, <4>4, <4>5
    <3> QED BY <3>3, <3>4 DEF Walking
  <2> QED BY <2>1, <2>2 DEF Sent
<1> QED BY <1>4, <1>5, <1>6, <1>10

(* What client e has heard or will hear, with the event about to be sent.  *)
Told(e, n, queue, others, m) ==
    m \in Range(received[e]) \/ Carried(e, others, m) \/ (e \in queue /\ m = n)

(* Sending the event along queue overtakes nothing on its way to client e. *)
MayFollow(e, n, queue, others, started) ==
    /\ AllAheadOpen(e) /\ AllCome(e, others) /\ InTurn(e, others)
    /\ e \in queue =>
          /\ \A d \in queue : arrival[d] < arrival[e] => d \in connections
          /\ \A d \in Connections : Ahead(e, d) =>
                d \in queue \/ \A x \in queue : arrival[d] < arrival[x]
          /\ \A m \in Range(received[e]) : m < n
          /\ \A i \in Reaching(e, others) :
                /\ others[i].event < n => others[i].at \in queue
                /\ n < others[i].event => \A x \in queue : arrival[others[i].at] < arrival[x]
    /\ \A k \in DOMAIN log, m \in DOMAIN log :
          Told(e, n, queue, others, k) /\ k < m /\ m <= started /\ log[m] = PlanOf[e]
          => Told(e, n, queue, others, m)

(* The event is sent to the client itself.                                 *)
LEMMA SentToFollower ==
    ASSUME TypeOK, Quiet, NEW n, NEW queue, NEW others, NEW started \in Nat, NEW e \in Connections,
           MayBeSent(n, queue, others, started), Sent(n, queue, others, e),
           state[e] = "open", MayFollow(e, n, queue, others, started), InOrder(e)
    PROVE  Follows(e, sending, started)' /\ InOrder(e)'
<1> DEFINE b == [event |-> n, at |-> e, rest |-> queue \ {e}]
<1>1. n \in DOMAIN log /\ n <= started /\ e \in queue /\ queue \subseteq Connections
  BY DEF MayBeSent, Sent
<1>2. /\ log' = log /\ state' = state /\ connections' = connections /\ arrival' = arrival
  BY DEF Quiet
<1>3. /\ received'[e] = Append(received[e], n) /\ received[e] \in Seq(DOMAIN log)
      /\ Range(received'[e]) = Range(received[e]) \cup {n}
  <2>1. received'[e] = Append(received[e], n) /\ received[e] \in Seq(DOMAIN log)
    BY DEF Sent, TypeOK
  <2> QED BY <1>1, <2>1, Added
<1>4. b \in Broadcasts /\ b.rest = queue \ {e} /\ sending' = Append(others, b)
  BY <1>1 DEF Broadcasts, Sent
<1>5. /\ DOMAIN others = 1..Len(others) /\ Len(others) \in Nat
      /\ \A i \in DOMAIN others : others[i] \in Broadcasts /\ others[i].event # n
  BY LenProperties, ElementOfSeq DEF MayBeSent
<1> HIDE DEF b
<1>6. /\ DOMAIN sending' = 1..(Len(others) + 1)
      /\ \A i \in 1..Len(others) : sending'[i] = others[i]
      /\ sending'[Len(others) + 1] = b
  BY <1>4, Added DEF MayBeSent
<1>7. \A i : i \in Reaching(e, sending)' <=> i \in Reaching(e, others)
  BY <1>4, <1>5, <1>6 DEF Reaching
<1>8. \A i \in Reaching(e, others) : i \in DOMAIN others /\ sending'[i] = others[i]
  BY <1>5, <1>6 DEF Reaching
<1>9. log \in Seq(Plans) /\ DOMAIN log = 1..Len(log) /\ Len(log) \in Nat /\ n \in Nat
  BY <1>1, LenProperties DEF TypeOK
<1>10. \A i \in Reaching(e, others) : n < others[i].event /\ others[i].event \in Nat
  <2> SUFFICES ASSUME NEW i \in Reaching(e, others) PROVE n < others[i].event /\ others[i].event \in Nat
    OBVIOUS
  <2>1. others[i].event \in DOMAIN log /\ others[i].event # n /\ others[i].at \in Connections
    BY <1>5, <1>8 DEF Broadcasts
  <2>2. Ahead(e, others[i].at)
    BY DEF MayFollow, AllCome, Comes
  <2>3. ~(others[i].event < n)
    <3>1. SUFFICES ASSUME others[i].event < n PROVE FALSE
      OBVIOUS
    <3>2. others[i].at \in queue
      BY <1>1, <3>1 DEF MayFollow
    <3>3. arrival[e] <= arrival[others[i].at] /\ arrival[others[i].at] < arrival[e]
      BY <2>2, <3>2 DEF Sent, Ahead
    <3>4. arrival[e] \in Nat /\ arrival[others[i].at] \in Nat
      BY <2>1 DEF TypeOK
    <3> QED BY <3>3, <3>4
  <2> QED BY <1>9, <2>1, <2>3
<1>11. AllAheadOpen(e)'
  BY <1>2 DEF MayFollow, AllAheadOpen, Ahead
<1>12. AllCome(e, sending)'
  <2> SUFFICES ASSUME NEW i \in Reaching(e, others) PROVE Comes(others[i], e)'
    BY <1>7, <1>8 DEF AllCome, Comes
  <2>1. Comes(others[i], e)
    BY DEF MayFollow, AllCome
  <2>2. \A m \in Range(received'[e]) : m < others[i].event
    BY <1>3, <1>10, <2>1 DEF Comes
  <2> QED BY <1>2, <2>1, <2>2 DEF Comes, Ahead
<1>13. InTurn(e, sending)'
  <2>1. InTurn(e, others)
    BY DEF MayFollow
  <2> QED BY <1>2, <1>7, <1>8, <2>1 DEF InTurn
<1>14. \A m : Carried(e, sending, m)' <=> Carried(e, others, m)
  BY <1>7, <1>8 DEF Carried
<1>15. \A m : Told(e, n, queue, others, m) <=> m \in Range(received'[e]) \/ Carried(e, sending, m)'
  BY <1>1, <1>3, <1>14 DEF Told
<1>16. NoGap(e, sending, started)'
  <2> SUFFICES ASSUME NEW k \in DOMAIN log, NEW m \in DOMAIN log,
                      Told(e, n, queue, others, k), k < m, m <= started, log[m] = PlanOf[e]
               PROVE  Told(e, n, queue, others, m)
    BY <1>2, <1>15 DEF NoGap
  <2> QED BY DEF MayFollow
<1>17. InOrder(e)'
  <2> DEFINE seen == received[e]
             more == received'[e]
  <2>1. /\ DOMAIN seen = 1..Len(seen) /\ Len(seen) \in Nat /\ DOMAIN more = 1..(Len(seen) + 1)
        /\ \A i \in 1..Len(seen) : more[i] = seen[i] /\ seen[i] \in Range(seen) /\ seen[i] \in DOMAIN log
        /\ more[Len(seen) + 1] = n
    <3>1. /\ DOMAIN seen = 1..Len(seen) /\ Len(seen) \in Nat
          /\ \A i \in 1..Len(seen) : seen[i] \in DOMAIN log
      BY <1>3, LenProperties, ElementOfSeq
    <3>2. \A i \in 1..Len(seen) : seen[i] \in Range(seen)
      BY <3>1 DEF Range
    <3> QED BY <1>1, <1>3, <3>1, <3>2, Added
  <2>2. \A m \in Range(seen) : m < n
    BY <1>1 DEF MayFollow
  <2>3. ASSUME NEW i \in DOMAIN more, NEW j \in DOMAIN more, i < j
        PROVE  more[i] < more[j]
    <3>1. i \in DOMAIN seen
      BY <2>1, <2>3
    <3>2. CASE j \in DOMAIN seen
      BY <2>1, <2>3, <3>1, <3>2 DEF InOrder
    <3>3. CASE j = Len(seen) + 1
      BY <2>1, <2>2, <3>1, <3>3
    <3> QED BY <2>1, <3>2, <3>3
  <2>4. ASSUME NEW i \in DOMAIN more, NEW j \in DOMAIN more, NEW m \in DOMAIN log,
               more[i] < m, m < more[j], log[m] = PlanOf[e]
        PROVE  m \in Range(more)
    <3>1. more[i] \in Nat /\ more[j] \in Nat /\ more[j] <= n /\ m \in Nat
      <4>1. \A h \in DOMAIN more : more[h] \in DOMAIN log /\ more[h] <= n
        <5>1. ASSUME NEW h \in 1..Len(seen) PROVE more[h] \in DOMAIN log /\ more[h] <= n
          <6>1. more[h] \in DOMAIN log /\ more[h] < n
            BY <2>1, <2>2
          <6> QED BY <1>9, <6>1
        <5>2. more[Len(seen) + 1] \in DOMAIN log /\ more[Len(seen) + 1] <= n
          BY <1>1, <1>9, <2>1
        <5>3. \A h \in DOMAIN more : h \in 1..Len(seen) \/ h = Len(seen) + 1
          BY <2>1
        <5> HIDE DEF more, seen
        <5> QED BY <5>1, <5>2, <5>3
      <4> QED BY <1>9, <4>1
    <3>2. i \in DOMAIN seen
      <4>1. more[i] # n
        BY <1>9, <2>4, <3>1
      <4>2. i # Len(seen) + 1
        BY <2>1, <4>1
      <4> QED BY <2>1, <4>2
    <3>3. Told(e, n, queue, others, more[i]) /\ more[i] \in DOMAIN log
      BY <2>1, <3>2 DEF Told
    <3>4. m <= started
      BY <1>1, <1>9, <2>4, <3>1
    <3>5. Told(e, n, queue, others, m)
      BY <2>4, <3>3, <3>4 DEF MayFollow
    <3>6. ~Carried(e, others, m)
      BY <1>9, <1>10, <2>4, <3>1 DEF Carried
    <3> QED BY <1>3, <3>5, <3>6 DEF Told
  <2> QED BY <1>2, <2>3, <2>4 DEF InOrder
<1> QED BY <1>11, <1>12, <1>13, <1>16, <1>17 DEF Follows

(* The event goes along queue without client e, or is over.                *)
LEMMA SentElsewhere ==
    ASSUME TypeOK, Quiet, NEW n, NEW queue, NEW others, NEW started \in Nat, NEW c,
           NEW e \in Connections, e \notin queue,
           MayBeSent(n, queue, others, started), Sent(n, queue, others, c),
           MayFollow(e, n, queue, others, started), InOrder(e)
    PROVE  Follows(e, sending, started)' /\ InOrder(e)'
<1> DEFINE b == [event |-> n, at |-> c, rest |-> queue \ {c}]
<1>1. n \in DOMAIN log /\ c \in queue /\ queue \subseteq Connections /\ c # e
  BY DEF MayBeSent, Sent
<1>2. /\ log' = log /\ state' = state /\ connections' = connections /\ arrival' = arrival
  BY DEF Quiet
<1>3. received'[e] = received[e]
  BY <1>1 DEF Sent
<1>4. b \in Broadcasts /\ b.rest = queue \ {c} /\ (sending' = Append(others, b) \/ sending' = others)
  BY <1>1 DEF Broadcasts, Sent
<1>5. others \in Seq(Broadcasts) /\ DOMAIN others = 1..Len(others) /\ Len(others) \in Nat
  BY LenProperties DEF MayBeSent
<1> HIDE DEF b
<1>6. \A i \in Reaching(e, others) : i \in DOMAIN others
  BY DEF Reaching
<1>7. /\ \A i : i \in Reaching(e, sending)' <=> i \in Reaching(e, others)
      /\ \A i \in Reaching(e, others) : sending'[i] = others[i]
  <2>1. CASE sending' = others
    BY <2>1 DEF Reaching
  <2>2. CASE sending' = Append(others, b)
    <3>1. /\ DOMAIN sending' = 1..(Len(others) + 1)
          /\ \A i \in 1..Len(others) : sending'[i] = others[i]
          /\ sending'[Len(others) + 1] = b
      BY <1>4, <1>5, <2>2, Added
    <3> QED BY <1>4, <1>5, <1>6, <3>1 DEF Reaching
  <2> QED BY <1>4, <2>1, <2>2
<1>8. \A m : Told(e, n, queue, others, m) <=> m \in Range(received'[e]) \/ Carried(e, sending, m)'
  BY <1>3, <1>7 DEF Told, Carried
<1>9. AllAheadOpen(e)'
  BY <1>2 DEF MayFollow, AllAheadOpen, Ahead
<1>10. AllCome(e, sending)'
  <2> SUFFICES ASSUME NEW i \in Reaching(e, others) PROVE Comes(others[i], e)'
    BY <1>7 DEF AllCome, Comes
  <2>1. Comes(others[i], e)
    BY DEF MayFollow, AllCome
  <2> QED BY <1>2, <1>3, <2>1 DEF Comes, Ahead
<1>11. InTurn(e, sending)'
  <2>1. InTurn(e, others)
    BY DEF MayFollow
  <2> QED BY <1>2, <1>7, <2>1 DEF InTurn
<1>12. NoGap(e, sending, started)'
  <2> SUFFICES ASSUME NEW k \in DOMAIN log, NEW m \in DOMAIN log,
                      Told(e, n, queue, others, k), k < m, m <= started, log[m] = PlanOf[e]
               PROVE  Told(e, n, queue, others, m)
    BY <1>2, <1>8 DEF NoGap
  <2> QED BY DEF MayFollow
<1>13. InOrder(e)'
  BY <1>2, <1>3 DEF InOrder
<1> QED BY <1>9, <1>10, <1>11, <1>12, <1>13 DEF Follows

(* The event is sent to a client before e, and comes to e later.           *)
LEMMA SentAhead ==
    ASSUME TypeOK, Numbered, Quiet, NEW n, NEW queue, NEW others, NEW started \in Nat,
           NEW c, NEW e \in queue, e # c,
           MayBeSent(n, queue, others, started), Sent(n, queue, others, c),
           MayFollow(e, n, queue, others, started), InOrder(e)
    PROVE  Follows(e, sending, started)' /\ InOrder(e)'
<1> DEFINE b == [event |-> n, at |-> c, rest |-> queue \ {c}]
<1>1. n \in DOMAIN log /\ c \in queue /\ queue \subseteq Connections /\ c # e /\ e \in Connections
  BY DEF MayBeSent, Sent
<1>2. /\ log' = log /\ state' = state /\ connections' = connections /\ arrival' = arrival
  BY DEF Quiet
<1>3. received'[e] = received[e]
  BY <1>1 DEF Sent
<1>4. Ahead(e, c) /\ state[c] = "open"
  <2>1. arrival[c] <= arrival[e] /\ arrival[c] \in Nat /\ arrival[e] \in Nat
    BY <1>1 DEF Sent, TypeOK
  <2>2. /\ state[c] # "new" /\ state[e] # "new"
        /\ PlanOf[c] = PlanOf[e]
    BY <1>1 DEF MayBeSent
  <2>3. arrival[c] < arrival[e]
    BY <1>1, <2>1, <2>2 DEF Numbered
  <2>4. Ahead(e, c)
    BY <1>1, <2>2, <2>3 DEF MayFollow, Ahead
  <2> QED BY <1>1, <2>4 DEF MayFollow, AllAheadOpen
<1>5. /\ b \in Broadcasts /\ b.rest = queue \ {c} /\ b.event = n /\ b.at = c
      /\ sending' = Append(others, b)
  BY <1>1, <1>4 DEF Broadcasts, Sent
<1>6. /\ others \in Seq(Broadcasts) /\ DOMAIN others = 1..Len(others) /\ Len(others) \in Nat
      /\ \A i \in DOMAIN others : others[i] \in Broadcasts
  BY LenProperties, ElementOfSeq DEF MayBeSent
<1> DEFINE last == Len(others) + 1
<1> HIDE DEF b
<1>7. /\ DOMAIN sending' = 1..last
      /\ \A i \in 1..Len(others) : sending'[i] = others[i]
      /\ sending'[last] = b
  BY <1>5, <1>6, Added
<1>8. /\ \A i : i \in Reaching(e, sending)' <=> i \in Reaching(e, others) \/ i = last
      /\ \A i \in Reaching(e, others) : i \in DOMAIN others /\ i < last /\ sending'[i] = others[i]
  BY <1>1, <1>5, <1>6, <1>7 DEF Reaching
<1>9. \A m : Told(e, n, queue, others, m) <=> m \in Range(received'[e]) \/ Carried(e, sending, m)'
  <2>1. \A m : Carried(e, sending, m)' <=> Carried(e, others, m) \/ m = n
    BY <1>5, <1>7, <1>8 DEF Carried
  <2> QED BY <1>1, <1>3, <2>1 DEF Told
<1>10. AllAheadOpen(e)'
  BY <1>2 DEF MayFollow, AllAheadOpen, Ahead
<1>11. AllCome(e, sending)'
  <2>1. ASSUME NEW i \in Reaching(e, others) PROVE Comes(others[i], e)'
    <3>1. Comes(others[i], e)
      BY DEF MayFollow, AllCome
    <3> QED BY <1>2, <1>3, <3>1 DEF Comes, Ahead
  <2>2. Comes(b, e)'
    <3>1. \A d \in b.rest : arrival[d] < arrival[e] => d \in connections
      BY <1>1, <1>5 DEF MayFollow
    <3>2. ASSUME NEW d \in Connections, Ahead(e, d), arrival[c] < arrival[d]
          PROVE  d \in b.rest
      <4>1. arrival[c] \in Nat /\ arrival[d] \in Nat
        BY <1>1 DEF TypeOK
      <4>2. d # c /\ ~(arrival[d] < arrival[c])
        BY <3>2, <4>1
      <4> QED BY <1>1, <1>5, <3>2, <4>2 DEF MayFollow
    <3>3. \A m \in Range(received[e]) : m < n
      BY DEF MayFollow
    <3> QED BY <1>2, <1>3, <1>4, <1>5, <3>1, <3>2, <3>3 DEF Comes, Ahead
  <2> QED BY <1>7, <1>8, <2>1, <2>2 DEF AllCome, Comes
<1>12. InTurn(e, sending)'
  <2> SUFFICES ASSUME NEW i \in Reaching(e, sending)', NEW j \in Reaching(e, sending)',
                      sending'[i].event < sending'[j].event
               PROVE  /\ arrival[sending'[j].at] <= arrival[sending'[i].at]
                      /\ sending'[j].at = sending'[i].at => i < j
    BY <1>2 DEF InTurn
  <2>1. \A k \in Reaching(e, others) :
          /\ others[k].event < n => arrival[c] <= arrival[others[k].at]
          /\ n < others[k].event => arrival[others[k].at] < arrival[c]
    BY <1>1 DEF MayFollow, Sent
  <2>2. CASE i \in Reaching(e, others) /\ j \in Reaching(e, others)
    <3>1. InTurn(e, others)
      BY DEF MayFollow
    <3> QED BY <1>8, <2>2, <3>1 DEF InTurn
  <2>3. CASE i \in Reaching(e, others) /\ j = last
    BY <1>5, <1>7, <1>8, <2>1, <2>3
  <2>4. CASE i = last /\ j \in Reaching(e, others)
    <3>1. others[j].at \in Connections
      BY <1>6, <1>8, <2>4 DEF Broadcasts
    <3>2. arrival[others[j].at] \in Nat /\ arrival[c] \in Nat
      BY <1>1, <3>1 DEF TypeOK
    <3>3. n < others[j].event
      BY <1>5, <1>7, <1>8, <2>4
    <3>4. arrival[others[j].at] < arrival[c]
      BY <2>1, <2>4, <3>3
    <3>5. others[j].at # c /\ arrival[others[j].at] <= arrival[c]
      BY <3>2, <3>4
    <3> QED BY <1>5, <1>7, <1>8, <2>4, <3>5
  <2>5. CASE i = last /\ j = last
    <3>1. n < n /\ n \in Nat
      BY <1>1, <1>5, <1>7, <2>5, LenProperties DEF TypeOK
    <3> QED BY <3>1
  <2> QED BY <1>8, <2>2, <2>3, <2>4, <2>5
<1>13. NoGap(e, sending, started)'
  <2> SUFFICES ASSUME NEW k \in DOMAIN log, NEW m \in DOMAIN log,
                      Told(e, n, queue, others, k), k < m, m <= started, log[m] = PlanOf[e]
               PROVE  Told(e, n, queue, others, m)
    BY <1>2, <1>9 DEF NoGap
  <2> QED BY DEF MayFollow
<1>14. InOrder(e)'
  BY <1>2, <1>3 DEF InOrder
<1> QED BY <1>10, <1>11, <1>12, <1>13, <1>14 DEF Follows

(* The steps of a broadcast keep everything that follows them in order.    *)
LEMMA SendKeeps ==
    ASSUME TypeOK, Numbered, NobodyIsToldTwice, FollowersSeeARun, Quiet,
           NEW n, NEW queue, NEW others, NEW started \in Nat,
           MayBeSent(n, queue, others, started), Send(n, queue, others), Heard(started),
           \A e \in Connections : Following(e) => MayFollow(e, n, queue, others, started),
           Ordered(started)'
    PROVE  /\ Numbered' /\ NobodyIsToldTwice' /\ FollowersSeeARun'
           /\ At(started)'
<1>1. PICK c \in queue : Sent(n, queue, others, c)
  BY SendIsSent
<1>2. Numbered' /\ NobodyIsToldTwice' /\ Walking(sending, started)' /\ Heard(started)'
  BY <1>1, SentKeepsWalking
<1>3. log' = log /\ state' = state /\ disturbed' = disturbed
  BY DEF Quiet
<1>4. ASSUME NEW e \in Connections \ disturbed
      PROVE  /\ InOrder(e)'
             /\ Following(e) => Follows(e, sending, started)'
  <2>1. InOrder(e)
    BY DEF FollowersSeeARun
  <2>2. CASE state[e] = "open"
    <3>1. Following(e) /\ MayFollow(e, n, queue, others, started)
      BY <2>2 DEF Following
    <3>2. CASE e = c
      BY <1>1, <2>1, <2>2, <3>1, <3>2, SentToFollower
    <3>3. CASE e # c /\ e \in queue
      BY <1>1, <2>1, <3>1, <3>3, SentAhead
    <3>4. CASE e \notin queue
      BY <1>1, <2>1, <3>1, <3>4, SentElsewhere
    <3> QED BY <3>2, <3>3, <3>4
  <2>3. CASE state[e] # "open"
    <3>1. received'[e] = received[e]
      BY <1>1, <2>3 DEF Sent
    <3> QED BY <1>3, <2>1, <2>3, <3>1 DEF InOrder, Following
  <2> QED BY <2>2, <2>3
<1>5. FollowersSeeARun'
  BY <1>3, <1>4 DEF FollowersSeeARun
<1>6. \A e \in Connections : (Following(e) => Follows(e, sending, started))'
  BY <1>3, <1>4 DEF Following
<1> QED BY <1>2, <1>5, <1>6 DEF At

(* Nothing is sent: a broadcast is over.                                   *)
LEMMA OverKeeps ==
    ASSUME TypeOK, Numbered, NobodyIsToldTwice, FollowersSeeARun, Quiet,
           NEW others, NEW started \in Nat, sending' = others, received' = received,
           Walking(others, started), Heard(started),
           \A e \in Connections : Following(e) => Follows(e, others, started),
           Ordered(started)'
    PROVE  /\ Numbered' /\ NobodyIsToldTwice' /\ FollowersSeeARun'
           /\ At(started)'
<1>1. /\ log' = log /\ state' = state /\ disturbed' = disturbed /\ connections' = connections
      /\ arrival' = arrival /\ arrivals' = arrivals
  BY DEF Quiet
<1>2. Numbered' /\ NobodyIsToldTwice' /\ FollowersSeeARun' /\ Heard(started)'
  BY <1>1 DEF Numbered, NobodyIsToldTwice, FollowersSeeARun, InOrder, Heard
<1>3. Walking(sending, started)'
  BY <1>1 DEF Walking, Walks
<1>4. ASSUME NEW e \in Connections, Following(e)'
      PROVE  Follows(e, sending, started)'
  <2>1. Follows(e, others, started)
    BY <1>1, <1>4 DEF Following
  <2>2. AllAheadOpen(e)' /\ AllCome(e, sending)'
    BY <1>1, <2>1 DEF Follows, AllAheadOpen, AllCome, Comes, Reaching, Ahead
  <2>3. InTurn(e, sending)' /\ NoGap(e, sending, started)'
    BY <1>1, <2>1 DEF Follows, InTurn, NoGap, Carried, Reaching
  <2> QED BY <2>2, <2>3 DEF Follows
<1> QED BY <1>2, <1>3, <1>4 DEF At

LEMMA KeptByStart ==
    ASSUME TypeOK, Numbered, NobodyIsToldTwice, FollowersSeeARun,
           NEW started \in 0..Len(log), At(started), Start
    PROVE  Numbered' /\ NobodyIsToldTwice' /\ FollowersSeeARun'
           /\ \E s \in 0..Len(log') : At(s)'
<1> DEFINE n == started + 1
<1>1. /\ scheduled \in Seq(DOMAIN log) /\ scheduled # <<>> /\ scheduled' = Tail(scheduled)
      /\ log \in Seq(Plans) /\ DOMAIN log = 1..Len(log) /\ Len(log) \in Nat
      /\ sending \in Seq(Broadcasts)
      /\ \A i \in DOMAIN sending : sending[i] \in Broadcasts
  <2>1. sending \in Seq(Broadcasts) /\ log \in Seq(Plans)
    BY DEF TypeOK, Broadcasts
  <2>2. /\ DOMAIN log = 1..Len(log) /\ Len(log) \in Nat
        /\ \A i \in DOMAIN sending : sending[i] \in Broadcasts
    BY <2>1, LenProperties, ElementOfSeq
  <2> QED BY <2>1, <2>2 DEF Start, TypeOK
<1>2. /\ DOMAIN scheduled = 1..Len(scheduled) /\ Len(scheduled) \in Nat /\ Len(scheduled) >= 1
      /\ Head(scheduled) = scheduled[1]
      /\ Tail(scheduled) \in Seq(DOMAIN log) /\ Len(Tail(scheduled)) = Len(scheduled) - 1
      /\ \A i \in 1..(Len(scheduled) - 1) : Tail(scheduled)[i] = scheduled[i + 1]
  BY <1>1, HeadTailProperties, LenProperties, EmptySeq
<1>3. Head(scheduled) = n /\ n \in DOMAIN log
  BY <1>1, <1>2 DEF At, Ordered
<1>4. /\ Quiet /\ UNCHANGED <<offset, consumer, loop>>
  BY DEF Start, Quiet, topicVars, managerVars, clientVars
<1>5. Ordered(n)'
  <2>1. DOMAIN scheduled' = 1..(Len(scheduled) - 1) /\ Len(scheduled') = Len(scheduled) - 1
    BY <1>1, <1>2, LenProperties
  <2>2. \A i \in DOMAIN scheduled' : scheduled'[i] = n + i
    <3>1. SUFFICES ASSUME NEW i \in 1..(Len(scheduled) - 1) PROVE scheduled'[i] = n + i
      BY <2>1
    <3>2. i + 1 \in DOMAIN scheduled /\ scheduled'[i] = scheduled[i + 1]
      BY <1>1, <1>2
    <3> QED BY <3>2 DEF At, Ordered
  <2>3. n + Len(scheduled') = started + Len(scheduled) /\ n \in Nat
    BY <1>2, <2>1
  <2>4. loop
    BY <1>1 DEF At, Ordered
  <2> QED BY <1>4, <2>2, <2>3, <2>4 DEF At, Ordered, Quiet
<1>6. connections = {c \in Connections : state[c] \in {"open", "broken", "dead"}}
  BY DEF At, Ordered
<1>7. Heard(n)
  <2> SUFFICES ASSUME NEW c \in connections, NEW m \in Range(received[c]) PROVE m <= n
    BY DEF Heard
  <2>1. m <= started
    BY DEF At, Heard
  <2>2. c \in Connections /\ received[c] \in Seq(DOMAIN log)
    BY DEF TypeOK
  <2>3. m \in DOMAIN log
    BY <2>2, RangeOfSeq DEF Range
  <2> QED BY <1>1, <2>1, <2>3
<1>8. Walking(sending, n)
  <2>1. \A i \in DOMAIN sending : sending[i].event <= started /\ sending[i].event \in Nat
    BY <1>1 DEF At, Walking, Broadcasts
  <2>2. \A i \in DOMAIN sending : sending[i].event <= n
    BY <2>1
  <2> QED BY <2>2 DEF At, Walking
<1>9. \A i \in DOMAIN sending : sending[i].event < n
  <2> SUFFICES ASSUME NEW i \in DOMAIN sending PROVE sending[i].event < n
    OBVIOUS
  <2>1. sending[i].event <= started /\ sending[i].event \in Nat
    BY <1>1 DEF At, Walking, Broadcasts
  <2> QED BY <2>1
<1>10. \A c \in connections : \A m \in Range(received[c]) : m < n /\ m \in DOMAIN log
  <2> SUFFICES ASSUME NEW c \in connections, NEW m \in Range(received[c]) PROVE m < n /\ m \in DOMAIN log
    OBVIOUS
  <2>1. m <= started
    BY DEF At, Heard
  <2>2. c \in Connections /\ received[c] \in Seq(DOMAIN log)
    BY DEF TypeOK
  <2>3. m \in DOMAIN log
    BY <2>2, RangeOfSeq DEF Range
  <2> QED BY <1>1, <2>1, <2>3
<1> HIDE DEF n
<1>11. \A d : d \in Snapshot(n) <=> d \in connections /\ PlanOf[d] = log[n]
  BY DEF Snapshot, SamePlan
<1>12. n \in Nat /\ n \in 0..Len(log') /\ n = started + 1
  BY <1>1, <1>3, <1>4 DEF n, Quiet
<1>13. CASE Snapshot(n) = {}
  <2>1. sending' = sending /\ received' = received
    BY <1>3, <1>13 DEF Start
  <2>2. ASSUME NEW e \in Connections, Following(e) PROVE Follows(e, sending, n)
    <3>1. Follows(e, sending, started) /\ e \in connections
      BY <1>6, <2>2 DEF At, Following
    <3>2. log[n] # PlanOf[e]
      BY <1>11, <1>13, <3>1
    <3>3. NoGap(e, sending, n)
      <4> SUFFICES ASSUME NEW k \in DOMAIN log, NEW m \in DOMAIN log,
                          k \in Range(received[e]) \/ Carried(e, sending, k),
                          k < m, m <= n, log[m] = PlanOf[e]
                   PROVE  m \in Range(received[e]) \/ Carried(e, sending, m)
        BY DEF NoGap
      <4>1. m <= started
        BY <1>1, <1>12, <3>2
      <4> QED BY <3>1, <4>1 DEF Follows, NoGap
    <3> QED BY <3>1, <3>3 DEF Follows
  <2>3. Numbered' /\ NobodyIsToldTwice' /\ FollowersSeeARun' /\ At(n)'
    BY <1>4, <1>5, <1>7, <1>8, <1>12, <2>1, <2>2, OverKeeps
  <2> QED BY <1>12, <2>3
<1>14. CASE Snapshot(n) # {}
  <2>1. Send(n, Snapshot(n), sending)
    BY <1>3, <1>14 DEF Start
  <2>2. MayBeSent(n, Snapshot(n), sending, n)
    <3>1. Snapshot(n) \in SUBSET Connections
      BY <1>6, <1>11
    <3>2. ASSUME NEW d \in Snapshot(n)
          PROVE  PlanOf[d] = log[n] /\ state[d] # "new" /\ n \notin Range(received[d])
      <4>1. d \in connections /\ PlanOf[d] = log[n]
        BY <1>11
      <4>2. state[d] # "new"
        BY <1>6, <4>1
      <4>3. n \notin Range(received[d])
        BY <1>10, <1>12, <4>1
      <4> QED BY <4>1, <4>2, <4>3
    <3>3. \A i \in DOMAIN sending : sending[i].event # n
      BY <1>1, <1>9, <1>12 DEF Broadcasts
    <3> QED BY <1>1, <1>3, <1>8, <1>12, <1>14, <3>1, <3>2, <3>3 DEF MayBeSent
  <2>3. ASSUME NEW e \in Connections, Following(e) PROVE MayFollow(e, n, Snapshot(n), sending, n)
    <3>1. Follows(e, sending, started) /\ e \in connections
      BY <1>6, <2>3 DEF At, Following
    <3>2. ASSUME e \in Snapshot(n)
          PROVE  /\ \A d \in Snapshot(n) : d \in connections
                 /\ \A d \in Connections : Ahead(e, d) => d \in Snapshot(n)
                 /\ \A i \in Reaching(e, sending) :
                       sending[i].event < n /\ sending[i].at \in Snapshot(n)
      <4>1. PlanOf[e] = log[n]
        BY <1>11, <3>2
      <4>2. \A d : Ahead(e, d) => d \in Snapshot(n)
        BY <1>11, <4>1 DEF Ahead
      <4>3. \A i \in Reaching(e, sending) : i \in DOMAIN sending /\ Ahead(e, sending[i].at)
        BY <3>1 DEF Follows, AllCome, Comes, Reaching
      <4> QED BY <1>9, <1>11, <4>2, <4>3
    <3>3. \A i \in Reaching(e, sending) : ~(n < sending[i].event)
      <4> SUFFICES ASSUME NEW i \in Reaching(e, sending) PROVE ~(n < sending[i].event)
        OBVIOUS
      <4>1. sending[i].event < n /\ sending[i].event \in Nat
        BY <1>1, <1>9 DEF Reaching, Broadcasts
      <4> QED BY <1>12, <4>1
    <3>4. ASSUME NEW k \in DOMAIN log, NEW m \in DOMAIN log,
                 Told(e, n, Snapshot(n), sending, k), k < m, m <= n, log[m] = PlanOf[e]
          PROVE  Told(e, n, Snapshot(n), sending, m)
      <4>1. CASE m = n
        BY <1>11, <3>1, <3>4, <4>1 DEF Told
      <4>2. CASE m # n
        <5>1. m <= started /\ k # n
          BY <1>1, <1>12, <3>4, <4>2
        <5>2. k \in Range(received[e]) \/ Carried(e, sending, k)
          BY <3>4, <5>1 DEF Told
        <5> QED BY <3>1, <3>4, <5>1, <5>2 DEF Follows, NoGap, Told
      <4> QED BY <4>1, <4>2
    <3>5. \A m \in Range(received[e]) : m < n
      BY <1>10, <3>1
    <3> QED BY <3>1, <3>2, <3>3, <3>4, <3>5 DEF MayFollow, Follows
  <2>4. Numbered' /\ NobodyIsToldTwice' /\ FollowersSeeARun' /\ At(n)'
    BY <1>4, <1>5, <1>7, <1>12, <2>1, <2>2, <2>3, SendKeeps
  <2> QED BY <1>12, <2>4
<1> QED BY <1>13, <1>14

(* Where broadcast i of the others was.                                    *)
Was(i, k) == IF i < k THEN i ELSE i + 1

LEMMA OthersWere ==
    ASSUME TypeOK, NEW k \in DOMAIN sending, NEW others, others = RemoveAt(sending, k)
    PROVE  /\ others \in Seq(Broadcasts)
           /\ \A i \in DOMAIN others :
                 Was(i, k) \in DOMAIN sending \ {k} /\ others[i] = sending[Was(i, k)]
           /\ \A j \in DOMAIN sending \ {k} : \E i \in DOMAIN others : Was(i, k) = j
           /\ \A i, j \in DOMAIN others :
                 (i < j <=> Was(i, k) < Was(j, k)) /\ (Was(i, k) = Was(j, k) => i = j)
<1>1. sending \in Seq(Broadcasts)
  BY DEF TypeOK, Broadcasts
<1>2. DOMAIN sending = 1..Len(sending) /\ Len(sending) \in Nat
  BY <1>1, LenProperties
<1>3. /\ others \in Seq(Broadcasts) /\ DOMAIN others = 1..(Len(sending) - 1)
      /\ \A i \in 1..(Len(sending) - 1) : others[i] = sending[Was(i, k)]
  BY <1>1, Removed DEF Was
<1>4. \A i \in DOMAIN others : Was(i, k) \in DOMAIN sending \ {k}
  BY <1>2, <1>3 DEF Was
<1>5. ASSUME NEW j \in DOMAIN sending \ {k} PROVE \E i \in DOMAIN others : Was(i, k) = j
  <2>1. CASE j < k
    <3>1. j \in DOMAIN others /\ Was(j, k) = j
      BY <1>2, <1>3, <2>1 DEF Was
    <3> QED BY <3>1
  <2>2. CASE ~(j < k)
    <3>1. j - 1 \in DOMAIN others /\ Was(j - 1, k) = j
      BY <1>2, <1>3, <2>2 DEF Was
    <3> QED BY <3>1
  <2> QED BY <2>1, <2>2
<1>6. \A i, j \in DOMAIN others :
        (i < j <=> Was(i, k) < Was(j, k)) /\ (Was(i, k) = Was(j, k) => i = j)
  BY <1>2, <1>3 DEF Was
<1> QED BY <1>3, <1>4, <1>5, <1>6

(* Without broadcast k the others are as they were.                        *)
LEMMA OthersKeep ==
    ASSUME TypeOK, NEW k \in DOMAIN sending, NEW others, others = RemoveAt(sending, k),
           NEW started, Walking(sending, started)
    PROVE  /\ Walking(others, started)
           /\ \A i \in DOMAIN others : others[i].event # sending[k].event
           /\ \A e \in Connections, i \in DOMAIN others :
                 i \in Reaching(e, others) <=> Was(i, k) \in Reaching(e, sending)
           /\ \A e \in Connections : AllCome(e, sending) => AllCome(e, others)
           /\ \A e \in Connections : InTurn(e, sending) => InTurn(e, others)
           /\ \A e \in Connections : \A m :
                 Carried(e, sending, m) <=>
                   Carried(e, others, m) \/ (e \in sending[k].rest /\ m = sending[k].event)
<1>1. /\ \A i \in DOMAIN others :
            Was(i, k) \in DOMAIN sending /\ Was(i, k) # k /\ others[i] = sending[Was(i, k)]
      /\ \A j \in DOMAIN sending \ {k} : \E i \in DOMAIN others : Was(i, k) = j
      /\ \A i, j \in DOMAIN others :
            (i < j <=> Was(i, k) < Was(j, k)) /\ (Was(i, k) = Was(j, k) => i = j)
  BY OthersWere
<1>2. Walking(others, started)
  <2>1. \A i \in DOMAIN others : /\ others[i].event <= started
                                 /\ PlanOf[others[i].at] = log[others[i].event]
                                 /\ state[others[i].at] # "new"
                                 /\ Walks(others[i])
    BY <1>1 DEF Walking
  <2>2. \A i, j \in DOMAIN others : others[i].event = others[j].event => i = j
    BY <1>1 DEF Walking
  <2> QED BY <2>1, <2>2 DEF Walking
<1>3. \A i \in DOMAIN others : others[i].event # sending[k].event
  BY <1>1 DEF Walking
<1>4. \A e \in Connections, i \in DOMAIN others :
        i \in Reaching(e, others) <=> Was(i, k) \in Reaching(e, sending)
  BY <1>1 DEF Reaching
<1>5. \A e, i : i \in Reaching(e, others) => i \in DOMAIN others
  BY DEF Reaching
<1>6. ASSUME NEW e \in Connections, AllCome(e, sending) PROVE AllCome(e, others)
  BY <1>1, <1>4, <1>5, <1>6 DEF AllCome
<1>7. ASSUME NEW e \in Connections, InTurn(e, sending) PROVE InTurn(e, others)
  <2> SUFFICES ASSUME NEW i \in Reaching(e, others), NEW j \in Reaching(e, others),
                      others[i].event < others[j].event
               PROVE  /\ arrival[others[j].at] <= arrival[others[i].at]
                      /\ others[j].at = others[i].at => i < j
    BY DEF InTurn
  <2>1. /\ Was(i, k) \in Reaching(e, sending) /\ Was(j, k) \in Reaching(e, sending)
        /\ others[i] = sending[Was(i, k)] /\ others[j] = sending[Was(j, k)]
        /\ i < j <=> Was(i, k) < Was(j, k)
    BY <1>1, <1>4, <1>5
  <2> QED BY <1>7, <2>1 DEF InTurn
<1>8. ASSUME NEW e \in Connections, NEW m
      PROVE  Carried(e, sending, m) <=>
               Carried(e, others, m) \/ (e \in sending[k].rest /\ m = sending[k].event)
  <2>1. ASSUME Carried(e, sending, m)
        PROVE  Carried(e, others, m) \/ (e \in sending[k].rest /\ m = sending[k].event)
    <3>1. PICK j \in Reaching(e, sending) : sending[j].event = m
      BY <2>1 DEF Carried
    <3>2. CASE j = k
      BY <3>1, <3>2 DEF Reaching
    <3>3. CASE j # k
      <4>1. PICK i \in DOMAIN others : Was(i, k) = j
        BY <1>1, <3>3 DEF Reaching
      <4>2. i \in Reaching(e, others) /\ others[i].event = m
        BY <1>1, <1>4, <3>1, <4>1
      <4> QED BY <4>2 DEF Carried
    <3> QED BY <3>2, <3>3
  <2>2. ASSUME Carried(e, others, m) PROVE Carried(e, sending, m)
    <3>1. PICK i \in Reaching(e, others) : others[i].event = m
      BY <2>2 DEF Carried
    <3>2. Was(i, k) \in Reaching(e, sending) /\ sending[Was(i, k)].event = m
      BY <1>1, <1>4, <1>5, <3>1
    <3> QED BY <3>2 DEF Carried
  <2>3. ASSUME e \in sending[k].rest, m = sending[k].event PROVE Carried(e, sending, m)
    BY <2>3 DEF Carried, Reaching
  <2> QED BY <2>1, <2>2, <2>3
<1> QED BY <1>2, <1>3, <1>4, <1>6, <1>7, <1>8

LEMMA KeptByContinue ==
    ASSUME TypeOK, Numbered, NobodyIsToldTwice, FollowersSeeARun,
           NEW started \in 0..Len(log), At(started), NEW k \in DOMAIN sending, Continue(k)
    PROVE  Numbered' /\ NobodyIsToldTwice' /\ FollowersSeeARun'
           /\ \E s \in 0..Len(log') : At(s)'
<1> DEFINE b == sending[k]
           others == RemoveAt(sending, k)
<1>1. /\ log \in Seq(Plans) /\ DOMAIN log = 1..Len(log) /\ Len(log) \in Nat
      /\ b \in Broadcasts /\ b.event \in DOMAIN log /\ b.at \in Connections
      /\ b.rest \subseteq Connections
      /\ \A j \in DOMAIN sending : sending[j] \in Broadcasts
      /\ DOMAIN sending = 1..Len(sending) /\ Len(sending) \in Nat
  <2>1. sending \in Seq(Broadcasts) /\ log \in Seq(Plans)
    BY DEF TypeOK, Broadcasts
  <2>2. /\ DOMAIN log = 1..Len(log) /\ Len(log) \in Nat
        /\ DOMAIN sending = 1..Len(sending) /\ Len(sending) \in Nat
        /\ \A j \in DOMAIN sending : sending[j] \in Broadcasts
    BY <2>1, LenProperties, ElementOfSeq
  <2> QED BY <2>1, <2>2 DEF Broadcasts
<1>2. \/ /\ b.rest = {} \/ state[b.at] # "open"
         /\ sending' = others /\ received' = received
      \/ b.rest # {} /\ Send(b.event, b.rest, others)
  BY DEF Continue
<1>3. \A j \in 1..(k - 1) : sending[j].at # b.at
  BY DEF Continue
<1>4. Quiet /\ UNCHANGED <<offset, consumer, loop, scheduled>>
  BY DEF Continue, Quiet, topicVars, managerVars, clientVars
<1>5. Ordered(started)' /\ Heard(started) /\ Walking(sending, started) /\ started \in Nat
  BY <1>1, <1>4 DEF At, Ordered, Quiet
<1>6. others \in Seq(Broadcasts)
  BY OthersWere
<1> HIDE DEF others
<1>7. /\ Walking(others, started)
      /\ \A i \in DOMAIN others : others[i].event # b.event
      /\ \A e \in Connections : AllCome(e, sending) => AllCome(e, others)
      /\ \A e \in Connections : InTurn(e, sending) => InTurn(e, others)
      /\ \A e \in Connections : \A m :
            Carried(e, sending, m) <=> Carried(e, others, m) \/ (e \in b.rest /\ m = b.event)
  BY <1>5, OthersKeep DEF others
<1>8. Walks(b) /\ b.event <= started
  BY <1>5 DEF Walking
<1>9. ASSUME NEW e \in Connections, Following(e) PROVE Follows(e, sending, started)
  BY <1>9 DEF At
<1>10. CASE /\ b.rest = {} \/ state[b.at] # "open"
            /\ sending' = others /\ received' = received
  <2>1. ASSUME NEW e \in Connections, Following(e) PROVE Follows(e, others, started)
    <3>1. Follows(e, sending, started)
      BY <1>9, <2>1
    <3>2. e \notin b.rest
      <4>1. SUFFICES ASSUME e \in b.rest PROVE FALSE
        OBVIOUS
      <4>2. Comes(b, e)
        BY <3>1, <4>1 DEF Follows, AllCome, Reaching
      <4>3. state[b.at] = "open"
        BY <1>1, <3>1, <4>2 DEF Follows, AllAheadOpen, Comes
      <4> QED BY <1>10, <4>1, <4>3
    <3>3. \A m : Carried(e, others, m) <=> Carried(e, sending, m)
      BY <1>7, <3>2
    <3>4. NoGap(e, others, started)
      BY <3>1, <3>3 DEF Follows, NoGap
    <3> QED BY <1>7, <3>1, <3>4 DEF Follows
  <2>2. Numbered' /\ NobodyIsToldTwice' /\ FollowersSeeARun' /\ At(started)'
    BY <1>4, <1>5, <1>7, <1>10, <2>1, OverKeeps
  <2> QED BY <1>4, <2>2 DEF Quiet
<1>11. CASE b.rest # {} /\ Send(b.event, b.rest, others)
  <2>1. MayBeSent(b.event, b.rest, others, started)
    BY <1>1, <1>6, <1>7, <1>8, <1>11 DEF MayBeSent, Walks
  <2>2. ASSUME NEW e \in Connections, Following(e)
        PROVE  MayFollow(e, b.event, b.rest, others, started)
    <3>1. Follows(e, sending, started)
      BY <1>9, <2>2
    <3>2. ASSUME e \in b.rest
          PROVE  /\ \A d \in b.rest : arrival[d] < arrival[e] => d \in connections
                 /\ \A d \in Connections : Ahead(e, d) =>
                       d \in b.rest \/ \A x \in b.rest : arrival[d] < arrival[x]
                 /\ \A m \in Range(received[e]) : m < b.event
                 /\ \A i \in Reaching(e, others) :
                       /\ others[i].event < b.event => others[i].at \in b.rest
                       /\ b.event < others[i].event =>
                             \A x \in b.rest : arrival[others[i].at] < arrival[x]
      <4>1. Comes(b, e) /\ k \in Reaching(e, sending)
        BY <3>1, <3>2 DEF Follows, AllCome, Reaching
      <4>2. \A d \in Connections : arrival[d] \in Nat
        BY DEF TypeOK
      <4>3. \A x \in b.rest : arrival[b.at] < arrival[x] /\ arrival[x] \in Nat
        BY <1>1, <1>8, <4>2 DEF Walks
      <4>4. ASSUME NEW d \in Connections, Ahead(e, d), d \notin b.rest, NEW x \in b.rest
            PROVE  arrival[d] < arrival[x]
        <5>1. ~(arrival[b.at] < arrival[d])
          BY <4>1, <4>4 DEF Comes
        <5>2. arrival[d] <= arrival[b.at]
          BY <1>1, <4>2, <5>1
        <5> QED BY <1>1, <4>2, <4>3, <5>2
      <4>5. ASSUME NEW i \in Reaching(e, others)
            PROVE  /\ others[i].event < b.event => others[i].at \in b.rest
                   /\ b.event < others[i].event =>
                         \A x \in b.rest : arrival[others[i].at] < arrival[x]
        <5> DEFINE j == Was(i, k)
        <5>1. /\ j \in DOMAIN sending /\ j # k /\ others[i] = sending[j]
              /\ j \in Reaching(e, sending)
          BY <1>5, OthersWere, OthersKeep DEF others, Reaching
        <5> HIDE DEF j
        <5>2. sending[j].at \in Connections
          BY <1>1, <5>1 DEF Broadcasts
        <5>3. Ahead(e, sending[j].at) /\ Ahead(e, b.at)
          BY <3>1, <4>1, <5>1 DEF Follows, AllCome, Comes
        <5>4. InTurn(e, sending)
          BY <3>1 DEF Follows
        <5>5. ASSUME sending[j].event < b.event PROVE sending[j].at \in b.rest
          <6>1. /\ arrival[b.at] <= arrival[sending[j].at]
                /\ b.at = sending[j].at => j < k
            BY <4>1, <5>1, <5>4, <5>5 DEF InTurn
          <6>2. b.at # sending[j].at
            BY <1>1, <1>3, <5>1, <6>1
          <6>3. state[b.at] # "new" /\ state[sending[j].at] # "new"
            BY <5>3 DEF At, Ordered, Ahead
          <6>4. arrival[b.at] # arrival[sending[j].at]
            BY <1>1, <5>2, <6>2, <6>3 DEF Numbered
          <6>5. arrival[b.at] < arrival[sending[j].at]
            BY <1>1, <4>2, <5>2, <6>1, <6>4
          <6> QED BY <4>1, <5>2, <5>3, <6>5 DEF Comes
        <5>6. ASSUME b.event < sending[j].event, NEW x \in b.rest
              PROVE  arrival[sending[j].at] < arrival[x]
          <6>1. arrival[sending[j].at] <= arrival[b.at]
            BY <4>1, <5>1, <5>4, <5>6 DEF InTurn
          <6> QED BY <1>1, <4>2, <4>3, <5>2, <6>1
        <5> QED BY <5>1, <5>5, <5>6
      <4> QED BY <4>1, <4>4, <4>5 DEF Comes
    <3>3. \A m : Told(e, b.event, b.rest, others, m)
                   <=> m \in Range(received[e]) \/ Carried(e, sending, m)
      BY <1>7 DEF Told
    <3>4. \A h \in DOMAIN log, m \in DOMAIN log :
            Told(e, b.event, b.rest, others, h) /\ h < m /\ m <= started /\ log[m] = PlanOf[e]
            => Told(e, b.event, b.rest, others, m)
      BY <3>1, <3>3 DEF Follows, NoGap
    <3> QED BY <1>7, <3>1, <3>2, <3>4 DEF MayFollow, Follows
  <2>3. Numbered' /\ NobodyIsToldTwice' /\ FollowersSeeARun' /\ At(started)'
    BY <1>4, <1>5, <1>11, <2>1, <2>2, SendKeeps
  <2> QED BY <1>4, <2>3 DEF Quiet
<1> QED BY <1>2, <1>10, <1>11

-----------------------------------------------------------------------------
(* The thread, the topic and the clients. *)

(* The thread moves, and the loop does not.                                *)
LEMMA ThreadKeeps ==
    ASSUME TypeOK, Numbered, NobodyIsToldTwice, FollowersSeeARun, Quiet,
           NEW started \in Nat, At(started), UNCHANGED <<sending, received>>, Ordered(started)'
    PROVE  Numbered' /\ NobodyIsToldTwice' /\ FollowersSeeARun' /\ At(started)'
<1>1. sending' = sending /\ received' = received
  OBVIOUS
<1>2. /\ Walking(sending, started) /\ Heard(started)
      /\ \A e \in Connections : Following(e) => Follows(e, sending, started)
  BY DEF At
<1> QED BY <1>1, <1>2, OverKeeps

LEMMA KeptByThread ==
    ASSUME TypeOK, Numbered, NobodyIsToldTwice, FollowersSeeARun,
           NEW started \in 0..Len(log), At(started), Poll \/ Commit \/ ConsumerDies
    PROVE  Numbered' /\ NobodyIsToldTwice' /\ FollowersSeeARun'
           /\ \E s \in 0..Len(log') : At(s)'
<1>1. /\ Quiet /\ UNCHANGED <<sending, received, loop>>
  BY DEF Poll, Commit, ConsumerDies, Quiet, managerVars, clientVars, taskVars
<1>2. /\ Len(log) \in Nat /\ offset \in 0..Len(log) /\ started \in Nat /\ log' = log
      /\ scheduled \in Seq(DOMAIN log) /\ DOMAIN scheduled = 1..Len(scheduled)
      /\ Len(scheduled) \in Nat
  BY <1>1, LenProperties DEF TypeOK, Quiet
<1>3. /\ connections = {c \in Connections : state[c] \in {"open", "broken", "dead"}}
      /\ ~loop => connections = {} /\ scheduled = <<>>
      /\ started + Len(scheduled) <= Len(log)
      /\ consumer = "polling" => started + Len(scheduled) = offset
      /\ consumer = "handling" => started + Len(scheduled) = offset + 1
      /\ \A i \in DOMAIN scheduled : scheduled[i] = started + i
  <2>1. consumer # "dead" =>
          started + Len(scheduled) = offset + (IF consumer = "handling" THEN 1 ELSE 0)
    BY DEF At, Ordered
  <2>2. /\ consumer = "polling" => started + Len(scheduled) = offset
        /\ consumer = "handling" => started + Len(scheduled) = offset + 1
    BY <1>2, <2>1
  <2> QED BY <2>2 DEF At, Ordered
<1>4. CASE Commit \/ ConsumerDies
  <2>1. scheduled' = scheduled
    BY <1>4 DEF Commit, ConsumerDies, taskVars
  <2>2. \/ consumer = "handling" /\ consumer' = "polling" /\ offset' = offset + 1
        \/ consumer' = "dead"
    BY <1>4 DEF Commit, ConsumerDies
  <2>3. Ordered(started)'
    BY <1>1, <1>2, <1>3, <2>1, <2>2 DEF Ordered, Quiet
  <2> QED BY <1>1, <1>2, <2>3, ThreadKeeps
<1>5. CASE Poll /\ loop
  <2>1. /\ consumer = "polling" /\ consumer' = "handling" /\ offset' = offset /\ offset < Len(log)
        /\ scheduled' = Append(scheduled, offset + 1)
    BY <1>5 DEF Poll
  <2>2. offset + 1 \in DOMAIN log
    BY <1>2, <2>1, LenProperties DEF TypeOK
  <2>3. /\ DOMAIN scheduled' = 1..(Len(scheduled) + 1) /\ Len(scheduled') = Len(scheduled) + 1
        /\ \A i \in 1..Len(scheduled) : scheduled'[i] = scheduled[i]
        /\ scheduled'[Len(scheduled) + 1] = offset + 1
    BY <1>2, <2>1, <2>2, Added
  <2>4. started + Len(scheduled') = offset + 1 /\ started + Len(scheduled') <= Len(log)
    <3>1. started + Len(scheduled) = offset /\ Len(scheduled') = Len(scheduled) + 1
      BY <1>3, <2>1, <2>3
    <3>2. /\ started \in Nat /\ Len(scheduled) \in Nat /\ offset \in Nat /\ Len(log) \in Nat
          /\ offset < Len(log)
      BY <1>2, <2>1
    <3> QED BY <3>1, <3>2
  <2>5. \A i \in DOMAIN scheduled' : scheduled'[i] = started + i
    <3> SUFFICES ASSUME NEW i \in 1..(Len(scheduled) + 1) PROVE scheduled'[i] = started + i
      BY <2>3
    <3>1. CASE i \in 1..Len(scheduled)
      BY <1>2, <1>3, <2>3, <3>1
    <3>2. CASE i = Len(scheduled) + 1
      BY <1>2, <1>3, <2>1, <2>3, <3>2
    <3> QED BY <1>2, <3>1, <3>2
  <2>6. Ordered(started)'
    BY <1>1, <1>2, <1>3, <1>5, <2>1, <2>4, <2>5 DEF Ordered, Quiet
  <2> QED BY <1>1, <1>2, <2>6, ThreadKeeps
<1>6. CASE Poll /\ ~loop
  <2>1. /\ consumer = "polling" /\ consumer' = "handling" /\ offset' = offset /\ offset < Len(log)
        /\ scheduled' = scheduled /\ scheduled = <<>> /\ connections = {}
    BY <1>3, <1>6 DEF Poll
  <2>2. started = offset /\ Len(scheduled) = 0 /\ started + 1 \in Nat /\ started + 1 \in 0..Len(log)
    BY <1>2, <1>3, <2>1
  <2>3. \A i \in DOMAIN scheduled : FALSE
    BY <1>2, <2>2
  <2>4. Ordered(started + 1)'
    BY <1>1, <1>2, <1>3, <1>6, <2>1, <2>2, <2>3 DEF Ordered, Quiet
  <2>5. Walking(sending, started + 1)
    <3>1. ASSUME NEW i \in DOMAIN sending PROVE sending[i].event <= started + 1
      <4>1. sending \in Seq(Broadcasts)
        BY DEF TypeOK, Broadcasts
      <4>2. sending[i] \in Broadcasts
        BY <4>1, LenProperties, ElementOfSeq
      <4>3. sending[i].event \in Nat
        <5>1. sending[i].event \in DOMAIN log
          BY <4>2 DEF Broadcasts
        <5>2. DOMAIN log = 1..Len(log)
          BY LenProperties DEF TypeOK
        <5> QED BY <1>2, <5>1, <5>2
      <4>4. sending[i].event <= started
        BY DEF At, Walking
      <4> QED BY <1>2, <4>3, <4>4
    <3> QED BY <3>1 DEF At, Walking
  <2>6. Heard(started + 1)
    BY <2>1 DEF Heard
  <2>7. \A e \in Connections : ~Following(e)
    BY <1>3, <2>1 DEF Following
  <2>8. Numbered' /\ NobodyIsToldTwice' /\ FollowersSeeARun' /\ At(started + 1)'
    <3>1. sending' = sending /\ received' = received
      BY <1>1
    <3> QED BY <1>1, <2>2, <2>4, <2>5, <2>6, <2>7, <3>1, OverKeeps
  <2> QED BY <1>2, <2>2, <2>8
<1> QED BY <1>4, <1>5, <1>6

(* An event is published.                                                  *)
LEMMA KeptByPublish ==
    ASSUME TypeOK, Numbered, NobodyIsToldTwice, FollowersSeeARun,
           NEW started \in 0..Len(log), At(started), NEW p \in Plans, Extend(p),
           UNCHANGED <<offset, consumer, managerVars, taskVars, clientVars, faults>>
    PROVE  Numbered' /\ NobodyIsToldTwice' /\ FollowersSeeARun'
           /\ \E s \in 0..Len(log') : At(s)'
<1>1. /\ Len(log') = Len(log) + 1 /\ DOMAIN log = 1..Len(log) /\ DOMAIN log' = 1..(Len(log) + 1)
      /\ \A n \in DOMAIN log : n \in DOMAIN log' /\ log'[n] = log[n]
      /\ Len(log) \in Nat
  BY Grown, LenProperties DEF Extend, TypeOK
<1>2. /\ offset' = offset /\ consumer' = consumer /\ loop' = loop /\ connections' = connections
      /\ arrival' = arrival /\ arrivals' = arrivals /\ scheduled' = scheduled
      /\ sending' = sending /\ received' = received /\ state' = state /\ disturbed' = disturbed
  BY DEF managerVars, taskVars, clientVars
<1>3. \A c \in Connections : \A i \in DOMAIN received[c] :
        received[c][i] \in DOMAIN log /\ received[c][i] \in Range(received[c])
  <2> SUFFICES ASSUME NEW c \in Connections, NEW i \in DOMAIN received[c]
               PROVE  received[c][i] \in DOMAIN log /\ received[c][i] \in Range(received[c])
    OBVIOUS
  <2>1. received[c] \in Seq(DOMAIN log)
    BY DEF TypeOK
  <2> QED BY <2>1, LenProperties, ElementOfSeq DEF Range
<1>4. Numbered'
  BY <1>2 DEF Numbered
<1>5. NobodyIsToldTwice'
  <2>1. \A c \in Connections : \A n \in Range(received[c]) : n \in DOMAIN log
    BY <1>3 DEF Range
  <2> QED BY <1>1, <1>2, <2>1 DEF NobodyIsToldTwice
<1>6. FollowersSeeARun'
  <2> SUFFICES ASSUME NEW c \in Connections \ disturbed PROVE InOrder(c)'
    BY <1>2 DEF FollowersSeeARun
  <2>1. InOrder(c)
    BY DEF FollowersSeeARun
  <2>2. ASSUME NEW i \in DOMAIN received[c], NEW j \in DOMAIN received[c], NEW n \in DOMAIN log',
               received[c][i] < n, n < received[c][j], log'[n] = PlanOf[c]
        PROVE  n \in Range(received[c])
    <3>1. received[c][j] \in DOMAIN log
      BY <1>3
    <3>2. n \in DOMAIN log
      BY <1>1, <2>2, <3>1
    <3> QED BY <1>1, <2>1, <2>2, <3>2 DEF InOrder
  <2> QED BY <1>2, <2>1, <2>2 DEF InOrder
<1>7. Ordered(started)'
  <2>1. /\ Ordered(started) /\ Len(scheduled) \in Nat /\ started \in Nat
    BY LenProperties DEF At, Ordered, TypeOK
  <2>2. started + Len(scheduled) <= Len(log')
    BY <1>1, <2>1 DEF Ordered
  <2> QED BY <1>2, <2>1, <2>2 DEF Ordered
<1>8. Walking(sending, started)'
  <2>1. \A i \in DOMAIN sending : sending[i].event \in DOMAIN log
    <3>1. sending \in Seq(Broadcasts)
      BY DEF TypeOK, Broadcasts
    <3>2. \A i \in DOMAIN sending : sending[i] \in Broadcasts
      BY <3>1, LenProperties, ElementOfSeq
    <3> QED BY <3>2 DEF Broadcasts
  <2> QED BY <1>1, <1>2, <2>1 DEF At, Walking, Walks
<1>9. Heard(started)'
  BY <1>2 DEF At, Heard
<1>10. ASSUME NEW e \in Connections, Following(e) PROVE Follows(e, sending, started)'
  <2>1. Follows(e, sending, started)
    BY <1>10 DEF At
  <2>2. AllAheadOpen(e)' /\ AllCome(e, sending)'
    BY <1>2, <2>1 DEF Follows, AllAheadOpen, AllCome, Comes, Reaching, Ahead
  <2>3. InTurn(e, sending)'
    BY <1>2, <2>1 DEF Follows, InTurn, Reaching
  <2>4. NoGap(e, sending, started)'
    <3> SUFFICES ASSUME NEW k \in DOMAIN log', NEW m \in DOMAIN log',
                        k \in Range(received[e]) \/ Carried(e, sending, k),
                        k < m, m <= started, log'[m] = PlanOf[e]
                 PROVE  m \in Range(received[e]) \/ Carried(e, sending, m)
      BY <1>2 DEF NoGap, Carried, Reaching
    <3>1. k \in DOMAIN log /\ m \in DOMAIN log
      BY <1>1
    <3> QED BY <1>1, <2>1, <3>1 DEF Follows, NoGap
  <2> QED BY <2>2, <2>3, <2>4 DEF Follows
<1>11. At(started)'
  BY <1>2, <1>7, <1>8, <1>9, <1>10 DEF At, Following
<1> QED BY <1>1, <1>4, <1>5, <1>6, <1>11

(* A client comes: who follows is one of those who did, or is the new one, *)
(* and nothing is on its way to that.                                      *)
LEMMA KeptByConnect ==
    ASSUME TypeOK, Numbered, NobodyIsToldTwice, FollowersSeeARun,
           NEW started \in 0..Len(log), At(started), NEW c \in Connections, Connect(c)
    PROVE  Numbered' /\ NobodyIsToldTwice' /\ FollowersSeeARun'
           /\ \E s \in 0..Len(log') : At(s)'
<1>1. /\ log' = log /\ offset' = offset /\ consumer' = consumer
      /\ scheduled' = scheduled /\ sending' = sending /\ received' = received
      /\ state[c] = "new" /\ state'[c] = "open"
      /\ \A d \in Connections : d # c => state'[d] = state[d] /\ arrival'[d] = arrival[d]
      /\ arrivals' = arrivals + 1 /\ arrival'[c] = arrivals + 1
      /\ connections' = connections \cup {c} /\ loop' = TRUE
  BY DEF Connect, topicVars, taskVars, TypeOK
<1>2. /\ \A d \in Connections : arrival[d] \in Nat
      /\ arrivals \in Nat /\ connections \subseteq Connections
      /\ \A d \in connections : state[d] # "new" /\ d # c
  BY <1>1 DEF TypeOK, At, Ordered
<1>3. received[c] = <<>> /\ \A n : n \notin Range(received[c])
  <2>1. received[c] = <<>>
    BY <1>1 DEF Numbered
  <2> QED BY <2>1 DEF Range
<1>4. \A d \in Connections : state[d] # "new" => arrival'[d] = arrival[d] /\ arrival[d] < arrival'[c]
  <2> SUFFICES ASSUME NEW d \in Connections, state[d] # "new"
               PROVE  arrival'[d] = arrival[d] /\ arrival[d] < arrival'[c]
    OBVIOUS
  <2>1. arrival[d] <= arrivals
    BY DEF Numbered
  <2> QED BY <1>1, <1>2, <2>1
<1>5. Numbered'
  <2>1. ASSUME NEW d \in Connections, state'[d] # "new" PROVE arrival'[d] <= arrivals'
    <3>1. CASE d = c
      BY <1>1, <1>2, <3>1
    <3>2. CASE d # c
      <4>1. arrival[d] <= arrivals /\ arrival'[d] = arrival[d]
        BY <1>1, <2>1, <3>2 DEF Numbered
      <4> QED BY <1>1, <1>2, <4>1
    <3> QED BY <3>1, <3>2
  <2>2. ASSUME NEW d \in Connections, NEW e \in Connections, state'[d] # "new", state'[e] # "new",
               arrival'[d] = arrival'[e]
        PROVE  d = e
    <3>1. CASE d # c /\ e # c
      BY <1>1, <2>2, <3>1 DEF Numbered
    <3>2. CASE d = c /\ e # c
      BY <1>1, <1>2, <1>4, <2>2, <3>2
    <3>3. CASE d # c /\ e = c
      BY <1>1, <1>2, <1>4, <2>2, <3>3
    <3> QED BY <3>1, <3>2, <3>3
  <2>3. \A d \in Connections : state'[d] = "new" => received'[d] = <<>>
    BY <1>1 DEF Numbered
  <2> QED BY <2>1, <2>2, <2>3 DEF Numbered
<1>6. NobodyIsToldTwice'
  BY <1>1 DEF NobodyIsToldTwice
<1>7. disturbed \subseteq disturbed'
  BY DEF Connect
<1>8. FollowersSeeARun'
  BY <1>1, <1>7 DEF FollowersSeeARun, InOrder
<1>9. Ordered(started)'
  BY <1>1 DEF At, Ordered
<1>10. \A i \in DOMAIN sending :
         /\ sending[i].at \in Connections /\ sending[i].rest \subseteq Connections
         /\ state[sending[i].at] # "new" /\ sending[i].at # c
         /\ \A d \in sending[i].rest : state[d] # "new" /\ d # c
  <2> SUFFICES ASSUME NEW i \in DOMAIN sending
               PROVE  /\ sending[i].at \in Connections /\ sending[i].rest \subseteq Connections
                      /\ state[sending[i].at] # "new" /\ sending[i].at # c
                      /\ \A d \in sending[i].rest : state[d] # "new" /\ d # c
    OBVIOUS
  <2>1. sending \in Seq(Broadcasts)
    BY DEF TypeOK, Broadcasts
  <2>2. sending[i] \in Broadcasts
    BY <2>1, LenProperties, ElementOfSeq
  <2>3. state[sending[i].at] # "new" /\ Walks(sending[i])
    BY DEF At, Walking
  <2> QED BY <1>1, <2>2, <2>3 DEF Walks, Broadcasts
<1>11. Walking(sending, started)'
  <2>1. ASSUME NEW i \in DOMAIN sending
        PROVE  /\ state'[sending[i].at] # "new"
               /\ Walks(sending[i])'
    <3>1. Walks(sending[i])
      BY DEF At, Walking
    <3>2. /\ \A d \in sending[i].rest : state'[d] = state[d] /\ arrival'[d] = arrival[d]
          /\ state'[sending[i].at] = state[sending[i].at]
          /\ arrival'[sending[i].at] = arrival[sending[i].at]
      BY <1>1, <1>10
    <3> QED BY <1>1, <1>10, <3>1, <3>2 DEF Walks
  <2> QED BY <1>1, <2>1 DEF At, Walking
<1>12. Heard(started)'
  BY <1>1, <1>3 DEF At, Heard
<1>13. ASSUME NEW e \in Connections, Following(e)' PROVE Follows(e, sending, started)'
  <2>1. CASE e = c
    <3>1. \A i : i \notin Reaching(e, sending)'
      BY <1>1, <1>10, <2>1 DEF Reaching
    <3>2. AllAheadOpen(e)'
      <4>1. \A d \in SamePlan(PlanOf[c]) : state[d] = "open"
        BY <1>13, <2>1 DEF Connect, Following
      <4> SUFFICES ASSUME NEW d \in Connections, Ahead(e, d)' PROVE state'[d] = "open"
        BY DEF AllAheadOpen
      <4>2. d # c
        <5>1. SUFFICES ASSUME d = c PROVE FALSE
          OBVIOUS
        <5>2. arrival'[c] < arrival'[c] /\ arrival'[c] \in Nat
          BY <1>1, <1>2, <2>1, <5>1 DEF Ahead
        <5> QED BY <5>2
      <4>3. d \in SamePlan(PlanOf[c])
        BY <1>1, <2>1, <4>2 DEF Ahead, SamePlan
      <4> QED BY <1>1, <4>1, <4>2, <4>3
    <3>3. NoGap(e, sending, started)'
      BY <1>1, <1>3, <2>1, <3>1 DEF NoGap, Carried
    <3> QED BY <3>1, <3>2, <3>3 DEF Follows, AllCome, InTurn
  <2>2. CASE e # c
    <3>1. Follows(e, sending, started) /\ state[e] = "open" /\ arrival'[e] = arrival[e]
      BY <1>1, <1>7, <1>13, <2>2 DEF Following, At
    <3>2. \A d \in Connections : Ahead(e, d)' <=> Ahead(e, d)
      <4> SUFFICES ASSUME NEW d \in Connections PROVE Ahead(e, d)' <=> Ahead(e, d)
        OBVIOUS
      <4>1. CASE d = c
        <5>1. arrival[e] < arrival'[c] /\ arrival'[c] \in Nat /\ arrival[e] \in Nat
          BY <1>1, <1>2, <1>4, <3>1
        <5> QED BY <1>2, <3>1, <4>1, <5>1 DEF Ahead
      <4>2. CASE d # c
        BY <1>1, <3>1, <4>2 DEF Ahead
      <4> QED BY <4>1, <4>2
    <3>3. AllAheadOpen(e)'
      BY <1>1, <1>2, <3>1, <3>2 DEF Follows, AllAheadOpen, Ahead
    <3>4. ASSUME NEW i \in Reaching(e, sending) PROVE Comes(sending[i], e)'
      <4>1. Comes(sending[i], e) /\ i \in DOMAIN sending
        BY <3>1 DEF Follows, AllCome, Reaching
      <4>2. \A d \in sending[i].rest : arrival'[d] < arrival'[e] => d \in connections'
        BY <1>1, <1>10, <3>1, <4>1 DEF Comes
      <4>3. \A d \in Connections : Ahead(e, d)' /\ arrival'[sending[i].at] < arrival'[d]
                                    => d \in sending[i].rest
        <5> SUFFICES ASSUME NEW d \in Connections, Ahead(e, d)', arrival'[sending[i].at] < arrival'[d]
                     PROVE  d \in sending[i].rest
          OBVIOUS
        <5>1. Ahead(e, d) /\ d # c
          BY <1>2, <3>2 DEF Ahead
        <5>2. arrival[sending[i].at] < arrival[d]
          BY <1>1, <1>10, <4>1, <5>1
        <5> QED BY <4>1, <5>1, <5>2 DEF Comes
      <4>4. Ahead(e, sending[i].at)'
        <5>1. sending[i].at \in Connections /\ Ahead(e, sending[i].at)
          BY <1>10, <4>1 DEF Comes
        <5>2. \A d \in Connections : Ahead(e, d) => Ahead(e, d)'
          BY <3>2
        <5> QED BY <1>1, <5>1, <5>2 DEF Ahead
      <4>5. \A n \in Range(received'[e]) : n < sending[i].event
        BY <1>1, <4>1 DEF Comes
      <4> QED BY <1>1, <4>2, <4>3, <4>4, <4>5 DEF Comes
    <3>5. AllCome(e, sending)'
      BY <1>1, <3>4 DEF AllCome, Reaching, Comes
    <3>6. InTurn(e, sending)'
      <4>1. \A i \in Reaching(e, sending) : arrival'[sending[i].at] = arrival[sending[i].at]
        BY <1>1, <1>10 DEF Reaching
      <4> QED BY <1>1, <3>1, <4>1 DEF Follows, InTurn, Reaching
    <3>7. NoGap(e, sending, started)'
      BY <1>1, <3>1 DEF Follows, NoGap, Carried, Reaching
    <3> QED BY <3>3, <3>5, <3>6, <3>7 DEF Follows
  <2> QED BY <2>1, <2>2
<1>14. At(started)'
  BY <1>9, <1>11, <1>12, <1>13 DEF At
<1> QED BY <1>1, <1>5, <1>6, <1>8, <1>14

(* A connection ends, and disturbs those after it.                         *)
LEMMA KeptByEnds ==
    ASSUME TypeOK, Numbered, NobodyIsToldTwice, FollowersSeeARun,
           NEW started \in 0..Len(log), At(started), NEW c \in Connections,
           NEW how \in {"broken", "dead"}, Ends(c, how)
    PROVE  Numbered' /\ NobodyIsToldTwice' /\ FollowersSeeARun'
           /\ \E s \in 0..Len(log') : At(s)'
<1>1. /\ log' = log /\ offset' = offset /\ consumer' = consumer /\ loop' = loop
      /\ scheduled' = scheduled /\ sending' = sending /\ received' = received
      /\ connections' = connections /\ arrival' = arrival /\ arrivals' = arrivals
      /\ state[c] = "open" /\ state'[c] = how
      /\ \A d \in Connections : d # c => state'[d] = state[d]
      /\ disturbed \subseteq disturbed'
  BY DEF Ends, topicVars, taskVars, managerVars, TypeOK
<1>2. \A d \in Connections : state'[d] = "new" <=> state[d] = "new"
  BY <1>1
<1>3. Numbered' /\ NobodyIsToldTwice' /\ FollowersSeeARun'
  BY <1>1, <1>2 DEF Numbered, NobodyIsToldTwice, FollowersSeeARun, InOrder
<1>4. /\ connections = {d \in Connections : state[d] \in {"open", "broken", "dead"}}
      /\ connections \subseteq Connections
  BY DEF At, Ordered
<1>5. Ordered(started)'
  <2>1. connections' = {d \in Connections : state'[d] \in {"open", "broken", "dead"}}
    BY <1>1, <1>4
  <2> QED BY <1>1, <2>1 DEF At, Ordered
<1>6. Walking(sending, started)'
  <2>1. \A i \in DOMAIN sending : sending[i].at \in Connections /\ sending[i].rest \subseteq Connections
    <3>1. sending \in Seq(Broadcasts)
      BY DEF TypeOK, Broadcasts
    <3>2. \A i \in DOMAIN sending : sending[i] \in Broadcasts
      BY <3>1, LenProperties, ElementOfSeq
    <3> QED BY <3>2 DEF Broadcasts
  <2> QED BY <1>1, <1>2, <2>1 DEF At, Walking, Walks
<1>7. Heard(started)'
  BY <1>1 DEF At, Heard
<1>8. ASSUME NEW e \in Connections, Following(e)' PROVE Follows(e, sending, started)'
  <2>1. e # c /\ state[e] = "open" /\ Follows(e, sending, started)
    BY <1>1, <1>8 DEF Following, At
  <2>2. ~Ahead(e, c)
    <3>1. SUFFICES ASSUME Ahead(e, c) PROVE FALSE
      OBVIOUS
    <3>2. e \in SamePlan(PlanOf[c]) /\ arrival[c] < arrival[e]
      BY <1>4, <2>1, <3>1 DEF SamePlan, Ahead
    <3> QED BY <1>8, <3>2 DEF Ends, Following
  <2>3. AllAheadOpen(e)'
    BY <1>1, <2>1, <2>2 DEF Follows, AllAheadOpen, Ahead
  <2>4. AllCome(e, sending)' /\ InTurn(e, sending)' /\ NoGap(e, sending, started)'
    BY <1>1, <2>1 DEF Follows, AllCome, Comes, Ahead, InTurn, NoGap, Carried, Reaching
  <2> QED BY <2>3, <2>4 DEF Follows
<1>9. At(started)'
  BY <1>5, <1>6, <1>7, <1>8 DEF At
<1> QED BY <1>1, <1>3, <1>9

(* A broken connection is removed: no one who follows has it before it.    *)
LEMMA KeptByNotice ==
    ASSUME TypeOK, Numbered, NobodyIsToldTwice, FollowersSeeARun,
           NEW started \in 0..Len(log), At(started), NEW c \in Connections, Notice(c)
    PROVE  Numbered' /\ NobodyIsToldTwice' /\ FollowersSeeARun'
           /\ \E s \in 0..Len(log') : At(s)'
<1>1. /\ log' = log /\ offset' = offset /\ consumer' = consumer /\ loop' = loop
      /\ scheduled' = scheduled /\ sending' = sending /\ received' = received
      /\ connections' = connections \ {c} /\ arrival' = arrival /\ arrivals' = arrivals
      /\ state[c] = "broken" /\ state'[c] = "closed"
      /\ \A d \in Connections : d # c => state'[d] = state[d]
      /\ disturbed' = disturbed
  BY DEF Notice, topicVars, taskVars, TypeOK
<1>2. \A d \in Connections : state'[d] = "new" <=> state[d] = "new"
  BY <1>1
<1>3. Numbered' /\ NobodyIsToldTwice' /\ FollowersSeeARun'
  BY <1>1, <1>2 DEF Numbered, NobodyIsToldTwice, FollowersSeeARun, InOrder
<1>4. /\ connections = {d \in Connections : state[d] \in {"open", "broken", "dead"}}
      /\ connections \subseteq Connections
  BY DEF At, Ordered
<1>5. Ordered(started)'
  <2>1. connections' = {d \in Connections : state'[d] \in {"open", "broken", "dead"}}
    BY <1>1, <1>4
  <2>2. ~loop' => connections' = {} /\ scheduled' = <<>>
    BY <1>1 DEF At, Ordered
  <2> QED BY <1>1, <2>1, <2>2 DEF At, Ordered
<1>6. \A i \in DOMAIN sending : sending[i].at \in Connections /\ sending[i].rest \subseteq Connections
  <2>1. sending \in Seq(Broadcasts)
    BY DEF TypeOK, Broadcasts
  <2>2. \A i \in DOMAIN sending : sending[i] \in Broadcasts
    BY <2>1, LenProperties, ElementOfSeq
  <2> QED BY <2>2 DEF Broadcasts
<1>7. Walking(sending, started)'
  BY <1>1, <1>2, <1>6 DEF At, Walking, Walks
<1>8. Heard(started)'
  BY <1>1 DEF At, Heard
<1>9. ASSUME NEW e \in Connections, Following(e)' PROVE Follows(e, sending, started)'
  <2>1. e # c /\ state[e] = "open" /\ Follows(e, sending, started)
    BY <1>1, <1>9 DEF Following, At
  <2>2. ~Ahead(e, c)
    BY <1>1, <2>1 DEF Follows, AllAheadOpen
  <2>3. \A d : Ahead(e, d)' <=> Ahead(e, d)
    BY <1>1, <2>2 DEF Ahead
  <2>4. AllAheadOpen(e)'
    BY <1>1, <2>1, <2>2, <2>3 DEF Follows, AllAheadOpen
  <2>5. ASSUME NEW i \in Reaching(e, sending) PROVE Comes(sending[i], e)'
    <3>1. Comes(sending[i], e) /\ i \in DOMAIN sending /\ e \in sending[i].rest
      BY <2>1 DEF Follows, AllCome, Reaching
    <3>2. \A d \in sending[i].rest : PlanOf[d] = PlanOf[e]
      BY <3>1 DEF At, Walking, Walks
    <3>3. ASSUME NEW d \in sending[i].rest, arrival[d] < arrival[e] PROVE d \in connections \ {c}
      <4>1. d \in connections
        BY <3>1, <3>3 DEF Comes
      <4>2. Ahead(e, d)
        BY <3>2, <3>3, <4>1 DEF Ahead
      <4> QED BY <2>2, <4>1, <4>2
    <3> QED BY <1>1, <2>3, <3>1, <3>3 DEF Comes
  <2>6. AllCome(e, sending)'
    BY <1>1, <2>5 DEF AllCome, Reaching, Comes
  <2>7. InTurn(e, sending)' /\ NoGap(e, sending, started)'
    BY <1>1, <2>1 DEF Follows, InTurn, NoGap, Carried, Reaching
  <2> QED BY <2>4, <2>6, <2>7 DEF Follows
<1>10. At(started)'
  BY <1>5, <1>7, <1>8, <1>9 DEF At
<1> QED BY <1>1, <1>3, <1>10

(* After a restart no one is connected, and what was sent stays sent.      *)
LEMMA KeptByRestart ==
    ASSUME TypeOK, Numbered, NobodyIsToldTwice, FollowersSeeARun, Restart
    PROVE  Numbered' /\ NobodyIsToldTwice' /\ FollowersSeeARun'
           /\ \E s \in 0..Len(log') : At(s)'
<1>1. /\ log' = log /\ offset' = offset /\ consumer' = "polling"
      /\ connections' = {} /\ scheduled' = <<>> /\ sending' = <<>>
      /\ arrival' = arrival /\ arrivals' = arrivals /\ received' = received /\ disturbed' = disturbed
      /\ \A c \in Connections :
            /\ state'[c] = "new" <=> state[c] = "new"
            /\ state'[c] \in {"new", "closed"}
  BY DEF Restart
<1>2. Numbered' /\ NobodyIsToldTwice' /\ FollowersSeeARun'
  BY <1>1 DEF Numbered, NobodyIsToldTwice, FollowersSeeARun, InOrder
<1>3. /\ offset \in Nat /\ offset \in 0..Len(log) /\ Len(log) \in Nat
      /\ Len(scheduled') = 0 /\ DOMAIN scheduled' = {} /\ DOMAIN sending' = {}
  BY <1>1, LenProperties DEF TypeOK
<1>4. Ordered(offset)'
  <2>1. connections' = {c \in Connections : state'[c] \in {"open", "broken", "dead"}}
    BY <1>1
  <2> QED BY <1>1, <1>3, <2>1 DEF Ordered
<1>5. Walking(sending, offset)' /\ Heard(offset)'
  BY <1>1, <1>3 DEF Walking, Heard
<1>6. \A c \in Connections : ~Following(c)'
  BY <1>1 DEF Following
<1>7. PICK s \in 0..Len(log) : s = offset
  BY <1>3
<1>8. At(s)'
  BY <1>1, <1>4, <1>5, <1>6, <1>7 DEF At, Ordered, Walking, Heard
<1> QED BY <1>1, <1>2, <1>8

-----------------------------------------------------------------------------
(* The theorems. *)

LEMMA RealtimeInvInit == Init => RealtimeInv
<1> SUFFICES ASSUME Init PROVE RealtimeInv
  OBVIOUS
<1>1. /\ log = <<>> /\ Len(log) = 0 /\ offset = 0 /\ consumer = "polling" /\ ~loop
      /\ connections = {} /\ scheduled = <<>> /\ sending = <<>>
      /\ Len(scheduled) = 0 /\ DOMAIN scheduled = {} /\ DOMAIN sending = {}
      /\ \A c \in Connections :
            state[c] = "new" /\ received[c] = <<>> /\ DOMAIN received[c] = {} /\ Range(received[c]) = {}
  BY DEF Init, Range
<1>2. Numbered /\ NobodyIsToldTwice /\ FollowersSeeARun
  BY <1>1 DEF Numbered, NobodyIsToldTwice, FollowersSeeARun, InOrder, IsInjective
<1>3. Ordered(0) /\ Walking(sending, 0) /\ Heard(0)
  BY <1>1 DEF Ordered, Walking, Heard
<1>4. At(0) /\ 0 \in 0..Len(log)
  BY <1>1, <1>3 DEF At, Following
<1> QED BY <1>2, <1>4, TypedInit DEF RealtimeInv

LEMMA RealtimeInvNext == RealtimeInv /\ [Next]_vars => RealtimeInv'
<1> SUFFICES ASSUME RealtimeInv, [Next]_vars PROVE RealtimeInv'
  OBVIOUS
<1>1. PICK started \in 0..Len(log) : At(started)
  BY DEF RealtimeInv
<1>2. TypeOK /\ Numbered /\ NobodyIsToldTwice /\ FollowersSeeARun
  BY DEF RealtimeInv
<1>3. TypeOK'
  BY <1>2, TypedNext
<1> DEFINE Kept == Numbered' /\ NobodyIsToldTwice' /\ FollowersSeeARun'
                   /\ \E s \in 0..Len(log') : At(s)'
<1> SUFFICES Kept
  BY <1>3 DEF RealtimeInv
<1>4. ASSUME NEW p \in Plans, Publish(p) PROVE Kept
  BY <1>1, <1>2, <1>4, KeptByPublish DEF Publish
<1>5. CASE Poll \/ Commit \/ ConsumerDies
  BY <1>1, <1>2, <1>5, KeptByThread
<1>6. ASSUME NEW c \in Connections, Connect(c) PROVE Kept
  BY <1>1, <1>2, <1>6, KeptByConnect
<1>7. ASSUME NEW c \in Connections, Command(c) PROVE Kept
  <2>1. PlanOf[c] \in Plans
    BY PlanOfAssumption
  <2> QED BY <1>1, <1>2, <1>7, <2>1, KeptByPublish DEF Command
<1>8. ASSUME NEW c \in Connections, Break(c) PROVE Kept
  BY <1>1, <1>2, <1>8, KeptByEnds DEF Break
<1>9. ASSUME NEW c \in Connections, InvalidCommand(c) PROVE Kept
  BY <1>1, <1>2, <1>9, KeptByEnds DEF InvalidCommand
<1>10. ASSUME NEW c \in Connections, Notice(c) PROVE Kept
  BY <1>1, <1>2, <1>10, KeptByNotice
<1>11. CASE Start
  BY <1>1, <1>2, <1>11, KeptByStart
<1>12. ASSUME NEW k \in DOMAIN sending, Continue(k) PROVE Kept
  BY <1>1, <1>2, <1>12, KeptByContinue
<1>13. CASE Restart
  BY <1>2, <1>13, KeptByRestart
<1>14. CASE UNCHANGED vars
  <2>1. Quiet /\ UNCHANGED <<sending, received>> /\ log' = log
    BY <1>14 DEF vars, Quiet
  <2>2. Ordered(started)'
    BY <1>1, <1>14 DEF vars, At, Ordered
  <2>3. started \in Nat
    BY <1>1 DEF At, Ordered
  <2> QED BY <1>1, <1>2, <2>1, <2>2, <2>3, ThreadKeeps
<1> QED
  BY <1>4, <1>5, <1>6, <1>7, <1>8, <1>9, <1>10, <1>11, <1>12, <1>13, <1>14 DEF Next

(* What is on its way to the clients is so in order: the inductive         *)
(* invariant from which the promises to them follow.                       *)
THEOREM RealtimeInvIsInductive == Spec => []RealtimeInv
<1> QED BY RealtimeInvInit, RealtimeInvNext, PTL DEF Spec

(* No client sees an event twice or one of another plan, in whatever order *)
(* the thread and the broadcasts run, connections break or die, and the    *)
(* process restarts.                                                       *)
THEOREM NobodyIsToldTwiceCorrect == Spec => []NobodyIsToldTwice
<1>1. RealtimeInv => NobodyIsToldTwice
  BY DEF RealtimeInv
<1> QED BY <1>1, RealtimeInvIsInductive, PTL

(* A client that no connection before it disturbed by ending sees the      *)
(* events of its plan in order, and every one from the first to the last   *)
(* that it sees.                                                           *)
THEOREM FollowersCorrect == Spec => []FollowersSeeARun
<1>1. RealtimeInv => FollowersSeeARun
  BY DEF RealtimeInv
<1> QED BY <1>1, RealtimeInvIsInductive, PTL

=============================================================================
