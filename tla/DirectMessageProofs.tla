------------------------- MODULE DirectMessageProofs -------------------------
(***************************************************************************)
(* Theorems about DirectMessage, for any players, messages and mishaps: an *)
(* answer finds the message it is about, and Delivered is said of messages *)
(* that can be read, as long as the sender's own server has not restarted  *)
(* and begun the counter of its identifiers again; what is shown can be    *)
(* read at any time.                                                       *)
(***************************************************************************)
EXTENDS DirectMessage, SequenceTheorems, TLAPS

Elements(q) == {q[i] : i \in DOMAIN q}

\* What the identifiers need of the types.
IdsTyped ==
  /\ peerq \in [Server -> Seq(Message)]
  /\ nextId \in [Server -> Nat]
  /\ waiting \in [Server -> SUBSET Request]
  /\ link \in [Server -> Seq(Packet)]
  /\ tasks \in [Server -> SUBSET Task]

\* Somewhere in the two servers and between them, identifier id of the Peer of
\* server s stands for message m.
Mentions(s, id, m) ==
  \/ \E w \in waiting[s] : w.id = id /\ w.m = m
  \/ \E t \in tasks[Other(s)] : t.id = id /\ t.m = m
  \/ \E p \in Elements(link[Other(s)]) : p.kind = "DirectMessage" /\ p.id = id /\ p.m = m
  \/ \E p \in Elements(link[s]) : p.kind = "DirectMessageResponse" /\ p.id = id /\ p.m = m

\* While the Peer counts on, no identifier is mentioned before the counter has
\* passed it, and each stands for one message.
IdsAreFresh ==
  \A s \in Server : Counts(s) => \A id, m : Mentions(s, id, m) => id \in 0..nextId[s]-1
IdsAreUnique ==
  \A s \in Server : Counts(s) =>
    \A id, m, n : Mentions(s, id, m) /\ Mentions(s, id, n) => m = n

Identified == IdsTyped /\ IdsAreFresh /\ IdsAreUnique

-----------------------------------------------------------------------------
LEMMA OtherServer ==
  ASSUME NEW s \in Server
  PROVE  /\ Other(s) \in Server /\ Other(s) # s
         /\ Other(Other(s)) = s
         /\ \A x \in Server : x # s => x = Other(s)
<1>1. PICK a, b \in Server : a # b /\ Server = {a, b}
  BY ServerAssumption DEF ServerAssumption
<1>2. ASSUME NEW x \in Server
      PROVE  Other(x) \in Server /\ Other(x) # x
  <2>1. \E y \in Server : y # x
    BY <1>1
  <2> QED BY <2>1 DEF Other
<1> QED BY <1>1, <1>2

LEMMA ElementsOfTail ==
  ASSUME NEW T, NEW q \in Seq(T), q # << >>
  PROVE  /\ Tail(q) \in Seq(T)
         /\ Elements(Tail(q)) \subseteq Elements(q)
         /\ Head(q) \in Elements(q) /\ Head(q) \in T
BY DEF Elements

LEMMA ElementsOfAppend ==
  ASSUME NEW T, NEW q \in Seq(T), NEW e \in T
  PROVE  /\ Append(q, e) \in Seq(T)
         /\ Elements(Append(q, e)) \subseteq Elements(q) \cup {e}
BY DEF Elements

LEMMA ElementsOfSubSeq ==
  ASSUME NEW T, NEW q \in Seq(T), NEW i \in 1..Len(q)+1, NEW j \in 0..Len(q)
  PROVE  /\ SubSeq(q, i, j) \in Seq(T)
         /\ Elements(SubSeq(q, i, j)) \subseteq Elements(q)
<1>1. /\ SubSeq(q, i, j) \in Seq(T)
      /\ Len(SubSeq(q, i, j)) = IF i <= j THEN j-i+1 ELSE 0
      /\ \A k \in 1..(j-i+1) : SubSeq(q, i, j)[k] = q[i+k-1]
  BY SubSeqProperties
<1>2. PICK a \in Seq(T) :
        /\ a = SubSeq(q, i, j)
        /\ Len(a) = IF i <= j THEN j-i+1 ELSE 0
        /\ \A k \in 1..(j-i+1) : a[k] = q[i+k-1]
  BY <1>1
<1>3. ASSUME NEW k \in DOMAIN a
      PROVE  a[k] \in Elements(q)
  <2>1. k \in 1..(j-i+1) /\ i+k-1 \in 1..Len(q)
    BY <1>2
  <2> QED BY <1>2, <2>1 DEF Elements
<1> QED BY <1>2, <1>3 DEF Elements

LEMMA ElementsWithout ==
  ASSUME NEW T, NEW q \in Seq(T), NEW i \in 1..Len(q)
  PROVE  /\ Without(q, i) \in Seq(T)
         /\ Elements(Without(q, i)) \subseteq Elements(q)
<1>1. /\ 1 \in 1..Len(q)+1 /\ i-1 \in 0..Len(q)
      /\ i+1 \in 1..Len(q)+1 /\ Len(q) \in 0..Len(q)
  OBVIOUS
<1>2. /\ SubSeq(q, 1, i-1) \in Seq(T) /\ Elements(SubSeq(q, 1, i-1)) \subseteq Elements(q)
      /\ SubSeq(q, i+1, Len(q)) \in Seq(T) /\ Elements(SubSeq(q, i+1, Len(q))) \subseteq Elements(q)
  BY ONLY <1>1, ElementsOfSubSeq, q \in Seq(T)
<1>3. ASSUME NEW a \in Seq(T), NEW b \in Seq(T)
      PROVE  a \o b \in Seq(T) /\ Elements(a \o b) \subseteq Elements(a) \cup Elements(b)
  <2>1. a \o b \in Seq(T) /\ Len(a \o b) = Len(a) + Len(b)
    OBVIOUS
  <2>2. ASSUME NEW k \in 1..Len(a \o b)
        PROVE  (a \o b)[k] \in Elements(a) \cup Elements(b)
    <3>1. CASE k <= Len(a)
      BY <2>1, <3>1 DEF Elements
    <3>2. CASE k > Len(a)
      <4>1. (a \o b)[k] = b[k - Len(a)] /\ k - Len(a) \in 1..Len(b)
        BY <2>1, <3>2
      <4> QED BY <4>1 DEF Elements
    <3> QED BY <2>1, <3>1, <3>2
  <2> QED BY <2>1, <2>2 DEF Elements
<1>4. PICK a \in Seq(T) : a = SubSeq(q, 1, i-1) /\ Elements(a) \subseteq Elements(q)
  BY <1>2
<1>5. PICK b \in Seq(T) : b = SubSeq(q, i+1, Len(q)) /\ Elements(b) \subseteq Elements(q)
  BY <1>2
<1>6. a \o b \in Seq(T) /\ Elements(a \o b) \subseteq Elements(q)
  <2>1. a \o b \in Seq(T) /\ Elements(a \o b) \subseteq Elements(a) \cup Elements(b)
    BY <1>3
  <2> QED BY ONLY <1>4, <1>5, <2>1
<1> QED BY <1>4, <1>5, <1>6 DEF Without

-----------------------------------------------------------------------------
(* What a step may do to what the identifiers stand for *)

\* A step that only takes away, and keeps the identifiers of the side tasks, and
\* the counters of the servers that have not restarted.
Shrinks ==
  /\ restarted \subseteq restarted'
  /\ \A x \in Server : Counts(x)' => nextId'[x] = nextId[x]
  /\ \A x \in Server :
       /\ waiting'[x] \subseteq waiting[x]
       /\ Elements(link'[x]) \subseteq Elements(link[x])
       /\ \A t \in tasks'[x] : \E u \in tasks[x] : u.id = t.id /\ u.m = t.m

LEMMA ShrinkingIsSafe ==
  ASSUME Identified, Shrinks, IdsTyped'
  PROVE  Identified'
<1>1. ASSUME NEW s \in Server, NEW id, NEW m, Mentions(s, id, m)'
      PROVE  Mentions(s, id, m)
  <2>1. Other(s) \in Server
    BY OtherServer
  <2>2. CASE \E w \in waiting'[s] : w.id = id /\ w.m = m
    BY <2>2 DEF Mentions, Shrinks
  <2>3. CASE \E t \in tasks'[Other(s)] : t.id = id /\ t.m = m
    BY <2>1, <2>3 DEF Mentions, Shrinks
  <2>4. CASE \E p \in Elements(link'[Other(s)]) : p.kind = "DirectMessage" /\ p.id = id /\ p.m = m
    BY <2>1, <2>4 DEF Mentions, Shrinks
  <2>5. CASE \E p \in Elements(link'[s]) : p.kind = "DirectMessageResponse" /\ p.id = id /\ p.m = m
    BY <2>5 DEF Mentions, Shrinks
  <2> QED BY <1>1, <2>2, <2>3, <2>4, <2>5 DEF Mentions
<1> QED BY <1>1 DEF Identified, IdsAreFresh, IdsAreUnique, Shrinks, Counts

\* A step that passes an identifier on.
LEMMA PassingOnIsSafe ==
  ASSUME Identified, UNCHANGED <<nextId, restarted>>, IdsTyped',
         \A s \in Server : \A id, m : Mentions(s, id, m)' => Mentions(s, id, m)
  PROVE  Identified'
BY DEF Identified, IdsAreFresh, IdsAreUnique, Counts
-----------------------------------------------------------------------------
(* The actions *)

\* The actions at the ends leave servers and link to each other alone.
LEMMA SendStep ==
  ASSUME IdsTyped, NEW m \in Message, NEW from \in Known, NEW to \in Name,
         Send(m, from, to) \/ SendForbidden(m, from, to) \/ Receipt(m)
  PROVE  Shrinks /\ IdsTyped'
<1>1. UNCHANGED <<nextId, waiting, link, tasks, restarted>>
  BY DEF Send, SendForbidden, Receipt, faults
<1>2. peerq' \in [Server -> Seq(Message)]
  <2>1. Home[from] \in Server
    BY PlayersAssumption DEF PlayersAssumption
  <2>2. peerq' = peerq \/ peerq' = [peerq EXCEPT ![Home[from]] = Append(@, m)]
    BY DEF Send, SendForbidden, Receipt
  <2>3. peerq[Home[from]] \in Seq(Message)
    BY <2>1 DEF IdsTyped
  <2>4. Append(peerq[Home[from]], m) \in Seq(Message)
    BY <2>3
  <2> QED BY <2>1, <2>2, <2>4 DEF IdsTyped
<1> QED BY <1>1, <1>2 DEF Shrinks, IdsTyped

\* Reading takes the first packet off.
LEMMA ReadingShrinks ==
  ASSUME IdsTyped, NEW s \in Server, link[s] # << >>, link' = [link EXCEPT ![s] = Tail(@)]
  PROVE  /\ link' \in [Server -> Seq(Packet)]
         /\ \A x \in Server : Elements(link'[x]) \subseteq Elements(link[x])
         /\ Head(link[s]) \in Elements(link[s]) /\ Head(link[s]) \in Packet
<1>1. link[s] \in Seq(Packet)
  BY DEF IdsTyped
<1>2. /\ Tail(link[s]) \in Seq(Packet) /\ Elements(Tail(link[s])) \subseteq Elements(link[s])
      /\ Head(link[s]) \in Elements(link[s]) /\ Head(link[s]) \in Packet
  BY <1>1, ElementsOfTail
<1> QED BY <1>2 DEF IdsTyped

LEMMA AnswerStep ==
  ASSUME IdsTyped, NEW s \in Server, Answer(s)
  PROVE  Shrinks /\ IdsTyped'
<1>1. UNCHANGED <<peerq, nextId, tasks, restarted>>
  BY DEF Answer, faults
<1>2. waiting' \in [Server -> SUBSET Request] /\ \A x \in Server : waiting'[x] \subseteq waiting[x]
  BY DEF Answer, IdsTyped
<1>3. /\ link' \in [Server -> Seq(Packet)]
      /\ \A x \in Server : Elements(link'[x]) \subseteq Elements(link[x])
  BY ReadingShrinks DEF Answer
<1> QED BY <1>1, <1>2, <1>3 DEF Shrinks, IdsTyped

LEMMA ExpireStep ==
  ASSUME IdsTyped, NEW s \in Server, Expire(s)
  PROVE  Shrinks /\ IdsTyped'
<1>1. UNCHANGED <<peerq, nextId, tasks, link, restarted>>
  BY DEF Expire
<1>2. waiting' \in [Server -> SUBSET Request] /\ \A x \in Server : waiting'[x] \subseteq waiting[x]
  BY DEF Expire, IdsTyped
<1> QED BY <1>1, <1>2 DEF Shrinks, IdsTyped

LEMMA DeliverStep ==
  ASSUME IdsTyped, NEW s \in Server, Deliver(s)
  PROVE  Shrinks /\ IdsTyped'
<1>1. UNCHANGED <<peerq, nextId, waiting, link, restarted>>
  BY DEF Deliver, faults
<1>2. \E r : \E status \in Final : Tell(s, r, status)
  <2>1. PICK status \in Outcome(Head(dirq[s]).m) : Tell(s, Head(dirq[s]), status)
    BY DEF Deliver
  <2>2. status \in Final
    BY DEF Outcome, Final
  <2> QED BY <2>1, <2>2
<1>. PICK r : \E status \in Final : Tell(s, r, status)
  BY <1>2
<1>. PICK status \in Final : Tell(s, r, status)
  OBVIOUS
<1>3. CASE tasks' = tasks
  BY <1>1, <1>3 DEF Shrinks, IdsTyped
<1>4. CASE tasks' = [tasks EXCEPT ![s] = {IF t.id = r.id /\ t.m = r.m THEN [t EXCEPT !.status = status] ELSE t : t \in @}]
  <2>1. ASSUME NEW x \in Server, NEW t \in tasks'[x]
        PROVE  t \in Task /\ \E u \in tasks[x] : u.id = t.id /\ u.m = t.m
    <3>1. CASE x # s
      BY <1>4, <2>1, <3>1 DEF IdsTyped, Task
    <3>2. CASE x = s
      <4>1. PICK u \in tasks[s] : t = IF u.id = r.id /\ u.m = r.m THEN [u EXCEPT !.status = status] ELSE u
        BY <1>4, <2>1, <3>2 DEF IdsTyped
      <4>2. u \in Task /\ status \in Status
        BY DEF IdsTyped, Status
      <4>3. [u EXCEPT !.status = status] \in Task /\ [u EXCEPT !.status = status].id = u.id
            /\ [u EXCEPT !.status = status].m = u.m
        BY <4>2 DEF Task
      <4> QED BY <3>2, <4>1, <4>2, <4>3
    <3> QED BY <3>1, <3>2
  <2>2. tasks' \in [Server -> SUBSET Task]
    BY <1>4, <2>1 DEF IdsTyped
  <2> QED BY <1>1, <2>1, <2>2 DEF Shrinks, IdsTyped
<1> QED BY <1>3, <1>4 DEF Tell

LEMMA LoseStep ==
  ASSUME IdsTyped, NEW s \in Server, Lose(s)
  PROVE  Shrinks /\ IdsTyped'
<1>1. UNCHANGED <<peerq, nextId, waiting, tasks, restarted>>
  BY DEF Lose
<1>2. PICK i \in 1..Len(link[s]) : link' = [link EXCEPT ![s] = Without(@, i)]
  BY DEF Lose
<1>3. Without(link[s], i) \in Seq(Packet) /\ Elements(Without(link[s], i)) \subseteq Elements(link[s])
  BY ElementsWithout DEF IdsTyped
<1>4. /\ link' \in [Server -> Seq(Packet)]
      /\ \A x \in Server : Elements(link'[x]) \subseteq Elements(link[x])
  BY <1>2, <1>3 DEF IdsTyped
<1> QED BY <1>1, <1>4 DEF Shrinks, IdsTyped

LEMMA ReconnectStep ==
  ASSUME IdsTyped, Reconnect
  PROVE  Shrinks /\ IdsTyped'
BY DEF Reconnect, Shrinks, IdsTyped, Elements, faults

\* What the end of a process leaves behind belongs to the other server's Peer.
LEMMA CrashStep ==
  ASSUME IdsTyped, NEW s \in Server, Crash(s)
  PROVE  Shrinks /\ IdsTyped'
<1>1. Other(s) \in Server /\ Other(s) # s /\ \A x \in Server : x # s => x = Other(s)
  BY OtherServer
<1>2. /\ restarted' = restarted \cup {s}
      /\ nextId' = [nextId EXCEPT ![s] = 0]
      /\ waiting' = [waiting EXCEPT ![s] = {}]
      /\ tasks' = [tasks EXCEPT ![s] = {}]
      /\ peerq' = [peerq EXCEPT ![s] = << >>]
  BY DEF Crash
<1>3. PICK j \in 0..Len(link[Other(s)]) :
        link' = [link EXCEPT ![s] = << >>, ![Other(s)] = SubSeq(@, 1, j)]
  BY DEF Crash
<1>4. PICK q : q = SubSeq(link[Other(s)], 1, j)
  OBVIOUS
<1>5. q \in Seq(Packet) /\ Elements(q) \subseteq Elements(link[Other(s)])
  <2>1. link[Other(s)] \in Seq(Packet) /\ 1 \in 1..Len(link[Other(s)])+1
    BY <1>1 DEF IdsTyped
  <2> QED BY <1>4, <2>1, ElementsOfSubSeq
<1>6. << >> \in Seq(Packet) /\ << >> \in Seq(Message) /\ Elements(<< >>) = {}
  BY DEF Elements
<1>7. /\ link' \in [Server -> Seq(Packet)]
      /\ link'[s] = << >> /\ link'[Other(s)] = q
  <2>1. link' = [link EXCEPT ![s] = << >>, ![Other(s)] = q]
    BY <1>1, <1>3, <1>4 DEF IdsTyped
  <2> QED BY <1>1, <1>5, <1>6, <2>1 DEF IdsTyped
<1>8. \A x \in Server : Elements(link'[x]) \subseteq Elements(link[x])
  BY <1>1, <1>5, <1>6, <1>7
<1>9. /\ waiting' \in [Server -> SUBSET Request] /\ \A x \in Server : waiting'[x] \subseteq waiting[x]
      /\ tasks' \in [Server -> SUBSET Task] /\ \A x \in Server : tasks'[x] \subseteq tasks[x]
      /\ peerq' \in [Server -> Seq(Message)]
  BY <1>2, <1>6 DEF IdsTyped
<1>10. nextId' \in [Server -> Nat] /\ \A x \in Server : Counts(x)' => nextId'[x] = nextId[x]
  BY <1>2 DEF IdsTyped, Counts
<1> QED BY <1>2, <1>7, <1>8, <1>9, <1>10 DEF Shrinks, IdsTyped

LEMMA PostAdds ==
  ASSUME IdsTyped, NEW s \in Server, NEW packet \in Packet, Post(s, packet)
  PROVE  /\ link' \in [Server -> Seq(Packet)]
         /\ \A x \in Server : Elements(link'[x]) \subseteq Elements(link[x]) \cup {packet}
         /\ Elements(link'[s]) \subseteq Elements(link[s])
<1>1. Other(s) \in Server /\ Other(s) # s
  BY OtherServer
<1>2. /\ Append(link[Other(s)], packet) \in Seq(Packet)
      /\ Elements(Append(link[Other(s)], packet)) \subseteq Elements(link[Other(s)]) \cup {packet}
  BY <1>1, ElementsOfAppend DEF IdsTyped
<1> QED BY <1>1, <1>2 DEF Post, IdsTyped

\* A request becomes a side task with its identifier.
LEMMA ArriveStep ==
  ASSUME Identified, NEW s \in Server, Arrive(s)
  PROVE  Identified'
<1> DEFINE p == Head(link[s])
           task == [id |-> p.id, m |-> p.m, status |-> "Queued", told |-> "Outstanding"]
<1>1. link[s] # << >> /\ p.kind = "DirectMessage" /\ link' = [link EXCEPT ![s] = Tail(@)]
  BY DEF Arrive, Arriving
<1>2. /\ link' \in [Server -> Seq(Packet)]
      /\ \A x \in Server : Elements(link'[x]) \subseteq Elements(link[x])
      /\ p \in Elements(link[s]) /\ p \in Packet
  BY <1>1, ReadingShrinks DEF Identified
<1>3. /\ UNCHANGED <<peerq, nextId, waiting, restarted>>
      /\ tasks' = [tasks EXCEPT ![s] = @ \cup {task}]
  BY DEF Arrive, faults
<1>4. task \in Task
  BY <1>2 DEF Task, Packet, Status, View, Final
<1>5. tasks' \in [Server -> SUBSET Task] /\ \A x \in Server : x # s => tasks'[x] = tasks[x]
  BY <1>3, <1>4 DEF Identified, IdsTyped
<1>6. IdsTyped'
  BY <1>2, <1>3, <1>5 DEF Identified, IdsTyped
<1>7. ASSUME NEW x \in Server, NEW id, NEW m, Mentions(x, id, m)'
      PROVE  Mentions(x, id, m)
  <2>1. Other(x) \in Server
    BY OtherServer
  <2>2. CASE \E w \in waiting'[x] : w.id = id /\ w.m = m
    BY <1>3, <2>2 DEF Mentions
  <2>3. CASE \E t \in tasks'[Other(x)] : t.id = id /\ t.m = m
    <3>1. PICK t \in tasks'[Other(x)] : t.id = id /\ t.m = m
      BY <2>3
    <3>2. CASE t \in tasks[Other(x)]
      BY <3>1, <3>2 DEF Mentions
    <3>3. CASE t \notin tasks[Other(x)]
      <4>1. Other(x) = s
        BY <1>5, <2>1, <3>1, <3>3
      <4>2. t = task
        BY <1>3, <3>1, <3>3, <4>1 DEF Identified, IdsTyped
      <4>3. p.id = id /\ p.m = m
        BY <3>1, <4>2
      <4> QED BY <1>1, <1>2, <4>1, <4>3 DEF Mentions
    <3> QED BY <3>2, <3>3
  <2>4. CASE \E k \in Elements(link'[Other(x)]) : k.kind = "DirectMessage" /\ k.id = id /\ k.m = m
    BY <1>2, <2>1, <2>4 DEF Mentions
  <2>5. CASE \E k \in Elements(link'[x]) : k.kind = "DirectMessageResponse" /\ k.id = id /\ k.m = m
    BY <1>2, <2>5 DEF Mentions
  <2> QED BY <1>7, <2>2, <2>3, <2>4, <2>5 DEF Mentions
<1> QED BY <1>3, <1>6, <1>7, PassingOnIsSafe

\* A request that is turned away becomes an answer with its identifier.
LEMMA ArriveForbiddenStep ==
  ASSUME Identified, NEW s \in Server, ArriveForbidden(s)
  PROVE  Identified'
<1> DEFINE p == Head(link[s])
           answer == Answers(p.id, p.m, "Forbidden")
<1>1. link[s] # << >> /\ p.kind = "DirectMessage"
  BY DEF ArriveForbidden, Arriving
<1>2. Other(s) \in Server /\ Other(s) # s /\ \A x \in Server : x # s => x = Other(s)
  BY OtherServer
<1>3. link[s] \in Seq(Packet) /\ link[Other(s)] \in Seq(Packet)
  BY <1>2 DEF Identified, IdsTyped
<1>4. /\ Tail(link[s]) \in Seq(Packet) /\ Elements(Tail(link[s])) \subseteq Elements(link[s])
      /\ p \in Elements(link[s]) /\ p \in Packet
  BY <1>1, <1>3, ElementsOfTail
<1>5. answer \in Packet
  BY <1>4 DEF Packet, Answers, Status, Final
<1>6. /\ Append(link[Other(s)], answer) \in Seq(Packet)
      /\ Elements(Append(link[Other(s)], answer)) \subseteq Elements(link[Other(s)]) \cup {answer}
  BY <1>3, <1>5, ElementsOfAppend
<1>7. /\ link' = [link EXCEPT ![s] = Tail(@), ![Other(s)] = IF s \in stale THEN @ ELSE Append(@, answer)]
      /\ UNCHANGED <<peerq, nextId, waiting, tasks, restarted>>
  BY DEF ArriveForbidden, faults
<1>8. /\ link' \in [Server -> Seq(Packet)]
      /\ link'[s] = Tail(link[s])
      /\ link'[Other(s)] \in {link[Other(s)], Append(link[Other(s)], answer)}
  BY <1>2, <1>4, <1>6, <1>7 DEF Identified, IdsTyped
<1>9. /\ Elements(link'[s]) \subseteq Elements(link[s])
      /\ Elements(link'[Other(s)]) \subseteq Elements(link[Other(s)]) \cup {answer}
  BY <1>4, <1>6, <1>8
<1>10. answer.kind = "DirectMessageResponse" /\ answer.id = p.id /\ answer.m = p.m
  BY DEF Answers
<1>11. ASSUME NEW x \in Server, NEW id, NEW m, Mentions(x, id, m)'
       PROVE  Mentions(x, id, m)
  <2>1. Other(x) \in Server /\ Other(Other(s)) = s
    BY OtherServer
  <2>2. CASE \E w \in waiting'[x] : w.id = id /\ w.m = m
    BY <1>7, <2>2 DEF Mentions
  <2>3. CASE \E t \in tasks'[Other(x)] : t.id = id /\ t.m = m
    BY <1>7, <2>3 DEF Mentions
  <2>4. CASE \E k \in Elements(link'[Other(x)]) : k.kind = "DirectMessage" /\ k.id = id /\ k.m = m
    BY <1>2, <1>9, <1>10, <2>1, <2>4 DEF Mentions
  <2>5. CASE \E k \in Elements(link'[x]) : k.kind = "DirectMessageResponse" /\ k.id = id /\ k.m = m
    <3>1. PICK k \in Elements(link'[x]) : k.kind = "DirectMessageResponse" /\ k.id = id /\ k.m = m
      BY <2>5
    <3>2. CASE k \in Elements(link[x])
      BY <3>1, <3>2 DEF Mentions
    <3>3. CASE k \notin Elements(link[x])
      <4>1. x = Other(s) /\ k = answer
        BY <1>2, <1>9, <3>1, <3>3
      <4> QED BY <1>1, <1>4, <1>10, <2>1, <3>1, <4>1 DEF Mentions
    <3> QED BY <3>2, <3>3
  <2> QED BY <1>11, <2>2, <2>3, <2>4, <2>5 DEF Mentions
<1>12. IdsTyped'
  BY <1>7, <1>8 DEF Identified, IdsTyped
<1> QED BY <1>7, <1>11, <1>12, PassingOnIsSafe

\* A side task puts its identifier on its answers.
LEMMA ReportStep ==
  ASSUME Identified, NEW s \in Server, Report(s)
  PROVE  Identified'
<1>1. PICK t \in tasks[s] :
        /\ Post(s, Answers(t.id, t.m, t.status))
        /\ tasks' = [tasks EXCEPT ![s] = (@ \ {t}) \cup (IF t.status \in Final THEN {} ELSE {[t EXCEPT !.told = t.status]})]
        /\ UNCHANGED <<peerq, nextId, waiting, restarted>>
  BY DEF Report, faults
<1> DEFINE answer == Answers(t.id, t.m, t.status)
           rest == [t EXCEPT !.told = t.status]
<1>2. t \in Task /\ answer \in Packet /\ answer.id = t.id /\ answer.m = t.m /\ answer.kind = "DirectMessageResponse"
  BY DEF Identified, IdsTyped, Task, Packet, Answers
<1>3. rest \in Task /\ rest.id = t.id /\ rest.m = t.m
  BY <1>2 DEF Task, View
<1>4. Other(s) \in Server /\ Other(s) # s /\ \A x \in Server : x # s => x = Other(s)
  BY OtherServer
<1>5. /\ link' \in [Server -> Seq(Packet)]
      /\ \A x \in Server : Elements(link'[x]) \subseteq Elements(link[x]) \cup {answer}
      /\ Elements(link'[s]) \subseteq Elements(link[s])
  BY <1>1, <1>2, PostAdds DEF Identified
<1>6. tasks'[s] \subseteq tasks[s] \cup {rest} /\ \A x \in Server : x # s => tasks'[x] = tasks[x]
  BY <1>1, <1>3 DEF Identified, IdsTyped
<1>7. tasks' \in [Server -> SUBSET Task]
  BY <1>1, <1>3 DEF Identified, IdsTyped
<1>8. ASSUME NEW x \in Server, NEW id, NEW m, Mentions(x, id, m)'
      PROVE  Mentions(x, id, m)
  <2>1. Other(x) \in Server /\ Other(Other(s)) = s
    BY OtherServer
  <2>2. CASE \E w \in waiting'[x] : w.id = id /\ w.m = m
    BY <1>1, <2>2 DEF Mentions
  <2>3. CASE \E k \in tasks'[Other(x)] : k.id = id /\ k.m = m
    <3>1. \E k \in tasks[Other(x)] : k.id = id /\ k.m = m
      BY <1>3, <1>6, <2>1, <2>3
    <3> QED BY <3>1 DEF Mentions
  <2>4. CASE \E k \in Elements(link'[Other(x)]) : k.kind = "DirectMessage" /\ k.id = id /\ k.m = m
    BY <1>2, <1>5, <2>1, <2>4 DEF Mentions
  <2>5. CASE \E k \in Elements(link'[x]) : k.kind = "DirectMessageResponse" /\ k.id = id /\ k.m = m
    <3>1. PICK k \in Elements(link'[x]) : k.kind = "DirectMessageResponse" /\ k.id = id /\ k.m = m
      BY <2>5
    <3>2. CASE k \in Elements(link[x])
      BY <3>1, <3>2 DEF Mentions
    <3>3. CASE k \notin Elements(link[x])
      <4>1. x = Other(s) /\ k = answer
        BY <1>4, <1>5, <3>1, <3>3
      <4> QED BY <1>2, <2>1, <3>1, <4>1 DEF Mentions
    <3> QED BY <3>2, <3>3
  <2> QED BY <1>8, <2>2, <2>3, <2>4, <2>5 DEF Mentions
<1>9. IdsTyped'
  BY <1>1, <1>5, <1>7 DEF Identified, IdsTyped
<1> QED BY <1>1, <1>8, <1>9, PassingOnIsSafe

\* A request takes the identifier nothing has mentioned yet.
LEMMA AskStep ==
  ASSUME Identified, NEW s \in Server, Ask(s)
  PROVE  Identified'
<1> DEFINE m0 == Head(peerq[s])
           id0 == nextId[s]
           request == [id |-> id0, m |-> m0]
           ask == Asks(id0, m0)
<1>1. peerq[s] # << >> /\ peerq' = [peerq EXCEPT ![s] = Tail(@)]
  BY DEF Ask
<1>2. peerq[s] \in Seq(Message)
  BY DEF Identified, IdsTyped
<1>3. m0 \in Message /\ Tail(peerq[s]) \in Seq(Message)
  BY <1>1, <1>2
<1>4. peerq' \in [Server -> Seq(Message)]
  BY <1>1, <1>3 DEF Identified, IdsTyped
<1>5. /\ nextId' = [nextId EXCEPT ![s] = id0 + 1] /\ id0 \in Nat
      /\ waiting' = [waiting EXCEPT ![s] = @ \cup {request}]
      /\ Post(s, ask)
      /\ UNCHANGED <<tasks, restarted>>
  BY DEF Ask, Following, Identified, IdsTyped, faults
<1>6. nextId' \in [Server -> Nat] /\ \A x \in Server : nextId[x] <= nextId'[x]
  BY <1>5 DEF Identified, IdsTyped
<1>7. request \in Request /\ ask \in Packet /\ ask.id = id0 /\ ask.m = m0 /\ ask.kind = "DirectMessage"
  BY <1>3, <1>5 DEF Request, Packet, Asks, Status
<1>8. waiting' \in [Server -> SUBSET Request]
      /\ \A x \in Server : waiting'[x] \subseteq waiting[x] \cup (IF x = s THEN {request} ELSE {})
  BY <1>5, <1>7 DEF Identified, IdsTyped
<1>9. /\ link' \in [Server -> Seq(Packet)]
      /\ \A x \in Server : Elements(link'[x]) \subseteq Elements(link[x]) \cup {ask}
      /\ Elements(link'[s]) \subseteq Elements(link[s])
  BY <1>5, <1>7, PostAdds DEF Identified
<1>10. Other(s) \in Server /\ Other(s) # s /\ \A x \in Server : x # s => x = Other(s)
  BY OtherServer
<1>11. ASSUME NEW x \in Server, NEW id, NEW m, Mentions(x, id, m)'
       PROVE  Mentions(x, id, m) \/ (x = s /\ id = id0 /\ m = m0)
  <2>1. Other(x) \in Server /\ Other(Other(s)) = s
    BY OtherServer
  <2>2. CASE \E w \in waiting'[x] : w.id = id /\ w.m = m
    BY <1>8, <2>2 DEF Mentions
  <2>3. CASE \E t \in tasks'[Other(x)] : t.id = id /\ t.m = m
    BY <1>5, <2>3 DEF Mentions
  <2>4. CASE \E k \in Elements(link'[Other(x)]) : k.kind = "DirectMessage" /\ k.id = id /\ k.m = m
    <3>1. PICK k \in Elements(link'[Other(x)]) : k.kind = "DirectMessage" /\ k.id = id /\ k.m = m
      BY <2>4
    <3>2. CASE k \in Elements(link[Other(x)])
      BY <3>1, <3>2 DEF Mentions
    <3>3. CASE k \notin Elements(link[Other(x)])
      <4>1. Other(x) # s /\ k = ask
        BY <1>9, <2>1, <3>1, <3>3
      <4>2. x = s
        BY <1>10, <2>1, <4>1
      <4> QED BY <1>7, <3>1, <4>1, <4>2
    <3> QED BY <3>2, <3>3
  <2>5. CASE \E k \in Elements(link'[x]) : k.kind = "DirectMessageResponse" /\ k.id = id /\ k.m = m
    BY <1>7, <1>9, <2>5 DEF Mentions
  <2> QED BY <1>11, <2>2, <2>3, <2>4, <2>5 DEF Mentions
<1>12. IdsTyped'
  BY <1>4, <1>5, <1>6, <1>8, <1>9 DEF Identified, IdsTyped
<1>13. ASSUME NEW x \in Server, Counts(x), NEW id, NEW m, Mentions(x, id, m)
       PROVE  id \in 0..nextId'[x]-1 /\ (x = s => id # id0)
  <2>1. id \in 0..nextId[x]-1
    BY <1>13 DEF Identified, IdsAreFresh
  <2> QED BY <1>6, <2>1 DEF Identified, IdsTyped
<1>14. IdsAreFresh'
  BY <1>5, <1>11, <1>13 DEF IdsAreFresh, Identified, IdsTyped, Counts
<1>15. IdsAreUnique'
  BY <1>5, <1>11, <1>13 DEF IdsAreUnique, Identified, Counts
<1> QED BY <1>12, <1>14, <1>15 DEF Identified

-----------------------------------------------------------------------------
LEMMA IdentifiedInit == Init => Identified
<1> SUFFICES ASSUME Init PROVE Identified
  OBVIOUS
<1>1. IdsTyped
  BY DEF Init, IdsTyped
<1>2. ASSUME NEW s \in Server, NEW id, NEW m, Mentions(s, id, m)
      PROVE  FALSE
  BY <1>2, OtherServer DEF Mentions, Init, Elements
<1> QED BY <1>1, <1>2 DEF Identified, IdsAreFresh, IdsAreUnique

LEMMA IdentifiedStep ==
  ASSUME Identified, [Next]_vars
  PROVE  Identified'
<1>1. ASSUME NEW m \in Message, NEW from \in Known, NEW to \in Name,
             Send(m, from, to) \/ SendForbidden(m, from, to)
      PROVE  Identified'
  BY <1>1, SendStep, ShrinkingIsSafe DEF Identified
<1>2. ASSUME NEW m \in Message, Receipt(m)
      PROVE  Identified'
  <2>1. UNCHANGED <<nextId, waiting, link, tasks, peerq, restarted>>
    BY <1>2 DEF Receipt, faults
  <2> QED BY <2>1, ShrinkingIsSafe DEF Identified, IdsTyped, Shrinks
<1>3. ASSUME NEW s \in Server, Answer(s) \/ Expire(s) \/ Deliver(s) \/ Lose(s)
      PROVE  Identified'
  BY <1>3, AnswerStep, ExpireStep, DeliverStep, LoseStep, ShrinkingIsSafe DEF Identified
<1>4. ASSUME NEW s \in Server, Ask(s) \/ Arrive(s) \/ ArriveForbidden(s) \/ Report(s)
      PROVE  Identified'
  BY <1>4, AskStep, ArriveStep, ArriveForbiddenStep, ReportStep
<1>5. ASSUME NEW s \in Server, Crash(s)
      PROVE  Identified'
  BY <1>5, CrashStep, ShrinkingIsSafe DEF Identified
<1>6. CASE Reconnect
  BY <1>6, ReconnectStep, ShrinkingIsSafe DEF Identified
<1>7. CASE UNCHANGED vars
  <2>1. UNCHANGED <<nextId, waiting, link, tasks, peerq, restarted>>
    BY <1>7 DEF vars
  <2> QED BY <2>1, ShrinkingIsSafe DEF Identified, IdsTyped, Shrinks
<1> QED BY <1>1, <1>2, <1>3, <1>4, <1>5, <1>6, <1>7 DEF Next

\* An answer on its way to a Peer that waits under its identifier is about the
\* message the Peer waits for, as long as the Peer's own server has not restarted:
\* the side tasks of the other one die with it (TrackingMap::finish by
\* DirectMessageResponse).
THEOREM AnswersAreForTheAsked == Spec => []AnswersFindTheirMessage
<1>1. Identified /\ [Next]_vars => Identified'
  BY IdentifiedStep
<1>2. Identified => AnswersFindTheirMessage
  BY DEF Identified, IdsAreUnique, Mentions, AnswersFindTheirMessage, Elements
<1> QED BY <1>1, <1>2, IdentifiedInit, PTL DEF Spec

-----------------------------------------------------------------------------
(* Which messages are written, and who says so.                            *)

\* Requests are about messages that were sent, and whoever says Delivered of
\* a message says it of one that its recipient can read.
SentRequest == {r \in Request : r.m \in Sent}
Honest(status, m) == m \in Sent /\ (status = "Delivered" => Written(m))
HonestPacket == {p \in Packet : Honest(p.status, p.m)}
HonestTask == {t \in Task : Honest(t.status, t.m)}

InTransit ==
  /\ peerq \in [Server -> Seq(Sent)]
  /\ waiting \in [Server -> SUBSET SentRequest]
  /\ link \in [Server -> Seq(HonestPacket)]
  /\ tasks \in [Server -> SUBSET HonestTask]
  /\ dirq \in [Server -> Seq(SentRequest)]

\* What of TypeOK is not about messages in transit.
BooksTyped ==
  /\ Sent \subseteq Message
  /\ mail \in [Sent -> [from : Known, to : Name]]
  /\ heard \in [Message -> View]
  /\ watch \in [Message -> View]
  /\ nextId \in [Server -> Nat]
  /\ localChat \subseteq Message
  /\ remoteChat \subseteq [player : Name, m : Message, inbound : BOOLEAN]
  /\ lastRead \subseteq [player : Name, m : Message]
  /\ shown \in [Name -> SUBSET Message]
  /\ stale \subseteq Server
  /\ mishaps \in 0..MaxFaults
  /\ restarted \subseteq Server

Shown == \A n \in Name : \A m \in shown[n] : m \in Sent /\ mail[m].to = n /\ Written(m)

Traced == BooksTyped /\ InTransit /\ Shown

LEMMA SmallerSeq ==
  ASSUME NEW S, NEW T, S \subseteq T
  PROVE  Seq(S) \subseteq Seq(T)
BY SeqMonotonic

LEMMA TracedTypes == Traced => TypeOK
<1> SUFFICES ASSUME Traced PROVE TypeOK
  OBVIOUS
<1>1. /\ Sent \subseteq Message /\ SentRequest \subseteq Request
      /\ HonestPacket \subseteq Packet /\ HonestTask \subseteq Task
  BY DEF Traced, BooksTyped, SentRequest, HonestPacket, HonestTask
<1>2. /\ Seq(Sent) \subseteq Seq(Message)
      /\ Seq(SentRequest) \subseteq Seq(Request)
      /\ Seq(HonestPacket) \subseteq Seq(Packet)
  BY <1>1, SmallerSeq
<1>3. /\ peerq \in [Server -> Seq(Message)]
      /\ waiting \in [Server -> SUBSET Request]
      /\ link \in [Server -> Seq(Packet)]
      /\ tasks \in [Server -> SUBSET Task]
      /\ dirq \in [Server -> Seq(Request)]
  BY <1>1, <1>2 DEF Traced, InTransit
<1> QED BY <1>3 DEF Traced, BooksTyped, TypeOK

\* The two chats and the last_read tables, without direct_message_get's records.
LEMMA WrittenMeans ==
  ASSUME NEW m
  PROVE  Written(m) <=>
           IF m \in Transient
             THEN [player |-> mail[m].to, m |-> m] \in lastRead
             ELSE m \in localChat \/ \E r \in remoteChat : r.player = mail[m].to /\ r.m = m
<1> DEFINE n == mail[m].to
<1>1. ASSUME NEW e \in DirectMessages(n), e.m = m
      PROVE  m \in localChat \/ \E r \in remoteChat : r.player = n /\ r.m = m
  BY <1>1 DEF DirectMessages
<1>2. ASSUME m \in localChat
      PROVE  \E e \in DirectMessages(n) : e.m = m
  <2>1. [m |-> m, inbound |-> mail[m].to = n] \in DirectMessages(n)
    BY <1>2 DEF DirectMessages
  <2> QED BY <2>1
<1>3. ASSUME NEW r \in remoteChat, r.player = n, r.m = m
      PROVE  \E e \in DirectMessages(n) : e.m = m
  <2>1. [m |-> r.m, inbound |-> r.inbound] \in DirectMessages(n)
    BY <1>3 DEF DirectMessages
  <2> QED BY <1>3, <2>1
<1> QED BY <1>1, <1>2, <1>3 DEF Written

LEMMA WrittenAfterwards ==
  ASSUME NEW m
  PROVE  Written(m)' <=>
           IF m \in Transient
             THEN [player |-> mail'[m].to, m |-> m] \in lastRead'
             ELSE m \in localChat' \/ \E r \in remoteChat' : r.player = mail'[m].to /\ r.m = m
<1>1. (Written(m) <=>
         IF m \in Transient
           THEN [player |-> mail[m].to, m |-> m] \in lastRead
           ELSE m \in localChat \/ \E r \in remoteChat : r.player = mail[m].to /\ r.m = m)'
  BY WrittenMeans, PTL
<1> QED BY <1>1

\* Mail is not altered, and rows are only added.
Keeps ==
  /\ \A m \in Sent : m \in Sent' /\ mail'[m] = mail[m]
  /\ localChat \subseteq localChat'
  /\ remoteChat \subseteq remoteChat'
  /\ lastRead \subseteq lastRead'

LEMMA NothingIsErased ==
  ASSUME [Next]_vars
  PROVE  Keeps
<1>1. ASSUME NEW m \in Message, NEW from \in Known, NEW to \in Name,
             Send(m, from, to) \/ SendForbidden(m, from, to)
      PROVE  Keeps
  <2>1. m \notin Sent /\ UNCHANGED rows
        /\ mail' = [n \in Sent \cup {m} |-> IF n = m THEN [from |-> from, to |-> to] ELSE mail[n]]
    BY <1>1 DEF Send, SendForbidden
  <2> QED BY <2>1 DEF Keeps, Sent, rows
<1>2. ASSUME NEW m \in Message, Receipt(m)
      PROVE  Keeps
  BY <1>2 DEF Receipt, Keeps, Sent, rows
<1>3. ASSUME NEW s \in Server, Answer(s)
      PROVE  Keeps
  BY <1>3 DEF Answer, KeepCopy, Keeps, Sent
<1>4. ASSUME NEW s \in Server, Deliver(s)
      PROVE  Keeps
  BY <1>4 DEF Deliver, Write, Keeps, Sent
<1>5. ASSUME NEW s \in Server,
             \/ Ask(s) \/ Expire(s) \/ Arrive(s) \/ ArriveForbidden(s)
             \/ Report(s) \/ Lose(s) \/ Crash(s)
      PROVE  Keeps
  BY <1>5 DEF Ask, Expire, Arrive, ArriveForbidden, Report, Lose, Crash, Keeps, Sent, rows
<1>6. CASE Reconnect \/ UNCHANGED vars
  BY <1>6 DEF Reconnect, vars, Keeps, Sent, rows
<1> QED BY <1>1, <1>2, <1>3, <1>4, <1>5, <1>6 DEF Next

\* What is in transit before the step, by what is sent and written after it.
StillHonest ==
  /\ peerq \in [Server -> Seq(Sent')]
  /\ waiting \in [Server -> SUBSET SentRequest']
  /\ link \in [Server -> Seq(HonestPacket')]
  /\ tasks \in [Server -> SUBSET HonestTask']
  /\ dirq \in [Server -> Seq(SentRequest')]

\* What was true of messages stays true.
LEMMA HonestyLasts ==
  ASSUME Traced, Keeps
  PROVE  StillHonest /\ \A m \in Sent : Written(m) => Written(m)'
<1>1. ASSUME NEW m \in Sent, Written(m)
      PROVE  Written(m)'
  <2>1. mail'[m] = mail[m]
    BY DEF Keeps
  <2>2. IF m \in Transient
          THEN [player |-> mail[m].to, m |-> m] \in lastRead
          ELSE m \in localChat \/ \E r \in remoteChat : r.player = mail[m].to /\ r.m = m
    BY <1>1, WrittenMeans
  <2>3. IF m \in Transient
          THEN [player |-> mail'[m].to, m |-> m] \in lastRead'
          ELSE m \in localChat' \/ \E r \in remoteChat' : r.player = mail'[m].to /\ r.m = m
    BY <2>1, <2>2 DEF Keeps
  <2> QED BY <2>3, WrittenAfterwards
<1>2. Sent \subseteq Sent' /\ SentRequest \subseteq SentRequest'
  BY DEF Keeps, SentRequest
<1>3. HonestPacket \subseteq HonestPacket' /\ HonestTask \subseteq HonestTask'
  BY <1>1, <1>2 DEF HonestPacket, HonestTask, Honest
<1>4. /\ Seq(Sent) \subseteq Seq(Sent')
      /\ Seq(SentRequest) \subseteq Seq(SentRequest')
      /\ Seq(HonestPacket) \subseteq Seq(HonestPacket')
  BY <1>2, <1>3, SmallerSeq
<1> QED BY <1>1, <1>2, <1>3, <1>4 DEF Traced, InTransit, StillHonest

LEMMA PostCarries ==
  ASSUME StillHonest, NEW s \in Server, NEW packet \in HonestPacket', Post(s, packet)
  PROVE  link' \in [Server -> Seq(HonestPacket')]
<1>1. Other(s) \in Server
  BY OtherServer
<1>2. Append(link[Other(s)], packet) \in Seq(HonestPacket')
  BY <1>1, ElementsOfAppend DEF StillHonest
<1> QED BY <1>1, <1>2 DEF Post, StillHonest

LEMMA ReadingCarries ==
  ASSUME StillHonest, NEW s \in Server, link[s] # << >>
  PROVE  /\ Head(link[s]) \in HonestPacket' /\ Tail(link[s]) \in Seq(HonestPacket')
         /\ [link EXCEPT ![s] = Tail(@)] \in [Server -> Seq(HonestPacket')]
<1>1. link[s] \in Seq(HonestPacket')
  BY DEF StillHonest
<1>2. Head(link[s]) \in HonestPacket' /\ Tail(link[s]) \in Seq(HonestPacket')
  BY <1>1, ElementsOfTail
<1> QED BY <1>2 DEF StillHonest

LEMMA SendCarries ==
  ASSUME StillHonest, NEW m \in Message, NEW from \in Known, NEW to \in Name,
         Send(m, from, to) \/ SendForbidden(m, from, to)
  PROVE  InTransit'
<1>1. UNCHANGED <<waiting, link, tasks>> /\ m \in Sent'
  BY DEF Send, SendForbidden, Sent
<1>2. Home[from] \in Server
  BY PlayersAssumption DEF PlayersAssumption
<1>3. [id |-> 0, m |-> m] \in SentRequest'
  BY <1>1 DEF SentRequest, Request
<1>4. /\ Append(dirq[Home[from]], [id |-> 0, m |-> m]) \in Seq(SentRequest')
      /\ Append(peerq[Home[from]], m) \in Seq(Sent')
  BY <1>1, <1>2, <1>3, ElementsOfAppend DEF StillHonest
<1>5. \/ UNCHANGED <<peerq, dirq>>
      \/ dirq' = [dirq EXCEPT ![Home[from]] = Append(@, [id |-> 0, m |-> m])] /\ UNCHANGED peerq
      \/ peerq' = [peerq EXCEPT ![Home[from]] = Append(@, m)] /\ UNCHANGED dirq
  BY DEF Send, SendForbidden
<1>6. /\ peerq' \in [Server -> Seq(Sent')]
      /\ dirq' \in [Server -> Seq(SentRequest')]
  BY <1>2, <1>4, <1>5 DEF StillHonest
<1> QED BY <1>1, <1>6 DEF StillHonest, InTransit

LEMMA AskCarries ==
  ASSUME StillHonest, nextId \in [Server -> Nat], NEW s \in Server, Ask(s), Sent' \subseteq Message
  PROVE  InTransit'
<1> DEFINE m == Head(peerq[s])
           request == [id |-> nextId[s], m |-> m]
<1>1. peerq[s] # << >> /\ peerq[s] \in Seq(Sent')
  BY DEF Ask, StillHonest
<1>2. m \in Sent' /\ Tail(peerq[s]) \in Seq(Sent')
  BY <1>1, ElementsOfTail
<1>3. request \in SentRequest'
  BY <1>2 DEF SentRequest, Request
<1>4. Asks(nextId[s], m) \in HonestPacket'
  BY <1>2 DEF HonestPacket, Honest, Packet, Asks, Status
<1>5. link' \in [Server -> Seq(HonestPacket')]
  BY <1>4, PostCarries DEF Ask
<1>6. /\ peerq' = [peerq EXCEPT ![s] = Tail(@)]
      /\ waiting' = [waiting EXCEPT ![s] = @ \cup {request}]
      /\ UNCHANGED <<tasks, dirq>>
  BY DEF Ask
<1> QED BY <1>2, <1>3, <1>5, <1>6 DEF StillHonest, InTransit

LEMMA AnswerCarries ==
  ASSUME StillHonest, NEW s \in Server, Answer(s) \/ Expire(s)
  PROVE  InTransit'
<1>1. waiting' \in [Server -> SUBSET SentRequest']
  BY DEF Answer, Expire, StillHonest
<1>2. link' \in [Server -> Seq(HonestPacket')]
  BY ReadingCarries DEF Answer, Expire, StillHonest
<1>3. UNCHANGED <<peerq, tasks, dirq>>
  BY DEF Answer, Expire
<1> QED BY <1>1, <1>2, <1>3 DEF StillHonest, InTransit

LEMMA ArriveCarries ==
  ASSUME StillHonest, NEW s \in Server, Arrive(s)
  PROVE  InTransit'
<1> DEFINE p == Head(link[s])
           request == [id |-> p.id, m |-> p.m]
           task == [id |-> p.id, m |-> p.m, status |-> "Queued", told |-> "Outstanding"]
<1>1. link[s] # << >>
  BY DEF Arrive, Arriving
<1>2. p \in HonestPacket' /\ [link EXCEPT ![s] = Tail(@)] \in [Server -> Seq(HonestPacket')]
  BY <1>1, ReadingCarries
<1>3. request \in SentRequest' /\ task \in HonestTask'
  BY <1>2 DEF SentRequest, HonestTask, HonestPacket, Honest, Packet, Request, Task, Status, View
<1>4. Append(dirq[s], request) \in Seq(SentRequest')
  BY <1>3, ElementsOfAppend DEF StillHonest
<1>5. /\ dirq' = [dirq EXCEPT ![s] = Append(@, request)]
      /\ tasks' = [tasks EXCEPT ![s] = @ \cup {task}]
      /\ link' = [link EXCEPT ![s] = Tail(@)]
      /\ UNCHANGED <<peerq, waiting>>
  BY DEF Arrive
<1> QED BY <1>2, <1>3, <1>4, <1>5 DEF StillHonest, InTransit

LEMMA ArriveForbiddenCarries ==
  ASSUME StillHonest, NEW s \in Server, ArriveForbidden(s)
  PROVE  InTransit'
<1> DEFINE p == Head(link[s])
           answer == Answers(p.id, p.m, "Forbidden")
<1>1. link[s] # << >>
  BY DEF ArriveForbidden, Arriving
<1>2. p \in HonestPacket' /\ Tail(link[s]) \in Seq(HonestPacket')
  BY <1>1, ReadingCarries
<1>3. answer \in HonestPacket'
  BY <1>2 DEF HonestPacket, Honest, Packet, Answers, Status, Final
<1>4. Other(s) \in Server /\ Other(s) # s
  BY OtherServer
<1>5. Append(link[Other(s)], answer) \in Seq(HonestPacket')
  BY <1>3, <1>4, ElementsOfAppend DEF StillHonest
<1>6. /\ link' = [link EXCEPT ![s] = Tail(@), ![Other(s)] = IF s \in stale THEN @ ELSE Append(@, answer)]
      /\ UNCHANGED <<peerq, waiting, tasks, dirq>>
  BY DEF ArriveForbidden
<1>7. link' \in [Server -> Seq(HonestPacket')]
  BY <1>2, <1>4, <1>5, <1>6 DEF StillHonest
<1> QED BY <1>6, <1>7 DEF StillHonest, InTransit

LEMMA ReportCarries ==
  ASSUME StillHonest, NEW s \in Server, Report(s)
  PROVE  InTransit'
<1>1. PICK t \in tasks[s] :
        /\ Post(s, Answers(t.id, t.m, t.status))
        /\ tasks' = [tasks EXCEPT ![s] = (@ \ {t}) \cup (IF t.status \in Final THEN {} ELSE {[t EXCEPT !.told = t.status]})]
        /\ UNCHANGED <<peerq, waiting, dirq>>
  BY DEF Report
<1>2. t \in HonestTask'
  BY DEF StillHonest
<1>3. /\ Answers(t.id, t.m, t.status) \in HonestPacket'
      /\ [t EXCEPT !.told = t.status] \in HonestTask'
  BY <1>2 DEF HonestPacket, HonestTask, Honest, Packet, Task, Answers, View
<1>4. link' \in [Server -> Seq(HonestPacket')]
  BY <1>1, <1>3, PostCarries
<1> QED BY <1>1, <1>3, <1>4 DEF StillHonest, InTransit

\* What the directory says of a message it has written, or has failed to write.
LEMMA DirectoryIsHonest ==
  ASSUME StillHonest, NEW s \in Server, Deliver(s)
  PROVE  \E r \in SentRequest', status \in Final :
           /\ r = Head(dirq[s])
           /\ Tell(s, r, status)
           /\ Forward(r.m, status)
           /\ Honest(status, r.m)'
<1>1. dirq[s] \in Seq(SentRequest') /\ dirq[s] # << >>
  BY DEF Deliver, StillHonest
<1>2. PICK r \in SentRequest' : r = Head(dirq[s])
  BY <1>1, ElementsOfTail
<1>3. PICK m : m = r.m
  OBVIOUS
<1>4. PICK status \in Outcome(m) :
        /\ IF status = "Delivered" THEN Write(m) ELSE UNCHANGED <<localChat, remoteChat, lastRead>>
        /\ Tell(s, r, status)
        /\ Forward(m, status)
  BY <1>2, <1>3 DEF Deliver
<1>5. status \in Final
  BY DEF Outcome, Final
<1>6. m \in Sent' /\ mail' = mail
  BY <1>3 DEF SentRequest, Deliver
<1>7. ASSUME status = "Delivered"
      PROVE  Written(m)'
  <2>1. Write(m)
    BY <1>4, <1>7
  <2>2. CASE m \in Transient
    BY <1>6, <2>1, <2>2, WrittenAfterwards DEF Write
  <2>3. CASE m \notin Transient /\ From(m) = To(m)
    BY <2>1, <2>3, WrittenAfterwards DEF Write
  <2>4. CASE m \notin Transient /\ From(m) # To(m)
    <3> DEFINE row == [player |-> mail[m].to, m |-> m, inbound |-> FALSE]
    <3>1. row \in remoteChat'
      BY <2>1, <2>4 DEF Write
    <3>2. row.player = mail'[m].to /\ row.m = m
      BY <1>6
    <3> QED BY <2>4, <3>1, <3>2, WrittenAfterwards
  <2> QED BY <2>2, <2>3, <2>4
<1> QED BY <1>2, <1>3, <1>4, <1>5, <1>6, <1>7 DEF Honest

LEMMA DeliverCarries ==
  ASSUME StillHonest, NEW s \in Server, Deliver(s)
  PROVE  InTransit'
<1>1. PICK r \in SentRequest', status \in Final : Tell(s, r, status) /\ Honest(status, r.m)'
  BY DirectoryIsHonest
<1>2. /\ dirq' = [dirq EXCEPT ![s] = Tail(@)]
      /\ UNCHANGED <<peerq, waiting, link>>
  BY DEF Deliver
<1>3. dirq[s] \in Seq(SentRequest') /\ dirq[s] # << >>
  BY DEF Deliver, StillHonest
<1>4. Tail(dirq[s]) \in Seq(SentRequest')
  BY <1>3, ElementsOfTail
<1>5. tasks' \in [Server -> SUBSET HonestTask']
  <2>1. CASE tasks' = tasks
    BY <2>1 DEF StillHonest
  <2>2. CASE tasks' = [tasks EXCEPT ![s] = {IF t.id = r.id /\ t.m = r.m THEN [t EXCEPT !.status = status] ELSE t : t \in @}]
    <3>1. ASSUME NEW t \in tasks[s]
          PROVE  (IF t.id = r.id /\ t.m = r.m THEN [t EXCEPT !.status = status] ELSE t) \in HonestTask'
      <4>1. t \in Task /\ t \in HonestTask'
        BY DEF StillHonest, HonestTask
      <4>2. ASSUME t.m = r.m
            PROVE  [t EXCEPT !.status = status] \in HonestTask'
        <5> DEFINE u == [t EXCEPT !.status = status]
        <5>1. u \in Task /\ u.m = r.m /\ u.status = status
          BY <4>1, <4>2 DEF Task, Status
        <5> QED BY <1>1, <5>1 DEF HonestTask
      <4> QED BY <4>1, <4>2
    <3> QED BY <2>2, <3>1 DEF StillHonest
  <2> QED BY <1>1, <2>1, <2>2 DEF Tell
<1> QED BY <1>2, <1>4, <1>5 DEF StillHonest, InTransit

LEMMA MishapCarries ==
  ASSUME StillHonest, NEW s \in Server, Lose(s) \/ Crash(s)
  PROVE  InTransit'
<1>1. CASE Lose(s)
  <2>1. PICK i \in 1..Len(link[s]) : link' = [link EXCEPT ![s] = Without(@, i)]
    BY <1>1 DEF Lose
  <2>2. Without(link[s], i) \in Seq(HonestPacket')
    BY ElementsWithout DEF StillHonest
  <2> QED BY <1>1, <2>1, <2>2 DEF Lose, StillHonest, InTransit
<1>2. CASE Crash(s)
  <2>1. PICK j \in 0..Len(link[Other(s)]) :
          link' = [link EXCEPT ![s] = << >>, ![Other(s)] = SubSeq(@, 1, j)]
    BY <1>2 DEF Crash
  <2>2. Other(s) \in Server /\ Other(s) # s
    BY OtherServer
  <2>3. link[Other(s)] \in Seq(HonestPacket')
    BY <2>2 DEF StillHonest
  <2>4. 1 \in 1..Len(link[Other(s)])+1
    BY <2>3
  <2>5. SubSeq(link[Other(s)], 1, j) \in Seq(HonestPacket')
    BY <2>3, <2>4, ElementsOfSubSeq
  <2>6. link' \in [Server -> Seq(HonestPacket')]
    <3>1. << >> \in Seq(HonestPacket') /\ link \in [Server -> Seq(HonestPacket')]
      BY DEF StillHonest
    <3>2. PICK q \in Seq(HonestPacket') : q = SubSeq(link[Other(s)], 1, j)
      BY <2>5
    <3>3. link' = [link EXCEPT ![s] = << >>, ![Other(s)] = q]
      BY <2>1, <2>2, <3>1, <3>2
    <3> QED BY <2>2, <3>1, <3>3
  <2>7. /\ peerq' = [peerq EXCEPT ![s] = << >>]
        /\ waiting' = [waiting EXCEPT ![s] = {}]
        /\ tasks' = [tasks EXCEPT ![s] = {}]
        /\ dirq' = [dirq EXCEPT ![s] = << >>]
    BY <1>2 DEF Crash
  <2> QED BY <2>6, <2>7 DEF StillHonest, InTransit
<1> QED BY <1>1, <1>2

LEMMA InTransitStep ==
  ASSUME Traced, [Next]_vars, Sent' \subseteq Message
  PROVE  InTransit'
<1>1. Keeps
  BY NothingIsErased
<1>2. StillHonest
  BY <1>1, HonestyLasts
<1>3. nextId \in [Server -> Nat]
  BY DEF Traced, BooksTyped
<1>4. ASSUME NEW m \in Message, NEW from \in Known, NEW to \in Name,
             Send(m, from, to) \/ SendForbidden(m, from, to)
      PROVE  InTransit'
  BY <1>2, <1>4, SendCarries
<1>5. ASSUME NEW s \in Server,
             \/ Ask(s) \/ Answer(s) \/ Expire(s) \/ Arrive(s) \/ ArriveForbidden(s)
             \/ Report(s) \/ Deliver(s) \/ Lose(s) \/ Crash(s)
      PROVE  InTransit'
  BY <1>2, <1>3, <1>5, AskCarries, AnswerCarries, ArriveCarries, ArriveForbiddenCarries,
     ReportCarries, DeliverCarries, MishapCarries
<1>6. ASSUME UNCHANGED <<peerq, waiting, tasks, dirq>>, link' \in {link, [s \in Server |-> << >>]}
      PROVE  InTransit'
  <2>1. [s \in Server |-> << >>] \in [Server -> Seq(HonestPacket')]
    OBVIOUS
  <2>2. link' \in [Server -> Seq(HonestPacket')]
    BY <1>2, <1>6, <2>1 DEF StillHonest
  <2> QED BY <1>2, <1>6, <2>2 DEF StillHonest, InTransit
<1>7. ASSUME NEW m \in Message, Receipt(m)
      PROVE  InTransit'
  BY <1>6, <1>7 DEF Receipt
<1>8. CASE Reconnect
  BY <1>6, <1>8 DEF Reconnect
<1>9. CASE UNCHANGED vars
  BY <1>6, <1>9 DEF vars
<1> QED BY <1>4, <1>5, <1>7, <1>8, <1>9 DEF Next

LEMMA BooksStep ==
  ASSUME Traced, [Next]_vars
  PROVE  BooksTyped'
<1> USE DEF BooksTyped
<1>0. BooksTyped /\ waiting \in [Server -> SUBSET SentRequest] /\ link \in [Server -> Seq(HonestPacket)]
      /\ dirq \in [Server -> Seq(SentRequest)]
  BY DEF Traced, InTransit
<1>1. ASSUME NEW m \in Message, NEW from \in Known, NEW to \in Name,
             Send(m, from, to) \/ SendForbidden(m, from, to)
      PROVE  BooksTyped'
  <2>1. /\ mail' = [n \in Sent \cup {m} |-> IF n = m THEN [from |-> from, to |-> to] ELSE mail[n]]
        /\ \E v \in View : watch' = [watch EXCEPT ![m] = v]
        /\ UNCHANGED <<heard, nextId, rows, stale, faults>>
    BY <1>1 DEF Send, SendForbidden, View, Status, Final
  <2>2. Sent' \subseteq Message /\ mail' \in [Sent' -> [from : Known, to : Name]]
    BY <1>0, <2>1 DEF Sent
  <2>3. watch' \in [Message -> View]
    BY <1>0, <2>1
  <2> QED BY <1>0, <2>1, <2>2, <2>3 DEF rows, faults
<1>2. ASSUME NEW m \in Message, Receipt(m)
      PROVE  BooksTyped'
  BY <1>0, <1>2 DEF Receipt, rows, faults, Sent
<1>3. ASSUME NEW s \in Server, Ask(s)
      PROVE  BooksTyped'
  BY <1>0, <1>3 DEF Ask, Following, rows, faults, Sent
<1>4. ASSUME NEW s \in Server, Answer(s)
      PROVE  BooksTyped'
  <2> DEFINE p == Head(link[s])
  <2>0. UNCHANGED <<mail, heard, nextId, localChat, shown, stale, faults>>
    BY <1>4 DEF Answer
  <2>1. CASE UNCHANGED <<watch, remoteChat, lastRead>>
    BY <1>0, <2>0, <2>1 DEF faults, Sent
  <2>2. CASE \E w \in waiting[s] :
               /\ watch' = [watch EXCEPT ![w.m] = p.status]
               /\ KeepCopy(w) \/ UNCHANGED <<remoteChat, lastRead>>
    <3>1. PICK w \in waiting[s] :
            /\ watch' = [watch EXCEPT ![w.m] = p.status]
            /\ KeepCopy(w) \/ UNCHANGED <<remoteChat, lastRead>>
      BY <2>2
    <3>2. w.m \in Sent /\ w.m \in Message /\ mail[w.m].from \in Name
      BY <1>0, PlayersAssumption DEF SentRequest, PlayersAssumption
    <3>3. p \in HonestPacket
      <4>1. link[s] \in Seq(HonestPacket) /\ link[s] # << >>
        BY <1>0, <1>4 DEF Answer
      <4> QED BY <4>1, ElementsOfTail
    <3>4. watch' \in [Message -> View]
      BY <1>0, <3>1, <3>3 DEF HonestPacket, Packet, View
    <3>5. /\ remoteChat' \subseteq [player : Name, m : Message, inbound : BOOLEAN]
          /\ lastRead' \subseteq [player : Name, m : Message]
      <4>1. /\ Copy(w) \in [player : Name, m : Message, inbound : BOOLEAN]
            /\ [player |-> mail[w.m].from, m |-> w.m] \in [player : Name, m : Message]
        BY <3>2 DEF Copy
      <4>2. /\ remoteChat' = remoteChat \/ remoteChat' = remoteChat \cup {Copy(w)}
            /\ \/ lastRead' = lastRead
               \/ lastRead' = lastRead \cup {[player |-> mail[w.m].from, m |-> w.m]}
        BY <3>1 DEF KeepCopy
      <4> QED BY <1>0, <4>1, <4>2
    <3> QED BY <1>0, <2>0, <3>4, <3>5 DEF faults, Sent
  <2> QED BY <1>4, <2>1, <2>2 DEF Answer
<1>5. ASSUME NEW s \in Server, Arrive(s) \/ ArriveForbidden(s) \/ Report(s)
      PROVE  BooksTyped'
  <2>1. UNCHANGED <<mail, heard, watch, nextId, rows, stale, faults>>
    BY <1>5 DEF Arrive, ArriveForbidden, Report
  <2> QED BY <1>0, <2>1 DEF rows, faults, Sent
<1>6. ASSUME NEW s \in Server, Expire(s) \/ Lose(s)
      PROVE  BooksTyped'
  <2>1. Mishap /\ UNCHANGED <<mail, heard, watch, nextId, rows, stale, restarted>>
    BY <1>6 DEF Expire, Lose
  <2> QED BY <1>0, <2>1, BoundAssumption DEF Mishap, rows, Sent, BoundAssumption
<1>7. ASSUME NEW s \in Server, Deliver(s)
      PROVE  BooksTyped'
  <2>1. PICK r \in SentRequest :  r = Head(dirq[s])
    <3>1. dirq[s] \in Seq(SentRequest) /\ dirq[s] # << >>
      BY <1>0, <1>7 DEF Deliver
    <3> QED BY <3>1, ElementsOfTail
  <2>2. PICK status \in Outcome(r.m) :
          /\ IF status = "Delivered" THEN Write(r.m) ELSE UNCHANGED <<localChat, remoteChat, lastRead>>
          /\ Tell(s, r, status)
          /\ Forward(r.m, status)
    BY <1>7, <2>1 DEF Deliver
  <2>3. status \in View /\ r.m \in Message /\ mail[r.m].to \in Name
    BY <1>0 DEF Outcome, View, Status, Final, SentRequest
  <2>4. watch' \in [Message -> View]
    BY <1>0, <2>2, <2>3 DEF Tell
  <2>5. shown' \in [Name -> SUBSET Message]
    <3>1. PICK n \in Name : n = mail[r.m].to
      BY <2>3
    <3>2. shown' = shown \/ shown' = [shown EXCEPT ![n] = @ \cup {r.m}]
      BY <2>2, <3>1 DEF Forward
    <3>3. shown \in [Name -> SUBSET Message] /\ shown[n] \cup {r.m} \in SUBSET Message
      BY <1>0, <2>3
    <3> QED BY <3>2, <3>3
  <2>6. /\ localChat' \subseteq Message
        /\ remoteChat' \subseteq [player : Name, m : Message, inbound : BOOLEAN]
        /\ lastRead' \subseteq [player : Name, m : Message]
    <3> DEFINE new == [player |-> mail[r.m].to, m |-> r.m, inbound |-> FALSE]
               read == [player |-> mail[r.m].to, m |-> r.m]
    <3>1. /\ new \in [player : Name, m : Message, inbound : BOOLEAN]
          /\ read \in [player : Name, m : Message]
      BY <2>3
    <3>2. /\ localChat' = localChat \/ localChat' = localChat \cup {r.m}
          /\ remoteChat' = remoteChat \/ remoteChat' = remoteChat \cup {new}
          /\ lastRead' = lastRead \/ lastRead' = lastRead \cup {read}
      <4>1. CASE Write(r.m)
        BY <4>1 DEF Write
      <4> QED BY <2>2, <4>1
    <3> HIDE DEF new, read
    <3> QED BY <1>0, <2>3, <3>1, <3>2 DEF BooksTyped
  <2>7. UNCHANGED <<mail, heard, nextId, stale, faults>>
    BY <1>7 DEF Deliver
  <2> QED BY <1>0, <2>4, <2>5, <2>6, <2>7 DEF faults, Sent
<1>8. ASSUME NEW s \in Server, Crash(s)
      PROVE  BooksTyped'
  <2>1. /\ Mishap /\ restarted' = restarted \cup {s}
        /\ watch' = [m \in Message |-> IF m \in Sent /\ From(m) = s THEN heard[m] ELSE watch[m]]
        /\ nextId' = [nextId EXCEPT ![s] = 0]
        /\ stale' = {Other(s)}
        /\ UNCHANGED <<mail, heard, rows>>
    BY <1>8 DEF Crash
  <2>2. mishaps' \in 0..MaxFaults /\ restarted' \subseteq Server
    BY <1>0, <2>1, BoundAssumption DEF Mishap, BoundAssumption
  <2>3. stale' \subseteq Server
    BY <2>1, OtherServer
  <2> QED BY <1>0, <2>1, <2>2, <2>3 DEF rows, Sent
<1>9. CASE Reconnect
  BY <1>0, <1>9 DEF Reconnect, rows, faults, Sent
<1>10. CASE UNCHANGED vars
  BY <1>0, <1>10 DEF vars, Sent
<1> QED BY <1>1, <1>2, <1>3, <1>4, <1>5, <1>6, <1>7, <1>8, <1>9, <1>10 DEF Next

LEMMA ShownStep ==
  ASSUME Traced, [Next]_vars
  PROVE  Shown'
<1>1. Keeps
  BY NothingIsErased
<1>2. StillHonest /\ \A m \in Sent : Written(m) => Written(m)'
  BY <1>1, HonestyLasts
<1>3. Shown /\ shown \in [Name -> SUBSET Message]
  BY DEF Traced, BooksTyped
<1>4. ASSUME NEW n \in Name, NEW m \in shown[n]
      PROVE  m \in Sent' /\ mail'[m].to = n /\ Written(m)'
  BY <1>1, <1>2, <1>3 DEF Shown, Keeps
<1>5. CASE shown' = shown
  BY <1>4, <1>5 DEF Shown
<1>6. ASSUME NEW s \in Server, Deliver(s)
      PROVE  Shown'
  <2>1. PICK r \in SentRequest', status \in Final :
          Forward(r.m, status) /\ Honest(status, r.m)'
    BY <1>2, <1>6, DirectoryIsHonest
  <2>2. mail' = mail
    BY <1>6 DEF Deliver
  <2>3. r.m \in Sent'
    BY DEF SentRequest
  <2>4. CASE status = "Delivered" /\ shown' = [shown EXCEPT ![mail[r.m].to] = @ \cup {r.m}]
    <3>1. Written(r.m)'
      BY <2>1, <2>4 DEF Honest
    <3>2. ASSUME NEW n \in Name, NEW m \in shown'[n], m \notin shown[n]
          PROVE  m = r.m /\ n = mail[r.m].to
      BY <1>3, <2>4, <3>2
    <3> QED BY <1>4, <2>2, <2>3, <3>1, <3>2 DEF Shown
  <2> QED BY <1>5, <2>1, <2>4 DEF Forward, Forwards
<1>7. shown' = shown \/ \E s \in Server : Deliver(s)
  BY DEF Next, Send, SendForbidden, Receipt, Ask, Answer, Expire, Arrive, ArriveForbidden,
         Report, Lose, Crash, Reconnect, vars, rows
<1> QED BY <1>5, <1>6, <1>7

LEMMA TracedInvariant == Spec => []Traced
<1>1. Init => Traced
  <2> SUFFICES ASSUME Init PROVE Traced
    OBVIOUS
  <2>1. BooksTyped
    BY BoundAssumption DEF Init, BooksTyped, Sent, View, BoundAssumption
  <2>2. InTransit
    BY DEF Init, InTransit
  <2>3. Shown
    BY DEF Init, Shown
  <2> QED BY <2>1, <2>2, <2>3 DEF Traced
<1>2. Traced /\ [Next]_vars => Traced'
  <2> SUFFICES ASSUME Traced, [Next]_vars PROVE Traced'
    OBVIOUS
  <2>1. BooksTyped'
    BY BooksStep
  <2>2. Sent' \subseteq Message
    BY <2>1 DEF BooksTyped
  <2> QED BY <2>1, <2>2, InTransitStep, ShownStep DEF Traced
<1> QED BY <1>1, <1>2, PTL DEF Spec

\* What the directory forwards to a connected player it has written first, and
\* no later step, a crash included, takes a row away: what he is shown he
\* can read again (PlayerDirectory's DirectMessage handler).
THEOREM ShownCanBeReadAgain == Spec => []ShownIsWritten
<1>1. Traced => ShownIsWritten
  BY TracedTypes DEF Traced, Shown, ShownIsWritten
<1> QED BY <1>1, TracedInvariant, PTL

-----------------------------------------------------------------------------
\* A Peer asks for the players of its own server.
Homely ==
  \A s \in Server : /\ \A i \in DOMAIN peerq[s] : From(peerq[s][i]) = s
                    /\ \A w \in waiting[s] : From(w.m) = s

\* Who watches or has heard that a message is Delivered has had it from the
\* directory, through answers that found their message unless his server has
\* restarted.
Announced ==
  \A m \in Message :
    "Delivered" \in {watch[m], heard[m]} => m \in Sent /\ (Counts(From(m)) => Written(m))

LEMMA HomelyStep ==
  ASSUME Traced, Homely, [Next]_vars
  PROVE  Homely'
<1>1. Keeps
  BY NothingIsErased
<1>2. /\ peerq \in [Server -> Seq(Sent)] /\ waiting \in [Server -> SUBSET SentRequest]
      /\ \A s \in Server : \A i \in DOMAIN peerq[s] : peerq[s][i] \in Sent
      /\ \A s \in Server : \A w \in waiting[s] : w.m \in Sent
  BY DEF Traced, InTransit, SentRequest
<1>3. \A m \in Sent : From(m)' = From(m)
  BY <1>1 DEF Keeps, From
<1>4. ASSUME \A s \in Server : \A i \in DOMAIN peerq'[s] :
                \/ \E j \in DOMAIN peerq[s] : peerq'[s][i] = peerq[s][j]
                \/ \E m : peerq'[s][i] = m /\ From(m)' = s,
             \A s \in Server : \A w \in waiting'[s] :
                w \in waiting[s] \/ \E j \in DOMAIN peerq[s] : w.m = peerq[s][j]
      PROVE  Homely'
  BY <1>2, <1>3, <1>4 DEF Homely
<1>5. ASSUME NEW m \in Message, NEW from \in Known, NEW to \in Name,
             Send(m, from, to) \/ SendForbidden(m, from, to)
      PROVE  Homely'
  <2>1. UNCHANGED waiting
    BY <1>5 DEF Send, SendForbidden
  <2>2. CASE UNCHANGED peerq
    BY <1>4, <2>1, <2>2
  <2>3. CASE peerq' = [peerq EXCEPT ![Home[from]] = Append(@, m)]
    <3>1. mail'[m].from = from
      BY <1>5 DEF Send, SendForbidden
    <3>2. PICK h \in Server : h = Home[from]
      BY PlayersAssumption DEF PlayersAssumption
    <3>3. From(m)' = h
      BY <3>1, <3>2 DEF From
    <3>4. PICK q : q = Append(peerq[h], m)
      OBVIOUS
    <3>5. peerq[h] \in Seq(Sent) /\ peerq[h] \in Seq(Sent \cup {m})
      BY <1>2, SmallerSeq
    <3>6. \A i \in DOMAIN q : q[i] = m \/ \E j \in DOMAIN peerq[h] : q[i] = peerq[h][j]
      BY <3>4, <3>5
    <3>7. peerq' = [peerq EXCEPT ![h] = q]
      BY <2>3, <3>2, <3>4
    <3>8. \A s \in Server : peerq'[s] = IF s = h THEN q ELSE peerq[s]
      BY <1>2, <3>7
    <3> QED BY <1>4, <2>1, <3>3, <3>6, <3>8
  <2> QED BY <1>5, <2>2, <2>3 DEF Send, SendForbidden
<1>6. ASSUME NEW s \in Server, Ask(s)
      PROVE  Homely'
  <2>1. peerq[s] \in Seq(Sent) /\ peerq[s] # << >> /\ peerq' = [peerq EXCEPT ![s] = Tail(@)]
    BY <1>2, <1>6 DEF Ask
  <2>2. PICK m, q, id : m = Head(peerq[s]) /\ q = Tail(peerq[s]) /\ id = nextId[s]
    OBVIOUS
  <2>3. /\ m = peerq[s][1] /\ 1 \in DOMAIN peerq[s]
        /\ \A i \in DOMAIN q : i + 1 \in DOMAIN peerq[s] /\ q[i] = peerq[s][i + 1]
    BY <2>1, <2>2
  <2>4. waiting' = [waiting EXCEPT ![s] = @ \cup {[id |-> id, m |-> m]}]
    BY <1>6, <2>2 DEF Ask
  <2>5. \A x \in Server : peerq'[x] = IF x = s THEN q ELSE peerq[x]
    BY <1>2, <2>1, <2>2
  <2>6. \A x \in Server : \A w \in waiting'[x] : w \in waiting[x] \/ (x = s /\ w.m = m)
    BY <1>2, <2>4
  <2> QED BY <1>4, <2>3, <2>5, <2>6
<1>7. ASSUME NEW s \in Server, Answer(s) \/ Expire(s)
      PROVE  Homely'
  <2>1. UNCHANGED peerq /\ \A x \in Server : waiting'[x] \subseteq waiting[x]
    BY <1>2, <1>7 DEF Answer, Expire
  <2> QED BY <1>4, <2>1
<1>8. ASSUME NEW s \in Server, Crash(s)
      PROVE  Homely'
  <2>1. /\ peerq' = [peerq EXCEPT ![s] = << >>]
        /\ waiting' = [waiting EXCEPT ![s] = {}]
    BY <1>8 DEF Crash
  <2>2. \A x \in Server : peerq'[x] \in {peerq[x], << >>} /\ waiting'[x] \subseteq waiting[x]
    BY <1>2, <2>1
  <2>3. \A x \in Server : \A i \in DOMAIN peerq'[x] : i \in DOMAIN peerq[x] /\ peerq'[x][i] = peerq[x][i]
    BY <2>2
  <2> QED BY <1>4, <2>2, <2>3
<1>9. CASE UNCHANGED <<peerq, waiting>>
  BY <1>4, <1>9
<1>10. ASSUME NEW s \in Server, Arrive(s) \/ ArriveForbidden(s) \/ Report(s) \/ Deliver(s) \/ Lose(s)
       PROVE  Homely'
  BY <1>9, <1>10 DEF Arrive, ArriveForbidden, Report, Deliver, Lose
<1>11. CASE Reconnect \/ UNCHANGED vars \/ \E m \in Message : Receipt(m)
  BY <1>9, <1>11 DEF Reconnect, vars, Receipt
<1> QED BY <1>5, <1>6, <1>7, <1>8, <1>10, <1>11 DEF Next

LEMMA AnnouncedStep ==
  ASSUME Traced, Identified, Homely, Announced, [Next]_vars
  PROVE  Announced'
<1>1. Keeps
  BY NothingIsErased
<1>2. StillHonest /\ \A m \in Sent : m \in Sent' /\ (Written(m) => Written(m)')
  BY <1>1, HonestyLasts DEF Keeps
<1>3. /\ watch \in [Message -> View] /\ heard \in [Message -> View]
      /\ link \in [Server -> Seq(HonestPacket)] /\ waiting \in [Server -> SUBSET SentRequest]
  BY DEF Traced, BooksTyped, InTransit
<1>0. /\ restarted \subseteq restarted'
      /\ \A m \in Sent : From(m)' = From(m) /\ (Counts(From(m))' => Counts(From(m)))
  <2>1. restarted \subseteq restarted'
    BY DEF Next, Send, SendForbidden, Receipt, Ask, Answer, Expire, Arrive, ArriveForbidden,
           Report, Deliver, Lose, Crash, Reconnect, vars, faults
  <2>2. \A m \in Sent : From(m)' = From(m)
    BY <1>1 DEF Keeps, From
  <2> QED BY <2>1, <2>2 DEF Counts
<1>4. ASSUME NEW m \in Message,
             watch'[m] = "Delivered" => "Delivered" \in {watch[m], heard[m]},
             heard'[m] = "Delivered" => "Delivered" \in {watch[m], heard[m]},
             "Delivered" \in {watch'[m], heard'[m]}
      PROVE  m \in Sent' /\ (Counts(From(m))' => Written(m)')
  BY <1>0, <1>2, <1>4 DEF Announced
<1>5. ASSUME NEW m \in Message, NEW from \in Known, NEW to \in Name,
             Send(m, from, to) \/ SendForbidden(m, from, to)
      PROVE  Announced'
  <2>1. heard' = heard /\ \E v \in {"Queued", "Forbidden"} : watch' = [watch EXCEPT ![m] = v]
    BY <1>5 DEF Send, SendForbidden
  <2> QED BY <1>3, <1>4, <2>1 DEF Announced
<1>6. ASSUME NEW m \in Message, Receipt(m)
      PROVE  Announced'
  BY <1>3, <1>4, <1>6 DEF Receipt, Announced
<1>7. ASSUME NEW s \in Server, Answer(s)
      PROVE  Announced'
  <2> DEFINE p == Head(link[s])
  <2>1. heard' = heard
    BY <1>7 DEF Answer
  <2>2. link[s] # << >> /\ p.kind = "DirectMessageResponse"
    BY <1>7 DEF Answer
  <2>3. p \in HonestPacket /\ p \in Elements(link[s])
    BY <1>3, <2>2, ElementsOfTail
  <2>4. CASE watch' = watch
    BY <1>4, <2>1, <2>4 DEF Announced
  <2>5. CASE \E w \in waiting[s] : w.id = p.id /\ watch' = [watch EXCEPT ![w.m] = p.status]
    <3>1. PICK w \in waiting[s] : w.id = p.id /\ watch' = [watch EXCEPT ![w.m] = p.status]
      BY <2>5
    <3>2. Mentions(s, w.id, w.m) /\ Mentions(s, w.id, p.m)
      BY <2>2, <2>3, <3>1 DEF Mentions
    <3>6. PICK k : k = w.m
      OBVIOUS
    <3>7. k \in Sent /\ From(k) = s
      BY <1>3, <3>1, <3>6 DEF SentRequest, Homely
    <3>3. Counts(s) => k = p.m
      BY <3>2, <3>6 DEF Identified, IdsAreUnique
    <3>4. p.status = "Delivered" => k \in Sent' /\ (Counts(From(k))' => Written(k)')
      <4>1. p.status = "Delivered" /\ Counts(s) => Written(k)
        BY <2>3, <3>3 DEF HonestPacket, Honest
      <4> QED BY <1>0, <1>2, <3>7, <4>1
    <3>5. ASSUME NEW m \in Message, "Delivered" \in {watch'[m], heard'[m]}
          PROVE  m \in Sent' /\ (Counts(From(m))' => Written(m)')
      <4>1. CASE m = k /\ p.status = "Delivered"
        BY <3>4, <4>1
      <4>2. CASE ~(m = k /\ p.status = "Delivered")
        BY <1>3, <1>4, <2>1, <3>1, <3>5, <3>6, <4>2
      <4> QED BY <4>1, <4>2
    <3> QED BY <3>5 DEF Announced
  <2> QED BY <1>7, <2>4, <2>5 DEF Answer
<1>8. ASSUME NEW s \in Server, Deliver(s)
      PROVE  Announced'
  <2>1. PICK r \in SentRequest', status \in Final :
          Tell(s, r, status) /\ Honest(status, r.m)'
    BY <1>2, <1>8, DirectoryIsHonest
  <2>2. heard' = heard
    BY <1>8 DEF Deliver
  <2>3. status = "Delivered" => r.m \in Sent' /\ Written(r.m)'
    BY <2>1 DEF Honest
  <2>4. ASSUME NEW m \in Message, "Delivered" \in {watch'[m], heard'[m]}
        PROVE  m \in Sent' /\ (Counts(From(m))' => Written(m)')
    <3>1. CASE m = r.m /\ status = "Delivered"
      BY <2>3, <3>1
    <3>2. CASE ~(m = r.m /\ status = "Delivered")
      BY <1>3, <1>4, <2>1, <2>2, <2>4, <3>2 DEF Tell
    <3> QED BY <3>1, <3>2
  <2> QED BY <2>4 DEF Announced
<1>9. ASSUME UNCHANGED <<watch, heard>>
      PROVE  Announced'
  BY <1>4, <1>9 DEF Announced
<1>10. ASSUME NEW s \in Server,
              Ask(s) \/ Expire(s) \/ Arrive(s) \/ ArriveForbidden(s) \/ Report(s) \/ Lose(s)
       PROVE  Announced'
  BY <1>9, <1>10 DEF Ask, Expire, Arrive, ArriveForbidden, Report, Lose
<1>11. ASSUME NEW s \in Server, Crash(s)
       PROVE  Announced'
  <2>1. /\ watch' = [m \in Message |-> IF m \in Sent /\ From(m) = s THEN heard[m] ELSE watch[m]]
        /\ UNCHANGED heard
    BY <1>11 DEF Crash
  <2> QED BY <1>4, <2>1 DEF Announced
<1>12. CASE Reconnect \/ UNCHANGED vars
  BY <1>9, <1>12 DEF Reconnect, vars
<1> QED BY <1>5, <1>6, <1>7, <1>8, <1>10, <1>11, <1>12 DEF Next

\* As long as his own server has not restarted a sender is told Delivered only
\* of a message that is in its recipient's chat, whatever was lost, expired,
\* answered twice, or died with the other server.
THEOREM DeliveredCanBeRead == Spec => []DeliveredIsWritten
<1> DEFINE Told == Identified /\ Homely /\ Announced
<1>1. Init => Told
  <2>1. Init => Homely /\ Announced
    BY DEF Init, Homely, Announced
  <2> QED BY <2>1, IdentifiedInit
<1>2. Traced /\ Told /\ [Next]_vars => Told'
  BY IdentifiedStep, HomelyStep, AnnouncedStep
<1>3. Traced /\ Told => DeliveredIsWritten
  BY DEF DeliveredIsWritten, Announced, Traced, BooksTyped
<1> QED BY <1>1, <1>2, <1>3, TracedInvariant, PTL DEF Spec
=============================================================================
