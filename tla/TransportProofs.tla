-------------------------- MODULE TransportProofs --------------------------
(***************************************************************************)
(* Theorems about what carries messages to and from the tasks of a server. *)
(*                                                                         *)
(* EntitySocket, for every bound and every choice of the delays: the order *)
(* of what is written, the mishaps without which nothing that was accepted *)
(* is lost, with the types, and the timer that backs off while there is no *)
(* connection.                                                             *)
(*                                                                         *)
(* StreamMap, for any set of keys and any bounds: the types, and that the  *)
(* task that polls the streams does not sleep on one that is ready.        *)
(***************************************************************************)
EXTENDS EntitySocket, StreamMap, SequenceTheorems, WellFoundedInduction, TLAPS

-----------------------------------------------------------------------------
(* The connection of an entity.                                            *)

\* What the argument about the order needs of the types of the connection and
\* of its log.
SocketTypes ==
  /\ conn \in {"dead", "online", "offline"}
  /\ queued \in Seq(Nat)
  /\ written \in Seq(Nat)
  /\ sent \in Nat

\* A queue exists only before the first connection; what is queued comes
\* after all that has been written, and before all that is to be sent.
Order ==
  /\ SocketTypes
  /\ conn # "dead" => queued = << >>
  /\ Increasing(written)
  /\ Increasing(queued)
  /\ \A i \in 1..Len(written) : written[i] <= sent
  /\ \A i \in 1..Len(queued) : queued[i] <= sent
  /\ \A i \in 1..Len(written), j \in 1..Len(queued) : written[i] < queued[j]

\* A number above all others may be put at the end.
LEMMA AppendKeepsIncreasing ==
  ASSUME NEW q \in Seq(Nat), NEW m \in Nat,
         Increasing(q), \A i \in 1..Len(q) : q[i] < m
  PROVE  /\ Append(q, m) \in Seq(Nat)
         /\ Increasing(Append(q, m))
         /\ \A i \in 1..Len(Append(q, m)) : Append(q, m)[i] <= m
BY DEF Increasing

\* Two increasing sequences make one when the second starts above the first.
LEMMA ConcatKeepsIncreasing ==
  ASSUME NEW p \in Seq(Nat), NEW q \in Seq(Nat),
         Increasing(p), Increasing(q),
         \A i \in 1..Len(p), j \in 1..Len(q) : p[i] < q[j]
  PROVE  Increasing(p \o q)
<1> SUFFICES ASSUME NEW i \in 1..Len(p \o q), NEW j \in 1..Len(p \o q), i < j
             PROVE  (p \o q)[i] < (p \o q)[j]
  BY DEF Increasing
<1>1. Len(p) \in Nat /\ Len(q) \in Nat /\ Len(p \o q) = Len(p) + Len(q)
  OBVIOUS
<1>2. CASE j <= Len(p)
  <2>1. (p \o q)[i] = p[i] /\ (p \o q)[j] = p[j]
    BY <1>1, <1>2
  <2> QED BY <1>1, <1>2, <2>1 DEF Increasing
<1>3. CASE i > Len(p)
  <2>1. (p \o q)[i] = q[i - Len(p)] /\ (p \o q)[j] = q[j - Len(p)]
    BY <1>1, <1>3
  <2>2. i - Len(p) \in 1..Len(q) /\ j - Len(p) \in 1..Len(q) /\ i - Len(p) < j - Len(p)
    BY <1>1, <1>3
  <2> QED BY <2>1, <2>2 DEF Increasing
<1>4. CASE i <= Len(p) /\ j > Len(p)
  <2>1. (p \o q)[i] = p[i] /\ (p \o q)[j] = q[j - Len(p)]
    BY <1>1, <1>4
  <2>2. i \in 1..Len(p) /\ j - Len(p) \in 1..Len(q)
    BY <1>1, <1>4
  <2> QED BY <2>1, <2>2
<1> QED BY <1>1, <1>2, <1>3, <1>4

\* What establish writes, any beginning of the queue, may follow what has
\* been written before.
LEMMA FlushKeepsIncreasing ==
  ASSUME NEW p \in Seq(Nat), NEW q \in Seq(Nat), NEW n \in 0..Len(q), NEW top \in Nat,
         Increasing(p), Increasing(q),
         \A i \in 1..Len(p), j \in 1..Len(q) : p[i] < q[j],
         \A i \in 1..Len(p) : p[i] <= top,
         \A j \in 1..Len(q) : q[j] <= top
  PROVE  /\ p \o SubSeq(q, 1, n) \in Seq(Nat)
         /\ Increasing(p \o SubSeq(q, 1, n))
         /\ \A i \in 1..Len(p \o SubSeq(q, 1, n)) : (p \o SubSeq(q, 1, n))[i] <= top
<1>0. /\ SubSeq(q, 1, n) \in Seq(Nat)
      /\ Len(SubSeq(q, 1, n)) = n
      /\ \A i \in 1..n : SubSeq(q, 1, n)[i] = q[i]
  BY SubSeqProperties
<1>1. PICK s \in Seq(Nat) :
        /\ s = SubSeq(q, 1, n)
        /\ Len(s) = n
        /\ \A i \in 1..n : s[i] = q[i]
  BY <1>0
<1>2. Increasing(s)
  <2> SUFFICES ASSUME NEW i \in 1..n, NEW j \in 1..n, i < j
               PROVE  s[i] < s[j]
    BY <1>1 DEF Increasing
  <2>1. i \in 1..Len(q) /\ j \in 1..Len(q)
    OBVIOUS
  <2>2. q[i] < q[j]
    BY <2>1 DEF Increasing
  <2> QED BY <1>1, <2>2
<1>3. \A i \in 1..Len(p), j \in 1..Len(s) : p[i] < s[j]
  BY <1>1
<1>4. Increasing(p \o s)
  BY <1>2, <1>3, ConcatKeepsIncreasing
<1>5. p \o s \in Seq(Nat) /\ Len(p \o s) = Len(p) + n
  BY <1>1
<1>6. ASSUME NEW i \in 1..Len(p \o s)
      PROVE  (p \o s)[i] <= top
  <2>1. CASE i <= Len(p)
    BY <1>1, <1>5, <2>1
  <2>2. CASE i > Len(p)
    <3>1. (p \o s)[i] = s[i - Len(p)] /\ i - Len(p) \in 1..n
      BY <1>1, <1>5, <2>2
    <3> QED BY <1>1, <3>1
  <2> QED BY <1>5, <2>1, <2>2
<1> QED BY <1>1, <1>4, <1>5, <1>6

LEMMA OrderInit == Init => Order
BY DEF Init, Order, SocketTypes, Increasing

LEMMA OrderStep == Order /\ [Next]_vars => Order'
<1> SUFFICES ASSUME Order, [Next]_vars
             PROVE  Order'
  OBVIOUS
<1> USE DEF Order, SocketTypes
<1>1. ASSUME UNCHANGED <<socket, log>>
      PROVE  Order'
  BY <1>1 DEF socket, log, Increasing
<1>2. CASE Send
  <2>1. sent' = sent + 1 /\ sent' \in Nat
    BY <1>2 DEF Send
  <2>2. CASE SendOnline(sent')
    <3>1. queued = << >> /\ queued' = << >> /\ conn' = conn
      BY <2>2 DEF SendOnline, socket
    <3>2. CASE written' = written
      BY <2>1, <3>1, <3>2 DEF Increasing
    <3>3. CASE written' = Append(written, sent')
      <4>1. \A i \in 1..Len(written) : written[i] < sent'
        BY <2>1
      <4>2. /\ written' \in Seq(Nat)
            /\ Increasing(written')
            /\ \A i \in 1..Len(written') : written'[i] <= sent'
        BY <2>1, <3>3, <4>1, AppendKeepsIncreasing
      <4> QED BY <2>1, <3>1, <4>2 DEF Increasing
    <3> QED BY <2>2, <3>2, <3>3 DEF SendOnline
  <2>3. CASE SendDead(sent')
    <3>1. written' = written
      BY <2>3 DEF SendDead
    <3>2. CASE conn' = "offline" /\ queued' = << >>
      BY <2>1, <3>1, <3>2 DEF Increasing
    <3>3. CASE conn' = conn /\ conn = "dead" /\ queued' = Append(queued, sent')
      <4>1. \A i \in 1..Len(queued) : queued[i] < sent'
        BY <2>1
      <4>2. /\ queued' \in Seq(Nat)
            /\ Increasing(queued')
            /\ \A i \in 1..Len(queued') : queued'[i] <= sent'
        BY <2>1, <3>3, <4>1, AppendKeepsIncreasing
      <4>3. \A i \in 1..Len(written), j \in 1..Len(queued') : written[i] < queued'[j]
        BY <2>1, <3>3
      <4>4. Increasing(written') /\ \A i \in 1..Len(written') : written'[i] <= sent'
        BY <2>1, <3>1 DEF Increasing
      <4> QED BY <2>1, <3>1, <3>3, <4>2, <4>3, <4>4
    <3> QED BY <2>3, <3>2, <3>3 DEF SendDead, Queue
  <2>4. CASE SendOffline(sent')
    BY <2>1, <2>4 DEF SendOffline, socket, Increasing
  <2> QED BY <1>2, <2>2, <2>3, <2>4 DEF Send
<1>3. CASE Establish
  <2>1. PICK n \in 0..Len(queued) : written' = written \o SubSeq(queued, 1, n)
    BY <1>3 DEF Establish, Flushed
  <2>2. conn' = "online" /\ queued' = << >> /\ sent' = sent
    BY <1>3 DEF Establish
  <2>3. /\ written' \in Seq(Nat)
        /\ Increasing(written')
        /\ \A i \in 1..Len(written') : written'[i] <= sent
    BY <2>1, FlushKeepsIncreasing
  <2> QED BY <2>2, <2>3 DEF Increasing
<1>4. CASE LinkDown
  BY <1>4 DEF LinkDown, log, Increasing
<1> QED
  BY <1>1, <1>2, <1>3, <1>4
     DEF Next, Refused, Accepted, Exceeded, Rings, OtherEvent, Age, vars, socket, log

\* For any number of messages, connections and failures, messages leave in
\* the order in which the entity sends them (EntityConnection::establish
\* writes what was queued before anything else is sent).
THEOREM NothingIsOvertaken == Spec => []NothingOvertakes
<1>1. Order => NothingOvertakes
  BY DEF Order, NothingOvertakes
<1> QED BY <1>1, OrderInit, OrderStep, PTL DEF Spec

-----------------------------------------------------------------------------
(* The timer. First, that there is a function as Backoff is defined: there
   is one for the numbers up to any n, and two of them agree.              *)

UpTo(n, g) ==
  /\ g \in [0..n -> Nat]
  /\ g[0] = FirstDelay
  /\ \A i \in 1..n : g[i] = Lower(g[i - 1] * 2, MaxDelay)

LEMMA OneUpToEach ==
  ASSUME NEW n \in Nat
  PROVE  \E g : UpTo(n, g)
<1> DEFINE S == {i \in Nat : ~\E g : UpTo(i, g)}
<1>1. SUFFICES ASSUME S # {} PROVE FALSE
  OBVIOUS
<1>2. PICK i \in S : \A j \in S : <<j, i>> \notin OpToRel(<, Nat)
  BY <1>1, WFMin, NatLessThanWellFounded, Zenon
<1>3. i \in Nat /\ ~\E g : UpTo(i, g)
  OBVIOUS
<1>4. CASE i = 0
  <2> DEFINE g == [x \in 0..0 |-> FirstDelay]
  <2>1. UpTo(0, g)
    BY DelayAssumption DEF UpTo, DelayAssumption
  <2> QED BY <1>3, <1>4, <2>1
<1>5. CASE i # 0
  <2>1. i - 1 \in Nat /\ i - 1 < i
    BY <1>3, <1>5
  <2>2. i - 1 \notin S
    <3>1. <<i - 1, i>> \in OpToRel(<, Nat)
      BY <1>3, <2>1 DEF OpToRel
    <3> QED BY <1>2, <3>1
  <2>3. PICK g : UpTo(i - 1, g)
    BY <2>1, <2>2
  <2> DEFINE h == [x \in 0..i |-> IF x = i THEN Lower(g[i - 1] * 2, MaxDelay) ELSE g[x]]
  <2>4. \A x \in 0..(i - 1) : h[x] = g[x]
    BY <1>3, <2>1
  <2>5. h[i] = Lower(g[i - 1] * 2, MaxDelay)
    BY <1>3
  <2>6. h \in [0..i -> Nat]
    BY <1>3, <2>1, <2>3, DelayAssumption DEF UpTo, Lower, DelayAssumption
  <2> HIDE DEF h
  <2>7. h[0] = FirstDelay
    BY <1>3, <1>5, <2>1, <2>3, <2>4 DEF UpTo
  <2>8. ASSUME NEW j \in 1..i PROVE h[j] = Lower(h[j - 1] * 2, MaxDelay)
    <3>1. j - 1 \in 0..(i - 1) /\ h[j - 1] = g[j - 1]
      BY <1>3, <2>4
    <3>2. CASE j = i
      BY <2>5, <3>1, <3>2
    <3>3. CASE j # i
      <4>1. j \in 0..(i - 1) /\ j \in 1..(i - 1)
        BY <1>3, <3>3
      <4> QED BY <2>3, <2>4, <3>1, <4>1 DEF UpTo
    <3> QED BY <3>2, <3>3
  <2>9. UpTo(i, h)
    BY <2>6, <2>7, <2>8, Zenon DEF UpTo
  <2> QED BY <1>3, <2>9
<1> QED BY <1>4, <1>5

LEMMA TheyAgree ==
  ASSUME NEW n \in Nat, NEW m \in Nat, NEW g, UpTo(n, g), NEW h, UpTo(m, h),
         NEW k \in Nat, k <= n, k <= m
  PROVE  g[k] = h[k]
<1> DEFINE S == {i \in Nat : i <= k /\ g[i] # h[i]}
<1>1. SUFFICES ASSUME S # {} PROVE FALSE
  OBVIOUS
<1>2. PICK i \in S : \A j \in S : <<j, i>> \notin OpToRel(<, Nat)
  BY <1>1, WFMin, NatLessThanWellFounded, Zenon
<1>3. i \in Nat /\ i <= k /\ g[i] # h[i]
  OBVIOUS
<1>4. i # 0
  BY <1>3 DEF UpTo
<1>5. i - 1 \in Nat /\ i - 1 <= k /\ i \in 1..n /\ i \in 1..m
  BY <1>3, <1>4
<1>6. i - 1 \notin S
  <2>1. <<i - 1, i>> \in OpToRel(<, Nat)
    BY <1>3, <1>5 DEF OpToRel
  <2> QED BY <1>2, <2>1
<1>7. g[i - 1] = h[i - 1]
  BY <1>5, <1>6
<1> QED BY <1>3, <1>5, <1>7 DEF UpTo

LEMMA BackoffDoubles ==
  /\ Backoff[0] = FirstDelay
  /\ \A n \in Nat : /\ Backoff[n] \in Nat \ {0}
                    /\ Backoff[n + 1] = Lower(Backoff[n] * 2, MaxDelay)
<1> DEFINE Of(n) == CHOOSE g : UpTo(n, g)
           b == [n \in Nat |-> Of(n)[n]]
<1>1. ASSUME NEW n \in Nat PROVE UpTo(n, Of(n))
  BY OneUpToEach, Zenon
<1> HIDE DEF Of
<1>2. b[0] = FirstDelay
  BY <1>1 DEF UpTo
<1>3. ASSUME NEW n \in Nat \ {0} PROVE b[n] = Lower(b[n - 1] * 2, MaxDelay)
  <2>1. n - 1 \in Nat /\ n \in 1..n
    OBVIOUS
  <2>2. UpTo(n, Of(n)) /\ UpTo(n - 1, Of(n - 1))
    BY <1>1, <2>1
  <2>3. PICK g, h : g = Of(n) /\ h = Of(n - 1) /\ UpTo(n, g) /\ UpTo(n - 1, h)
    BY <2>2
  <2>4. g[n - 1] = h[n - 1]
    BY <2>1, <2>3, TheyAgree
  <2>5. g[n] = Lower(g[n - 1] * 2, MaxDelay)
    BY <2>1, <2>3 DEF UpTo
  <2> QED BY <2>1, <2>3, <2>4, <2>5
<1>4. b = [n \in Nat |-> IF n = 0 THEN FirstDelay ELSE Lower(b[n - 1] * 2, MaxDelay)]
  <2>1. \A n \in Nat : b[n] = IF n = 0 THEN FirstDelay ELSE Lower(b[n - 1] * 2, MaxDelay)
    BY <1>2, <1>3
  <2> QED BY <2>1
<1>5. \A n \in Nat : b[n] \in Nat
  BY <1>1 DEF UpTo
<1> HIDE DEF b
<1>6. Backoff = [n \in Nat |-> IF n = 0 THEN FirstDelay ELSE Lower(Backoff[n - 1] * 2, MaxDelay)]
  BY <1>4, Zenon DEF Backoff
<1>7. Backoff[0] = FirstDelay
  BY <1>6
<1>8. \A n \in Nat : Backoff[n + 1] = Lower(Backoff[n] * 2, MaxDelay)
  BY <1>6
<1>9. ASSUME NEW n \in Nat PROVE Backoff[n] \in Nat \ {0}
  <2> DEFINE S == {i \in Nat : Backoff[i] \notin Nat \ {0}}
  <2>1. SUFFICES ASSUME S # {} PROVE FALSE
    OBVIOUS
  <2>2. PICK i \in S : \A j \in S : <<j, i>> \notin OpToRel(<, Nat)
    BY <2>1, WFMin, NatLessThanWellFounded, Zenon
  <2>3. i \in Nat /\ i # 0
    BY <1>7, DelayAssumption DEF DelayAssumption
  <2>4. i - 1 \in Nat /\ <<i - 1, i>> \in OpToRel(<, Nat)
    BY <2>3 DEF OpToRel
  <2>5. Backoff[i - 1] \in Nat \ {0}
    BY <2>2, <2>4
  <2>6. Backoff[i] = Lower(Backoff[i - 1] * 2, MaxDelay)
    BY <1>6, <2>3
  <2> QED BY <2>5, <2>6, DelayAssumption DEF DelayAssumption, Lower
<1> QED BY <1>7, <1>8, <1>9

TimerInv == RetriesBackOff /\ failures \in Nat

\* However often a server that was never reached has been tried, and whatever its
\* entity did in between, the timer is armed, with the delay that doubles with
\* every refusal up to its limit: for any delays and any number of refusals.
THEOREM RefusalsAreCounted == Spec => []RetriesBackOff
<1>1. Init => TimerInv
  BY BackoffDoubles DEF Init, TimerInv, RetriesBackOff
<1>2. TimerInv /\ [Next]_vars => TimerInv'
  <2> SUFFICES ASSUME TimerInv, [Next]_vars
               PROVE  TimerInv'
    OBVIOUS
  <2>0. /\ FirstWait # 0 /\ FirstDelay # 0
        /\ \A n \in Nat : Backoff[n] # 0
        /\ failures \in Nat
        /\ failures # 0 => failures - 1 \in Nat
    BY DelayAssumption, BackoffDoubles DEF DelayAssumption, TimerInv
  <2>1. ASSUME conn' # "online" => conn # "online", Active \/ UNCHANGED timer
        PROVE  TimerInv'
    <3>1. CASE UNCHANGED timer
      BY <2>1, <3>1 DEF TimerInv, RetriesBackOff, timer
    <3>2. CASE Active
      <4>1. failures' \in Nat
        BY <2>0, <3>2 DEF Active, timer
      <4>2. conn' # "online" => UNCHANGED timer
        <5>1. conn' # "online" => wait # 0
          BY <2>0, <2>1 DEF TimerInv, RetriesBackOff
        <5> QED BY <2>1, <3>2, <5>1 DEF Active, Connected
      <4> QED BY <2>1, <4>1, <4>2 DEF TimerInv, RetriesBackOff, timer
    <3> QED BY <2>1, <3>1, <3>2
  <2>2. CASE Refused
    <3>1. conn' = conn /\ failures' = failures + 1 /\ delay' = Doubled
      BY <2>2 DEF Refused, socket
    <3>2. ASSUME conn # "online"
          PROVE  /\ delay = Backoff[failures] /\ delay # 0
                 /\ wait' = delay
                 /\ delay' = Backoff[failures']
      <4>1. delay = Backoff[failures] /\ delay # 0
        BY <2>0, <3>2 DEF TimerInv, RetriesBackOff
      <4>2. Rearmed = delay
        BY <3>2 DEF Rearmed, Connected
      <4> QED BY <2>0, <2>2, <3>1, <4>1, <4>2, BackoffDoubles DEF Refused, Doubled
    <3>3. failures' # 0 /\ failures' - 1 = failures /\ failures' \in Nat
      BY <2>0, <3>1
    <3> QED BY <3>1, <3>2, <3>3 DEF TimerInv, RetriesBackOff
  <2>3. CASE Accepted \/ Exceeded
    <3>1. UNCHANGED <<conn, delay, failures>> /\ wait' = Rearmed
      BY <2>3 DEF Accepted, Exceeded, Rings, socket
    <3>2. conn # "online" => wait' = delay
      BY <3>1 DEF Rearmed, Connected
    <3> QED BY <2>0, <3>1, <3>2, BackoffDoubles DEF TimerInv, RetriesBackOff
  <2>4. CASE Send
    BY <2>1, <2>4 DEF Send, SendOnline, SendDead, SendOffline, socket
  <2>5. CASE Establish
    <3>1. conn' = "online" /\ Active
      BY <2>5 DEF Establish
    <3> QED BY <2>1, <3>1
  <2>6. CASE OtherEvent
    BY <2>1, <2>6 DEF OtherEvent, socket
  <2>7. CASE LinkDown \/ Age \/ UNCHANGED vars
    BY <2>7 DEF LinkDown, Age, vars, timer, socket, TimerInv, RetriesBackOff
  <2> QED BY <2>2, <2>3, <2>4, <2>5, <2>6, <2>7 DEF Next
<1>3. TimerInv => RetriesBackOff
  BY DEF TimerInv
<1> QED BY <1>1, <1>2, <1>3, PTL DEF Spec

-----------------------------------------------------------------------------
(* What was accepted is queued or written.                                 *)

USE BoundAssumption, DelayAssumption DEF BoundAssumption, DelayAssumption

LEMMA ElementsOfAppend ==
  ASSUME NEW T, NEW q \in Seq(T), NEW m \in T
  PROVE  /\ Append(q, m) \in Seq(T)
         /\ Elements(Append(q, m)) = Elements(q) \cup {m}
<1>1. /\ Append(q, m) \in Seq(T) /\ Len(Append(q, m)) = Len(q) + 1 /\ Len(q) \in Nat
      /\ \A i \in 1..Len(q) : Append(q, m)[i] = q[i]
      /\ Append(q, m)[Len(q) + 1] = m
  OBVIOUS
<1>2. 1..Len(Append(q, m)) = (1..Len(q)) \cup {Len(q) + 1}
  BY <1>1
<1> QED BY <1>1, <1>2 DEF Elements

\* A flush that comes to its end leaves nothing of the queue behind.
LEMMA ElementsOfFlush ==
  ASSUME NEW T, NEW p \in Seq(T), NEW q \in Seq(T), NEW n \in 0..Len(q)
  PROVE  /\ p \o SubSeq(q, 1, n) \in Seq(T)
         /\ Elements(p) \subseteq Elements(p \o SubSeq(q, 1, n))
         /\ n = Len(q) => Elements(q) \subseteq Elements(p \o SubSeq(q, 1, n))
<1>0. /\ SubSeq(q, 1, n) \in Seq(T)
      /\ Len(SubSeq(q, 1, n)) = n
      /\ \A i \in 1..n : SubSeq(q, 1, n)[i] = q[i]
  BY SubSeqProperties
<1>1. PICK s \in Seq(T) :
        /\ s = SubSeq(q, 1, n)
        /\ Len(s) = n
        /\ \A i \in 1..n : s[i] = q[i]
  BY <1>0
<1>2. /\ p \o s \in Seq(T) /\ Len(p \o s) = Len(p) + n /\ Len(p) \in Nat /\ n \in Nat
      /\ \A i \in 1..Len(p) : (p \o s)[i] = p[i]
      /\ \A i \in 1..n : (p \o s)[Len(p) + i] = s[i]
  <2>1. /\ p \o s \in Seq(T) /\ Len(p \o s) = Len(p) + Len(s)
        /\ \A i \in 1..(Len(p) + Len(s)) :
             (p \o s)[i] = IF i <= Len(p) THEN p[i] ELSE s[i - Len(p)]
    BY <1>1, ConcatProperties
  <2>2. Len(p) \in Nat /\ Len(q) \in Nat
    BY LenProperties
  <2>3. ASSUME NEW i \in 1..Len(p) PROVE (p \o s)[i] = p[i]
    BY <1>1, <2>1, <2>2
  <2>4. ASSUME NEW i \in 1..n PROVE (p \o s)[Len(p) + i] = s[i]
    <3> DEFINE k == Len(p) + i
    <3>1. k \in 1..(Len(p) + Len(s)) /\ ~(k <= Len(p)) /\ k - Len(p) = i
      BY <1>1, <2>2
    <3>2. (p \o s)[k] = IF k <= Len(p) THEN p[k] ELSE s[k - Len(p)]
      BY <2>1, <3>1
    <3> QED BY <3>1, <3>2
  <2>5. Len(p \o s) = Len(p) + n /\ n \in Nat
    BY <1>1, <2>1, <2>2
  <2> QED BY <2>1, <2>2, <2>3, <2>4, <2>5, Zenon
<1>3. ASSUME NEW i \in 1..Len(p)
      PROVE  p[i] \in Elements(p \o s)
  <2>1. i \in 1..Len(p \o s)
    BY <1>2
  <2> QED BY <1>2, <2>1 DEF Elements
<1>4. ASSUME NEW i \in 1..Len(q), n = Len(q)
      PROVE  q[i] \in Elements(p \o s)
  <2>1. Len(p) + i \in 1..Len(p \o s) /\ i \in 1..n
    BY <1>2, <1>4
  <2>2. (p \o s)[Len(p) + i] = q[i]
    BY <1>1, <1>2, <2>1
  <2> QED BY <2>1, <2>2 DEF Elements
<1>5. Elements(p) \subseteq Elements(p \o s)
  BY <1>3 DEF Elements
<1>6. n = Len(q) => Elements(q) \subseteq Elements(p \o s)
  BY <1>4 DEF Elements
<1> QED BY <1>1, <1>2, <1>5, <1>6

\* Whatever calls it, active() keeps the types of the timer.
LEMMA ActiveType ==
  ASSUME TypeOK, Active
  PROVE  /\ delay' \in FirstDelay..MaxDelay
         /\ wait' \in {0, FirstWait} \cup FirstDelay..MaxDelay
         /\ failures' \in 0..GiveUp+1
BY DEF TypeOK, Active, timer

\* One is added to the messages sent, and their numbers stay in bounds.
LEMMA SendTypes ==
  ASSUME TypeOK, sent < MaxSent, sent' = sent + 1
  PROVE  /\ sent' \in 0..MaxSent /\ sent' \in Message
         /\ 1..sent \subseteq 1..sent' /\ sent' \in 1..sent'
BY DEF TypeOK, Message

\* The invariant is inductive as it stands: what becomes of an accepted message
\* follows from where it is and from the mishaps so far.
LEMMA LossStep == LossNeedsAMishap /\ [Next]_vars => LossNeedsAMishap'
<1> SUFFICES ASSUME LossNeedsAMishap, [Next]_vars
             PROVE  LossNeedsAMishap'
  OBVIOUS
<1>0. TypeOK /\ (mishaps = {} => accepted \subseteq Elements(queued) \cup Elements(written))
  BY DEF LossNeedsAMishap
<1>1. CASE Refused
  <2>1. Doubled \in FirstDelay..MaxDelay
    BY <1>0 DEF Doubled, Lower, TypeOK
  <2>2. Rearmed \in {0} \cup FirstDelay..MaxDelay
    BY <1>0 DEF Rearmed, TypeOK
  <2>3. failures' \in 0..GiveUp+1
    BY <1>0, <1>1 DEF Refused, TypeOK
  <2> QED BY <1>0, <1>1, <2>1, <2>2, <2>3 DEF Refused, TypeOK, LossNeedsAMishap, socket, log
<1>2. CASE Accepted \/ Exceeded
  <2>1. Rearmed \in {0} \cup FirstDelay..MaxDelay
    BY <1>0 DEF Rearmed, TypeOK
  <2> QED BY <1>0, <1>2, <2>1 DEF Accepted, Exceeded, Rings, TypeOK, LossNeedsAMishap, socket, log
<1>3. CASE Send
  <2>1. /\ sent' \in 0..MaxSent /\ sent' \in Message
        /\ 1..sent \subseteq 1..sent' /\ sent' \in 1..sent'
    BY <1>0, <1>3, SendTypes DEF Send
  <2>2. /\ delay' \in FirstDelay..MaxDelay
        /\ wait' \in {0, FirstWait} \cup FirstDelay..MaxDelay
        /\ failures' \in 0..GiveUp+1
        /\ young' = young /\ sockets' = sockets
    <3>1. CASE Active
      BY <1>0, <1>3, <3>1, ActiveType DEF Send
    <3>2. CASE UNCHANGED timer
      BY <1>0, <1>3, <3>2 DEF Send, timer, TypeOK
    <3> QED BY <1>3, <3>1, <3>2 DEF Send
  <2>3. written \in Seq(Message) /\ queued \in Seq(Message) /\ accepted \subseteq 1..sent
    BY <1>0 DEF TypeOK
  <2>4. CASE SendOnline(sent')
    <3>1. UNCHANGED <<conn, queued, link, mishaps>>
      BY <2>4 DEF SendOnline, socket
    <3>2. CASE written' = Append(written, sent') /\ accepted' = accepted \cup {sent'}
      <4>1. written' \in Seq(Message) /\ Elements(written') = Elements(written) \cup {sent'}
        BY <2>1, <2>3, <3>2, ElementsOfAppend
      <4>2. accepted' \subseteq 1..sent'
        BY <2>1, <2>3, <3>2
      <4>3. mishaps' = {} => accepted' \subseteq Elements(queued') \cup Elements(written')
        BY <1>0, <3>1, <3>2, <4>1
      <4> QED BY <1>0, <2>1, <2>2, <3>1, <4>1, <4>2, <4>3 DEF TypeOK, LossNeedsAMishap
    <3>3. CASE UNCHANGED <<written, accepted>>
      BY <1>0, <2>1, <2>2, <2>3, <3>1, <3>3 DEF TypeOK, LossNeedsAMishap
    <3> QED BY <2>4, <3>2, <3>3 DEF SendOnline
  <2>5. CASE SendDead(sent')
    <3>1. link' = link /\ written' = written
      BY <2>5 DEF SendDead
    <3>2. CASE queued' = Append(queued, sent') /\ accepted' = accepted \cup {sent'} /\ UNCHANGED <<conn, mishaps>>
      <4>1. queued' \in Seq(Message) /\ Elements(queued') = Elements(queued) \cup {sent'}
        BY <2>1, <2>3, <3>2, ElementsOfAppend
      <4>2. accepted' \subseteq 1..sent'
        BY <2>1, <2>3, <3>2
      <4>3. mishaps' = {} => accepted' \subseteq Elements(queued') \cup Elements(written')
        BY <1>0, <3>1, <3>2, <4>1
      <4> QED BY <1>0, <2>1, <2>2, <3>1, <3>2, <4>1, <4>2, <4>3 DEF TypeOK, LossNeedsAMishap
    <3>3. CASE conn' = "offline" /\ queued' = << >> /\ mishaps' = mishaps \cup {"aged"} /\ accepted' = accepted
      <4>1. TypeOK'
        <5>1. mishaps' \subseteq {"aged", "broken"} /\ queued' \in Seq(Message) /\ accepted' \subseteq 1..sent'
          BY <1>0, <2>1, <2>3, <3>3 DEF TypeOK
        <5> QED BY <1>0, <2>1, <2>2, <3>1, <3>3, <5>1 DEF TypeOK
      <4>2. mishaps' # {}
        BY <3>3
      <4> QED BY <4>1, <4>2 DEF LossNeedsAMishap
    <3> QED BY <2>5, <3>2, <3>3 DEF SendDead, Queue
  <2>6. CASE SendOffline(sent')
    BY <1>0, <2>1, <2>2, <2>3, <2>6 DEF SendOffline, socket, TypeOK, LossNeedsAMishap
  <2> QED BY <1>3, <2>4, <2>5, <2>6 DEF Send
<1>4. CASE Establish
  <2>1. PICK n \in 0..Len(queued) :
          /\ written' = written \o SubSeq(queued, 1, n)
          /\ link' = IF n = Len(queued) THEN "up" ELSE "down"
          /\ mishaps' = mishaps \cup (IF n = Len(queued) THEN {} ELSE {"broken"})
    BY <1>4 DEF Establish, Flushed
  <2>2. written \in Seq(Message) /\ queued \in Seq(Message)
    BY <1>0 DEF TypeOK
  <2>3. /\ written' \in Seq(Message)
        /\ Elements(written) \subseteq Elements(written')
        /\ n = Len(queued) => Elements(queued) \subseteq Elements(written')
    BY <2>1, <2>2, ElementsOfFlush
  <2>4. /\ delay' \in FirstDelay..MaxDelay
        /\ wait' \in {0, FirstWait} \cup FirstDelay..MaxDelay
        /\ failures' \in 0..GiveUp+1
    BY <1>0, <1>4, ActiveType DEF Establish
  <2>5. /\ conn' = "online" /\ queued' = << >> /\ sockets' \in 0..MaxSockets
        /\ UNCHANGED <<young, sent, accepted>>
    BY <1>0, <1>4 DEF Establish, TypeOK
  <2>6. TypeOK'
    BY <1>0, <2>1, <2>3, <2>4, <2>5 DEF TypeOK
  <2>7. ASSUME mishaps' = {}
        PROVE  accepted' \subseteq Elements(written')
    <3>1. mishaps = {} /\ n = Len(queued)
      BY <2>1, <2>7
    <3> QED BY <1>0, <2>3, <2>5, <3>1
  <2> QED BY <2>6, <2>7 DEF LossNeedsAMishap
<1>5. CASE OtherEvent
  BY <1>0, <1>5, ActiveType DEF OtherEvent, TypeOK, LossNeedsAMishap, socket, log
<1>6. CASE LinkDown \/ Age \/ UNCHANGED vars
  BY <1>0, <1>6 DEF LinkDown, Age, vars, TypeOK, LossNeedsAMishap, socket, log, timer
<1> QED BY <1>1, <1>2, <1>3, <1>4, <1>5, <1>6 DEF Next

\* A message for which EntityConnection::send has returned Ok is queued or has
\* been given to a socket, unless a queue grew too old or a socket failed in
\* a flush; for any number of messages and connections.
THEOREM AcceptedIsOnItsWay == Spec => []LossNeedsAMishap
<1>1. Init => LossNeedsAMishap
  <2> SUFFICES ASSUME Init PROVE LossNeedsAMishap
    OBVIOUS
  <2>1. TypeOK
    BY DEF Init, TypeOK
  <2> QED BY <2>1 DEF Init, LossNeedsAMishap
<1> QED BY <1>1, LossStep, PTL DEF Spec

-----------------------------------------------------------------------------
(* The streams that a task polls.                                          *)

\* The state of StreamsUnorderedMap and of the streams keeps its type.
THEOREM StreamsTypeCorrect == StreamsSpec => []StreamsTypeOK
<1>1. StreamsInit => StreamsTypeOK
  BY StreamsBoundAssumption DEF StreamsBoundAssumption, StreamsInit, StreamsTypeOK
<1>2. StreamsTypeOK /\ [StreamsNext]_streamVars => StreamsTypeOK'
  <2> SUFFICES ASSUME StreamsTypeOK, [StreamsNext]_streamVars PROVE StreamsTypeOK'
    OBVIOUS
  <2> USE KeyAssumption, StreamsBoundAssumption DEF KeyAssumption, StreamsBoundAssumption, StreamsTypeOK
  <2>0. Touch \/ OtherArm => touches' \in 0..MaxTouches
    BY DEF Touch, OtherArm
  <2>1. ASSUME NEW k \in Key, Producer(k) PROVE StreamsTypeOK'
    <3>1. CASE Push(k)
      <4>1. items' \in [Key -> 0..MaxItems]
        BY <3>1 DEF Push
      <4>2. armed' \subseteq Key /\ waking' \in [Key -> {"idle", "insert", "notify"}]
        BY <3>1 DEF Push, TakeWaker
      <4> QED BY <3>1, <4>1, <4>2 DEF Push
    <3>2. CASE CloseSender(k)
      BY <3>2 DEF CloseSender, TakeWaker
    <3>3. CASE WakeInsert(k) \/ WakeNotify(k)
      BY <3>3 DEF WakeInsert, AfterInsert, WakeNotify, Streams
    <3> QED BY <2>1, <3>1, <3>2, <3>3 DEF Producer
  <2>2. ASSUME NEW current \in SUBSET Key, NEW fresh \in SUBSET Key,
               Mutate(current, fresh)
        PROVE  StreamsTypeOK'
    <3>1. items' \in [Key -> 0..MaxItems]
      BY <2>2 DEF Mutate
    <3> QED BY <2>0, <2>2, <3>1 DEF Mutate, Touch, GuardDrop
  <2>3. ASSUME NEW k \in Key, Entry(k) \/ Remove(k) PROVE StreamsTypeOK'
    <3>1. CASE Entry(k)
      BY <2>0, <3>1 DEF Entry, Touch, Streams
    <3>2. CASE Remove(k)
      BY <2>0, <3>2 DEF Remove, Touch
    <3> QED BY <2>3, <3>1, <3>2
  <2>4. ASSUME NEW k \in Key, PollKey(k) PROVE StreamsTypeOK'
    <3>1. CASE PollAbsent(k)
      BY <3>1 DEF PollAbsent, Streams
    <3>2. ASSUME NEW outcome \in Outcomes, PollItem(k, outcome) PROVE StreamsTypeOK'
      BY <3>2 DEF PollItem, HasItem
    <3>3. ASSUME NEW outcome \in Outcomes, PollEnd(k, outcome) PROVE StreamsTypeOK'
      BY <3>3 DEF PollEnd
    <3>4. CASE PollPending(k)
      BY <3>4 DEF PollPending
    <3> QED BY <2>4, <3>1, <3>2, <3>3, <3>4 DEF PollKey
  <2>5. CASE StartPoll \/ Park \/ Resume
    BY <2>5 DEF StartPoll, Park, Resume, Streams
  <2>7. CASE OtherArm
    BY <2>0, <2>7 DEF OtherArm, Streams
  <2>6. CASE UNCHANGED streamVars
    BY <2>6 DEF streamVars
  <2> QED BY <2>1, <2>2, <2>3, <2>4, <2>5, <2>6, <2>7 DEF StreamsNext, Owner
<1> QED BY <1>1, <1>2, PTL DEF StreamsSpec

-----------------------------------------------------------------------------
\* A step of the owner's task leaves it parked only if it was parked already,
\* with the ready set untouched, or if the ready set is empty.
LEMMA OwnerParks ==
  ASSUME Owner, pc' = "parked"
  PROVE  ready' = {}
<1>1. ASSUME NEW current \in SUBSET Key, NEW fresh \in SUBSET Key,
             Mutate(current, fresh)
      PROVE  FALSE
  BY <1>1 DEF Mutate, Touch
<1>2. ASSUME NEW k \in Key, Entry(k) \/ Remove(k) PROVE FALSE
  BY <1>2 DEF Entry, Remove, Touch
<1>3. ASSUME NEW k \in Key, PollKey(k) PROVE FALSE
  BY <1>3 DEF PollKey, PollAbsent, PollItem, PollEnd, PollPending
<1>4. CASE StartPoll \/ Park \/ Resume \/ OtherArm
  BY <1>4 DEF StartPoll, Park, LoopIsOver, Resume, OtherArm
<1> QED BY <1>1, <1>2, <1>3, <1>4 DEF Owner

\* The owner's task never sleeps on a nonempty ready set without a
\* notification, delivered or in the hands of a waking thread: inserting the
\* key before waking the task (MapWaker::wake_by_ref) is what makes it true.
THEOREM NotificationsAreNotLost == StreamsSpec => []NoLostNotification
<1>1. StreamsInit => NoLostNotification
  BY DEF StreamsInit, NoLostNotification
<1>2. StreamsTypeOK /\ NoLostNotification /\ [StreamsNext]_streamVars => NoLostNotification'
  <2> SUFFICES ASSUME StreamsTypeOK, NoLostNotification, [StreamsNext]_streamVars,
                      pc' = "parked", ready' # {}
               PROVE  runQueue' = "queued" \/ \E k \in Key : waking'[k] = "notify"
    BY DEF NoLostNotification
  <2>1. CASE Owner
    BY <2>1, OwnerParks
  <2>2. ASSUME NEW j \in Key, Push(j) \/ CloseSender(j)
        PROVE  runQueue' = "queued" \/ \E k \in Key : waking'[k] = "notify"
    BY <2>2 DEF StreamsTypeOK, NoLostNotification, Push, CloseSender, TakeWaker
  <2>3. ASSUME NEW j \in Key, WakeInsert(j)
        PROVE  runQueue' = "queued" \/ \E k \in Key : waking'[k] = "notify"
    BY <2>3 DEF StreamsTypeOK, WakeInsert, AfterInsert
  <2>4. ASSUME NEW j \in Key, WakeNotify(j)
        PROVE  runQueue' = "queued" \/ \E k \in Key : waking'[k] = "notify"
    BY <2>4 DEF WakeNotify
  <2>5. CASE UNCHANGED streamVars
    BY <2>5 DEF streamVars, NoLostNotification
  <2> QED BY <2>1, <2>2, <2>3, <2>4, <2>5 DEF StreamsNext, Producer
<1> QED BY <1>1, <1>2, StreamsTypeCorrect, PTL DEF StreamsSpec
=============================================================================
