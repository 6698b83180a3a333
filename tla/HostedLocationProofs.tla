------------------------ MODULE HostedLocationProofs ------------------------
(***************************************************************************)
(* Theorems about the visits to a location that another server, or another *)
(* player, keeps.                                                          *)
(*                                                                         *)
(* VisitorHandoff, for any number of sessions, moves and messages, when    *)
(* only one server's player travels: the home server knows of its player's *)
(* visit, and of the first guest.                                          *)
(*                                                                         *)
(* HostedLocation, for any guests, settings and number of visits: nobody   *)
(* is inside against the setting, the host knows of all who are, and his   *)
(* Client and the task never wait for each other.                          *)
(***************************************************************************)
EXTENDS HostedLocation, VisitorHandoff, SequenceTheorems, TLAPS

LEMMA Appended ==
  ASSUME NEW S, NEW q \in Seq(S), NEW e \in S
  PROVE  /\ Append(q, e) \in Seq(S) /\ Len(Append(q, e)) = Len(q) + 1
         /\ DOMAIN Append(q, e) = DOMAIN q \cup {Len(q) + 1}
         /\ \A i \in DOMAIN q : Append(q, e)[i] = q[i]
         /\ Append(q, e)[Len(q) + 1] = e
OBVIOUS

LEMMA Taken ==
  ASSUME NEW S, NEW q \in Seq(S), q # << >>
  PROVE  /\ Tail(q) \in Seq(S) /\ Len(Tail(q)) = Len(q) - 1
         /\ 1 \in DOMAIN q /\ Head(q) = q[1] /\ Head(q) \in S
         /\ \A i \in DOMAIN Tail(q) : i + 1 \in DOMAIN q /\ Tail(q)[i] = q[i + 1]
         /\ \A i \in DOMAIN q : i = 1 \/ (i - 1 \in DOMAIN Tail(q) /\ Tail(q)[i - 1] = q[i])
OBVIOUS

-----------------------------------------------------------------------------
(* The hand-off of visitors: two servers and the links between them.       *)

LEMMA OtherServer ==
  ASSUME NEW s \in Server
  PROVE  /\ Other(s) \in Server /\ Other(s) # s /\ Other(Other(s)) = s
         /\ \A t \in Server : t = s \/ t = Other(s)
<1>1. PICK t \in Server : Server = {s, t} /\ s # t
  BY ServerAssumption DEF ServerAssumption
<1>2. (CHOOSE x \in Server : x # s) = t
  BY <1>1
<1>3. (CHOOSE x \in Server : x # t) = s
  BY <1>1
<1> QED BY <1>1, <1>2, <1>3 DEF Other

LEMMA TwoAppended ==
  ASSUME NEW S, NEW q \in Seq(S), NEW a \in S, NEW b \in S
  PROVE  q \o <<b>> = Append(q, b) /\ q \o <<a, b>> = Append(Append(q, a), b)
<1>1. <<a>> \in Seq(S) /\ <<b>> \in Seq(S)
  OBVIOUS
<1>5. <<a>> \o <<b>> = <<a, b>>
  <2>1. PICK r, p : r = <<a>> \o <<b>> /\ p = <<a, b>>
    OBVIOUS
  <2>2. r \in Seq(S) /\ Len(r) = 2 /\ r[1] = a /\ r[2] = b
    BY <2>1
  <2>3. p \in Seq(S) /\ Len(p) = 2 /\ p[1] = a /\ p[2] = b
    BY <2>1
  <2>4. \A i \in 1 .. Len(r) : i = 1 \/ i = 2
    BY <2>2
  <2>5. r = p
    BY <2>2, <2>3, <2>4, SeqEqual
  <2> QED BY <2>1, <2>5
<1>2. q \o <<a>> = Append(q, a) /\ Append(q, a) \in Seq(S) /\ q \o <<b>> = Append(q, b)
  OBVIOUS
<1>3. Append(q, a) \o <<b>> = Append(Append(q, a), b)
  BY <1>2
<1>4. (q \o <<a>>) \o <<b>> = q \o (<<a>> \o <<b>>)
  BY <1>1, ConcatAssociative
<1> QED BY <1>2, <1>3, <1>4, <1>5

LEMMA ElementsAppended ==
  ASSUME NEW S, NEW q \in Seq(S), NEW e \in S
  PROVE  Elements(Append(q, e)) = Elements(q) \cup {e}
<1>1. PICK r : r = Append(q, e)
  OBVIOUS
<1>2. /\ Len(q) \in Nat /\ Len(r) = Len(q) + 1 /\ r[Len(q) + 1] = e
      /\ \A i \in 1 .. Len(q) : r[i] = q[i]
  BY <1>1
<1>3. \A i \in 1 .. Len(r) : i \in 1 .. Len(q) \/ i = Len(q) + 1
  BY <1>2
<1>4. (\A i \in 1 .. Len(q) : i \in 1 .. Len(r)) /\ Len(q) + 1 \in 1 .. Len(r)
  BY <1>2
<1> QED BY <1>1, <1>2, <1>3, <1>4 DEF Elements

LEMMA ElementsTaken ==
  ASSUME NEW S, NEW q \in Seq(S), q # << >>
  PROVE  Head(q) \in Elements(q) /\ Elements(q) = Elements(Tail(q)) \cup {Head(q)}
<1>1. PICK r : r = Tail(q)
  OBVIOUS
<1>2. /\ 1 \in 1 .. Len(q) /\ Head(q) = q[1]
      /\ \A i \in 1 .. Len(r) : i + 1 \in 1 .. Len(q) /\ r[i] = q[i + 1]
      /\ \A i \in 1 .. Len(q) : i = 1 \/ (i - 1 \in 1 .. Len(r) /\ r[i - 1] = q[i])
  BY <1>1
<1> QED BY <1>1, <1>2 DEF Elements

LEMMA ElementsOfSome ==
  ASSUME NEW S, NEW q \in Seq(S)
  PROVE  Elements(q) \subseteq S /\ Elements(<< >>) = {} /\ (Elements(q) = {} => q = << >>)
BY DEF Elements

Links == link \in [Server -> Seq(Message)]

\* What a server sends, on its own account or for a message it takes.
LEMMA Posted ==
  ASSUME Links, NEW s \in Server, NEW m \in Message, Post(s, <<m>>)
  PROVE  /\ link'[s] = Append(link[s], m) /\ link'[Other(s)] = link[Other(s)]
         /\ Links'
<1>1. PICK q : q = link[s]
  OBVIOUS
<1>2. q \in Seq(Message) /\ q \o <<m>> = Append(q, m) /\ Append(q, m) \in Seq(Message)
  BY <1>1 DEF Links
<1>3. link' = [link EXCEPT ![s] = Append(q, m)]
  BY <1>1, <1>2 DEF Post
<1> QED BY <1>1, <1>2, <1>3, OtherServer DEF Links

LEMMA Replied ==
  ASSUME Links, NEW s \in Server, NEW o, o = Other(s), link[o] # << >>, NEW notes, Respond(s, notes)
  PROVE  /\ link'[o] = Tail(link[o])
         /\ notes = << >> => link'[s] = link[s] /\ Links'
         /\ \A m \in Message : notes = <<m>> => link'[s] = Append(link[s], m) /\ Links'
<1>1. o \in Server /\ o # s
  BY OtherServer
<1>2. PICK q, r : q = link[s] /\ r = Tail(link[o])
  OBVIOUS
<1>3. q \in Seq(Message) /\ r \in Seq(Message)
  BY <1>1, <1>2, Taken DEF Links
<1>4. link' = [link EXCEPT ![o] = r, ![s] = q \o notes]
  BY <1>1, <1>2 DEF Respond
<1>5. link'[o] = r
  BY <1>1, <1>4 DEF Links
<1>6. CASE notes = << >>
  <2>1. q \o notes = q
    BY <1>3, <1>6
  <2>2. link'[s] = q /\ Links'
    BY <1>1, <1>3, <1>4, <2>1 DEF Links
  <2> QED BY <1>2, <1>5, <1>6, <2>2
<1>7. ASSUME NEW m \in Message, notes = <<m>> PROVE link'[s] = Append(q, m) /\ Links'
  <2>1. q \o notes = Append(q, m) /\ Append(q, m) \in Seq(Message)
    BY <1>3, <1>7
  <2> QED BY <1>1, <1>3, <1>4, <2>1 DEF Links
<1> QED BY <1>2, <1>5, <1>6, <1>7

LEMMA NotesAreMessages ==
  ASSUME NEW k \in 0 .. MaxSessions
  PROVE  \A kind \in {"Send", "Yank", "Release", "Arrived", "Refused", "Answer", "Avatar", "Request"} :
           Note(kind, k) \in Message /\ Note(kind, k).kind = kind /\ Note(kind, k).session = k
BY DEF Note, Message

\* What waits in a channel is part of the chatter, which is bounded.
VisitsTyped == HandoffTypeOK /\ \A s \in Server, k \in Session : events[s][k] <= chatter

-----------------------------------------------------------------------------
(* Everything keeps its type.                                              *)

LEMMA JoinTyped ==
  ASSUME VisitsTyped, NEW s \in Server, StartJoin(s)
  PROVE  /\ client' \in [Server -> 0 .. MaxSessions] /\ started' \in [Server -> 0 .. MaxSessions]
         /\ queue' \in [Server -> Seq(Session)] /\ news' \in [Server -> Seq(Update)]
         /\ started'[s] = started[s] + 1 /\ queue'[s] = Append(queue[s], started'[s])
<1>1. PICK k : k = started'[s]
  OBVIOUS
<1>2. started[s] \in 0 .. MaxSessions /\ started[s] < MaxSessions
  BY DEF VisitsTyped, HandoffTypeOK, StartJoin
<1>3. k = started[s] + 1 /\ k \in Session /\ k \in 0 .. MaxSessions
  BY <1>1, <1>2, BoundAssumption DEF VisitsTyped, HandoffTypeOK, StartJoin, Session, BoundAssumption
<1>4. PICK q : q = Append(queue[s], k)
  OBVIOUS
<1>5. q \in Seq(Session)
  BY <1>3, <1>4 DEF VisitsTyped, HandoffTypeOK
<1>6. << >> \in Seq(Update)
  OBVIOUS
<1>7. client' = [client EXCEPT ![s] = k] /\ queue' = [queue EXCEPT ![s] = q]
      /\ news' = [news EXCEPT ![s] = << >>] /\ started' = [started EXCEPT ![s] = k]
  BY <1>1, <1>3, <1>4 DEF StartJoin
<1> QED BY <1>1, <1>3, <1>4, <1>5, <1>6, <1>7 DEF VisitsTyped, HandoffTypeOK

LEMMA ForgetTyped ==
  ASSUME VisitsTyped, NEW s \in Server, Forget(s)
  PROVE  /\ client' \in [Server -> 0 .. MaxSessions] /\ started' = started
         /\ queue' = queue /\ news' \in [Server -> Seq(Update)]
<1>1. << >> \in Seq(Update) /\ 0 \in 0 .. MaxSessions
  BY BoundAssumption DEF BoundAssumption
<1> QED BY <1>1 DEF VisitsTyped, HandoffTypeOK, Forget

LEMMA ClientTyped ==
  ASSUME VisitsTyped, NEW s \in Server, ClientStep(s) \/ Hear(s)
  PROVE  VisitsTyped'
<1>1. CASE Go(s)
  BY <1>1, JoinTyped DEF Go, VisitsTyped, HandoffTypeOK, hostSide
<1>2. CASE Leave(s)
  BY <1>2, ForgetTyped DEF Leave, VisitsTyped, HandoffTypeOK, hostSide
<1>3. CASE Speak(s)
  <2>1. chatter' = chatter + 1 /\ chatter' \in 0 .. MaxChatter /\ chatter \in Nat
    BY <1>3, BoundAssumption DEF Speak, Chat, VisitsTyped, HandoffTypeOK, BoundAssumption
  <2>2. client' \in [Server -> 0 .. MaxSessions] /\ started' = started
        /\ queue' = queue /\ news' \in [Server -> Seq(Update)]
    BY <1>3, ForgetTyped DEF Speak, VisitsTyped, HandoffTypeOK
  <2>3. client[s] \in Session
    BY <1>3 DEF Speak, VisitsTyped, HandoffTypeOK, Session
  <2>4. events' \in [Server -> [Session -> 0 .. MaxChatter]]
        /\ \A t \in Server, k \in Session : events'[t][k] <= chatter'
    <3>1. \A t \in Server, k \in Session : events[t][k] \in 0 .. MaxChatter /\ events[t][k] <= chatter
      BY DEF VisitsTyped, HandoffTypeOK
    <3>4. \A t \in Server, k \in Session : events[t][k] <= chatter'
      BY <2>1, <3>1
    <3>2. CASE events' = events
      BY <3>2, <3>4 DEF VisitsTyped, HandoffTypeOK
    <3>3. CASE events' = [events EXCEPT ![s][client[s]] = @ + 1]
      <4>1. PICK n : n = events[s][client[s]] + 1
        OBVIOUS
      <4>2. n \in 0 .. MaxChatter /\ n <= chatter'
        BY <2>1, <2>3, <3>1, <4>1, BoundAssumption DEF BoundAssumption
      <4>3. PICK f : f = [events[s] EXCEPT ![client[s]] = n]
        OBVIOUS
      <4>4. events' = [events EXCEPT ![s] = f]
        BY <3>3, <4>1, <4>3
      <4>5. f \in [Session -> 0 .. MaxChatter] /\ \A k \in Session : f[k] <= chatter'
        BY <2>1, <2>3, <3>1, <4>2, <4>3 DEF VisitsTyped, HandoffTypeOK
      <4>6. events'[s] = f /\ \A t \in Server : t # s => events'[t] = events[t]
        BY <4>4 DEF VisitsTyped, HandoffTypeOK
      <4>7. events' \in [Server -> [Session -> 0 .. MaxChatter]]
        BY <4>4, <4>5 DEF VisitsTyped, HandoffTypeOK
      <4>8. \A t \in Server, k \in Session : events'[t][k] <= chatter'
        BY <3>4, <4>5, <4>6
      <4> QED BY <4>7, <4>8
    <3> QED BY <1>3, <3>2, <3>3 DEF Speak
  <2> QED BY <1>3, <2>1, <2>2, <2>4 DEF Speak, VisitsTyped, HandoffTypeOK, hostSide
<1>4. CASE Hear(s)
  <2>1. news[s] # << >> /\ news[s] \in Seq(Update)
    BY <1>4 DEF Hear, VisitsTyped, HandoffTypeOK
  <2>2. PICK q : q = Tail(news[s])
    OBVIOUS
  <2>3. q \in Seq(Update)
    BY <2>1, <2>2, Taken
  <2>4. CASE news' = [news EXCEPT ![s] = Tail(@)] /\ UNCHANGED <<client, started, queue>>
    BY <1>4, <2>2, <2>3, <2>4 DEF Hear, VisitsTyped, HandoffTypeOK, hostSide
  <2>5. CASE Forget(s)
    BY <1>4, <2>5, ForgetTyped DEF Hear, VisitsTyped, HandoffTypeOK, hostSide
  <2>6. CASE StartJoin(s)
    BY <1>4, <2>6, JoinTyped DEF Hear, VisitsTyped, HandoffTypeOK, hostSide
  <2> QED BY <1>4, <2>4, <2>5, <2>6 DEF Hear
<1> QED BY <1>1, <1>2, <1>3, <1>4 DEF ClientStep

LEMMA HomeTyped ==
  ASSUME VisitsTyped, NEW s \in Server, CreateOnPeer(s) \/ OnPeerPoll(s)
  PROVE  VisitsTyped'
<1>1. onPeer[s] \in 0 .. MaxSessions /\ queue[s] \in Seq(Session) /\ 0 \in 0 .. MaxSessions /\ Links
  BY BoundAssumption DEF VisitsTyped, HandoffTypeOK, BoundAssumption, Links
<1>2. CASE CreateOnPeer(s)
  <2>1. PICK k, q : k = Head(queue[s]) /\ q = Tail(queue[s])
    OBVIOUS
  <2>5. k \in Session /\ q \in Seq(Session)
    BY <1>1, <1>2, <2>1, Taken DEF CreateOnPeer
  <2>2. k \in Session /\ q \in Seq(Session) /\ k \in 0 .. MaxSessions
    BY <2>5 DEF Session
  <2>3. Links'
    BY <1>1, <1>2, <2>1, <2>2, NotesAreMessages, Posted DEF CreateOnPeer
  <2>4. onPeer' = [onPeer EXCEPT ![s] = k] /\ queue' = [queue EXCEPT ![s] = q]
    BY <1>2, <2>1 DEF CreateOnPeer
  <2> QED BY <1>2, <2>2, <2>3, <2>4 DEF CreateOnPeer, VisitsTyped, HandoffTypeOK, Links, hostSide
<1>3. CASE ForwardEvent(s)
  <2>1. Links'
    BY <1>1, <1>3, NotesAreMessages, Posted DEF ForwardEvent
  <2>2. PICK k : k = onPeer[s] /\ k \in Session
    BY <1>1, <1>3 DEF ForwardEvent, Session
  <2>3. \A t \in Server, j \in Session : events[t][j] \in 0 .. MaxChatter /\ events[t][j] <= chatter
    BY DEF VisitsTyped, HandoffTypeOK
  <2>4. PICK n : n = events[s][k] - 1
    OBVIOUS
  <2>5. n \in 0 .. MaxChatter /\ n <= chatter
    BY <1>3, <2>2, <2>3, <2>4, BoundAssumption DEF BoundAssumption, ForwardEvent, HasEvent, VisitsTyped, HandoffTypeOK
  <2>6. PICK f : f = [events[s] EXCEPT ![k] = n]
    OBVIOUS
  <2>7. events' = [events EXCEPT ![s] = f]
    BY <1>3, <2>2, <2>4, <2>6 DEF ForwardEvent
  <2>8. f \in [Session -> 0 .. MaxChatter] /\ \A j \in Session : f[j] <= chatter
    BY <2>2, <2>3, <2>5, <2>6 DEF VisitsTyped, HandoffTypeOK
  <2>9. events'[s] = f /\ \A t \in Server : t # s => events'[t] = events[t]
    BY <2>7 DEF VisitsTyped, HandoffTypeOK
  <2>10. events' \in [Server -> [Session -> 0 .. MaxChatter]]
    BY <2>7, <2>8 DEF VisitsTyped, HandoffTypeOK
  <2>11. \A t \in Server, j \in Session : events'[t][j] <= chatter
    BY <2>3, <2>8, <2>9
  <2> QED BY <1>3, <2>1, <2>10, <2>11 DEF ForwardEvent, VisitsTyped, HandoffTypeOK, Links, hostSide
<1>4. CASE LoseOnPeer(s)
  <2>1. Links'
    BY <1>1, <1>4, NotesAreMessages, Posted DEF LoseOnPeer, EndOnPeer
  <2> QED BY <1>1, <1>4, <2>1 DEF LoseOnPeer, VisitsTyped, HandoffTypeOK, Links, hostSide
<1> QED BY <1>2, <1>3, <1>4 DEF OnPeerPoll

LEMMA HostTyped ==
  ASSUME VisitsTyped, NEW s \in Server, FromPeerPoll(s) \/ LocationStep(s)
  PROVE  VisitsTyped'
<1>1. visit[s] \in 0 .. MaxSessions /\ updates[s] \in Seq(Update) /\ 0 \in 0 .. MaxSessions /\ Links
  BY BoundAssumption DEF VisitsTyped, HandoffTypeOK, BoundAssumption, Links
<1>2. CASE ForwardUpdate(s)
  <2>1. PICK u, q : u = Head(updates[s]) /\ q = Tail(updates[s])
    OBVIOUS
  <2>2. u \in Update /\ q \in Seq(Update)
    BY <1>1, <1>2, <2>1, Taken DEF ForwardUpdate
  <2>3. Forwarded(u) \in {"Arrived", "Refused", "Answer", "Release"}
    BY <2>2 DEF Forwarded, Update
  <2>4. Note(Forwarded(u), visit[s]) \in Message
    BY <1>1, <2>3, NotesAreMessages
  <2>5. Links'
    BY <1>1, <1>2, <2>1, <2>4, Posted DEF ForwardUpdate
  <2>6. updates' = [updates EXCEPT ![s] = q]
    BY <1>2, <2>1 DEF ForwardUpdate
  <2> QED BY <1>2, <2>2, <2>5, <2>6 DEF ForwardUpdate, VisitsTyped, HandoffTypeOK, Links, homeSide
<1>3. CASE LoseVisit(s)
  <2>1. Links'
    BY <1>1, <1>3, NotesAreMessages, Posted DEF LoseVisit, EndFromPeer
  <2>2. << >> \in Seq(Update)
    OBVIOUS
  <2> QED BY <1>1, <1>3, <2>1, <2>2 DEF LoseVisit, DropVisit, VisitsTyped, HandoffTypeOK, Links, homeSide
<1>4. ASSUME NEW from, NEW to \in {"asking", "inside", "gone"}, NEW new \in Seq(Update), Update1(s, from, to, new)
      PROVE  /\ place' \in [Server -> {"asking", "inside", "gone"}] /\ updates' \in [Server -> Seq(Update)]
             /\ UNCHANGED <<homeSide, link, visit>>
  <2>1. PICK q : q = updates[s] \o new
    OBVIOUS
  <2>2. q \in Seq(Update)
    BY <1>1, <2>1
  <2>3. updates' = [updates EXCEPT ![s] = q] /\ place' = [place EXCEPT ![s] = to]
    BY <1>4, <2>1 DEF Update1
  <2> QED BY <1>4, <2>2, <2>3 DEF Update1, VisitsTyped, HandoffTypeOK
<1>5. /\ << >> \in Seq(Update) /\ <<"arrived", "answer">> \in Seq(Update) /\ <<"refused">> \in Seq(Update)
      /\ <<"answer">> \in Seq(Update) /\ <<"moved">> \in Seq(Update)
  BY DEF Update
<1>6. CASE Admit(s) \/ Refuse(s) \/ Close(s)
  <2>1. /\ place' \in [Server -> {"asking", "inside", "gone"}] /\ updates' \in [Server -> Seq(Update)]
        /\ UNCHANGED <<homeSide, link, visit>>
    BY <1>4, <1>5, <1>6 DEF Admit, Refuse, Close
  <2> QED BY <1>6, <2>1 DEF Admit, Refuse, Close, VisitsTyped, HandoffTypeOK, homeSide
<1>7. CASE Move(s)
  <2>1. /\ place' \in [Server -> {"asking", "inside", "gone"}] /\ updates' \in [Server -> Seq(Update)]
        /\ UNCHANGED <<homeSide, link, visit>>
    BY <1>4, <1>5, <1>7 DEF Move
  <2>2. moves' \in 0 .. MaxMoves /\ chatter' = chatter
    BY <1>7, BoundAssumption DEF Move, BoundAssumption, VisitsTyped, HandoffTypeOK
  <2> QED BY <2>1, <2>2 DEF VisitsTyped, HandoffTypeOK, homeSide
<1>8. CASE Answer(s)
  <2>1. /\ place' \in [Server -> {"asking", "inside", "gone"}] /\ updates' \in [Server -> Seq(Update)]
        /\ UNCHANGED <<homeSide, link, visit>>
    BY <1>4, <1>5, <1>8 DEF Answer
  <2>2. chatter' \in 0 .. MaxChatter /\ moves' = moves /\ chatter' = chatter + 1
    BY <1>8, BoundAssumption DEF Answer, Chat, BoundAssumption, VisitsTyped, HandoffTypeOK
  <2>3. \A t \in Server, k \in Session : events[t][k] \in 0 .. MaxChatter /\ events[t][k] <= chatter
    BY DEF VisitsTyped, HandoffTypeOK
  <2>5. chatter \in 0 .. MaxChatter
    BY DEF VisitsTyped, HandoffTypeOK
  <2>4. \A t \in Server, k \in Session : events[t][k] <= chatter'
    BY <2>2, <2>3, <2>5, BoundAssumption DEF BoundAssumption
  <2> QED BY <2>1, <2>2, <2>4 DEF VisitsTyped, HandoffTypeOK, homeSide
<1> QED BY <1>2, <1>3, <1>6, <1>7, <1>8 DEF FromPeerPoll, LocationStep

LEMMA ReceiveTyped ==
  ASSUME VisitsTyped, NEW s \in Server, Receive(s)
  PROVE  VisitsTyped'
<1>1. /\ onPeer[s] \in 0 .. MaxSessions /\ visit[s] \in 0 .. MaxSessions /\ 0 \in 0 .. MaxSessions
      /\ news[s] \in Seq(Update) /\ Links /\ << >> \in Seq(Update)
  BY BoundAssumption DEF VisitsTyped, HandoffTypeOK, BoundAssumption, Links
<1>2. PICK o : o = Other(s)
  OBVIOUS
<1>3. link[o] # << >>
  BY <1>2 DEF Receive, Incoming, ReceiveArrived, ReceiveRefused, ReceiveAnswer, ReceiveRelease,
         ReceiveSend, Denied, ReceiveYank, ReceiveAvatar, ReceiveRequest
<1>4. Head(link[o]).session \in 0 .. MaxSessions
  <2>1. Head(link[o]) \in Message
    BY <1>1, <1>2, <1>3, OtherServer, Taken DEF Links
  <2> QED BY <2>1 DEF Message
<1>5. ASSUME NEW k \in 0 .. MaxSessions, NEW notes,
             \/ notes = << >> \/ notes = <<Note("Yank", k)>> \/ notes = <<Note("Release", k)>>,
             Respond(s, notes)
      PROVE  Links'
  <2>1. Note("Yank", k) \in Message /\ Note("Release", k) \in Message
    BY NotesAreMessages
  <2> QED BY <1>1, <1>2, <1>3, <1>5, <2>1, Replied
<1>6. ASSUME NEW u \in Update, Tell(s, u) PROVE news' \in [Server -> Seq(Update)]
  <2>1. PICK q : q = Append(news[s], u)
    OBVIOUS
  <2>2. q \in Seq(Update)
    BY <1>1, <2>1
  <2>3. news' = [news EXCEPT ![s] = q] \/ news' = [news EXCEPT ![s] = @]
    BY <1>6, <2>1 DEF Tell
  <2> QED BY <2>2, <2>3 DEF VisitsTyped, HandoffTypeOK
<1>7. CASE ReceiveArrived(s) \/ ReceiveRefused(s) \/ ReceiveAnswer(s) \/ ReceiveRelease(s)
  <2>1. Links'
    BY <1>1, <1>5, <1>7 DEF ReceiveArrived, ReceiveRefused, ReceiveAnswer, ReceiveRelease
  <2>2. news' \in [Server -> Seq(Update)]
    BY <1>6, <1>7 DEF ReceiveArrived, ReceiveRefused, ReceiveAnswer, ReceiveRelease, Update
  <2>3. onPeer' = onPeer \/ onPeer' = [onPeer EXCEPT ![s] = 0]
    BY <1>7 DEF ReceiveArrived, ReceiveRefused, ReceiveAnswer, ReceiveRelease
  <2>4. UNCHANGED <<client, started, queue, events, hostSide, moves, chatter>>
    BY <1>7 DEF ReceiveArrived, ReceiveRefused, ReceiveAnswer, ReceiveRelease
  <2> QED BY <1>1, <2>1, <2>2, <2>3, <2>4 DEF VisitsTyped, HandoffTypeOK, Links, hostSide
<1>8. CASE ReceiveSend(s) \/ ReceiveYank(s) \/ ReceiveAvatar(s) \/ ReceiveRequest(s)
  <2>1. PICK k : k = Head(link[o]).session
    OBVIOUS
  <2>2. Links'
    BY <1>1, <1>2, <1>4, <1>5, <1>8 DEF ReceiveSend, Denied, ReceiveYank, ReceiveAvatar, ReceiveRequest
  <2>3. \/ UNCHANGED hostSide
        \/ DropVisit(s)
        \/ /\ visit' = [visit EXCEPT ![s] = k]
           /\ place' = [place EXCEPT ![s] = "asking"]
           /\ updates' = [updates EXCEPT ![s] = << >>]
    BY <1>2, <1>8, <2>1 DEF ReceiveSend, Denied, ReceiveYank, ReceiveAvatar, ReceiveRequest
  <2>4. UNCHANGED <<homeSide, moves, chatter>>
    BY <1>8 DEF ReceiveSend, Denied, ReceiveYank, ReceiveAvatar, ReceiveRequest
  <2>5. /\ visit' \in [Server -> 0 .. MaxSessions] /\ updates' \in [Server -> Seq(Update)]
        /\ place' \in [Server -> {"asking", "inside", "gone"}]
    <3>1. /\ visit \in [Server -> 0 .. MaxSessions] /\ updates \in [Server -> Seq(Update)]
          /\ place \in [Server -> {"asking", "inside", "gone"}]
      BY DEF VisitsTyped, HandoffTypeOK
    <3>2. CASE UNCHANGED hostSide
      BY <3>1, <3>2 DEF hostSide
    <3>3. CASE ~ UNCHANGED hostSide
      <4>1. /\ visit' = [visit EXCEPT ![s] = k] \/ visit' = [visit EXCEPT ![s] = 0]
            /\ place' = [place EXCEPT ![s] = "asking"] \/ place' = [place EXCEPT ![s] = "gone"]
            /\ updates' = [updates EXCEPT ![s] = << >>]
        BY <2>3, <3>3 DEF DropVisit
      <4>2. k \in 0 .. MaxSessions
        BY <1>4, <2>1
      <4> QED BY <1>1, <3>1, <4>1, <4>2
    <3> QED BY <3>2, <3>3
  <2> QED BY <2>2, <2>4, <2>5 DEF VisitsTyped, HandoffTypeOK, Links, homeSide
<1> QED BY <1>7, <1>8 DEF Receive

LEMMA VisitsKeepTheirTypes ==
  ASSUME VisitsTyped, HandoffNext
  PROVE  VisitsTyped'
BY ClientTyped, HomeTyped, HostTyped, ReceiveTyped DEF HandoffNext

LEMMA VisitsStartTyped ==
  ASSUME HandoffInit
  PROVE  VisitsTyped
<1>1. 0 \in 0 .. MaxSessions /\ 0 \in 0 .. MaxMoves /\ 0 \in 0 .. MaxChatter
  BY BoundAssumption DEF BoundAssumption
<1>2. << >> \in Seq(Session) /\ << >> \in Seq(Update) /\ << >> \in Seq(Message)
  OBVIOUS
<1> QED BY <1>1, <1>2 DEF HandoffInit, VisitsTyped, HandoffTypeOK

-----------------------------------------------------------------------------
(* When the player of o does not travel, a step does one of nine things to *)
(* the player of s, the entries of s and o, and the messages between them. *)

Keeps(t) == link'[t] = link[t]
Sends(t, m) == link'[t] = Append(link[t], m)
Takes(t) == link[t] # << >> /\ link'[t] = Tail(link[t])

HomeStays(s) == started'[s] = started[s] /\ queue'[s] = queue[s]
HostStays(o) == visit'[o] = visit[o] /\ place'[o] = place[o] /\ updates'[o] = updates[o]
HostDrops(o) == visit'[o] = 0 /\ place'[o] = "gone" /\ updates'[o] = << >>

Chooses(s, o) ==
  /\ \/ HomeStays(s)
     \/ started'[s] = started[s] + 1 /\ queue'[s] = Append(queue[s], started'[s])
  /\ onPeer'[s] = onPeer[s]
  /\ Keeps(s) /\ Keeps(o) /\ HostStays(o)

Announces(s, o) ==
  /\ queue[s] # << >>
  /\ queue'[s] = Tail(queue[s]) /\ started'[s] = started[s]
  /\ onPeer'[s] = Head(queue[s])
  /\ Sends(s, Note("Send", Head(queue[s]))) /\ Keeps(o) /\ HostStays(o)

Says(s, o) ==
  /\ onPeer[s] # 0 /\ onPeer'[s] = onPeer[s]
  /\ \E kind \in {"Avatar", "Request"} : Sends(s, Note(kind, onPeer[s]))
  /\ Keeps(o) /\ HostStays(o) /\ HomeStays(s)

Ends(s, o) ==
  /\ onPeer[s] # 0 /\ onPeer'[s] = 0
  /\ Sends(s, Note("Yank", onPeer[s]))
  /\ Keeps(o) /\ HostStays(o) /\ HomeStays(s)

IsTold(s, o) ==
  /\ Takes(o) /\ HostStays(o) /\ HomeStays(s)
  /\ LET m == Head(link[o]) IN
       \/ m.kind \in {"Arrived", "Yank"} /\ Keeps(s) /\ onPeer'[s] = onPeer[s]
       \/ m.kind = "Arrived" /\ onPeer[s] # 0 /\ Sends(s, Note("Yank", onPeer[s])) /\ onPeer'[s] = 0
       \/ m.kind = "Answer" /\ (Keeps(s) \/ Sends(s, Note("Release", onPeer[s]))) /\ onPeer'[s] = onPeer[s]
       \/ m.kind \in {"Refused", "Release"} /\ Keeps(s) /\ onPeer'[s] = 0

IsAsked(s, o) ==
  /\ Takes(s) /\ HomeStays(s) /\ onPeer'[s] = onPeer[s]
  /\ LET m == Head(link[s]) IN
       \/ m.kind \in {"Avatar", "Request", "Release"} /\ Keeps(o) /\ HostStays(o)
       \/ m.kind = "Request" /\ Sends(o, Note("Yank", visit[o])) /\ HostStays(o)
       \/ m.kind = "Avatar" /\ visit[o] # 0 /\ Sends(o, Note("Release", visit[o])) /\ HostDrops(o)
       \/ m.kind = "Yank" /\ Keeps(o) /\ HostDrops(o)
       \/ m.kind = "Send" /\ Sends(o, Note("Release", m.session)) /\ HostStays(o)
       \/ /\ m.kind = "Send" /\ Keeps(o)
          /\ visit'[o] = m.session /\ place'[o] = "asking" /\ updates'[o] = << >>

PassesOn(s, o) ==
  /\ updates[o] # << >> /\ updates'[o] = Tail(updates[o])
  /\ visit'[o] = visit[o] /\ place'[o] = place[o]
  /\ Sends(o, Note(Forwarded(Head(updates[o])), visit[o]))
  /\ Keeps(s) /\ HomeStays(s) /\ onPeer'[s] = onPeer[s]

IsLost(s, o) ==
  /\ visit[o] # 0 /\ Sends(o, Note("Release", visit[o])) /\ HostDrops(o)
  /\ Keeps(s) /\ HomeStays(s) /\ onPeer'[s] = onPeer[s]

IsTreated(s, o) ==
  /\ place[o] # "gone" /\ visit'[o] = visit[o]
  /\ \/ place'[o] = "gone"
     \/ Elements(updates'[o]) \subseteq Elements(updates[o]) \cup {"arrived", "answer"}
     \/ moves' = moves + 1
  /\ Keeps(s) /\ Keeps(o) /\ HomeStays(s) /\ onPeer'[s] = onPeer[s]

HomeKinds == {"Send", "Yank", "Avatar", "Request", "Release"}
HostKinds == {"Arrived", "Refused", "Answer", "Release", "Yank"}

\* Nothing is kept of the player of o, at home or as the guest of s.
NobodyOf(s, o) ==
  /\ onPeer[o] = 0 /\ queue[o] = << >> /\ client[o] = 0
  /\ visit[s] = 0 /\ place[s] = "gone" /\ updates[s] = << >>

\* The player of s is the only one anything is said about.
OneWay(s, o) ==
  /\ NobodyOf(s, o)
  /\ \A m \in Elements(link[s]) : m.kind \in HomeKinds
  /\ \A m \in Elements(link[o]) : m.kind \in HostKinds

LEMMA ClientEffect ==
  ASSUME VisitsTyped, NEW s \in Server, NEW o, o = Other(s), o \notin Traveller, OneWay(s, o),
         NEW t \in Server, ClientStep(t) \/ Hear(t)
  PROVE  NobodyOf(s, o)' /\ moves' = moves /\ Chooses(s, o)
<1>1. o \in Server /\ o # s /\ \A x \in Server : x = s \/ x = o
  BY OtherServer
<1>2. client[o] = 0
  BY DEF OneWay, NobodyOf
<1>3. t = s
  BY <1>1, <1>2 DEF ClientStep, Go, Leave, Speak, Hear
<1>4. UNCHANGED <<onPeer, visit, place, updates, link, moves>>
  BY DEF ClientStep, Go, Leave, Speak, Hear, hostSide
<1>5. \/ StartJoin(s)
      \/ /\ started' = started /\ queue' = queue
         /\ client' = client \/ client' = [client EXCEPT ![s] = 0]
  BY <1>3 DEF ClientStep, Go, Leave, Speak, Hear, Forget
<1>6. client'[o] = 0 /\ queue'[o] = << >>
  BY <1>1, <1>2, <1>5 DEF OneWay, NobodyOf, StartJoin, VisitsTyped, HandoffTypeOK
<1>7. HomeStays(s) \/ (started'[s] = started[s] + 1 /\ queue'[s] = Append(queue[s], started'[s]))
  BY <1>5, JoinTyped DEF HomeStays
<1> QED BY <1>4, <1>6, <1>7 DEF OneWay, NobodyOf, Chooses, Keeps, HostStays

LEMMA HomeEffect ==
  ASSUME VisitsTyped, NEW s \in Server, NEW o, o = Other(s), OneWay(s, o),
         NEW t \in Server, CreateOnPeer(t) \/ OnPeerPoll(t)
  PROVE  NobodyOf(s, o)' /\ moves' = moves /\ (Announces(s, o) \/ Says(s, o) \/ Ends(s, o))
<1>1. o \in Server /\ o # s /\ \A x \in Server : x = s \/ x = o
  BY OtherServer
<1>2. t = s
  BY <1>1 DEF OneWay, NobodyOf, OnPeerPoll, CreateOnPeer, ForwardEvent, LoseOnPeer
<1>3. UNCHANGED <<client, started, visit, place, updates, moves>>
  BY DEF OnPeerPoll, CreateOnPeer, ForwardEvent, LoseOnPeer, hostSide
<1>4. Links /\ onPeer[s] \in 0 .. MaxSessions /\ queue[s] \in Seq(Session)
  BY DEF VisitsTyped, HandoffTypeOK, Links
<1>5. CASE CreateOnPeer(s)
  <2>1. Head(queue[s]) \in Session
    BY <1>4, <1>5, Taken DEF CreateOnPeer
  <2>2. Head(queue[s]) \in 0 .. MaxSessions
    BY <2>1 DEF Session
  <2>3. Note("Send", Head(queue[s])) \in Message
    BY <2>2, NotesAreMessages
  <2>4. Sends(s, Note("Send", Head(queue[s]))) /\ Keeps(o)
    BY <1>4, <1>5, <2>3, Posted DEF CreateOnPeer, Sends, Keeps
  <2>5. /\ queue'[s] = Tail(queue[s]) /\ queue'[o] = queue[o]
        /\ onPeer'[s] = Head(queue[s]) /\ onPeer'[o] = onPeer[o]
    BY <1>1, <1>5 DEF CreateOnPeer, VisitsTyped, HandoffTypeOK
  <2> QED BY <1>3, <1>5, <2>4, <2>5 DEF CreateOnPeer, OneWay, NobodyOf, Announces, HostStays
<1>6. CASE ForwardEvent(s)
  <2>1. PICK kind \in {"Avatar", "Request"} : Post(s, <<Note(kind, onPeer[s])>>)
    BY <1>6 DEF ForwardEvent
  <2>2. Note(kind, onPeer[s]) \in Message
    BY <1>4, NotesAreMessages
  <2>3. Sends(s, Note(kind, onPeer[s])) /\ Keeps(o)
    BY <1>4, <2>1, <2>2, Posted DEF Sends, Keeps
  <2>4. onPeer[s] # 0 /\ UNCHANGED <<queue, onPeer>>
    BY <1>6 DEF ForwardEvent
  <2> QED BY <1>3, <2>3, <2>4 DEF OneWay, NobodyOf, Says, HostStays, HomeStays
<1>7. CASE LoseOnPeer(s)
  <2>1. Note("Yank", onPeer[s]) \in Message
    BY <1>4, NotesAreMessages
  <2>2. Sends(s, Note("Yank", onPeer[s])) /\ Keeps(o)
    BY <1>4, <1>7, <2>1, Posted DEF LoseOnPeer, EndOnPeer, Sends, Keeps
  <2>3. onPeer[s] # 0 /\ onPeer'[s] = 0 /\ onPeer'[o] = onPeer[o] /\ queue' = queue
    BY <1>1, <1>7 DEF LoseOnPeer, VisitsTyped, HandoffTypeOK
  <2> QED BY <1>3, <2>2, <2>3 DEF OneWay, NobodyOf, Ends, HostStays, HomeStays
<1> QED BY <1>2, <1>5, <1>6, <1>7 DEF OnPeerPoll

LEMMA HostEffect ==
  ASSUME VisitsTyped, NEW s \in Server, NEW o, o = Other(s), OneWay(s, o),
         NEW t \in Server, FromPeerPoll(t) \/ LocationStep(t)
  PROVE  /\ NobodyOf(s, o)' /\ moves' \in {moves, moves + 1}
         /\ PassesOn(s, o) \/ IsLost(s, o) \/ IsTreated(s, o)
<1>1. o \in Server /\ o # s /\ \A x \in Server : x = s \/ x = o
  BY OtherServer
<1>2. t = o
  BY <1>1 DEF OneWay, NobodyOf, FromPeerPoll, LocationStep, ForwardUpdate, LoseVisit, Update1,
         Admit, Refuse, Close, Answer, Move
<1>3. UNCHANGED homeSide /\ moves' \in {moves, moves + 1}
  BY DEF FromPeerPoll, LocationStep, ForwardUpdate, LoseVisit, Update1, Admit, Refuse, Close, Answer, Move
<1>4. UNCHANGED <<client, started, queue, onPeer>>
  BY <1>3 DEF homeSide
<1>5. /\ Links /\ visit[o] \in 0 .. MaxSessions /\ updates[o] \in Seq(Update) /\ Other(o) = s
      /\ place \in [Server -> {"asking", "inside", "gone"}] /\ updates \in [Server -> Seq(Update)]
      /\ visit \in [Server -> 0 .. MaxSessions]
  BY <1>1, OtherServer DEF VisitsTyped, HandoffTypeOK, Links
<1>6. CASE ForwardUpdate(o)
  <2>1. Forwarded(Head(updates[o])) \in {"Arrived", "Refused", "Answer", "Release"}
    <3>1. Head(updates[o]) \in Update
      BY <1>5, <1>6, Taken DEF ForwardUpdate
    <3> QED BY <3>1 DEF Forwarded, Update
  <2>2. Note(Forwarded(Head(updates[o])), visit[o]) \in Message
    BY <1>5, <2>1, NotesAreMessages
  <2>3. Sends(o, Note(Forwarded(Head(updates[o])), visit[o])) /\ Keeps(s)
    BY <1>1, <1>5, <1>6, <2>2, Posted DEF ForwardUpdate, Sends, Keeps
  <2>4. /\ updates[o] # << >> /\ updates'[o] = Tail(updates[o]) /\ updates'[s] = updates[s]
        /\ UNCHANGED <<visit, place>>
    BY <1>1, <1>5, <1>6 DEF ForwardUpdate
  <2> QED BY <1>3, <1>4, <2>3, <2>4 DEF OneWay, NobodyOf, PassesOn, HomeStays
<1>7. CASE LoseVisit(o)
  <2>1. Note("Release", visit[o]) \in Message
    BY <1>5, NotesAreMessages
  <2>2. Sends(o, Note("Release", visit[o])) /\ Keeps(s)
    BY <1>1, <1>5, <1>7, <2>1, Posted DEF LoseVisit, EndFromPeer, Sends, Keeps
  <2>3. /\ visit[o] # 0 /\ HostDrops(o)
        /\ visit'[s] = visit[s] /\ place'[s] = place[s] /\ updates'[s] = updates[s]
    BY <1>1, <1>5, <1>7 DEF LoseVisit, DropVisit, HostDrops
  <2> QED BY <1>3, <1>4, <2>2, <2>3 DEF OneWay, NobodyOf, IsLost, HomeStays
<1>8. CASE LocationStep(o)
  <2>1. UNCHANGED <<link, visit>>
    BY <1>8 DEF LocationStep, Update1, Admit, Refuse, Close, Answer, Move
  <2>2. place[o] # "gone" /\ place'[s] = place[s] /\ updates'[s] = updates[s]
    BY <1>1, <1>5, <1>8 DEF LocationStep, Update1, Admit, Refuse, Close, Answer, Move
  <2>3. \/ place'[o] = "gone"
        \/ Elements(updates'[o]) \subseteq Elements(updates[o]) \cup {"arrived", "answer"}
        \/ moves' = moves + 1
    <3>1. CASE Refuse(o) \/ Close(o)
      BY <1>1, <1>5, <3>1 DEF Refuse, Close, Update1
    <3>2. CASE Move(o)
      BY <3>2 DEF Move
    <3>3. CASE Admit(o) \/ Answer(o)
      <4>1. PICK q : q = updates[o]
        OBVIOUS
      <4>2. Append(q, "arrived") \in Seq(Update) /\ "answer" \in Update /\ "arrived" \in Update
        BY <1>5, <4>1 DEF Update
      <4>6. q \in Seq(Update)
        BY <1>5, <4>1
      <4>3. /\ q \o <<"answer">> = Append(q, "answer")
            /\ q \o <<"arrived", "answer">> = Append(Append(q, "arrived"), "answer")
        BY <4>2, <4>6, TwoAppended
      <4>4. updates'[o] = Append(q, "answer") \/ updates'[o] = Append(Append(q, "arrived"), "answer")
        BY <1>1, <1>5, <3>3, <4>1, <4>3 DEF Admit, Answer, Update1
      <4>5. \A r \in Seq(Update), u \in Update : Elements(Append(r, u)) = Elements(r) \cup {u}
        BY ElementsAppended
      <4>7. /\ Elements(Append(q, "answer")) = Elements(q) \cup {"answer"}
            /\ Elements(Append(q, "arrived")) = Elements(q) \cup {"arrived"}
            /\ Elements(Append(Append(q, "arrived"), "answer")) = Elements(Append(q, "arrived")) \cup {"answer"}
        BY <4>2, <4>5, <4>6, Zenon
      <4> QED BY <4>1, <4>4, <4>7
    <3> QED BY <1>8, <3>1, <3>2, <3>3 DEF LocationStep
  <2> QED BY <1>3, <1>4, <2>1, <2>2, <2>3 DEF OneWay, NobodyOf, IsTreated, Keeps, HomeStays
<1> QED BY <1>2, <1>6, <1>7, <1>8 DEF FromPeerPoll

LEMMA ToldEffect ==
  ASSUME VisitsTyped, NEW s \in Server, NEW o, o = Other(s), OneWay(s, o), Receive(s)
  PROVE  NobodyOf(s, o)' /\ moves' = moves /\ IsTold(s, o)
<1>1. o \in Server /\ o # s
  BY OtherServer
<1>2. /\ Links /\ onPeer \in [Server -> 0 .. MaxSessions] /\ link[o] \in Seq(Message)
      /\ onPeer[s] \in 0 .. MaxSessions
  BY <1>1 DEF VisitsTyped, HandoffTypeOK, Links
<1>3. link[o] # << >>
  BY DEF Receive, Incoming, ReceiveArrived, ReceiveRefused, ReceiveAnswer, ReceiveRelease,
         ReceiveSend, Denied, ReceiveYank, ReceiveAvatar, ReceiveRequest
<1>4. Head(link[o]).kind \in HostKinds
  <2>1. Head(link[o]) \in Elements(link[o])
    BY <1>2, <1>3, ElementsTaken
  <2> QED BY <2>1 DEF OneWay
<1>5. PICK m : m = Head(link[o])
  OBVIOUS
<1>6. /\ ReceiveArrived(s) \/ ReceiveRefused(s) \/ ReceiveAnswer(s) \/ ReceiveRelease(s) \/ ReceiveYank(s)
      /\ m.kind \in HostKinds
  BY <1>4, <1>5 DEF Receive, Incoming, ReceiveSend, Denied, ReceiveAvatar, ReceiveRequest, HostKinds
<1>7. Note("Yank", onPeer[s]) \in Message /\ Note("Release", onPeer[s]) \in Message
  BY <1>2, NotesAreMessages
<1>8. ASSUME NEW notes, Respond(s, notes)
      PROVE  /\ Takes(o)
             /\ notes = << >> => Keeps(s)
             /\ notes = <<Note("Yank", onPeer[s])>> => Sends(s, Note("Yank", onPeer[s]))
             /\ notes = <<Note("Release", onPeer[s])>> => Sends(s, Note("Release", onPeer[s]))
  BY <1>2, <1>3, <1>7, <1>8, Replied DEF Takes, Keeps, Sends
<1>9. UNCHANGED <<client, started, queue, moves>>
  BY <1>6 DEF ReceiveArrived, ReceiveRefused, ReceiveAnswer, ReceiveRelease, ReceiveYank, homeSide
<1>10. CASE ReceiveYank(s)
  <2>1. /\ visit'[s] = 0 /\ place'[s] = "gone" /\ updates'[s] = << >> /\ onPeer' = onPeer
        /\ visit'[o] = visit[o] /\ place'[o] = place[o] /\ updates'[o] = updates[o]
    BY <1>1, <1>10 DEF ReceiveYank, DropVisit, VisitsTyped, HandoffTypeOK, homeSide
  <2>2. m.kind = "Yank" /\ Takes(o) /\ Keeps(s)
    BY <1>5, <1>8, <1>10 DEF ReceiveYank, Incoming
  <2> QED BY <1>5, <1>9, <2>1, <2>2 DEF OneWay, NobodyOf, IsTold, HostStays, HomeStays
<1>11. ASSUME ReceiveArrived(s) \/ ReceiveRefused(s) \/ ReceiveAnswer(s) \/ ReceiveRelease(s)
       PROVE  /\ UNCHANGED <<visit, place, updates>> /\ onPeer'[o] = onPeer[o]
              /\ onPeer' = onPeer \/ onPeer'[s] = 0
  BY <1>1, <1>2, <1>11 DEF ReceiveArrived, ReceiveRefused, ReceiveAnswer, ReceiveRelease, hostSide
<1>12. CASE ReceiveArrived(s)
  <2>1. \/ onPeer[s] # 0 /\ onPeer'[s] = 0 /\ Respond(s, <<Note("Yank", onPeer[s])>>)
        \/ Respond(s, << >>) /\ onPeer' = onPeer
    BY <1>2, <1>12 DEF ReceiveArrived
  <2>2. m.kind = "Arrived"
    BY <1>5, <1>12 DEF ReceiveArrived, Incoming
  <2>3. /\ Takes(o)
        /\ \/ onPeer[s] # 0 /\ onPeer'[s] = 0 /\ Sends(s, Note("Yank", onPeer[s]))
           \/ Keeps(s) /\ onPeer' = onPeer
    BY <1>8, <2>1
  <2> QED BY <1>5, <1>9, <1>11, <1>12, <2>2, <2>3 DEF OneWay, NobodyOf, IsTold, HostStays, HomeStays
<1>13. CASE ReceiveRefused(s) \/ ReceiveRelease(s)
  <2>1. m.kind \in {"Refused", "Release"} /\ onPeer'[s] = 0 /\ Respond(s, << >>)
    BY <1>2, <1>5, <1>13 DEF ReceiveRefused, ReceiveRelease, Incoming
  <2>2. Takes(o) /\ Keeps(s)
    BY <1>8, <2>1
  <2> QED BY <1>5, <1>9, <1>11, <1>13, <2>1, <2>2 DEF OneWay, NobodyOf, IsTold, HostStays, HomeStays
<1>14. CASE ReceiveAnswer(s)
  <2>1. /\ m.kind = "Answer" /\ onPeer' = onPeer
        /\ Respond(s, << >>) \/ Respond(s, <<Note("Release", onPeer[s])>>)
    BY <1>5, <1>14 DEF ReceiveAnswer, Incoming
  <2>2. Takes(o) /\ (Keeps(s) \/ Sends(s, Note("Release", onPeer[s])))
    BY <1>8, <2>1
  <2> QED BY <1>5, <1>9, <1>11, <1>14, <2>1, <2>2 DEF OneWay, NobodyOf, IsTold, HostStays, HomeStays
<1> QED BY <1>6, <1>10, <1>12, <1>13, <1>14

LEMMA AskedEffect ==
  ASSUME VisitsTyped, NEW s \in Server, NEW o, o = Other(s), OneWay(s, o), Receive(o)
  PROVE  NobodyOf(s, o)' /\ moves' = moves /\ IsAsked(s, o)
<1>1. o \in Server /\ o # s /\ Other(o) = s
  BY OtherServer
<1>2. /\ Links /\ onPeer \in [Server -> 0 .. MaxSessions] /\ link[s] \in Seq(Message)
      /\ visit[o] \in 0 .. MaxSessions
  BY <1>1 DEF VisitsTyped, HandoffTypeOK, Links
<1>3. link[s] # << >>
  BY <1>1 DEF Receive, Incoming, ReceiveArrived, ReceiveRefused, ReceiveAnswer, ReceiveRelease,
         ReceiveSend, Denied, ReceiveYank, ReceiveAvatar, ReceiveRequest
<1>4. PICK m : m = Head(link[s])
  OBVIOUS
<1>5. m.kind \in HomeKinds /\ m.session \in 0 .. MaxSessions
  <2>1. m \in Elements(link[s]) /\ m \in Message
    BY <1>2, <1>3, <1>4, ElementsTaken, Taken
  <2> QED BY <2>1 DEF OneWay, Message
<1>6. ReceiveRelease(o) \/ ReceiveSend(o) \/ ReceiveYank(o) \/ ReceiveAvatar(o) \/ ReceiveRequest(o)
  BY <1>1, <1>4, <1>5 DEF Receive, Incoming, ReceiveArrived, ReceiveRefused, ReceiveAnswer, HomeKinds
<1>7. /\ Note("Yank", visit[o]) \in Message /\ Note("Release", visit[o]) \in Message
      /\ Note("Release", m.session) \in Message
  BY <1>2, <1>5, NotesAreMessages
<1>8. ASSUME NEW notes, Respond(o, notes)
      PROVE  /\ Takes(s)
             /\ notes = << >> => Keeps(o)
             /\ notes = <<Note("Yank", visit[o])>> => Sends(o, Note("Yank", visit[o]))
             /\ notes = <<Note("Release", visit[o])>> => Sends(o, Note("Release", visit[o]))
             /\ notes = <<Note("Release", m.session)>> => Sends(o, Note("Release", m.session))
  BY <1>1, <1>2, <1>3, <1>7, <1>8, Replied DEF Takes, Keeps, Sends
<1>9. UNCHANGED <<client, started, queue, moves>>
  BY <1>6 DEF ReceiveRelease, ReceiveSend, Denied, ReceiveYank, ReceiveAvatar, ReceiveRequest, homeSide
<1>10. onPeer'[s] = onPeer[s] /\ onPeer'[o] = 0
  BY <1>1, <1>2, <1>6 DEF ReceiveRelease, ReceiveSend, Denied, ReceiveYank, ReceiveAvatar, ReceiveRequest,
         homeSide, OneWay, NobodyOf
<1>11. ASSUME DropVisit(o)
       PROVE  HostDrops(o) /\ visit'[s] = visit[s] /\ place'[s] = place[s] /\ updates'[s] = updates[s]
  BY <1>1, <1>11 DEF DropVisit, HostDrops, VisitsTyped, HandoffTypeOK
<1>12. CASE ReceiveRelease(o)
  <2>1. m.kind = "Release" /\ UNCHANGED hostSide /\ Takes(s) /\ Keeps(o)
    BY <1>1, <1>4, <1>8, <1>12 DEF ReceiveRelease, Incoming
  <2> QED BY <1>4, <1>9, <1>10, <2>1 DEF OneWay, NobodyOf, IsAsked, HostStays, HomeStays, hostSide
<1>13. CASE ReceiveYank(o)
  <2>1. m.kind = "Yank" /\ DropVisit(o) /\ Takes(s) /\ Keeps(o)
    BY <1>1, <1>4, <1>8, <1>13 DEF ReceiveYank, Incoming
  <2> QED BY <1>4, <1>9, <1>10, <1>11, <2>1 DEF OneWay, NobodyOf, IsAsked, HomeStays
<1>14. CASE ReceiveAvatar(o)
  <2>1. /\ m.kind = "Avatar" /\ Takes(s)
        /\ \/ UNCHANGED hostSide /\ Keeps(o)
           \/ visit[o] # 0 /\ DropVisit(o) /\ Sends(o, Note("Release", visit[o]))
    BY <1>1, <1>4, <1>8, <1>14 DEF ReceiveAvatar, Incoming
  <2>2. CASE UNCHANGED hostSide /\ Keeps(o)
    BY <1>4, <1>9, <1>10, <2>1, <2>2 DEF OneWay, NobodyOf, IsAsked, HostStays, HomeStays, hostSide
  <2>3. CASE visit[o] # 0 /\ DropVisit(o) /\ Sends(o, Note("Release", visit[o]))
    BY <1>4, <1>9, <1>10, <1>11, <2>1, <2>3 DEF OneWay, NobodyOf, IsAsked, HomeStays
  <2> QED BY <2>1, <2>2, <2>3
<1>15. CASE ReceiveRequest(o)
  <2>1. m.kind = "Request" /\ Takes(s) /\ UNCHANGED hostSide /\ (Keeps(o) \/ Sends(o, Note("Yank", visit[o])))
    BY <1>1, <1>4, <1>8, <1>15 DEF ReceiveRequest, Incoming
  <2> QED BY <1>4, <1>9, <1>10, <2>1 DEF OneWay, NobodyOf, IsAsked, HostStays, HomeStays, hostSide
<1>16. CASE ReceiveSend(o)
  <2>1. /\ m.kind = "Send"
        /\ \/ Respond(o, <<Note("Release", m.session)>>) /\ UNCHANGED hostSide
           \/ /\ visit' = [visit EXCEPT ![o] = m.session]
              /\ place' = [place EXCEPT ![o] = "asking"]
              /\ updates' = [updates EXCEPT ![o] = << >>]
              /\ Respond(o, << >>)
    BY <1>1, <1>4, <1>16 DEF ReceiveSend, Denied, Incoming
  <2>2. CASE Respond(o, <<Note("Release", m.session)>>) /\ UNCHANGED hostSide
    <3>1. Takes(s) /\ Sends(o, Note("Release", m.session))
      BY <1>8, <2>2
    <3> QED BY <1>4, <1>9, <1>10, <2>1, <2>2, <3>1 DEF OneWay, NobodyOf, IsAsked, HostStays, HomeStays, hostSide
  <2>3. CASE /\ visit' = [visit EXCEPT ![o] = m.session]
             /\ place' = [place EXCEPT ![o] = "asking"]
             /\ updates' = [updates EXCEPT ![o] = << >>]
             /\ Respond(o, << >>)
    <3>1. Takes(s) /\ Keeps(o)
      BY <1>8, <2>3
    <3>2. /\ visit'[o] = m.session /\ place'[o] = "asking" /\ updates'[o] = << >>
          /\ visit'[s] = visit[s] /\ place'[s] = place[s] /\ updates'[s] = updates[s]
      BY <1>1, <2>3 DEF VisitsTyped, HandoffTypeOK
    <3> QED BY <1>4, <1>9, <1>10, <2>1, <3>1, <3>2 DEF OneWay, NobodyOf, IsAsked, HomeStays
  <2> QED BY <2>1, <2>2, <2>3
<1> QED BY <1>6, <1>12, <1>13, <1>14, <1>15, <1>16

Effect(s, o) ==
  \/ Chooses(s, o) \/ Announces(s, o) \/ Says(s, o) \/ Ends(s, o) \/ IsTold(s, o)
  \/ IsAsked(s, o) \/ PassesOn(s, o) \/ IsLost(s, o) \/ IsTreated(s, o)

LEMMA EveryStepHasItsEffect ==
  ASSUME VisitsTyped, NEW s \in Server, NEW o, o = Other(s), o \notin Traveller, OneWay(s, o), HandoffNext
  PROVE  NobodyOf(s, o)' /\ moves' \in {moves, moves + 1} /\ Effect(s, o)
<1>1. o \in Server /\ \A x \in Server : x = s \/ x = o
  BY OtherServer
<1>2. PICK t \in Server : \/ ClientStep(t) \/ Hear(t) \/ CreateOnPeer(t) \/ OnPeerPoll(t)
                          \/ FromPeerPoll(t) \/ Receive(t) \/ LocationStep(t)
  BY DEF HandoffNext
<1>3. CASE ClientStep(t) \/ Hear(t)
  BY <1>3, ClientEffect DEF Effect
<1>4. CASE CreateOnPeer(t) \/ OnPeerPoll(t)
  BY <1>4, HomeEffect DEF Effect
<1>5. CASE FromPeerPoll(t) \/ LocationStep(t)
  BY <1>5, HostEffect DEF Effect
<1>6. CASE Receive(t)
  BY <1>1, <1>6, ToldEffect, AskedEffect DEF Effect
<1> QED BY <1>2, <1>3, <1>4, <1>5, <1>6

\* What a step makes of the messages in a link.
LEMMA LinkContents ==
  ASSUME Links, NEW t \in Server
  PROVE  /\ link[t] \in Seq(Message)
         /\ Keeps(t) => Elements(link'[t]) = Elements(link[t])
         /\ \A m : Sends(t, m) => Elements(link'[t]) = Elements(link[t]) \cup {m}
         /\ Takes(t) => /\ Head(link[t]) \in Elements(link[t])
                        /\ Elements(link[t]) = Elements(link'[t]) \cup {Head(link[t])}
<1>1. PICK q : q = link[t]
  OBVIOUS
<1>2. q \in Seq(Message)
  BY <1>1 DEF Links
<1>3. ASSUME NEW m, Sends(t, m) PROVE Elements(link'[t]) = Elements(q) \cup {m}
  <2>1. q \in Seq(Message \cup {m}) /\ m \in Message \cup {m}
    BY <1>2
  <2>2. link'[t] = Append(q, m)
    BY <1>1, <1>3 DEF Sends
  <2> QED BY <2>1, <2>2, ElementsAppended
<1>4. ASSUME Takes(t)
      PROVE  Head(q) \in Elements(q) /\ Elements(q) = Elements(link'[t]) \cup {Head(q)}
  <2>1. q # << >> /\ link'[t] = Tail(q)
    BY <1>1, <1>4 DEF Takes
  <2> QED BY <1>2, <2>1, ElementsTaken
<1> QED BY <1>1, <1>2, <1>3, <1>4 DEF Keeps

LEMMA OneWayKept ==
  ASSUME VisitsTyped, NEW s \in Server, NEW o, o = Other(s), OneWay(s, o), NobodyOf(s, o)', Effect(s, o)
  PROVE  OneWay(s, o)'
<1>1. o \in Server
  BY OtherServer
<1>2. Links /\ updates[o] \in Seq(Update)
  BY <1>1 DEF Links, VisitsTyped, HandoffTypeOK
<1>3. (\A m \in Elements(link[s]) : m.kind \in HomeKinds) /\ (\A m \in Elements(link[o]) : m.kind \in HostKinds)
  BY DEF OneWay
<1>4. ASSUME NEW m, Sends(s, m), m.kind \in HomeKinds
      PROVE  \A n \in Elements(link'[s]) : n.kind \in HomeKinds
  BY <1>2, <1>3, <1>4, LinkContents
<1>5. ASSUME NEW m, Sends(o, m), m.kind \in HostKinds
      PROVE  \A n \in Elements(link'[o]) : n.kind \in HostKinds
  <2>1. Elements(link'[o]) = Elements(link[o]) \cup {m}
    BY <1>1, <1>2, <1>5, LinkContents
  <2> QED BY <1>3, <1>5, <2>1
<1>6. Keeps(s) \/ Takes(s) => \A n \in Elements(link'[s]) : n.kind \in HomeKinds
  BY <1>2, <1>3, LinkContents
<1>7. Keeps(o) \/ Takes(o) => \A n \in Elements(link'[o]) : n.kind \in HostKinds
  BY <1>1, <1>2, <1>3, LinkContents
<1>8. \A kind, k : Note(kind, k).kind = kind
  BY DEF Note
<1>9. ASSUME updates[o] # << >> PROVE Forwarded(Head(updates[o])) \in HostKinds
  <2>1. Head(updates[o]) \in Update
    BY <1>2, <1>9, Taken
  <2> QED BY <2>1 DEF Update, Forwarded, HostKinds
<1>10. \A n \in Elements(link'[s]) : n.kind \in HomeKinds
  BY <1>4, <1>6, <1>8 DEF Effect, Chooses, Announces, Says, Ends, IsTold, IsAsked, PassesOn, IsLost, IsTreated, HomeKinds
<1>11. \A n \in Elements(link'[o]) : n.kind \in HostKinds
  BY <1>5, <1>7, <1>8, <1>9 DEF Effect, Chooses, Announces, Says, Ends, IsTold, IsAsked, PassesOn, IsLost, IsTreated, HostKinds
<1> QED BY <1>10, <1>11 DEF OneWay

-----------------------------------------------------------------------------
(* The entry of a player who has left is waited for by somebody.           *)

\* The last Send or Yank is the Send of session k.
Said(q, k) ==
  \E i \in 1 .. Len(q) :
    /\ q[i].kind = "Send" /\ q[i].session = k
    /\ \A j \in 1 .. Len(q) : j > i => q[j].kind \notin {"Send", "Yank"}

\* Every Send and Yank has been taken.
AllSaid(q) == \A m \in Elements(q) : m.kind \notin {"Send", "Yank"}

Settled(o, k) == visit[o] = k \/ InTransit(o, {"Release", "Refused"}, k)

\* Who waits for what: the entry at home waits for the guest to arrive, to be
\* there, or to be released.
Awaited(s, o) ==
  onPeer[s] # 0 => Said(link[s], onPeer[s]) \/ (AllSaid(link[s]) /\ Settled(o, onPeer[s]))

LEMMA SaidAppended ==
  ASSUME NEW q \in Seq(Message), NEW k, NEW m
  PROVE  /\ m.kind \notin {"Send", "Yank"} /\ Said(q, k) => Said(Append(q, m), k)
         /\ m.kind = "Send" /\ m.session = k => Said(Append(q, m), k)
<1>1. PICK r : r = Append(q, m)
  OBVIOUS
<1>2. /\ Len(q) \in Nat /\ Len(r) = Len(q) + 1 /\ r[Len(q) + 1] = m
      /\ \A i \in 1 .. Len(q) : r[i] = q[i] /\ i \in 1 .. Len(r)
      /\ \A i \in 1 .. Len(r) : i \in 1 .. Len(q) \/ i = Len(q) + 1
      /\ Len(q) + 1 \in 1 .. Len(r)
  BY <1>1
<1>3. ASSUME m.kind \notin {"Send", "Yank"}, Said(q, k) PROVE Said(r, k)
  <2>1. PICK i \in 1 .. Len(q) :
          /\ q[i].kind = "Send" /\ q[i].session = k
          /\ \A j \in 1 .. Len(q) : j > i => q[j].kind \notin {"Send", "Yank"}
    BY <1>3 DEF Said
  <2>2. \A j \in 1 .. Len(r) : j > i => r[j].kind \notin {"Send", "Yank"}
    BY <1>2, <1>3, <2>1
  <2> QED BY <1>2, <2>1, <2>2 DEF Said
<1>4. ASSUME m.kind = "Send", m.session = k PROVE Said(r, k)
  <2>1. \A j \in 1 .. Len(r) : ~(j > Len(q) + 1)
    BY <1>2
  <2> QED BY <1>2, <1>4, <2>1 DEF Said
<1> QED BY <1>1, <1>3, <1>4

LEMMA SaidTaken ==
  ASSUME NEW q \in Seq(Message), q # << >>, NEW k, Said(q, k)
  PROVE  \/ Said(Tail(q), k)
         \/ Head(q).kind = "Send" /\ Head(q).session = k /\ AllSaid(Tail(q))
<1>1. PICK r : r = Tail(q)
  OBVIOUS
<1>2. /\ Len(q) \in Nat /\ Len(r) = Len(q) - 1 /\ Head(q) = q[1]
      /\ \A i \in 1 .. Len(r) : i + 1 \in 1 .. Len(q) /\ r[i] = q[i + 1]
      /\ \A i \in 1 .. Len(q) : i = 1 \/ (i - 1 \in 1 .. Len(r) /\ r[i - 1] = q[i])
  BY <1>1
<1>3. PICK i \in 1 .. Len(q) :
        /\ q[i].kind = "Send" /\ q[i].session = k
        /\ \A j \in 1 .. Len(q) : j > i => q[j].kind \notin {"Send", "Yank"}
  BY DEF Said
<1>4. CASE i = 1
  <2>1. \A j \in 1 .. Len(r) : r[j].kind \notin {"Send", "Yank"}
    BY <1>2, <1>3, <1>4
  <2> QED BY <1>1, <1>2, <1>3, <1>4, <2>1 DEF AllSaid, Elements
<1>5. CASE i # 1
  <2>1. i - 1 \in 1 .. Len(r) /\ r[i - 1] = q[i]
    BY <1>2, <1>5
  <2>2. \A j \in 1 .. Len(r) : j > i - 1 => r[j].kind \notin {"Send", "Yank"}
    BY <1>2, <1>3
  <2> QED BY <1>1, <1>3, <2>1, <2>2 DEF Said
<1> QED BY <1>4, <1>5

\* A visit or a Release is not lost, except to the home server.
LEMMA StaysSettled ==
  ASSUME VisitsTyped, NEW s \in Server, NEW o, o = Other(s), OneWay(s, o), Effect(s, o), NEW k,
         AllSaid(link[s]), Settled(o, k), onPeer'[s] = onPeer[s], onPeer[s] # 0, ~ Announces(s, o)
  PROVE  Settled(o, k)'
<1>1. o \in Server /\ Links
  BY OtherServer DEF Links, VisitsTyped, HandoffTypeOK
<1>2. \A kind, n : Note(kind, n).kind = kind /\ Note(kind, n).session = n
  BY DEF Note
<1>3. CASE InTransit(o, {"Release", "Refused"}, k)
  <2>1. PICK m \in Elements(link[o]) : m.kind \in {"Release", "Refused"} /\ m.session = k
    BY <1>3 DEF InTransit
  <2>2. Keeps(o) \/ (\E n : Sends(o, n)) => m \in Elements(link'[o])
    BY <1>1, LinkContents
  <2>3. Keeps(o) \/ (\E n : Sends(o, n)) \/ IsTold(s, o)
    BY DEF Effect, Chooses, Announces, Says, Ends, IsAsked, PassesOn, IsLost, IsTreated
  <2>4. CASE IsTold(s, o)
    <3>1. m # Head(link[o])
      BY <2>1, <2>4 DEF IsTold
    <3> QED BY <1>1, <2>1, <2>4, <3>1, LinkContents DEF IsTold, Settled, InTransit
  <2> QED BY <2>1, <2>2, <2>3, <2>4 DEF Settled, InTransit
<1>4. CASE visit[o] = k
  <2>1. \/ visit'[o] = visit[o]
        \/ Sends(o, Note("Release", k))
        \/ IsAsked(s, o) /\ Head(link[s]).kind \in {"Send", "Yank"}
    BY <1>4 DEF Effect, Chooses, Announces, Says, Ends, IsTold, IsAsked, PassesOn, IsLost, IsTreated, HostStays
  <2>2. ~(IsAsked(s, o) /\ Head(link[s]).kind \in {"Send", "Yank"})
    <3>1. IsAsked(s, o) => Head(link[s]) \in Elements(link[s])
      BY <1>1, LinkContents DEF IsAsked
    <3> QED BY <3>1 DEF AllSaid
  <2>3. Sends(o, Note("Release", k)) => Note("Release", k) \in Elements(link'[o])
    BY <1>1, LinkContents
  <2> QED BY <1>2, <1>4, <2>1, <2>2, <2>3 DEF Settled, InTransit
<1> QED BY <1>3, <1>4 DEF Settled

LEMMA AwaitedKept ==
  ASSUME VisitsTyped, NEW s \in Server, NEW o, o = Other(s), OneWay(s, o), Awaited(s, o), Effect(s, o)
  PROVE  Awaited(s, o)'
<1>1. Links /\ link[s] \in Seq(Message)
  BY DEF Links, VisitsTyped, HandoffTypeOK
<1>2. \A kind, n : Note(kind, n).kind = kind /\ Note(kind, n).session = n
  BY DEF Note
<1>3. PICK k : k = onPeer[s]
  OBVIOUS
<1>4. CASE Announces(s, o)
  BY <1>1, <1>2, <1>4, SaidAppended DEF Announces, Sends, Awaited
<1>5. CASE onPeer'[s] = 0
  BY <1>5 DEF Awaited
<1>6. CASE onPeer'[s] = k /\ k # 0 /\ ~ Announces(s, o)
  <2>1. Said(link[s], k) \/ (AllSaid(link[s]) /\ Settled(o, k))
    BY <1>3, <1>6 DEF Awaited
  <2>2. \/ Keeps(s) \/ IsAsked(s, o)
        \/ \E n : Sends(s, n) /\ n.kind \notin {"Send", "Yank"}
    BY <1>2, <1>3, <1>6 DEF Effect, Chooses, Announces, Says, Ends, IsTold, PassesOn, IsLost, IsTreated
  <2>3. CASE AllSaid(link[s]) /\ Settled(o, k)
    <3>1. AllSaid(link'[s])
      <4>1. CASE Keeps(s) \/ IsAsked(s, o)
        <5>1. Elements(link'[s]) \subseteq Elements(link[s])
          BY <1>1, <4>1, LinkContents DEF IsAsked
        <5> QED BY <2>3, <5>1 DEF AllSaid
      <4>2. ASSUME NEW n, Sends(s, n), n.kind \notin {"Send", "Yank"} PROVE AllSaid(link'[s])
        <5>1. Elements(link'[s]) = Elements(link[s]) \cup {n}
          BY <1>1, <4>2, LinkContents
        <5> QED BY <2>3, <4>2, <5>1 DEF AllSaid
      <4> QED BY <2>2, <4>1, <4>2
    <3>2. Settled(o, k)'
      BY <1>3, <1>6, <2>3, StaysSettled
    <3> QED BY <1>3, <1>6, <3>1, <3>2 DEF Awaited
  <2>4. CASE Said(link[s], k) /\ ~ IsAsked(s, o)
    <3>1. ASSUME NEW n, Sends(s, n), n.kind \notin {"Send", "Yank"} PROVE Said(link'[s], k)
      <4>1. Said(Append(link[s], n), k)
        BY <1>1, <2>4, <3>1, SaidAppended
      <4> QED BY <3>1, <4>1 DEF Sends
    <3>2. Keeps(s) => Said(link'[s], k)
      BY <2>4 DEF Keeps
    <3>3. Said(link'[s], k)
      BY <2>2, <2>4, <3>1, <3>2
    <3> QED BY <1>6, <3>3 DEF Awaited
  <2>5. CASE Said(link[s], k) /\ IsAsked(s, o)
    <3>1. link[s] # << >> /\ link'[s] = Tail(link[s])
      BY <2>5 DEF IsAsked, Takes
    <3>2. Said(link'[s], k) \/ (Head(link[s]).kind = "Send" /\ Head(link[s]).session = k /\ AllSaid(link'[s]))
      BY <1>1, <2>5, <3>1, SaidTaken
    <3>3. CASE Head(link[s]).kind = "Send" /\ Head(link[s]).session = k /\ AllSaid(link'[s])
      <4>1. visit'[o] = k \/ Sends(o, Note("Release", k))
        BY <2>5, <3>3 DEF IsAsked
      <4>2. Sends(o, Note("Release", k)) => Note("Release", k) \in Elements(link'[o])
        BY <1>1, OtherServer, LinkContents
      <4>3. Settled(o, k)'
        BY <1>2, <4>1, <4>2 DEF Settled, InTransit
      <4> QED BY <1>6, <3>3, <4>3 DEF Awaited
    <3> QED BY <1>6, <3>2, <3>3 DEF Awaited
  <2> QED BY <2>1, <2>3, <2>4, <2>5
<1>7. onPeer'[s] = 0 \/ (onPeer'[s] = k /\ k # 0) \/ Announces(s, o)
  BY <1>3 DEF Effect, Chooses, Announces, Says, Ends, IsTold, IsAsked, PassesOn, IsLost, IsTreated
<1> QED BY <1>4, <1>5, <1>6, <1>7

-----------------------------------------------------------------------------
(* The first visit, from the player's choice to the guest's end: nothing   *)
(* has been said, the Send is under way and nothing was said before it,    *)
(* the location has the guest, or it has the guest no longer.              *)

NoSend(s) == \A m \in Elements(link[s]) : m.kind # "Send"

Nothing(o) == visit[o] = 0 /\ place[o] = "gone" /\ updates[o] = << >> /\ link[o] = << >>

EntryIs(s, k) == onPeer[s] = k \/ \E m \in Elements(link[s]) : m.kind = "Yank"

Chosen(s) == queue[s] = << >> /\ started[s] >= 1

Quiet(s, o) ==
  Len(queue[s]) <= started[s] /\ onPeer[s] = 0 /\ link[s] = << >> /\ Nothing(o)

OnTheWay(s, o) ==
  /\ Chosen(s) /\ Nothing(o)
  /\ link[s] # << >> /\ Head(link[s]).kind = "Send"
  /\ \A m \in Elements(Tail(link[s])) : m.kind # "Send"
  /\ EntryIs(s, Head(link[s]).session)

Present(s, o) ==
  /\ Chosen(s) /\ NoSend(s) /\ EntryIs(s, visit[o])
  /\ Elements(updates[o]) \subseteq {"arrived", "answer"}
  /\ \A m \in Elements(link[o]) : m.kind \notin {"Release", "Refused"}

Absent(s, o) == Chosen(s) /\ NoSend(s) /\ place[o] = "gone"

FirstVisit(s, o) ==
  Simple(s) => Quiet(s, o) \/ OnTheWay(s, o) \/ Present(s, o) \/ Absent(s, o)

LEMMA QuietStep ==
  ASSUME VisitsTyped, NEW s \in Server, NEW o, o = Other(s), Quiet(s, o), Effect(s, o), started[s] <= 1
  PROVE  Quiet(s, o)' \/ OnTheWay(s, o)'
<1>1. /\ queue[s] \in Seq(Session) /\ started[s] \in Nat /\ link[s] = << >> /\ onPeer[s] = 0
      /\ Len(queue[s]) <= started[s] /\ Nothing(o)
  BY BoundAssumption DEF Quiet, VisitsTyped, HandoffTypeOK, BoundAssumption
<1>2. \A kind, n : Note(kind, n).kind = kind /\ Note(kind, n).session = n
  BY DEF Note
<1>3. CASE Chooses(s, o)
  <2>1. Len(queue'[s]) <= started'[s]
    <3>1. CASE HomeStays(s)
      BY <1>1, <3>1 DEF HomeStays
    <3>2. CASE started'[s] = started[s] + 1 /\ queue'[s] = Append(queue[s], started'[s])
      <4>1. Len(queue'[s]) = Len(queue[s]) + 1
        BY <1>1, <3>2
      <4> QED BY <1>1, <3>2, <4>1
    <3> QED BY <1>3, <3>1, <3>2 DEF Chooses
  <2> QED BY <1>1, <1>3, <2>1 DEF Chooses, Quiet, Nothing, Keeps, HostStays
<1>4. CASE Announces(s, o)
  <2>1. PICK m : m = Note("Send", Head(queue[s]))
    OBVIOUS
  <2>2. link'[s] = <<m>>
    BY <1>1, <1>4, <2>1 DEF Announces, Sends
  <2>3. Head(link'[s]) = m /\ link'[s] # << >> /\ Tail(link'[s]) = << >>
    BY <2>2
  <2>4. \A n \in Elements(Tail(link'[s])) : n.kind # "Send"
    <3>1. Elements(<< >>) = {}
      BY DEF Elements
    <3> QED BY <2>3, <3>1
  <2>5. queue'[s] = << >> /\ started'[s] >= 1
    <3>1. PICK q : q = queue[s] /\ q \in Seq(Session) /\ q # << >>
      BY <1>1, <1>4 DEF Announces
    <3>2. Len(q) = 1 /\ started[s] >= 1
      <4>2. Len(q) \in Nat /\ Len(q) # 0
        BY <3>1, EmptySeq
      <4>3. Len(q) <= started[s]
        BY <1>1, <3>1
      <4>1. PICK n, l : n = started[s] /\ l = Len(q) /\ l <= n /\ l \in Nat /\ l # 0 /\ n \in Nat /\ n <= 1
        BY <1>1, <4>2, <4>3
      <4>4. l = 1 /\ n >= 1
        BY <4>1
      <4> QED BY <4>1, <4>4, Zenon
    <3>3. Tail(q) \in Seq(Session) /\ Len(Tail(q)) = 0
      BY <3>1, <3>2, Taken
    <3>4. Tail(q) = << >>
      BY <3>3, EmptySeq
    <3> QED BY <1>4, <3>1, <3>2, <3>4 DEF Announces
  <2>6. Nothing(o)'
    BY <1>1, <1>4 DEF Announces, Nothing, Keeps, HostStays
  <2>7. EntryIs(s, Head(link[s]).session)'
    BY <1>2, <1>4, <2>1, <2>3 DEF Announces, EntryIs
  <2> QED BY <1>2, <2>1, <2>3, <2>4, <2>5, <2>6, <2>7 DEF OnTheWay, Chosen
<1> QED BY <1>1, <1>3, <1>4 DEF Effect, Says, Ends, IsTold, IsAsked, PassesOn, IsLost, IsTreated, Nothing, Takes

\* What a first visit that has begun looks like to the home server.
LEMMA ChosenStep ==
  ASSUME VisitsTyped, NEW s \in Server, NEW o, Chosen(s), Effect(s, o), started'[s] <= 1
  PROVE  Chosen(s)' /\ ~ Announces(s, o)
<1>1. started[s] \in Nat
  BY BoundAssumption DEF VisitsTyped, HandoffTypeOK, BoundAssumption
<1>2. ~ Announces(s, o)
  BY DEF Announces, Chosen
<1>3. HomeStays(s)
  BY <1>1, <1>2 DEF Effect, Chooses, Says, Ends, IsTold, IsAsked, PassesOn, IsLost, IsTreated, Chosen
<1> QED BY <1>2, <1>3 DEF HomeStays, Chosen

LEMMA OnTheWayStep ==
  ASSUME VisitsTyped, NEW s \in Server, NEW o, o = Other(s), OnTheWay(s, o), Effect(s, o), started'[s] <= 1
  PROVE  OnTheWay(s, o)' \/ Present(s, o)' \/ Absent(s, o)'
<1>1. Chosen(s)' /\ ~ Announces(s, o)
  BY ChosenStep DEF OnTheWay
<1>2. o \in Server /\ Links /\ link[s] \in Seq(Message) /\ link[s] # << >> /\ Nothing(o)
  BY OtherServer DEF VisitsTyped, HandoffTypeOK, Links, OnTheWay
<1>3. \A kind, n : Note(kind, n).kind = kind /\ Note(kind, n).session = n
  BY DEF Note
<1>4. PICK h, r : h = Head(link[s]) /\ r = Tail(link[s])
  OBVIOUS
<1>5. /\ h.kind = "Send" /\ (\A m \in Elements(r) : m.kind # "Send") /\ EntryIs(s, h.session)
      /\ r \in Seq(Message) /\ Elements(link[s]) = Elements(r) \cup {h}
  BY <1>2, <1>4, ElementsTaken, Taken DEF OnTheWay
<1>6. CASE Chooses(s, o)
  BY <1>1, <1>6 DEF Chooses, OnTheWay, Nothing, EntryIs, Keeps, HostStays
<1>7. ASSUME NEW m, Sends(s, m), Keeps(o), HostStays(o), m.kind # "Send",
             onPeer'[s] = onPeer[s] \/ m.kind = "Yank"
      PROVE  OnTheWay(s, o)'
  <2>1. link'[s] = Append(link[s], m)
    BY <1>7 DEF Sends
  <2>2. link[s] \in Seq(Message \cup {m}) /\ r \in Seq(Message \cup {m}) /\ m \in Message \cup {m}
    BY <1>2, <1>5
  <2>3. Head(link'[s]) = h /\ Tail(link'[s]) = Append(r, m) /\ link'[s] # << >>
    BY <1>2, <1>4, <2>1, <2>2, HeadTailAppend, AppendProperties
  <2>4. Elements(Append(r, m)) = Elements(r) \cup {m}
    BY <2>2, ElementsAppended
  <2>5. Elements(link'[s]) = Elements(link[s]) \cup {m}
    BY <1>2, <1>7, LinkContents
  <2>6. EntryIs(s, h.session)'
    BY <1>5, <1>7, <2>5 DEF EntryIs
  <2>7. EntryIs(s, Head(link[s]).session)'
    BY <2>3, <2>6 DEF EntryIs
  <2>8. Nothing(o)'
    BY <1>2, <1>7 DEF Nothing, Keeps, HostStays
  <2> QED BY <1>1, <1>5, <1>7, <2>3, <2>4, <2>7, <2>8 DEF OnTheWay
<1>8. CASE Says(s, o)
  BY <1>3, <1>7, <1>8 DEF Says
<1>9. CASE Ends(s, o)
  BY <1>3, <1>7, <1>9 DEF Ends
<1>10. CASE IsAsked(s, o)
  <2>1. link'[s] = r
    BY <1>4, <1>10 DEF IsAsked, Takes
  <2>2. NoSend(s)'
    BY <1>5, <2>1 DEF NoSend
  <2>3. \/ HostStays(o)
        \/ visit'[o] = h.session /\ updates'[o] = << >> /\ Keeps(o)
    BY <1>4, <1>5, <1>10 DEF IsAsked
  <2>4. CASE HostStays(o)
    BY <1>1, <1>2, <2>2, <2>4 DEF Absent, Nothing, HostStays
  <2>5. CASE visit'[o] = h.session /\ updates'[o] = << >> /\ Keeps(o)
    <3>1. EntryIs(s, visit[o])'
      BY <1>5, <1>10, <2>1, <2>5 DEF IsAsked, EntryIs
    <3>2. Elements(updates'[o]) = {} /\ Elements(link'[o]) = {}
      BY <1>2, <2>5 DEF Elements, Nothing, Keeps
    <3> QED BY <1>1, <2>2, <3>1, <3>2 DEF Present
  <2> QED BY <2>3, <2>4, <2>5
<1> QED BY <1>1, <1>2, <1>6, <1>8, <1>9, <1>10 DEF Effect, IsTold, PassesOn, IsLost, IsTreated, Nothing, Takes

\* No other Send comes.
LEMMA NoSendStep ==
  ASSUME VisitsTyped, NEW s \in Server, NEW o, NoSend(s), Effect(s, o), ~ Announces(s, o)
  PROVE  NoSend(s)'
<1>1. Links
  BY DEF VisitsTyped, HandoffTypeOK, Links
<1>2. \A kind, n : Note(kind, n).kind = kind
  BY DEF Note
<1>3. Keeps(s) \/ Takes(s) \/ \E m : Sends(s, m) /\ m.kind # "Send"
  BY <1>2 DEF Effect, Chooses, Says, Ends, IsTold, IsAsked, PassesOn, IsLost, IsTreated
<1>4. CASE Keeps(s) \/ Takes(s)
  BY <1>1, <1>4, LinkContents DEF NoSend
<1>5. ASSUME NEW m, Sends(s, m), m.kind # "Send" PROVE NoSend(s)'
  <2>1. Elements(link'[s]) = Elements(link[s]) \cup {m}
    BY <1>1, <1>5, LinkContents
  <2> QED BY <1>5, <2>1 DEF NoSend
<1> QED BY <1>3, <1>4, <1>5

LEMMA AbsentStep ==
  ASSUME VisitsTyped, NEW s \in Server, NEW o, o = Other(s), Absent(s, o), Effect(s, o), started'[s] <= 1
  PROVE  Absent(s, o)'
<1>1. Chosen(s)' /\ NoSend(s)' /\ ~ Announces(s, o)
  BY ChosenStep, NoSendStep DEF Absent
<1>2. IsAsked(s, o) => Head(link[s]).kind # "Send"
  <2>1. Links
    BY DEF VisitsTyped, HandoffTypeOK, Links
  <2>2. IsAsked(s, o) => Head(link[s]) \in Elements(link[s])
    BY <2>1, LinkContents DEF IsAsked
  <2> QED BY <2>2 DEF Absent, NoSend
<1>3. place'[o] = "gone"
  BY <1>1, <1>2 DEF Absent, Effect, Chooses, Says, Ends, IsTold, IsAsked, PassesOn, IsLost, IsTreated,
         HostStays, HostDrops
<1> QED BY <1>1, <1>3 DEF Absent

LEMMA PresentStep ==
  ASSUME VisitsTyped, NEW s \in Server, NEW o, o = Other(s), OneWay(s, o), Present(s, o), Effect(s, o),
         started'[s] <= 1, moves' = moves
  PROVE  Present(s, o)' \/ Absent(s, o)'
<1>1. Chosen(s)' /\ NoSend(s)' /\ ~ Announces(s, o)
  BY ChosenStep, NoSendStep DEF Present
<1>2. o \in Server /\ Links /\ updates[o] \in Seq(Update) /\ moves \in Nat
  BY OtherServer, BoundAssumption DEF VisitsTyped, HandoffTypeOK, Links, BoundAssumption
<1>3. \A kind, n : Note(kind, n).kind = kind
  BY DEF Note
<1>4. CASE place'[o] = "gone"
  BY <1>1, <1>4 DEF Absent
<1>5. SUFFICES ASSUME place'[o] # "gone" PROVE Present(s, o)'
  BY <1>4
<1>6. ~ IsLost(s, o) /\ (IsAsked(s, o) => Head(link[s]).kind \notin {"Send", "Yank"})
  <2>1. IsAsked(s, o) => Head(link[s]) \in Elements(link[s])
    BY <1>2, LinkContents DEF IsAsked
  <2>2. IsAsked(s, o) => Head(link[s]).kind # "Send"
    BY <2>1 DEF Present, NoSend
  <2> QED BY <1>5, <2>2 DEF IsLost, IsAsked, HostDrops
\* The guest's entry and the home server's.
<1>7. visit'[o] = visit[o]
  BY <1>1, <1>5, <1>6 DEF Effect, Chooses, Says, Ends, IsTold, IsAsked, PassesOn, IsTreated, HostStays, HostDrops
<1>8. EntryIs(s, visit[o])'
  <2>1. \A m \in Elements(link[s]) : m.kind = "Yank" => m \in Elements(link'[s])
    <3>1. Keeps(s) \/ (\E m : Sends(s, m)) \/ (Takes(s) /\ Head(link[s]).kind # "Yank")
      BY <1>1, <1>6 DEF Effect, Chooses, Says, Ends, IsTold, IsAsked, PassesOn, IsTreated
    <3>2. Keeps(s) \/ (\E m : Sends(s, m)) => Elements(link[s]) \subseteq Elements(link'[s])
      BY <1>2, LinkContents
    <3>3. Takes(s) => Elements(link[s]) = Elements(link'[s]) \cup {Head(link[s])}
      BY <1>2, LinkContents
    <3> QED BY <3>1, <3>2, <3>3
  <2>2. onPeer'[s] = onPeer[s] \/ Sends(s, Note("Yank", onPeer[s])) \/ (IsTold(s, o) /\ Head(link[o]).kind \in {"Refused", "Release"})
    BY <1>1, <1>6 DEF Effect, Chooses, Says, Ends, IsTold, IsAsked, PassesOn, IsTreated
  <2>3. ~(IsTold(s, o) /\ Head(link[o]).kind \in {"Refused", "Release"})
    <3>1. IsTold(s, o) => Head(link[o]) \in Elements(link[o])
      BY <1>2, LinkContents DEF IsTold
    <3> QED BY <3>1 DEF Present
  <2>4. Sends(s, Note("Yank", onPeer[s])) => Note("Yank", onPeer[s]) \in Elements(link'[s])
    BY <1>2, LinkContents
  <2>5. EntryIs(s, visit[o])
    BY DEF Present
  <2> QED BY <1>3, <1>7, <2>1, <2>2, <2>3, <2>4, <2>5 DEF EntryIs
\* What the location has said, and the host.
<1>9. updates[o] # << >> => Head(updates[o]) \in {"arrived", "answer"} /\ Elements(Tail(updates[o])) \subseteq Elements(updates[o])
  <2>1. updates[o] # << >> => /\ Head(updates[o]) \in Elements(updates[o])
                              /\ Elements(updates[o]) = Elements(Tail(updates[o])) \cup {Head(updates[o])}
    BY <1>2, ElementsTaken
  <2> QED BY <2>1 DEF Present
<1>10. Elements(updates'[o]) \subseteq {"arrived", "answer"}
  <2>1. Elements(updates[o]) \subseteq {"arrived", "answer"}
    BY DEF Present
  <2>2. \/ updates'[o] = updates[o]
        \/ updates[o] # << >> /\ updates'[o] = Tail(updates[o])
        \/ Elements(updates'[o]) \subseteq Elements(updates[o]) \cup {"arrived", "answer"}
    BY <1>1, <1>2, <1>5, <1>6 DEF Effect, Chooses, Says, Ends, IsTold, IsAsked, PassesOn, IsTreated, HostStays, HostDrops
  <2> QED BY <1>9, <2>1, <2>2
<1>11. \A m \in Elements(link'[o]) : m.kind \notin {"Release", "Refused"}
  <2>1. \A m \in Elements(link[o]) : m.kind \notin {"Release", "Refused"}
    BY DEF Present
  <2>2. updates[o] # << >> => Forwarded(Head(updates[o])) \in {"Arrived", "Answer"}
    BY <1>9 DEF Forwarded
  <2>3. Keeps(o) \/ Takes(o) \/ \E m : Sends(o, m) /\ m.kind \notin {"Release", "Refused"}
    BY <1>1, <1>3, <1>5, <1>6, <2>2
       DEF Effect, Chooses, Says, Ends, IsTold, IsAsked, PassesOn, IsTreated, HostDrops
  <2>4. CASE Keeps(o) \/ Takes(o)
    <3>1. Elements(link'[o]) \subseteq Elements(link[o])
      BY <1>2, <2>4, LinkContents
    <3> QED BY <2>1, <3>1
  <2>5. ASSUME NEW m, Sends(o, m), m.kind \notin {"Release", "Refused"}
        PROVE  \A n \in Elements(link'[o]) : n.kind \notin {"Release", "Refused"}
    <3>1. Elements(link'[o]) = Elements(link[o]) \cup {m}
      BY <1>2, <2>5, LinkContents
    <3> QED BY <2>1, <2>5, <3>1
  <2> QED BY <2>3, <2>4, <2>5
<1> QED BY <1>1, <1>8, <1>10, <1>11 DEF Present

LEMMA FirstVisitKept ==
  ASSUME VisitsTyped, VisitsTyped', NEW s \in Server, NEW o, o = Other(s), OneWay(s, o), FirstVisit(s, o),
         Effect(s, o), moves' \in {moves, moves + 1}
  PROVE  FirstVisit(s, o)'
<1>1. SUFFICES ASSUME Simple(s)' PROVE (Quiet(s, o) \/ OnTheWay(s, o) \/ Present(s, o) \/ Absent(s, o))'
  BY DEF FirstVisit
<1>2. moves \in Nat /\ started[s] \in Nat /\ started'[s] \in Nat
  BY BoundAssumption DEF VisitsTyped, HandoffTypeOK, BoundAssumption
<1>3. started'[s] = started[s] \/ started'[s] = started[s] + 1
  BY DEF Effect, Chooses, Announces, Says, Ends, IsTold, IsAsked, PassesOn, IsLost, IsTreated, HomeStays
<1>4. moves' = 0 /\ moves = 0 /\ started'[s] <= 1 /\ started[s] <= 1
  BY <1>1, <1>2, <1>3 DEF Simple
<1>5. Quiet(s, o) \/ OnTheWay(s, o) \/ Present(s, o) \/ Absent(s, o)
  BY <1>4 DEF FirstVisit, Simple
<1> QED BY <1>4, <1>5, QuietStep, OnTheWayStep, PresentStep, AbsentStep

-----------------------------------------------------------------------------
(* The theorems are about one player who travels: if the players of both   *)
(* servers do, each is the other's guest under the same name.              *)

OnlyOneTravels == \A s, t \in Traveller : s = t

VisitInvariant ==
  /\ VisitsTyped
  /\ \A s \in Server : Other(s) \notin Traveller =>
       OneWay(s, Other(s)) /\ Awaited(s, Other(s)) /\ FirstVisit(s, Other(s))

LEMMA VisitInvariantHolds == HandoffSpec => []VisitInvariant
<1>1. HandoffInit => VisitInvariant
  <2>1. SUFFICES ASSUME HandoffInit PROVE VisitInvariant
    OBVIOUS
  <2>2. VisitsTyped
    BY <2>1, VisitsStartTyped
  <2>3. ASSUME NEW s \in Server
        PROVE  OneWay(s, Other(s)) /\ Awaited(s, Other(s)) /\ FirstVisit(s, Other(s))
    <3>1. PICK o : o = Other(s)
      OBVIOUS
    <3>2. o \in Server
      BY <3>1, OtherServer
    <3>3. Elements(<< >>) = {}
      BY DEF Elements
    <3>4. OneWay(s, o)
      BY <2>1, <3>2, <3>3 DEF HandoffInit, OneWay, NobodyOf
    <3>5. Awaited(s, o)
      BY <2>1 DEF HandoffInit, Awaited
    <3>6. Quiet(s, o)
      <4>1. Len(<< >>) = 0
        OBVIOUS
      <4> QED BY <2>1, <3>2, <4>1 DEF HandoffInit, Quiet, Nothing
    <3> QED BY <3>1, <3>4, <3>5, <3>6 DEF FirstVisit
  <2> QED BY <2>2, <2>3 DEF VisitInvariant
<1>2. VisitInvariant /\ [HandoffNext]_handoffVars => VisitInvariant'
  <2>1. SUFFICES ASSUME VisitInvariant, [HandoffNext]_handoffVars PROVE VisitInvariant'
    OBVIOUS
  <2>2. CASE HandoffNext
    <3>1. VisitsTyped /\ VisitsTyped'
      BY <2>1, <2>2, VisitsKeepTheirTypes DEF VisitInvariant
    <3>2. ASSUME NEW s \in Server, Other(s) \notin Traveller
          PROVE  (OneWay(s, Other(s)) /\ Awaited(s, Other(s)) /\ FirstVisit(s, Other(s)))'
      <4>1. PICK o : o = Other(s)
        OBVIOUS
      <4>2. OneWay(s, o) /\ Awaited(s, o) /\ FirstVisit(s, o)
        BY <2>1, <3>2, <4>1 DEF VisitInvariant
      <4>3. NobodyOf(s, o)' /\ moves' \in {moves, moves + 1} /\ Effect(s, o)
        BY <2>2, <3>1, <3>2, <4>1, <4>2, EveryStepHasItsEffect
      <4>4. OneWay(s, o)' /\ Awaited(s, o)' /\ FirstVisit(s, o)'
        BY <3>1, <4>1, <4>2, <4>3, OneWayKept, AwaitedKept, FirstVisitKept
      <4> QED BY <4>1, <4>4
    <3> QED BY <3>1, <3>2 DEF VisitInvariant
  <2>3. CASE UNCHANGED handoffVars
    <3>1. UNCHANGED <<client, started, queue, onPeer, events, news, visit, place, updates, link, moves, chatter>>
      BY <2>3 DEF handoffVars, homeSide, hostSide
    <3>2. VisitsTyped'
      BY <2>1, <3>1 DEF VisitInvariant, VisitsTyped, HandoffTypeOK
    <3>3. ASSUME NEW s \in Server, Other(s) \notin Traveller
          PROVE  (OneWay(s, Other(s)) /\ Awaited(s, Other(s)) /\ FirstVisit(s, Other(s)))'
      <4>1. PICK o : o = Other(s)
        OBVIOUS
      <4>2. OneWay(s, o) /\ Awaited(s, o) /\ FirstVisit(s, o)
        BY <2>1, <3>3, <4>1 DEF VisitInvariant
      <4>3. OneWay(s, o)'
        BY <3>1, <4>2 DEF OneWay, NobodyOf
      <4>4. Awaited(s, o)'
        BY <3>1, <4>2 DEF Awaited, AllSaid, Settled, InTransit
      <4>5. FirstVisit(s, o)'
        BY <3>1, <4>2 DEF FirstVisit, Simple, Quiet, OnTheWay, Present, Absent, Nothing, Chosen, EntryIs, NoSend
      <4> QED BY <4>1, <4>3, <4>4, <4>5
    <3> QED BY <3>2, <3>3 DEF VisitInvariant
  <2> QED BY <2>1, <2>2, <2>3
<1> QED BY <1>1, <1>2, PTL DEF HandoffSpec

\* Of a player no other player of the same name travels against, nothing is
\* left at home that waits for somebody who is nowhere.
LEMMA TravellerIsKnown ==
  ASSUME OnlyOneTravels, VisitInvariant, NEW s \in Server
  PROVE  /\ onPeer[s] # 0 =>
              \/ InTransit(s, {"Send"}, onPeer[s])
              \/ visit[Other(s)] = onPeer[s]
              \/ InTransit(Other(s), {"Release", "Refused"}, onPeer[s])
         /\ Simple(s) => AccountedFor(s)
<1>1. PICK o : o = Other(s)
  OBVIOUS
<1>2. o \in Server /\ Other(o) = s /\ o # s
  BY <1>1, OtherServer
<1>3. CASE o \in Traveller
  <2>1. s \notin Traveller
    BY <1>2, <1>3 DEF OnlyOneTravels
  <2>2. OneWay(o, s)
    BY <1>2, <2>1 DEF VisitInvariant
  <2> QED BY <1>1, <2>2 DEF OneWay, NobodyOf, AccountedFor
<1>4. CASE o \notin Traveller
  <2>1. Awaited(s, o) /\ FirstVisit(s, o)
    BY <1>1, <1>4 DEF VisitInvariant
  <2>2. PICK k : k = onPeer[s]
    OBVIOUS
  <2>3. Said(link[s], k) => InTransit(s, {"Send"}, k)
    BY DEF Said, InTransit, Elements
  <2>4. onPeer[s] # 0 =>
          \/ InTransit(s, {"Send"}, k)
          \/ visit[o] = k
          \/ InTransit(o, {"Release", "Refused"}, k)
    BY <2>1, <2>2, <2>3 DEF Awaited, Settled
  <2>5. Simple(s) => AccountedFor(s)
    BY <1>1, <2>1 DEF FirstVisit, AccountedFor, Quiet, OnTheWay, Present, Absent, Nothing, EntryIs
  <2> QED BY <1>1, <2>2, <2>4, <2>5
<1> QED BY <1>3, <1>4

\* An entry of players_on_peer never waits for a player who is nowhere.
THEOREM TheHomeServerKnows ==
  ASSUME OnlyOneTravels
  PROVE  HandoffSpec => []HomeKnowsItsTraveller
<1>1. VisitInvariant => HomeKnowsItsTraveller
  BY TravellerIsKnown DEF HomeKnowsItsTraveller
<1> QED BY <1>1, VisitInvariantHolds, PTL

\* A guest of a first visit is one the home server knows of, will yank, or
\* is about to replace.
THEOREM TheFirstGuestIsKnown ==
  ASSUME OnlyOneTravels
  PROVE  HandoffSpec => []FirstGuestIsAccountedFor
<1>1. VisitInvariant => FirstGuestIsAccountedFor
  BY TravellerIsKnown DEF FirstGuestIsAccountedFor, VisitInvariant, VisitsTyped
<1> QED BY <1>1, VisitInvariantHolds, PTL

-----------------------------------------------------------------------------
(* The location a player hosts.                                            *)

USE CapsAssumption, BoundsAssumption, OwnerAssumption, RulesAssumption, SendableAssumption
    DEF CapsAssumption, BoundsAssumption, OwnerAssumption, RulesAssumption, SendableAssumption

OnItsWay(q, e) == \E i \in DOMAIN q : q[i] = e

-----------------------------------------------------------------------------
(* What an event does, whichever it is.                                    *)

\* An event that lets nobody in: who is inside then was inside before, has not
\* been reported gone, and is not denied by a new setting unless he is dead.
NobodyComesIn ==
  /\ UNCHANGED <<clientVars, clientq, task, guestVars, believed>>
  /\ outbox' \in Seq(ToClient) /\ Len(outbox') <= 2
  /\ dead' \subseteq Player
  /\ acl' \in Rules
  /\ inside' \in [Player -> 0..MaxVisits]
  /\ \A p \in Player : inside'[p] \in {0, inside[p]}
  /\ \A p \in Player : ~OnItsWay(outbox', Entered(p))
  /\ \A p \in Player : OnItsWay(outbox', Left(p)) => inside'[p] = 0
  /\ \A p \in Player : inside'[p] # 0 /\ acl'[p] = "Deny" => p \in dead' \/ acl[p] = "Deny"

\* Such an event, taken from the host or, when he is silent, from a guest.
Event ==
  /\ Ready
  /\ NobodyComesIn
  /\ \/ inputq # << >> /\ inputq' = Tail(inputq)
     \/ inputq = << >> /\ UNCHANGED inputq
  /\ UNCHANGED joinq

\* The break that leaves only the loop of the removals.
GiveUp ==
  /\ task = "running" /\ host = "NoWhere" /\ Removing
  /\ Done(<< >>, {}) /\ UNCHANGED <<inputq, joinq, acl, inside>>

LEMMA RequestFields ==
  /\ \A r \in Request : /\ r.kind = "Kick" => r.target \in Player
                        /\ r.kind = "AccessSet" => r.rules \in Rules
  /\ \A c \in Command : c.kind \in {"Drop", "Tell"} => c.target \in Player
BY DEF Request, Command

LEMMA MessageTypes ==
  /\ \A p \in Player : /\ Entered(p) \in ToClient /\ Left(p) \in ToClient /\ Asks(p) \in ToClient
                       /\ Entered(p) # InLocation /\ Left(p) # InLocation
  /\ \A p, q \in Player : /\ Entered(p) # Left(q) /\ Asks(p) # Entered(q) /\ Asks(p) # Left(q)
                          /\ Entered(p) = Entered(q) => p = q
                          /\ Left(p) = Left(q) => p = q
  /\ InLocation \in ToClient
BY DEF Entered, Left, Asks, InLocation, ToClient, HostEvent

LEMMA FailuresAreInside ==
  ASSUME NEW S, NEW failed \in Failures(S)
  PROVE  failed \subseteq S /\ failed \subseteq Inside
BY DEF Failures, HungUp

\* An event after which the same people, or one less, are inside.
LEMMA QuietEvent ==
  ASSUME TypeOK, NEW told \in Seq(ToClient), NEW failed \in SUBSET Player, Len(told) <= 2,
         Done(told, failed), acl' \in Rules,
         UNCHANGED inside \/ \E t \in Player : Remove(t),
         \A p \in Player : ~OnItsWay(told, Entered(p)),
         \A p \in Player : OnItsWay(told, Left(p)) => inside'[p] = 0,
         \A p \in Inside : inside'[p] # 0 /\ acl'[p] = "Deny" => p \in failed \/ acl[p] = "Deny"
  PROVE  NobodyComesIn
<1>1. inside' \in [Player -> 0..MaxVisits] /\ \A p \in Player : inside'[p] \in {0, inside[p]}
  BY DEF TypeOK, Remove
<1>2. \A p \in Player : inside'[p] # 0 => p \in Inside
  BY <1>1 DEF Inside
<1> QED BY <1>1, <1>2 DEF NobodyComesIn, Done

\* One of which the host hears nothing.
LEMMA SilentEvent ==
  ASSUME TypeOK, UNCHANGED acl, UNCHANGED inside \/ \E t \in Player : Remove(t),
         \E failed \in SUBSET Player : Done(<< >>, failed)
  PROVE  NobodyComesIn
<1>1. PICK failed \in SUBSET Player : Done(<< >>, failed)
  OBVIOUS
<1>2. << >> \in Seq(ToClient) /\ Len(<< >>) <= 2 /\ \A p \in Player : ~OnItsWay(<< >>, Entered(p)) /\ ~OnItsWay(<< >>, Left(p))
  BY DEF OnItsWay
<1>3. acl' \in Rules
  BY DEF TypeOK
<1> QED BY <1>1, <1>2, <1>3, QuietEvent

\* What the host may be told in answer to a request.
LEMMA ToldBriefly ==
  ASSUME NEW who \in Sender
  PROVE  /\ Reply(who) \in Seq(ToClient) /\ Len(Reply(who)) <= 1
         /\ <<InLocation>> \o Reply(who) \in Seq(ToClient) /\ Len(<<InLocation>> \o Reply(who)) <= 2
         /\ \A p \in Player : /\ ~OnItsWay(Reply(who), Entered(p)) /\ ~OnItsWay(Reply(who), Left(p))
                              /\ ~OnItsWay(<<InLocation>> \o Reply(who), Entered(p))
                              /\ ~OnItsWay(<<InLocation>> \o Reply(who), Left(p))
BY MessageTypes DEF Reply, OnItsWay, Sender

LEMMA KickIsToldBriefly ==
  ASSUME NEW who \in Sender, NEW t \in Player,
         NEW told, told \in {<<Left(t)>> \o Reply(who), Reply(who)}
  PROVE  /\ told \in Seq(ToClient) /\ Len(told) <= 2
         /\ \A p \in Player : /\ ~OnItsWay(told, Entered(p))
                              /\ OnItsWay(told, Left(p)) => p = t
<1>1. CASE told = <<Left(t)>> \o Reply(who)
  <2>1. /\ <<Left(t)>> \o Reply(who) \in Seq(ToClient) /\ Len(<<Left(t)>> \o Reply(who)) <= 2
        /\ \A p \in Player : /\ ~OnItsWay(<<Left(t)>> \o Reply(who), Entered(p))
                             /\ OnItsWay(<<Left(t)>> \o Reply(who), Left(p)) => p = t
    BY MessageTypes DEF Reply, OnItsWay, Sender
  <2> QED BY <1>1, <2>1
<1>2. CASE told = Reply(who)
  BY <1>2, ToldBriefly
<1> QED BY <1>1, <1>2

LEMMA RequestLetsNobodyIn ==
  ASSUME TypeOK, NEW who \in Sender, NEW r \in Request, Handle(who, r)
  PROVE  NobodyComesIn
<1>1. Inside \subseteq Player /\ {who} \ {Owner} \subseteq Player
  BY DEF Inside, Sender
<1>3. acl \in Rules
  BY DEF TypeOK
<1>4. CASE r.kind \in {"Avatar", "MessageSend"}
  <2>1. PICK failed \in Failures(IF r.kind = "Avatar" THEN Inside \ {who} ELSE Inside) : Done(<<InLocation>>, failed)
    BY <1>4 DEF Handle
  <2>2. failed \subseteq Player
    BY <2>1, <1>1, FailuresAreInside
  <2>3. UNCHANGED <<acl, inside>>
    BY <1>4 DEF Handle
  <2>4. /\ <<InLocation>> \in Seq(ToClient) /\ Len(<<InLocation>>) <= 2
        /\ \A p \in Player : ~OnItsWay(<<InLocation>>, Entered(p)) /\ ~OnItsWay(<<InLocation>>, Left(p))
    BY MessageTypes DEF OnItsWay
  <2> QED BY <2>1, <2>2, <2>3, <2>4, <1>3, QuietEvent
<1>5. CASE r.kind = "Publish" /\ MayManage(who)
  <2>1. PICK failed \in Failures(Inside) : Done(<<InLocation>> \o Reply(who), failed)
    BY <1>5 DEF Handle
  <2>2. failed \subseteq Player
    BY <2>1, <1>1, FailuresAreInside
  <2>3. UNCHANGED <<acl, inside>>
    BY <1>5 DEF Handle
  <2> QED BY <2>1, <2>2, <2>3, <1>3, ToldBriefly, QuietEvent
<1>6. CASE r.kind = "Get" \/ (r.kind \in {"Publish", "Kick", "AccessSet"} /\ ~MayManage(who))
  <2>1. PICK failed \in Unreached(who) : Done(Reply(who), failed)
    BY <1>6 DEF Handle
  <2>2. failed \subseteq Player
    BY <2>1, <1>1, FailuresAreInside DEF Unreached
  <2>3. UNCHANGED <<acl, inside>>
    BY <1>6 DEF Handle
  <2> QED BY <2>1, <2>2, <2>3, <1>3, ToldBriefly, QuietEvent
<1>7. CASE r.kind = "AccessSet" /\ MayManage(who)
  <2>1. PICK failed \in Unreached(who) : Done(Reply(who), failed \cup NowDenied(r.rules))
    BY <1>7 DEF Handle
  <2>2. failed \cup NowDenied(r.rules) \subseteq Player
    BY <2>1, <1>1, FailuresAreInside DEF Unreached, NowDenied
  <2>3. acl' = r.rules /\ UNCHANGED inside
    BY <1>7 DEF Handle
  <2>4. acl' \in Rules
    BY <1>7, <2>3, RequestFields
  <2>5. \A p \in Inside : acl'[p] = "Deny" => p \in failed \cup NowDenied(r.rules)
    BY <2>3 DEF NowDenied
  <2> QED BY <2>1, <2>2, <2>3, <2>4, <2>5, ToldBriefly, QuietEvent
<1>8. CASE r.kind = "Kick" /\ MayManage(who)
  <2> DEFINE told == (IF r.target \in Inside THEN <<Left(r.target)>> ELSE << >>) \o Reply(who)
  <2>1. PICK all \in Unreached(who) : Done(told, all \ {r.target})
    BY <1>8 DEF Handle
  <2>2. PICK failed \in SUBSET Player : Done(told, failed)
    BY <2>1, <1>1, FailuresAreInside DEF Unreached
  <2>3. r.target \in Player /\ Remove(r.target) /\ UNCHANGED acl
    BY <1>8, RequestFields DEF Handle
  <2>4. inside'[r.target] = 0
    BY <2>3 DEF Remove, TypeOK
  <2>5. told \in {<<Left(r.target)>> \o Reply(who), Reply(who)}
    BY ToldBriefly
  <2> HIDE DEF told
  <2>6. /\ told \in Seq(ToClient) /\ Len(told) <= 2
        /\ \A p \in Player : ~OnItsWay(told, Entered(p)) /\ (OnItsWay(told, Left(p)) => inside'[p] = 0)
    BY <2>3, <2>4, <2>5, KickIsToldBriefly
  <2>7. (\E t \in Player : Remove(t)) /\ acl' = acl
    BY <2>3
  <2>8. /\ \A p \in Player : ~OnItsWay(told, Entered(p))
        /\ \A p \in Player : OnItsWay(told, Left(p)) => inside'[p] = 0
    BY <2>6
  <2> QED BY <2>2, <2>6, <2>7, <2>8, <1>3, QuietEvent
<1>9. CASE r.kind = "Internal"
  <2>1. Done(IF who \in Inside THEN <<Asks(who)>> ELSE << >>, {}) /\ UNCHANGED <<acl, inside>>
    BY <1>9 DEF Handle
  <2>2. CASE who \notin Inside
    BY <2>1, <2>2, SilentEvent
  <2>3. CASE who \in Inside
    <3>1. PICK told, failed : told = <<Asks(who)>> /\ failed = {} /\ Done(told, failed)
      BY <2>1, <2>3
    <3>2. /\ told \in Seq(ToClient) /\ Len(told) <= 2
          /\ \A p \in Player : ~OnItsWay(told, Entered(p)) /\ ~OnItsWay(told, Left(p))
      BY <1>1, <2>3, <3>1, MessageTypes DEF OnItsWay
    <3>3. failed \in SUBSET Player /\ Done(told, failed)
      BY <3>1
    <3> QED BY <2>1, <3>2, <3>3, <1>3, QuietEvent
  <2> QED BY <2>2, <2>3
<1>10. CASE r.kind = "Delete" /\ ~MayManage(who)
  <2>1. Done(<< >>, {}) /\ UNCHANGED <<acl, inside>>
    BY <1>10 DEF Handle
  <2> QED BY <2>1, SilentEvent
<1> QED BY <1>4, <1>5, <1>6, <1>7, <1>8, <1>9, <1>10 DEF Handle

LEMMA CommandLetsNobodyIn ==
  ASSUME TypeOK, NEW c \in Command, Obey(c), UNCHANGED acl
  PROVE  NobodyComesIn
<1>1. CASE c.kind \in {"Broadcast", "Tell"}
  <2>1. PICK S : \E failed \in Failures(S) : Done(<< >>, failed)
    BY <1>1 DEF Obey
  <2>2. PICK failed \in Failures(S) : Done(<< >>, failed)
    BY <2>1
  <2>3. failed \subseteq Player /\ UNCHANGED inside
    BY <1>1, <2>2, FailuresAreInside DEF Obey, Inside
  <2> QED BY <2>2, <2>3, SilentEvent
<1>2. CASE c.kind = "Drop"
  <2>1. c.target \in Player /\ Remove(c.target) /\ Done(<< >>, {})
    BY <1>2, RequestFields DEF Obey
  <2> QED BY <2>1, SilentEvent
<1> QED BY <1>1, <1>2 DEF Obey, Command

\* A step of the task is one of these.
LEMMA StepsOfTheTask ==
  ASSUME TypeOK, TaskSteps
  PROVE  \/ End \/ Event \/ TakeJoin \/ WriteToHost \/ GiveUp
         \/ \E p \in Player : RemoveDead(p)
<1>1. CASE TakeInput
  <2> DEFINE i == Head(inputq)
  <2>1. Ready /\ inputq # << >>
    BY <1>1 DEF TakeInput
  <2>2. CASE i.kind \in {"Quit", "Delete"} /\ End
    BY <2>2
  <2>3. CASE inputq' = Tail(inputq) /\ UNCHANGED joinq /\ i \in Request /\ Handle(Owner, i)
    BY <2>1, <2>3, RequestLetsNobodyIn DEF Event, Sender
  <2>4. CASE inputq' = Tail(inputq) /\ UNCHANGED joinq /\ i \in Command /\ Obey(i) /\ UNCHANGED acl
    BY <2>1, <2>4, CommandLetsNobodyIn DEF Event
  <2> QED BY <1>1, <2>2, <2>3, <2>4 DEF TakeInput
<1>2. ASSUME NEW p \in Player, TakeRequest(p) PROVE End \/ Event
  <2>1. Ready /\ inputq = << >> /\ p \in Sender
    BY <1>2 DEF TakeRequest, Sender
  <2>2. CASE End
    BY <2>2
  <2>3. CASE \E r \in Request : Handle(p, r) /\ UNCHANGED <<inputq, joinq>>
    BY <2>1, <2>3, RequestLetsNobodyIn DEF Event
  <2>4. CASE Remove(p) /\ Done(<< >>, {p}) /\ UNCHANGED <<acl, inputq, joinq>>
    <3>1. NobodyComesIn
      BY <2>4, SilentEvent
    <3> QED BY <2>1, <2>4, <3>1 DEF Event
  <2> QED BY <1>2, <2>2, <2>3, <2>4 DEF TakeRequest
<1>3. CASE FailToWrite
  BY <1>3 DEF FailToWrite, GiveUp
<1>4. CASE Quit
  BY <1>4 DEF Quit
<1> QED BY <1>1, <1>2, <1>3, <1>4 DEF TaskSteps

-----------------------------------------------------------------------------
(* Types. *)

\* Visits on their way in have begun.
QueuedVisits == \A i \in DOMAIN joinq : joinq[i] \in DOMAIN visits

LEMMA InitTypes == Init => TypeOK /\ QueuedVisits
BY DEF Init, TypeOK, Visit, QueuedVisits

\* A join that is let in, or not, is told about in one or two words.
LEMMA JoinTypes ==
  ASSUME TypeOK, QueuedVisits, TakeJoin
  PROVE  /\ joinq # << >> /\ joinq' = Tail(joinq)
         /\ Head(joinq) \in DOMAIN visits /\ visits[Head(joinq)] \in Player
         /\ outbox' \in Seq(ToClient) /\ Len(outbox') <= 2 /\ dead' \subseteq Player
         /\ UNCHANGED <<clientVars, inputq, clientq, task, acl, guestVars, believed>>
         /\ UNCHANGED inside \/ inside' = [inside EXCEPT ![visits[Head(joinq)]] = Head(joinq)]
<1>1. joinq # << >> /\ joinq' = Tail(joinq)
  BY DEF TakeJoin
<1>2. PICK v : v = Head(joinq)
  OBVIOUS
<1>3. PICK p : p = visits[v]
  OBVIOUS
<1>4. v \in DOMAIN visits /\ p \in Player
  <2>1. v = joinq[1] /\ 1 \in DOMAIN joinq
    BY <1>1, <1>2 DEF TypeOK
  <2> QED BY <2>1, <1>3 DEF QueuedVisits, TypeOK
<1>5. /\ UNCHANGED <<clientVars, inputq, clientq, task, acl, guestVars, believed>>
      /\ UNCHANGED inside \/ inside' = [inside EXCEPT ![p] = v]
  BY <1>2, <1>3 DEF TakeJoin, Done
<1>6. outbox' \in Seq(ToClient) /\ Len(outbox') <= 2 /\ dead' \subseteq Player
  <2>1. CASE Done(<< >>, {})
    BY <2>1 DEF Done
  <2>2. CASE Done(<<Entered(p), Left(p)>>, {})
    BY <1>4, <2>2, MessageTypes DEF Done
  <2>3. CASE \E failed \in Failures(Inside) : Done(<<Entered(p)>>, failed)
    BY <1>4, <2>3, MessageTypes, FailuresAreInside DEF Done, Inside
  <2> QED BY <1>2, <1>3, <2>1, <2>2, <2>3 DEF TakeJoin
<1> QED BY <1>1, <1>2, <1>3, <1>4, <1>5, <1>6

LEMMA TypesAreKept ==
  ASSUME TypeOK, QueuedVisits, [Next]_vars
  PROVE  TypeOK' /\ QueuedVisits'
<1>1. ASSUME NEW i \in Sendable, HostSends(i) PROVE TypeOK' /\ QueuedVisits'
  BY <1>1 DEF HostSends, guestVars, TypeOK, QueuedVisits
<1>2. CASE HostPuts
  <2>1. inputq' \in Seq(Input) /\ Len(inputq') <= InputCap
    <3>1. inputq' = inputq \o pending /\ Len(inputq) < InputCap
      BY <1>2 DEF HostPuts
    <3> QED BY <3>1, ConcatProperties DEF TypeOK
  <2> QED BY <1>2, <2>1 DEF HostPuts, guestVars, TypeOK, QueuedVisits
<1>3. CASE HostGoes
  BY <1>3 DEF HostGoes, guestVars, TypeOK, QueuedVisits
<1>4. CASE HostHears
  BY <1>4 DEF HostHears, AfterHearing, guestVars, TypeOK, QueuedVisits
<1>5. CASE SocketChanges
  <2>1. connected' \in BOOLEAN
    BY <1>5 DEF SocketChanges
  <2> QED BY <1>5, <2>1 DEF SocketChanges, guestVars, TypeOK, QueuedVisits
<1>6. ASSUME NEW p \in Player, GuestJoins(p) PROVE TypeOK' /\ QueuedVisits'
  <2>1. visits' = Append(visits, p) /\ Len(visits) < MaxVisits
    BY <1>6 DEF GuestJoins
  <2>2. /\ visits' \in Seq(Player) /\ Len(visits') = Len(visits) + 1
        /\ DOMAIN visits' = DOMAIN visits \cup {Len(visits) + 1}
    BY <1>6, <2>1, Appended DEF TypeOK
  <2>3. \/ UNCHANGED joinq
        \/ joinq' = Append(joinq, Len(visits) + 1) /\ Len(joinq) < JoinCap
    BY <1>6 DEF GuestJoins
  <2>4. joinq' \in Seq(Visit) /\ Len(joinq') <= JoinCap
    <3>1. CASE UNCHANGED joinq
      BY <3>1 DEF TypeOK
    <3>2. CASE joinq' = Append(joinq, Len(visits) + 1) /\ Len(joinq) < JoinCap
      <4>1. Len(visits) + 1 \in Visit
        BY <2>1 DEF Visit, TypeOK
      <4> QED BY <3>2, <4>1, Appended DEF TypeOK
    <3> QED BY <2>3, <3>1, <3>2
  <2>5. QueuedVisits'
    <3>1. CASE UNCHANGED joinq
      BY <2>2, <3>1 DEF QueuedVisits
    <3>2. CASE joinq' = Append(joinq, Len(visits) + 1)
      <4>1. Len(visits) + 1 \in Nat /\ joinq \in Seq(Nat)
        BY DEF TypeOK, Visit
      <4> QED BY <2>2, <3>2, <4>1, Appended DEF QueuedVisits
    <3> QED BY <2>3, <3>1, <3>2
  <2>6. hung' \subseteq DOMAIN visits'
    BY <1>6, <2>2 DEF GuestJoins, Earlier, TypeOK
  <2>7. UNCHANGED <<clientVars, inputq, clientq, task, outbox, dead, acl, inside, believed>>
    BY <1>6 DEF GuestJoins
  <2>8. Len(visits') <= MaxVisits
    BY <2>1, <2>2 DEF TypeOK
  <2> QED BY <2>2, <2>4, <2>5, <2>6, <2>7, <2>8 DEF clientVars, TypeOK
<1>7. ASSUME NEW v \in Visit, GuestHangsUp(v) PROVE TypeOK' /\ QueuedVisits'
  BY <1>7 DEF GuestHangsUp, clientVars, TypeOK, QueuedVisits
<1>8. CASE TaskSteps
  <2>1. CASE End
    BY <2>1 DEF End, clientVars, guestVars, TypeOK, QueuedVisits
  <2>2. CASE Event
    <3>1. inputq' \in Seq(Input) /\ Len(inputq') <= InputCap
      <4>1. CASE inputq # << >> /\ inputq' = Tail(inputq)
        BY <4>1, Taken DEF TypeOK
      <4>2. CASE UNCHANGED inputq
        BY <4>2 DEF TypeOK
      <4> QED BY <2>2, <4>1, <4>2 DEF Event
    <3> QED BY <2>2, <3>1 DEF Event, NobodyComesIn, clientVars, guestVars, TypeOK, QueuedVisits
  <2>3. CASE TakeJoin
    <3>1. joinq' \in Seq(Visit) /\ Len(joinq') <= JoinCap /\ QueuedVisits'
      <4>1. joinq # << >> /\ joinq' = Tail(joinq) /\ UNCHANGED visits
        BY <2>3, JoinTypes DEF guestVars
      <4> QED BY <4>1, Taken DEF TypeOK, QueuedVisits
    <3>2. inside' \in [Player -> 0..MaxVisits]
      <4>1. PICK v : v = Head(joinq)
        OBVIOUS
      <4>2. v \in 0..MaxVisits
        <5>1. joinq \in Seq(Visit) /\ joinq # << >>
          BY <2>3, JoinTypes DEF TypeOK
        <5>2. v \in Visit
          BY <4>1, <5>1, Taken
        <5> QED BY <5>2 DEF Visit
      <4>3. UNCHANGED inside \/ inside' = [inside EXCEPT ![visits[v]] = v]
        BY <2>3, <4>1, JoinTypes
      <4>4. inside \in [Player -> 0..MaxVisits]
        BY DEF TypeOK
      <4> QED BY <4>2, <4>3, <4>4
    <3> QED BY <2>3, <3>1, <3>2, JoinTypes DEF clientVars, guestVars, TypeOK
  <2>4. CASE WriteToHost
    <3>1. Head(outbox) \in ToClient /\ outbox' \in Seq(ToClient) /\ Len(outbox') <= 2
      BY <2>4, Taken DEF WriteToHost, TypeOK
    <3>2. clientq' \in Seq(ToClient) /\ Len(clientq') <= ClientCap
      BY <2>4, <3>1, Appended DEF WriteToHost, Room, TypeOK
    <3>3. believed' \subseteq Player /\ dead' \subseteq Player
      BY <2>4, <3>1 DEF WriteToHost, ToClient, HostEvent, TypeOK
    <3> QED BY <2>4, <3>1, <3>2, <3>3 DEF WriteToHost, clientVars, guestVars, TypeOK, QueuedVisits
  <2>5. CASE GiveUp
    BY <2>5 DEF GiveUp, Done, clientVars, guestVars, TypeOK, QueuedVisits
  <2>6. ASSUME NEW p \in Player, RemoveDead(p) PROVE TypeOK' /\ QueuedVisits'
    <3>1. outbox' \in Seq(ToClient) /\ Len(outbox') <= 2 /\ dead' \subseteq Player
      <4>1. <<Left(p)>> \in Seq(ToClient) /\ Len(<<Left(p)>>) = 1
        BY <2>6, MessageTypes
      <4>2. dead' \subseteq dead /\ outbox' \in {<<Left(p)>>, outbox}
        BY <2>6 DEF RemoveDead
      <4>3. outbox' \in Seq(ToClient) /\ Len(outbox') <= 2
        <5>1. CASE outbox' = outbox
          BY <5>1 DEF TypeOK
        <5>2. CASE outbox' = <<Left(p)>>
          BY <4>1, <5>2
        <5> QED BY <4>2, <5>1, <5>2
      <4> QED BY <4>2, <4>3 DEF TypeOK
    <3>2. inside' \in [Player -> 0..MaxVisits]
      BY <2>6 DEF RemoveDead, Remove, TypeOK
    <3> QED BY <2>6, <3>1, <3>2 DEF RemoveDead, clientVars, guestVars, TypeOK, QueuedVisits
  <2> QED BY <1>8, StepsOfTheTask, <2>1, <2>2, <2>3, <2>4, <2>5, <2>6
<1>9. CASE UNCHANGED vars
  BY <1>9 DEF vars, TypeOK, QueuedVisits
<1> QED BY <1>1, <1>2, <1>3, <1>4, <1>5, <1>6, <1>7, <1>8, <1>9 DEF Next

LEMMA TypesHold == Spec => [](TypeOK /\ QueuedVisits)
<1>1. (TypeOK /\ QueuedVisits) /\ [Next]_vars => (TypeOK /\ QueuedVisits)'
  BY TypesAreKept
<1> QED BY <1>1, InitTypes, PTL DEF Spec

\* Every variable keeps its type, and no channel holds more than its places.
THEOREM TypeIsCorrect == Spec => []TypeOK
BY TypesHold, PTL

-----------------------------------------------------------------------------
(* The invariants. *)

\* Each visit ends the earlier ones of its player; who is inside came by a visit
\* of his own, and before all that are on their way.
VisitsInOrder ==
  /\ \A v, w \in DOMAIN visits : v < w /\ visits[v] = visits[w] => v \in hung
  /\ \A p \in Inside : inside[p] \in DOMAIN visits /\ visits[inside[p]] = p
  /\ \A i, j \in DOMAIN joinq : i < j => joinq[i] < joinq[j]
  /\ \A p \in Inside : \A i \in DOMAIN joinq : inside[p] < joinq[i]

\* Who is inside and has not hung up has been reported, or is about to be; who is
\* about to be reported gone while the table has him is one whose join failed
\* over an earlier visit of his, and not one to be removed.
Announced ==
  /\ \A p \in Inside \ HungUp : p \in believed \/ OnItsWay(outbox, Entered(p))
  /\ \A p \in Inside : OnItsWay(outbox, Left(p)) => p \in HungUp \ dead

\* Whom the setting denies is going to be removed, as long as there is a host.
DeniedAreDead ==
  host = "Hosting" => \A p \in Inside : acl[p] = "Deny" => p \in dead

\* A step of the Client, of a guest, or of nobody.
Outside ==
  /\ UNCHANGED <<task, outbox, dead, acl, inside, believed>>
  /\ hung \subseteq hung'
  /\ host' = "Hosting" => host = "Hosting" /\ UNCHANGED clientq

LEMMA StepsOutside ==
  ASSUME TypeOK, [Next]_vars, ~TaskSteps
  PROVE  Outside
<1>1. ASSUME NEW i \in Sendable, HostSends(i) PROVE Outside
  BY <1>1 DEF HostSends, Outside, guestVars
<1>2. CASE HostPuts \/ HostGoes \/ HostHears \/ SocketChanges
  BY <1>2 DEF HostPuts, HostGoes, HostHears, AfterHearing, SocketChanges, Outside, guestVars
<1>3. ASSUME NEW p \in Player, GuestJoins(p) PROVE Outside
  BY <1>3 DEF GuestJoins, Outside, clientVars
<1>4. ASSUME NEW v \in Visit, GuestHangsUp(v) PROVE Outside
  BY <1>4 DEF GuestHangsUp, Outside, clientVars
<1>5. CASE UNCHANGED vars
  BY <1>5 DEF vars, Outside
<1> QED BY <1>1, <1>2, <1>3, <1>4, <1>5 DEF Next

\* Who is inside after a step of the task that lets nobody in.
LEMMA InsideAfter ==
  ASSUME TypeOK
  PROVE  /\ Event => \A p \in Inside' : p \in Inside /\ inside'[p] = inside[p]
         /\ WriteToHost \/ GiveUp \/ Outside => UNCHANGED <<Inside, inside>>
         /\ End => Inside' = {}
         /\ \A q \in Player : RemoveDead(q) =>
              /\ Inside' = Inside \ {q}
              /\ \A p \in Inside' : inside'[p] = inside[p]
<1>1. Event => \A p \in Inside' : p \in Inside /\ inside'[p] = inside[p]
  BY DEF Event, NobodyComesIn, Inside
<1>2. WriteToHost \/ GiveUp \/ Outside => UNCHANGED <<Inside, inside>>
  BY DEF WriteToHost, GiveUp, Outside, Inside
<1>3. End => Inside' = {}
  BY DEF End, Inside
<1>4. ASSUME NEW q \in Player, RemoveDead(q)
      PROVE  Inside' = Inside \ {q} /\ \A p \in Inside' : inside'[p] = inside[p]
  BY <1>4 DEF RemoveDead, Remove, Inside, TypeOK
<1> QED BY <1>1, <1>2, <1>3, <1>4

\* When the task does not look at who wants in, the order stays.
LEMMA OrderStays ==
  ASSUME VisitsInOrder, UNCHANGED guestVars, joinq' \in {joinq, << >>},
         \A p \in Inside' : p \in Inside /\ inside'[p] = inside[p]
  PROVE  VisitsInOrder'
<1>1. UNCHANGED visits /\ UNCHANGED hung
  BY DEF guestVars
<1>2. \A i \in DOMAIN joinq' : i \in DOMAIN joinq /\ joinq'[i] = joinq[i]
  OBVIOUS
<1> QED BY <1>1, <1>2 DEF VisitsInOrder

LEMMA OrderIsKept ==
  ASSUME TypeOK, QueuedVisits, VisitsInOrder, [Next]_vars
  PROVE  VisitsInOrder'
<1>1. ASSUME NEW p \in Player, GuestJoins(p) PROVE VisitsInOrder'
  <2>1. UNCHANGED inside /\ UNCHANGED Inside
    BY <1>1 DEF GuestJoins, Inside
  <2>2. visits \in Seq(Player) /\ visits' = Append(visits, p)
    BY <1>1 DEF GuestJoins, TypeOK
  <2>3. PICK n \in Nat : n = Len(visits) + 1
    BY <2>2
  <2>4. /\ DOMAIN visits' = DOMAIN visits \cup {n} /\ visits'[n] = p
        /\ \A v \in DOMAIN visits : visits'[v] = visits[v] /\ v \in Nat /\ v < n
    BY <1>1, <2>2, <2>3, Appended
  <2>5. /\ hung \subseteq hung'
        /\ \A v \in DOMAIN visits : visits[v] = p => v \in hung'
        /\ joinq' \in {joinq, Append(joinq, n)}
    BY <1>1, <2>3 DEF GuestJoins, Earlier
  <2>6. \A v, w \in DOMAIN visits' : v < w /\ visits'[v] = visits'[w] => v \in hung'
    BY <2>3, <2>4, <2>5 DEF VisitsInOrder
  <2>7. CASE joinq' = joinq
    BY <2>1, <2>4, <2>6, <2>7 DEF VisitsInOrder
  <2>8. CASE joinq' = Append(joinq, n)
    <3>1. joinq \in Seq(Nat)
      BY DEF TypeOK, Visit
    <3>2. PICK k \in Nat : k = Len(joinq) + 1
      BY <3>1
    <3>3. /\ DOMAIN joinq' = DOMAIN joinq \cup {k} /\ joinq'[k] = n
          /\ \A i \in DOMAIN joinq : joinq'[i] = joinq[i] /\ i \in Nat /\ i < k /\ joinq[i] < n
      BY <2>3, <2>4, <2>8, <3>1, <3>2, Appended DEF QueuedVisits
    <3>4. \A i, j \in DOMAIN joinq' : i < j => joinq'[i] < joinq'[j]
      BY <3>2, <3>3 DEF VisitsInOrder
    <3>5. \A q \in Inside' : \A i \in DOMAIN joinq' : inside'[q] < joinq'[i]
      BY <2>1, <2>4, <3>3 DEF VisitsInOrder
    <3> QED BY <2>1, <2>4, <2>6, <3>4, <3>5 DEF VisitsInOrder
  <2> QED BY <2>5, <2>7, <2>8
<1>2. ASSUME NEW v \in Visit, GuestHangsUp(v) PROVE VisitsInOrder'
  BY <1>2 DEF GuestHangsUp, VisitsInOrder, Inside
<1>3. CASE TakeJoin
  <2>1. /\ joinq \in Seq(Visit) /\ joinq # << >> /\ joinq' = Tail(joinq)
        /\ UNCHANGED visits /\ UNCHANGED hung
    BY <1>3, JoinTypes DEF guestVars, TypeOK
  <2>2. PICK v : v = Head(joinq)
    OBVIOUS
  <2>3. PICK p \in Player : p = visits[v]
    BY <1>3, <2>2, JoinTypes
  <2>4. v \in Visit /\ v \in DOMAIN visits /\ v = joinq[1] /\ 1 \in DOMAIN joinq
    BY <1>3, <2>1, <2>2, JoinTypes, Taken
  <2>5. \A q \in Inside' : \/ q \in Inside /\ inside'[q] = inside[q]
                           \/ q = p /\ inside'[q] = v
    BY <1>3, <2>2, <2>3, JoinTypes DEF Inside, TypeOK
  <2>6. \A i \in DOMAIN joinq' : i \in Nat \ {0} /\ i + 1 \in DOMAIN joinq /\ joinq'[i] = joinq[i + 1]
    BY <2>1, Taken
  <2>7. \A i \in DOMAIN joinq' : v < joinq'[i]
    BY <2>4, <2>6 DEF VisitsInOrder
  <2>8. \A i, j \in DOMAIN joinq' : i < j => joinq'[i] < joinq'[j]
    BY <2>6 DEF VisitsInOrder
  <2>9. \A q \in Inside' : \A i \in DOMAIN joinq' : inside'[q] < joinq'[i]
    BY <2>5, <2>6, <2>7 DEF VisitsInOrder
  <2> QED BY <2>1, <2>3, <2>4, <2>5, <2>8, <2>9 DEF VisitsInOrder
<1>4. CASE HostPuts \/ HostGoes \/ HostHears \/ SocketChanges \/ UNCHANGED vars \/ \E i \in Sendable : HostSends(i)
  <2>1. UNCHANGED <<guestVars, joinq, inside>> /\ UNCHANGED Inside
    BY <1>4 DEF HostPuts, HostGoes, HostHears, SocketChanges, HostSends, vars, guestVars, Inside
  <2> QED BY <2>1, OrderStays
<1>5. CASE End
  BY <1>5, InsideAfter, OrderStays DEF End
<1>6. CASE Event
  BY <1>6, InsideAfter, OrderStays DEF Event, NobodyComesIn
<1>7. CASE WriteToHost \/ GiveUp
  BY <1>7, InsideAfter, OrderStays DEF WriteToHost, GiveUp, Done
<1>8. ASSUME NEW p \in Player, RemoveDead(p) PROVE VisitsInOrder'
  <2>1. UNCHANGED <<guestVars, joinq>>
    BY <1>8 DEF RemoveDead
  <2> QED BY <1>8, <2>1, InsideAfter, OrderStays
<1> QED BY <1>1, <1>2, <1>3, <1>4, <1>5, <1>6, <1>7, <1>8, StepsOfTheTask DEF Next

\* A join finds its player inside only by a visit he has hung up.
LEMMA JoinsOfTheAbsent ==
  ASSUME TypeOK, QueuedVisits, VisitsInOrder, TakeJoin
  PROVE  visits[Head(joinq)] \notin Inside \ HungUp
<1>1. PICK v : v = Head(joinq)
  OBVIOUS
<1>2. joinq \in Seq(Visit) /\ joinq # << >>
  BY DEF TakeJoin, TypeOK
<1>3. v \in DOMAIN visits /\ v = joinq[1] /\ 1 \in DOMAIN joinq
  BY <1>1, <1>2, Taken DEF QueuedVisits
<1>4. ASSUME visits[v] \in Inside PROVE visits[v] \in HungUp
  <2>1. /\ inside[visits[v]] \in DOMAIN visits /\ visits[inside[visits[v]]] = visits[v]
        /\ inside[visits[v]] < v
    BY <1>3, <1>4 DEF VisitsInOrder
  <2>2. inside[visits[v]] \in hung
    BY <1>3, <2>1 DEF VisitsInOrder
  <2> QED BY <1>4, <2>2 DEF HungUp
<1> QED BY <1>1, <1>4

LEMMA AnnouncedIsKept ==
  ASSUME TypeOK, QueuedVisits, VisitsInOrder, Announced, [Next]_vars
  PROVE  Announced'
<1>0. Inside \subseteq Player /\ Inside' \subseteq Player
  BY DEF Inside
<1>a. ASSUME hung \subseteq hung', NEW p \in Inside', p \in Inside, inside'[p] = inside[p]
      PROVE  p \in HungUp => p \in HungUp'
  BY <1>a DEF HungUp
<1>1. CASE ~TaskSteps
  <2>1. UNCHANGED <<outbox, dead, believed, inside>> /\ UNCHANGED Inside /\ hung \subseteq hung'
    BY <1>1, StepsOutside, InsideAfter DEF Outside
  <2>2. \A p \in Inside : p \in HungUp => p \in HungUp'
    BY <1>a, <2>1
  <2> QED BY <2>1, <2>2 DEF Announced
<1>2. CASE End
  BY <1>2, InsideAfter DEF Announced
<1>3. CASE Event
  <2>1. outbox = << >> /\ UNCHANGED believed
    BY <1>3 DEF Event, Ready, NobodyComesIn
  <2>2. \A p \in Inside \ HungUp : p \in believed
    BY <2>1 DEF OnItsWay, Announced
  <2>3. \A p \in Inside' : p \in Inside /\ inside'[p] # 0 /\ inside'[p] = inside[p]
    BY <1>3, InsideAfter DEF Inside
  <2>4. \A p \in Inside' : ~OnItsWay(outbox', Left(p))
    BY <1>0, <1>3, <2>3 DEF Event, NobodyComesIn
  <2>5. hung \subseteq hung'
    BY <1>3 DEF Event, NobodyComesIn, guestVars
  <2>6. \A p \in Inside' : p \in HungUp => p \in HungUp'
    BY <1>a, <2>3, <2>5
  <2> QED BY <2>1, <2>2, <2>3, <2>4, <2>6 DEF Announced
<1>4. CASE TakeJoin
  <2>1. outbox = << >> /\ UNCHANGED believed
    BY <1>4, JoinTypes DEF TakeJoin, Ready
  <2>2. \A p \in Inside \ HungUp : p \in believed
    BY <2>1 DEF OnItsWay, Announced
  <2>3. PICK v : v = Head(joinq)
    OBVIOUS
  <2>4. PICK p \in Player : p = visits[v] /\ p \notin Inside \ HungUp
    BY <1>4, <2>3, JoinTypes, JoinsOfTheAbsent
  <2>7. UNCHANGED hung
    BY <1>4, JoinTypes DEF guestVars
  <2>5. CASE UNCHANGED inside /\ (outbox' = << >> \/ outbox' = <<Entered(p), Left(p)>>) /\ dead' = {}
    <3>1. UNCHANGED Inside /\ UNCHANGED HungUp
      BY <2>5, <2>7 DEF Inside, HungUp
    <3>2. \A q \in Player : OnItsWay(outbox', Left(q)) => q = p
      BY <2>5, MessageTypes DEF OnItsWay
    <3>3. \A q \in Inside' : OnItsWay(outbox', Left(q)) => q \in HungUp' \ dead'
      BY <1>0, <2>4, <2>5, <3>1, <3>2
    <3> QED BY <2>1, <2>2, <3>1, <3>3 DEF Announced
  <2>6. CASE inside' = [inside EXCEPT ![p] = v] /\ outbox' = <<Entered(p)>>
    <3>1. \A q \in Inside' : q # p => q \in Inside /\ inside'[q] = inside[q]
      BY <2>6 DEF Inside, TypeOK
    <3>2. OnItsWay(outbox', Entered(p)) /\ \A q \in Player : ~OnItsWay(outbox', Left(q))
      BY <2>6, MessageTypes DEF OnItsWay
    <3>3. \A q \in Inside' \ HungUp' : q = p \/ q \in Inside \ HungUp
      BY <1>a, <2>7, <3>1
    <3> QED BY <1>0, <2>1, <2>2, <3>2, <3>3 DEF Announced
  <2> QED BY <1>4, <2>3, <2>4, <2>5, <2>6 DEF TakeJoin, Done
<1>5. CASE WriteToHost
  <2>1. PICK e : e = Head(outbox)
    OBVIOUS
  <2>2. /\ outbox \in Seq(ToClient) /\ outbox # << >> /\ outbox' = Tail(outbox)
        /\ believed' = CASE e.kind = "PlayerEntered" -> believed \cup {e.player}
                         [] e.kind = "PlayerLeft" -> believed \ {e.player}
                         [] OTHER -> believed
    BY <1>5, <2>1 DEF WriteToHost, TypeOK
  <2>3. e = outbox[1] /\ 1 \in DOMAIN outbox /\ e \in ToClient
    BY <2>1, <2>2, Taken
  <2>4. UNCHANGED Inside /\ UNCHANGED HungUp /\ dead' \subseteq dead
    BY <1>5, InsideAfter DEF WriteToHost, guestVars, HungUp
  <2>5. \A f : OnItsWay(outbox', f) => OnItsWay(outbox, f)
    BY <2>2, Taken DEF OnItsWay
  <2>6. \A f : OnItsWay(outbox, f) => f = e \/ OnItsWay(outbox', f)
    <3> SUFFICES ASSUME NEW f, NEW i \in DOMAIN outbox, outbox[i] = f, i # 1
                 PROVE  OnItsWay(outbox', f)
      BY <2>3 DEF OnItsWay
    <3>1. i - 1 \in DOMAIN outbox' /\ outbox'[i - 1] = f
      BY <2>2, Taken
    <3> QED BY <3>1 DEF OnItsWay
  <2>7. ASSUME NEW p \in Inside \ HungUp PROVE p \in believed' \/ OnItsWay(outbox', Entered(p))
    <3>1. CASE Entered(p) = e
      BY <2>2, <3>1 DEF Entered
    <3>2. CASE p \in believed
      <4>1. e # Left(p)
        BY <2>3, <2>7 DEF Announced, OnItsWay
      <4>2. e.kind = "PlayerLeft" => e.player # p
        BY <2>3, <4>1 DEF ToClient, HostEvent, InLocation, Left
      <4> QED BY <2>2, <3>2, <4>2
    <3> QED BY <2>6, <2>7, <3>1, <3>2 DEF Announced
  <2> QED BY <2>4, <2>5, <2>7 DEF Announced
<1>6. CASE GiveUp
  <2>1. \A p \in Player : ~OnItsWay(outbox, Entered(p))
    <3>1. PICK q \in dead : outbox = <<Left(q)>>
      BY <1>6 DEF GiveUp, Removing
    <3> QED BY <3>1, MessageTypes DEF OnItsWay, TypeOK
  <2>2. outbox' = << >> /\ UNCHANGED believed /\ UNCHANGED Inside /\ UNCHANGED HungUp
    BY <1>6, InsideAfter DEF GiveUp, Done, guestVars, HungUp
  <2>3. \A p : ~OnItsWay(outbox', p)
    BY <2>2 DEF OnItsWay
  <2> QED BY <1>0, <2>1, <2>2, <2>3 DEF Announced
<1>7. ASSUME NEW q \in Player, RemoveDead(q) PROVE Announced'
  <2>1. outbox = << >> /\ UNCHANGED believed /\ outbox' \in {<< >>, <<Left(q)>>}
    BY <1>7 DEF RemoveDead
  <2>2. Inside' = Inside \ {q} /\ \A p \in Inside' : inside'[p] = inside[p]
    BY <1>7, InsideAfter
  <2>3. \A p \in Inside \ HungUp : p \in believed
    BY <2>1 DEF Announced, OnItsWay
  <2>4. \A p \in Player \ {q} : ~OnItsWay(outbox', Left(p))
    BY <1>7, <2>1, MessageTypes DEF OnItsWay
  <2>5. hung \subseteq hung'
    BY <1>7 DEF RemoveDead, guestVars
  <2>6. \A p \in Inside' : p \in HungUp => p \in HungUp'
    BY <1>a, <2>2, <2>5
  <2> QED BY <1>0, <2>1, <2>2, <2>3, <2>4, <2>6 DEF Announced
<1> QED BY <1>1, <1>2, <1>3, <1>4, <1>5, <1>6, <1>7, StepsOfTheTask

LEMMA DeniedIsKept ==
  ASSUME TypeOK, QueuedVisits, Announced, DeniedAreDead, [Next]_vars
  PROVE  DeniedAreDead'
<1>1. CASE ~TaskSteps
  BY <1>1, StepsOutside, InsideAfter DEF Outside, DeniedAreDead
<1>2. CASE End
  BY <1>2, InsideAfter DEF DeniedAreDead
<1>3. CASE Event
  <2>1. dead = {} /\ UNCHANGED host
    BY <1>3 DEF Event, Ready, NobodyComesIn, clientVars
  <2>2. \A p \in Inside' : p \in Player /\ p \in Inside /\ inside'[p] # 0
    BY <1>3, InsideAfter DEF Inside
  <2> QED BY <1>3, <2>1, <2>2 DEF Event, NobodyComesIn, DeniedAreDead
<1>4. CASE TakeJoin
  <2>1. dead = {} /\ UNCHANGED <<host, acl>>
    BY <1>4, JoinTypes DEF TakeJoin, Ready, clientVars
  <2>2. \A p \in Inside' : p \in Inside \/ acl[p] # "Deny"
    BY <1>4 DEF TakeJoin, Inside, TypeOK
  <2> QED BY <2>1, <2>2 DEF DeniedAreDead
<1>5. CASE WriteToHost
  <2>1. /\ UNCHANGED <<host, acl>> /\ UNCHANGED Inside
        /\ dead' = {p \in dead : Head(outbox) # Left(p)}
    BY <1>5, InsideAfter DEF WriteToHost, clientVars
  <2>2. \A p \in Inside : Head(outbox) = Left(p) => p \notin dead
    BY <1>5, Taken DEF WriteToHost, TypeOK, Announced, OnItsWay
  <2> QED BY <2>1, <2>2 DEF DeniedAreDead
<1>6. CASE GiveUp
  BY <1>6 DEF GiveUp, Done, clientVars, DeniedAreDead
<1>7. ASSUME NEW q \in Player, RemoveDead(q) PROVE DeniedAreDead'
  <2>1. dead \ {q} \subseteq dead' /\ UNCHANGED <<host, acl>>
    BY <1>7 DEF RemoveDead, clientVars
  <2> QED BY <1>7, <2>1, InsideAfter DEF DeniedAreDead
<1> QED BY <1>1, <1>2, <1>3, <1>4, <1>5, <1>6, <1>7, StepsOfTheTask

-----------------------------------------------------------------------------
(* Why the Client and the task never wait for each other.                  *)

\* The host reads nothing as long as he is the host: that somebody came in is
\* still there to be read.
Unread ==
  host = "Hosting" =>
    \A p \in Inside : OnItsWay(clientq, Entered(p)) \/ OnItsWay(outbox, Entered(p))

\* With the news of somebody who is inside nothing else waits, unless there is an
\* older one of him to be read.
AloneInTheOutbox ==
  host = "Hosting" =>
    \A p \in Inside :
      OnItsWay(outbox, Entered(p)) => Len(outbox) = 1 \/ OnItsWay(clientq, Entered(p))

\* The Client waits for a place.
Waiting == pending # << >> /\ Len(inputq) = InputCap

\* While he waits there is only the rest of one event to be told, which two
\* places can hold: he began to wait when nothing had been written yet.
FewWords ==
  /\ pending # << >> => host = "Hosting"
  /\ Waiting => /\ Len(clientq) + Len(outbox) <= 2
                /\ \A p \in Inside : Len(clientq) + Len(outbox) <= 1
                /\ \A p, q \in Inside : p = q

\* Somebody comes in where nothing was waiting to be told, alone unless the table
\* has him already.
LEMMA OutboxAfterJoin ==
  ASSUME TypeOK, QueuedVisits, TakeJoin
  PROVE  /\ outbox = << >>
         /\ \A q \in Inside' : q \in Inside \/ outbox' = <<Entered(q)>>
         /\ \A q \in Inside' : OnItsWay(outbox', Entered(q)) => Len(outbox') = 1 \/ q \in Inside
<1>1. PICK v : v = Head(joinq)
  OBVIOUS
<1>2. PICK p \in Player : p = visits[v]
  BY <1>1, JoinTypes
<1>3. outbox = << >>
  BY DEF TakeJoin, Ready
<1>4. CASE UNCHANGED inside /\ outbox' \in {<< >>, <<Entered(p), Left(p)>>}
  <2>1. UNCHANGED Inside
    BY <1>4 DEF Inside
  <2> QED BY <1>3, <2>1
<1>5. CASE inside' = [inside EXCEPT ![p] = v] /\ outbox' = <<Entered(p)>>
  <2>1. Inside' \subseteq Inside \cup {p}
    BY <1>5 DEF Inside, TypeOK
  <2>2. Len(outbox') = 1
    BY <1>5
  <2> QED BY <1>3, <1>5, <2>1, <2>2
<1> QED BY <1>1, <1>2, <1>4, <1>5 DEF TakeJoin, Done

LEMMA UnreadIsKept ==
  ASSUME TypeOK, QueuedVisits, Unread, [Next]_vars
  PROVE  Unread'
<1>1. CASE ~TaskSteps
  BY <1>1, StepsOutside, InsideAfter DEF Outside, Unread
<1>2. CASE End
  BY <1>2, InsideAfter DEF Unread
<1>3. CASE Event
  <2>1. outbox = << >> /\ UNCHANGED <<host, clientq>>
    BY <1>3 DEF Event, Ready, NobodyComesIn, clientVars
  <2>2. \A p \in Inside' : p \in Inside
    BY <1>3, InsideAfter
  <2> QED BY <2>1, <2>2 DEF Unread, OnItsWay
<1>4. CASE TakeJoin
  <2>1. UNCHANGED <<host, clientq>>
    BY <1>4, JoinTypes DEF clientVars
  <2>2. \A q : ~OnItsWay(outbox, Entered(q)) /\ OnItsWay(<<Entered(q)>>, Entered(q))
    BY <1>4, OutboxAfterJoin DEF OnItsWay
  <2> QED BY <1>4, <2>1, <2>2, OutboxAfterJoin DEF Unread
<1>5. CASE WriteToHost
  <2>1. PICK e : e = Head(outbox)
    OBVIOUS
  <2>2. /\ outbox \in Seq(ToClient) /\ outbox # << >> /\ outbox' = Tail(outbox)
        /\ clientq \in Seq(ToClient) /\ clientq' = Append(clientq, e)
        /\ UNCHANGED host /\ UNCHANGED Inside
    BY <1>5, <2>1, InsideAfter DEF WriteToHost, TypeOK, clientVars
  <2>3. e = outbox[1] /\ e \in ToClient
    BY <2>1, <2>2, Taken
  <2>4. OnItsWay(clientq', e) /\ \A f : OnItsWay(clientq, f) => OnItsWay(clientq', f)
    BY <2>2, <2>3, Appended DEF OnItsWay
  <2>5. ASSUME NEW f, OnItsWay(outbox, f) PROVE f = e \/ OnItsWay(outbox', f)
    <3>1. PICK i \in DOMAIN outbox : outbox[i] = f
      BY <2>5 DEF OnItsWay
    <3>2. CASE i = 1
      BY <2>3, <3>1, <3>2
    <3>3. CASE i # 1
      <4>1. i - 1 \in DOMAIN outbox' /\ outbox'[i - 1] = f
        BY <2>2, <3>1, <3>3, Taken
      <4> QED BY <4>1 DEF OnItsWay
    <3> QED BY <3>2, <3>3
  <2> QED BY <2>2, <2>4, <2>5 DEF Unread
<1>6. CASE GiveUp
  BY <1>6 DEF GiveUp, Done, clientVars, Unread
<1>7. ASSUME NEW q \in Player, RemoveDead(q) PROVE Unread'
  <2>1. outbox = << >> /\ UNCHANGED <<host, clientq>> /\ Inside' \subseteq Inside
    BY <1>7, InsideAfter DEF RemoveDead, clientVars
  <2> QED BY <2>1 DEF Unread, OnItsWay
<1> QED BY <1>1, <1>2, <1>3, <1>4, <1>5, <1>6, <1>7, StepsOfTheTask

LEMMA AloneIsKept ==
  ASSUME TypeOK, QueuedVisits, Unread, AloneInTheOutbox, [Next]_vars
  PROVE  AloneInTheOutbox'
<1>0. Inside' \subseteq Player
  BY DEF Inside
<1>1. CASE ~TaskSteps
  BY <1>1, StepsOutside, InsideAfter DEF Outside, AloneInTheOutbox
<1>2. CASE End
  BY <1>2, InsideAfter DEF AloneInTheOutbox
<1>3. CASE Event
  BY <1>0, <1>3 DEF Event, NobodyComesIn, AloneInTheOutbox
<1>4. CASE TakeJoin
  <2>1. UNCHANGED <<host, clientq>>
    BY <1>4, JoinTypes DEF clientVars
  <2>2. host = "Hosting" => \A p \in Inside : OnItsWay(clientq, Entered(p))
    BY <1>4, OutboxAfterJoin DEF Unread, OnItsWay
  <2> QED BY <1>4, <2>1, <2>2, OutboxAfterJoin DEF AloneInTheOutbox
<1>5. CASE WriteToHost
  <2>1. outbox \in Seq(ToClient) /\ outbox # << >> /\ outbox' = Tail(outbox) /\ Len(outbox) <= 2
    BY <1>5 DEF WriteToHost, TypeOK
  <2>2. outbox' \in Seq(ToClient) /\ Len(outbox') <= 1
    BY <2>1, Taken
  <2>3. ASSUME NEW f, OnItsWay(outbox', f) PROVE Len(outbox') = 1
    <3>1. Len(outbox') \in Nat /\ DOMAIN outbox' = 1 .. Len(outbox')
      BY <2>2
    <3>2. \E i \in 1 .. Len(outbox') : TRUE
      BY <2>3, <3>1 DEF OnItsWay
    <3> QED BY <2>2, <3>1, <3>2
  <2> QED BY <2>3 DEF AloneInTheOutbox
<1>6. CASE GiveUp
  BY <1>6 DEF GiveUp, Done, AloneInTheOutbox, OnItsWay
<1>7. ASSUME NEW q \in Player, RemoveDead(q) PROVE AloneInTheOutbox'
  <2>1. outbox' \in {<< >>, <<Left(q)>>}
    BY <1>7 DEF RemoveDead
  <2>2. \A p \in Player : ~OnItsWay(outbox', Entered(p))
    BY <1>7, <2>1, MessageTypes DEF OnItsWay
  <2> QED BY <1>0, <2>2 DEF AloneInTheOutbox
<1> QED BY <1>1, <1>2, <1>3, <1>4, <1>5, <1>6, <1>7, StepsOfTheTask

LEMMA FewWordsAreKept ==
  ASSUME TypeOK, QueuedVisits, Unread, AloneInTheOutbox, FewWords, [Next]_vars
  PROVE  FewWords'
<1>1. ASSUME NEW i \in Sendable, HostSends(i) PROVE FewWords'
  <2>1. /\ host = "Hosting" /\ clientq = << >>
        /\ UNCHANGED <<host, inputq, clientq, outbox, inside>> /\ UNCHANGED Inside
    BY <1>1 DEF HostSends, Listens, Inside
  <2>2. /\ \A p \in Inside : OnItsWay(outbox, Entered(p))
        /\ Inside # {} => Len(outbox) = 1
    BY <2>1 DEF Unread, AloneInTheOutbox, OnItsWay
  <2>3. Len(clientq) = 0 /\ Len(outbox) \in Nat /\ Len(outbox) <= 2
    <3>1. outbox \in Seq(ToClient) /\ Len(outbox) <= 2
      BY DEF TypeOK
    <3> QED BY <2>1, <3>1
  <2>4. \A p, q \in Inside : p = q
    <3> SUFFICES ASSUME NEW p \in Inside, NEW q \in Inside PROVE p = q
      OBVIOUS
    <3>1. p \in Player /\ q \in Player
      BY DEF Inside
    <3>2. outbox[1] = Entered(p) /\ outbox[1] = Entered(q)
      BY <2>2 DEF OnItsWay, TypeOK
    <3> QED BY <3>1, <3>2, MessageTypes
  <2>5. Len(clientq) + Len(outbox) <= 2 /\ \A p \in Inside : Len(clientq) + Len(outbox) <= 1
    <3>1. PICK n \in Nat : n = Len(outbox)
      BY <2>3
    <3>2. Len(clientq) + n <= 2 /\ (n = 1 => Len(clientq) + n <= 1)
      BY <2>3, <3>1
    <3>3. CASE Inside = {}
      BY <3>1, <3>2, <3>3
    <3>4. CASE n = 1
      BY <3>1, <3>2, <3>4
    <3> QED BY <2>2, <3>1, <3>3, <3>4
  <2>6. UNCHANGED <<clientq, outbox>>
    BY <2>1
  <2> QED BY <2>1, <2>4, <2>5, <2>6 DEF FewWords
<1>2. CASE HostPuts \/ HostGoes \/ HostHears
  BY <1>2 DEF HostPuts, HostGoes, HostHears, Listens, FewWords, Waiting
<1>3. CASE \/ SocketChanges \/ UNCHANGED vars
           \/ \E p \in Player : GuestJoins(p)
           \/ \E v \in Visit : GuestHangsUp(v)
  <2>1. UNCHANGED <<host, pending, inputq, clientq, outbox, inside>> /\ UNCHANGED Inside
    BY <1>3 DEF SocketChanges, GuestJoins, GuestHangsUp, clientVars, vars, Inside
  <2> QED BY <2>1 DEF FewWords, Waiting
<1>4. CASE End \/ Event \/ TakeJoin
  <2>1. UNCHANGED <<host, pending>>
    BY <1>4, JoinTypes DEF End, Event, NobodyComesIn, clientVars
  <2>2. inputq' = << >> \/ (inputq # << >> /\ inputq' = Tail(inputq))
    BY <1>4 DEF End, Event, TakeJoin
  <2>3. Len(inputq') < InputCap
    <3>1. CASE inputq' = << >>
      BY <3>1
    <3>2. CASE inputq # << >> /\ inputq' = Tail(inputq)
      <4>1. Len(Tail(inputq)) = Len(inputq) - 1 /\ Len(inputq) \in Nat
        BY <3>2, Taken DEF TypeOK
      <4> QED BY <3>2, <4>1 DEF TypeOK
    <3> QED BY <2>2, <3>1, <3>2
  <2> QED BY <2>1, <2>3 DEF FewWords, Waiting
<1>5. CASE WriteToHost
  <2>1. PICK e : e = Head(outbox)
    OBVIOUS
  <2>2. /\ outbox \in Seq(ToClient) /\ outbox # << >> /\ outbox' = Tail(outbox)
        /\ clientq \in Seq(ToClient) /\ clientq' = Append(clientq, e)
        /\ UNCHANGED <<host, pending, inputq>> /\ UNCHANGED Inside
    BY <1>5, <2>1, InsideAfter DEF WriteToHost, TypeOK, clientVars
  <2>3. Len(outbox') = Len(outbox) - 1 /\ Len(clientq') = Len(clientq) + 1
    BY <2>1, <2>2, Taken, Appended
  <2>4. Len(outbox) \in Nat /\ Len(clientq) \in Nat
    BY <2>2
  <2>5. Len(clientq') + Len(outbox') = Len(clientq) + Len(outbox)
    BY <2>3, <2>4
  <2> QED BY <2>2, <2>5 DEF FewWords, Waiting
<1>6. CASE GiveUp
  BY <1>6 DEF GiveUp, Done, clientVars, FewWords, Waiting
<1>7. ASSUME NEW q \in Player, RemoveDead(q) PROVE FewWords'
  <2>1. UNCHANGED <<host, pending, inputq, clientq>> /\ outbox = << >> /\ Inside' = Inside \ {q}
    BY <1>7, InsideAfter DEF RemoveDead, clientVars
  <2>2. Len(clientq) \in Nat /\ Len(outbox) = 0
    BY <2>1 DEF TypeOK
  <2>3. CASE q \notin Inside
    BY <1>7, <2>1, <2>3 DEF RemoveDead, FewWords, Waiting
  <2>4. CASE q \in Inside
    <3>1. Len(outbox') = 1
      BY <1>7, <2>4 DEF RemoveDead
    <3>2. Waiting => Inside' = {} /\ Len(clientq) <= 1
      BY <2>1, <2>2, <2>4 DEF FewWords
    <3>3. Waiting' => Waiting
      BY <2>1 DEF Waiting
    <3>4. Len(clientq') = Len(clientq) /\ (pending' # << >> => host' = "Hosting")
      BY <2>1 DEF FewWords
    <3>5. Waiting' => Len(clientq') + Len(outbox') <= 2
      BY <2>2, <3>1, <3>2, <3>3, <3>4
    <3>6. Waiting' => (\A p \in Inside' : FALSE)
      BY <3>2, <3>3
    <3> QED BY <3>4, <3>5, <3>6 DEF FewWords
  <2> QED BY <2>3, <2>4
<1> QED BY <1>1, <1>2, <1>3, <1>4, <1>5, <1>6, <1>7, StepsOfTheTask DEF Next

-----------------------------------------------------------------------------
(* The results.                                                            *)

HostedInv ==
  /\ QueuedVisits
  /\ VisitsInOrder
  /\ Announced
  /\ DeniedAreDead
  /\ Unread
  /\ AloneInTheOutbox
  /\ FewWords

LEMMA InvHolds == Spec => [](TypeOK /\ HostedInv)
<1>1. Init => TypeOK /\ HostedInv
  <2> SUFFICES ASSUME Init PROVE TypeOK /\ HostedInv
    OBVIOUS
  <2>1. Inside = {} /\ visits = << >> /\ joinq = << >> /\ pending = << >>
    BY DEF Init, Inside
  <2> QED BY <2>1, InitTypes
          DEF HostedInv, VisitsInOrder, Announced, DeniedAreDead, Unread, AloneInTheOutbox, FewWords, Waiting
<1>2. (TypeOK /\ HostedInv) /\ [Next]_vars => (TypeOK /\ HostedInv)'
  BY TypesAreKept, OrderIsKept, AnnouncedIsKept, DeniedIsKept, UnreadIsKept, AloneIsKept,
     FewWordsAreKept DEF HostedInv
<1> QED BY <1>1, <1>2, PTL DEF Spec

\* However he came in and whoever changes the setting, nobody stays whom it
\* denies once the event is dealt with: every event ends with the removal of
\* those found dead, and the break that cuts it short needs a host who is gone
\* (the loop over `dead' in start_hosting).
THEOREM NobodyStaysAgainstTheRules == Spec => []AccessIsEnforced
<1>1. HostedInv => AccessIsEnforced
  BY DEF HostedInv, DeniedAreDead, AccessIsEnforced, Ready
<1> QED BY <1>1, InvHolds, PTL

\* The host has been told of everybody inside who has not hung up, in whatever
\* order guests come, come again, hang up and are kicked, and whether or not the
\* table's streams are polled: who comes again has dropped his earlier visit
\* (start_join), so that only a failing join reports him gone over it.
THEOREM TheHostKnowsHisGuests == Spec => []PresenceIsTold
<1>1. TypeOK /\ HostedInv => PresenceIsTold
  BY DEF HostedInv, Announced, PresenceIsTold, Ready, OnItsWay
<1> QED BY <1>1, InvHolds, PTL

\* With two places or more for what the host is told (50 in the code) his
\* Client and the task do not wait for each other's places: the first message
\* he reads ends his hosting, so that he waits only where nothing was written.
THEOREM NeitherWaitsForTheOther ==
  ASSUME ClientCap >= 2
  PROVE  Spec => []NoGridlock
<1>1. TypeOK /\ HostedInv => NoGridlock
  <2> SUFFICES ASSUME TypeOK, FewWords, Waiting, outbox # << >>, Len(clientq) = ClientCap
               PROVE  FALSE
    BY DEF HostedInv, NoGridlock, Waiting
  <2>1. Len(outbox) \in Nat \ {0} /\ Len(clientq) \in Nat
    BY DEF TypeOK
  <2>2. Len(clientq) + Len(outbox) <= 2
    BY DEF FewWords
  <2> QED BY <2>1, <2>2
<1> QED BY <1>1, InvHolds, PTL
=============================================================================
