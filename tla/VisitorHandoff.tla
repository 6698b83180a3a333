--------------------------- MODULE VisitorHandoff ---------------------------
(***************************************************************************)
(* A player of one server who visits a location of another: the two Peer   *)
(* entities (server/src/peer/mod.rs, on_peer.rs, from_peer.rs), the        *)
(* player's Client (server/src/client/location.rs) at home and the         *)
(* location at the other end.                                              *)
(*                                                                         *)
(* Every server has one player, and all players have the same name: the    *)
(* tables of a Peer are keyed by that name alone.  A server is the home of *)
(* its own player and the host of the other server's.  Each attempt of a   *)
(* player to go to the other server is a session; the numbers of sessions  *)
(* are not in the code: they only say which attempt a message is about.    *)
(*                                                                         *)
(* The connection between the servers is up and keeps messages in order.   *)
(* The streams of the entries of both tables may be polled at any moment,  *)
(* and need never be: nothing below rests on their being polled.           *)
(***************************************************************************)
EXTENDS Integers, Sequences

CONSTANTS Server,      \* the two servers
          Traveller,   \* the servers whose player travels
          MaxSessions, \* bound: sessions of a player
          MaxMoves,    \* bound: Move updates made by locations
          MaxChatter   \* bound: requests, avatars and answers in a behaviour

ASSUME ServerAssumption == \A s \in Server : \E t \in Server : Server = {s, t} /\ s # t
ASSUME TravellerAssumption == Traveller \subseteq Server
ASSUME BoundAssumption ==
  MaxSessions \in Nat /\ MaxMoves \in Nat /\ MaxChatter \in Nat

VARIABLES
  client,  \* session of the player's current_location, 0 for NoWhere
  started, \* sessions so far
  queue,   \* PeerRequest::Host and ::Location on their way to the Peer
  onPeer,  \* session of the player's entry in players_on_peer, 0 for none
  events,  \* PlayerEvents waiting in the channel of each session
  news,    \* PlayerLocationUpdates waiting for the player's Client
  link,    \* messages on their way from a server to the other one
  visit,   \* session of the guest's entry in players_from_peer, 0 for none
  place,   \* how the location stands to the guest's channels
  updates, \* PlayerLocationUpdates of the location, not yet forwarded
  moves,   \* Move updates so far, for the bound
  chatter  \* requests, avatars and answers so far, for the bound

homeSide == <<client, started, queue, onPeer, events, news>>
hostSide == <<visit, place, updates>>
handoffVars == <<homeSide, hostSide, link, moves, chatter>>

Session == 1..MaxSessions
Update == {"arrived", "answer", "refused", "moved"}

Message ==
  [kind : {"Send", "Yank", "Release", "Arrived", "Refused", "Answer", "Avatar", "Request"},
   session : 0..MaxSessions]

HandoffTypeOK ==
  /\ client \in [Server -> 0..MaxSessions]
  /\ started \in [Server -> 0..MaxSessions]
  /\ queue \in [Server -> Seq(Session)]
  /\ onPeer \in [Server -> 0..MaxSessions]
  /\ events \in [Server -> [Session -> 0..MaxChatter]]
  /\ news \in [Server -> Seq(Update)]
  /\ link \in [Server -> Seq(Message)]
  /\ visit \in [Server -> 0..MaxSessions]
  /\ place \in [Server -> {"asking", "inside", "gone"}]
  /\ updates \in [Server -> Seq(Update)]
  /\ moves \in 0..MaxMoves
  /\ chatter \in 0..MaxChatter

HandoffInit ==
  /\ client = [s \in Server |-> 0]
  /\ started = [s \in Server |-> 0]
  /\ queue = [s \in Server |-> << >>]
  /\ onPeer = [s \in Server |-> 0]
  /\ events = [s \in Server |-> [k \in Session |-> 0]]
  /\ news = [s \in Server |-> << >>]
  /\ link = [s \in Server |-> << >>]
  /\ visit = [s \in Server |-> 0]
  /\ place = [s \in Server |-> "gone"]
  /\ updates = [s \in Server |-> << >>]
  /\ moves = 0
  /\ chatter = 0

-----------------------------------------------------------------------------
Other(s) == CHOOSE t \in Server : t # s

Elements(q) == {q[i] : i \in 1..Len(q)}

Note(kind, session) == [kind |-> kind, session |-> session]

\* A Peer sends messages on its own account.
Post(s, notes) == link' = [link EXCEPT ![s] = @ \o notes]

\* A Peer handles the next message of the other server and replies.
Respond(s, notes) == link' = [link EXCEPT ![Other(s)] = Tail(@), ![s] = @ \o notes]

Incoming(s, kind) == link[Other(s)] # << >> /\ Head(link[Other(s)]).kind = kind

Chat == chatter < MaxChatter /\ chatter' = chatter + 1

-----------------------------------------------------------------------------
(* The player's Client.                                                    *)

\* Location::NoWhere: both channels of the session are dropped.
Forget(s) ==
  /\ client' = [client EXCEPT ![s] = 0]
  /\ news' = [news EXCEPT ![s] = << >>]
  /\ UNCHANGED <<started, queue>>

\* start_join and join_host_on_peer / join_location_on_peer.
StartJoin(s) ==
  /\ started[s] < MaxSessions
  /\ started' = [started EXCEPT ![s] = @ + 1]
  /\ client' = [client EXCEPT ![s] = started'[s]]
  /\ queue' = [queue EXCEPT ![s] = Append(@, started'[s])]
  /\ news' = [news EXCEPT ![s] = << >>]

\* LocationChange: to the other server, or to anywhere else.
Go(s) ==
  /\ s \in Traveller
  /\ StartJoin(s)
  /\ UNCHANGED <<onPeer, events, hostSide, link, moves, chatter>>

Leave(s) ==
  /\ client[s] # 0
  /\ Forget(s)
  /\ UNCHANGED <<onPeer, events, hostSide, link, moves, chatter>>

\* The other ends of the channels of the client's session still exist.
Attended(s) == client[s] \in Elements(queue[s]) \/ onPeer[s] = client[s]

\* Location::send
Speak(s) ==
  /\ client[s] # 0
  /\ Chat
  /\ IF Attended(s)
       THEN /\ events' = [events EXCEPT ![s][client[s]] = @ + 1]
            /\ UNCHANGED <<client, started, queue, news>>
       ELSE /\ Forget(s)
            /\ UNCHANGED events
  /\ UNCHANGED <<onPeer, hostSide, link, moves>>

\* Location::poll_next and the Redirect arm of Client::process.  Any answer
\* of the location resets the client; the target of a Move may be the other
\* server again.  The end of the channel comes after one of these: a Peer that
\* drops the entry of a Client who listens has told it something first.
Hear(s) ==
  /\ client[s] # 0
  /\ news[s] # << >>
  /\ \/ /\ Head(news[s]) = "arrived"
        /\ news' = [news EXCEPT ![s] = Tail(@)]
        /\ UNCHANGED <<client, started, queue>>
     \/ Head(news[s]) # "arrived" /\ Forget(s)
     \/ Head(news[s]) = "moved" /\ StartJoin(s)
  /\ UNCHANGED <<onPeer, events, hostSide, link, moves, chatter>>

-----------------------------------------------------------------------------
(* The Peer, as the home of its own player.                                *)

\* PlayerOnPeer::create
CreateOnPeer(s) ==
  /\ queue[s] # << >>
  /\ onPeer' = [onPeer EXCEPT ![s] = Head(queue[s])]
  /\ queue' = [queue EXCEPT ![s] = Tail(@)]
  /\ Post(s, <<Note("Send", Head(queue[s]))>>)
  /\ UNCHANGED <<client, started, events, news, hostSide, moves, chatter>>

HasEvent(s) == events[s][onPeer[s]] > 0

\* PlayerOnPeer's stream and OutputMapper::handle
ForwardEvent(s) ==
  /\ onPeer[s] # 0
  /\ HasEvent(s)
  /\ events' = [events EXCEPT ![s][onPeer[s]] = @ - 1]
  /\ \E kind \in {"Avatar", "Request"} : Post(s, <<Note(kind, onPeer[s])>>)
  /\ UNCHANGED <<client, started, queue, onPeer, news, hostSide, moves, chatter>>

NoYank(k) == << >>   \* mutant: the other server is not told
EndOnPeer(k) == <<Note("Yank", k)>>

\* PlayerOnPeer's stream ends: OutputMapper::end
LoseOnPeer(s) ==
  /\ onPeer[s] # 0
  /\ ~HasEvent(s)
  /\ client[s] # onPeer[s]
  /\ onPeer' = [onPeer EXCEPT ![s] = 0]
  /\ Post(s, EndOnPeer(onPeer[s]))
  /\ UNCHANGED <<client, started, queue, events, news, hostSide, moves, chatter>>

\* PlayerOnPeer::send succeeds.
Listening(s) == onPeer[s] # 0 /\ client[s] = onPeer[s]

Tell(s, update) ==
  news' = [news EXCEPT ![s] = IF Listening(s) THEN Append(@, update) ELSE @]

\* PeerMessage::LocationChange
ReceiveArrived(s) ==
  /\ Incoming(s, "Arrived")
  /\ Tell(s, "arrived")
  /\ IF onPeer[s] # 0 /\ ~Listening(s)
       THEN /\ onPeer' = [onPeer EXCEPT ![s] = 0]
            /\ Respond(s, <<Note("Yank", onPeer[s])>>)
       ELSE /\ Respond(s, << >>)
            /\ UNCHANGED onPeer
  /\ UNCHANGED <<client, started, queue, events, hostSide, moves, chatter>>

ReceiveRefused(s) ==
  /\ Incoming(s, "Refused")
  /\ Tell(s, "refused")
  /\ onPeer' = [onPeer EXCEPT ![s] = 0]
  /\ Respond(s, << >>)
  /\ UNCHANGED <<client, started, queue, events, hostSide, moves, chatter>>

\* PeerMessage::LocationResponse
ReceiveAnswer(s) ==
  /\ Incoming(s, "Answer")
  /\ Tell(s, "answer")
  /\ Respond(s, IF Listening(s) THEN << >> ELSE <<Note("Release", onPeer[s])>>)
  /\ UNCHANGED <<client, started, queue, onPeer, events, hostSide, moves, chatter>>

\* PeerMessage::VisitorRelease
ReceiveRelease(s) ==
  /\ Incoming(s, "Release")
  /\ Tell(s, "moved")
  /\ onPeer' = [onPeer EXCEPT ![s] = 0]
  /\ Respond(s, << >>)
  /\ UNCHANGED <<client, started, queue, events, hostSide, moves, chatter>>

-----------------------------------------------------------------------------
(* The Peer, as the host of the other server's player.                     *)

\* The guest's entry, with its channels, is dropped.
DropVisit(s) ==
  /\ visit' = [visit EXCEPT ![s] = 0]
  /\ place' = [place EXCEPT ![s] = "gone"]
  /\ updates' = [updates EXCEPT ![s] = << >>]

Unannounced(k) == << >>   \* mutant: nobody is told
Denied(k) == <<Note("Release", k)>>

\* PeerMessage::VisitorSend: access is denied, or the location is asked.
ReceiveSend(s) ==
  /\ Incoming(s, "Send")
  /\ LET k == Head(link[Other(s)]).session IN
       \/ /\ Respond(s, Denied(k))
          /\ UNCHANGED hostSide
       \/ /\ visit' = [visit EXCEPT ![s] = k]
          /\ place' = [place EXCEPT ![s] = "asking"]
          /\ updates' = [updates EXCEPT ![s] = << >>]
          /\ Respond(s, << >>)
  /\ UNCHANGED <<homeSide, moves, chatter>>

\* PeerMessage::VisitorYank
ReceiveYank(s) ==
  /\ Incoming(s, "Yank")
  /\ DropVisit(s)
  /\ Respond(s, << >>)
  /\ UNCHANGED <<homeSide, moves, chatter>>

\* PeerMessage::AvatarSet
ReceiveAvatar(s) ==
  /\ Incoming(s, "Avatar")
  /\ IF visit[s] # 0 /\ place[s] = "gone"
       THEN DropVisit(s) /\ Respond(s, <<Note("Release", visit[s])>>)
       ELSE Respond(s, << >>) /\ UNCHANGED hostSide
  /\ UNCHANGED <<homeSide, moves, chatter>>

\* PeerMessage::LocationRequest
ReceiveRequest(s) ==
  /\ Incoming(s, "Request")
  /\ Respond(s, IF place[s] = "gone" THEN <<Note("Yank", visit[s])>> ELSE << >>)
  /\ UNCHANGED <<homeSide, hostSide, moves, chatter>>

Forwarded(update) ==
  CASE update = "arrived" -> "Arrived"
    [] update = "refused" -> "Refused"
    [] update = "answer" -> "Answer"
    [] update = "moved" -> "Release"

\* PlayerFromPeer's stream and OutputMapper::handle
ForwardUpdate(s) ==
  /\ updates[s] # << >>
  /\ updates' = [updates EXCEPT ![s] = Tail(@)]
  /\ Post(s, <<Note(Forwarded(Head(updates[s])), visit[s])>>)
  /\ UNCHANGED <<homeSide, visit, place, moves, chatter>>

NoRelease(k) == << >>   \* mutant: the home server is not told
EndFromPeer(k) == <<Note("Release", k)>>

\* PlayerFromPeer's stream ends: OutputMapper::end
LoseVisit(s) ==
  /\ visit[s] # 0
  /\ place[s] = "gone"
  /\ updates[s] = << >>
  /\ DropVisit(s)
  /\ Post(s, EndFromPeer(visit[s]))
  /\ UNCHANGED <<homeSide, moves, chatter>>

-----------------------------------------------------------------------------
(* The location the guest is sent to.                                      *)

Update1(s, from, to, new) ==
  /\ place[s] \in from
  /\ place' = [place EXCEPT ![s] = to]
  /\ updates' = [updates EXCEPT ![s] = @ \o new]
  /\ UNCHANGED <<homeSide, link, visit>>

\* The guest is let in, and sent the location and the avatars in it.
Admit(s) ==
  /\ Update1(s, {"asking"}, "inside", <<"arrived", "answer">>)
  /\ UNCHANGED <<moves, chatter>>

\* The guest is not let in, or kicked, or found dead, and the channels dropped.
Refuse(s) ==
  /\ Update1(s, {"asking", "inside"}, "gone", <<"refused">>)
  /\ UNCHANGED <<moves, chatter>>

\* The location closes.
Close(s) ==
  /\ Update1(s, {"asking", "inside"}, "gone", << >>)
  /\ UNCHANGED <<moves, chatter>>

\* The location talks to its guests.
Answer(s) ==
  /\ Chat
  /\ Update1(s, {"inside"}, "inside", <<"answer">>)
  /\ UNCHANGED moves

\* The location sends the guest elsewhere, but keeps the guest's channels.
Move(s) ==
  /\ moves < MaxMoves
  /\ moves' = moves + 1
  /\ Update1(s, {"inside"}, "inside", <<"moved">>)
  /\ UNCHANGED chatter

-----------------------------------------------------------------------------
ClientStep(s) == Go(s) \/ Leave(s) \/ Speak(s)
OnPeerPoll(s) == ForwardEvent(s) \/ LoseOnPeer(s)
FromPeerPoll(s) == ForwardUpdate(s) \/ LoseVisit(s)

Receive(s) ==
  \/ ReceiveArrived(s) \/ ReceiveRefused(s) \/ ReceiveAnswer(s) \/ ReceiveRelease(s)
  \/ ReceiveSend(s) \/ ReceiveYank(s) \/ ReceiveAvatar(s) \/ ReceiveRequest(s)

LocationStep(s) == Admit(s) \/ Refuse(s) \/ Close(s) \/ Answer(s) \/ Move(s)

HandoffNext ==
  \E s \in Server :
    \/ ClientStep(s) \/ Hear(s)
    \/ CreateOnPeer(s) \/ OnPeerPoll(s) \/ FromPeerPoll(s) \/ Receive(s)
    \/ LocationStep(s)

HandoffSpec == HandoffInit /\ [][HandoffNext]_handoffVars

\* The tasks keep running: they take what is sent to them. Nothing makes a player
\* or a location act, and nothing has the streams of the tables polled.
FairHandoff ==
  /\ HandoffSpec
  /\ \A s \in Server :
       /\ WF_handoffVars(Hear(s))
       /\ WF_handoffVars(CreateOnPeer(s))
       /\ WF_handoffVars(Receive(s))

-----------------------------------------------------------------------------
(* Properties.                                                             *)

InTransit(s, kinds, k) ==
  \E m \in Elements(link[s]) : m.kind \in kinds /\ m.session = k

\* The home server keeps an entry for its player only while the other server
\* has the guest, is about to get the guest, or is about to say that it has
\* not: no entry of players_on_peer waits for somebody who is nowhere.
HomeKnowsItsTraveller ==
  \A s \in Server : onPeer[s] # 0 =>
    \/ InTransit(s, {"Send"}, onPeer[s])
    \/ visit[Other(s)] = onPeer[s]
    \/ InTransit(Other(s), {"Release", "Refused"}, onPeer[s])

AccountedFor(s) ==
  place[Other(s)] # "gone" =>
    \/ onPeer[s] = visit[Other(s)]
    \/ \E m \in Elements(link[s]) : m.kind \in {"Yank", "Send"}

\* A first visit, and no location has moved the guest on.
Simple(s) == moves = 0 /\ started[s] <= 1

\* "Until the originating server yanks them back": a guest inside a location,
\* or on the way in, is one the home server has an entry for, or is about to
\* yank or to replace.  (Of later visits it is not so: the release of one that
\* is over takes out the entry of the one that has replaced it.)  And
\* everything has its type.
FirstGuestIsAccountedFor ==
  HandoffTypeOK /\ \A s \in Server : Simple(s) => AccountedFor(s)

\* A player who sets out for the other server comes to the notice of a location
\* there or is told to be elsewhere, whatever answers and releases of his earlier
\* visits cross the messages of this one, and whether or not any stream of the
\* tables is ever polled: the denials are answered by the one who denies.
TravellerIsPlaced ==
  \A s \in Server, k \in Session :
    client[s] = k ~> (visit[Other(s)] = k \/ client[s] # k)
=============================================================================
