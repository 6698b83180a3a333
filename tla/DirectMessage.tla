---------------------------- MODULE DirectMessage ----------------------------
(***************************************************************************)
(* Direct messages between players of two servers, and within one: the     *)
(* sender's Client and its library (client/src/server/direct_message.rs),  *)
(* Directory::send_dm, the Peer entities at both ends, the player          *)
(* directory that writes the recipient's chat, and the database rows.      *)
(*                                                                         *)
(* The identifier under which a Peer waits for an answer is a counter that *)
(* starts again when its server does, while the side tasks of the other    *)
(* server survive and report on the next connection. Timestamps and bodies *)
(* are left out: a message stands for its body. What a Peer queues until   *)
(* its first connection (EntitySocket) waits in peerq here.                *)
(***************************************************************************)
EXTENDS Integers, Sequences

CONSTANTS Server,      \* the two servers
          Name,        \* names of players
          Known,       \* names that have an account
          Home,        \* the server of each name
          Message,     \* messages that may be sent
          Transient,   \* those MessageBody::is_transient is true of
          MaxFaults    \* bound on the mishaps in a behaviour, of whatever kind

ASSUME ServerAssumption == \E a, b \in Server : a # b /\ Server = {a, b}
ASSUME PlayersAssumption == Known \subseteq Name /\ Home \in [Name -> Server]
ASSUME BoundAssumption == MaxFaults \in Nat

VARIABLES
  mail,      \* message -> [from, to] once it is sent
  heard,     \* message -> what its sender's library has heard of it
  watch,     \* message -> the value of the watch its sender's Client polls
  peerq,     \* server -> messages on their way to its Peer
  nextId,    \* server -> outstanding_messages.next_id of its Peer
  waiting,   \* server -> outstanding_messages of its Peer: [id, m]
  link,      \* server -> packets on their way to it
  tasks,     \* server -> side tasks of its Peer: [id, m, status, told]
  dirq,      \* server -> requests to its player directory: [id, m]
  localChat, \* rows of local_player_chat: a message each
  remoteChat,\* rows of remote_player_chat: [player, m, inbound]
  lastRead,  \* rows of the two last_read tables: [player, m]
  shown,     \* name -> messages forwarded to its connected client
  stale,     \* servers that write to a socket whose other end is gone
  mishaps,   \* requests expired, packets lost and servers restarted so far
  restarted  \* the servers that restarted

vars == <<mail, heard, watch, peerq, nextId, waiting, link, tasks, dirq,
          localChat, remoteChat, lastRead, shown, stale, mishaps, restarted>>

Final == {"Delivered", "UnknownRecipient", "Forbidden", "InternalError"}
Status == Final \cup {"Queued"}
\* before the first receipt the library has an Outstanding of its own
View == Status \cup {"Outstanding"}

Sent == DOMAIN mail
Other(s) == CHOOSE t \in Server : t # s
From(m) == Home[mail[m].from]
To(m) == Home[mail[m].to]

Asks(id, m) == [kind |-> "DirectMessage", id |-> id, m |-> m, status |-> "Queued"]
Answers(id, m, status) == [kind |-> "DirectMessageResponse", id |-> id, m |-> m, status |-> status]

Request == [id : Nat, m : Message]
Packet == [kind : {"DirectMessage", "DirectMessageResponse"}, id : Nat, m : Message, status : Status]
Task == [id : Nat, m : Message, status : Status, told : View]

TypeOK ==
  /\ Sent \subseteq Message
  /\ mail \in [Sent -> [from : Known, to : Name]]
  /\ heard \in [Message -> View]
  /\ watch \in [Message -> View]
  /\ peerq \in [Server -> Seq(Message)]
  /\ nextId \in [Server -> Nat]
  /\ waiting \in [Server -> SUBSET Request]
  /\ link \in [Server -> Seq(Packet)]
  /\ tasks \in [Server -> SUBSET Task]
  /\ dirq \in [Server -> Seq(Request)]
  /\ localChat \subseteq Message
  /\ remoteChat \subseteq [player : Name, m : Message, inbound : BOOLEAN]
  /\ lastRead \subseteq [player : Name, m : Message]
  /\ shown \in [Name -> SUBSET Message]
  /\ stale \subseteq Server
  /\ mishaps \in 0..MaxFaults
  /\ restarted \subseteq Server

Init ==
  /\ mail = << >>
  /\ heard = [m \in Message |-> "Outstanding"]
  /\ watch = [m \in Message |-> "Outstanding"]
  /\ peerq = [s \in Server |-> << >>]
  /\ nextId = [s \in Server |-> 0]
  /\ waiting = [s \in Server |-> {}]
  /\ link = [s \in Server |-> << >>]
  /\ tasks = [s \in Server |-> {}]
  /\ dirq = [s \in Server |-> << >>]
  /\ localChat = {}
  /\ remoteChat = {}
  /\ lastRead = {}
  /\ shown = [n \in Name |-> {}]
  /\ stale = {}
  /\ mishaps = 0
  /\ restarted = {}

rows == <<localChat, remoteChat, lastRead, shown>>
faults == <<mishaps, restarted>>

Mishap == mishaps < MaxFaults /\ mishaps' = mishaps + 1

\* EntityConnection::send of server s
Post(s, packet) ==
  link' = IF s \in stale THEN link ELSE [link EXCEPT ![Other(s)] = Append(@, packet)]

-----------------------------------------------------------------------------
(* The sender: send_dm, and the receipts its Client passes on *)

\* The watch starts at Queued, whatever way the request goes on.
Send(m, from, to) ==
  /\ m \notin Sent
  /\ mail' = [n \in Sent \cup {m} |-> IF n = m THEN [from |-> from, to |-> to] ELSE mail[n]]
  /\ watch' = [watch EXCEPT ![m] = "Queued"]
  /\ IF Home[to] = Home[from]
       THEN dirq' = [dirq EXCEPT ![Home[from]] = Append(@, [id |-> 0, m |-> m])] /\ UNCHANGED peerq
       ELSE peerq' = [peerq EXCEPT ![Home[from]] = Append(@, m)] /\ UNCHANGED dirq
  /\ UNCHANGED <<heard, nextId, waiting, link, tasks, rows, stale, faults>>

\* The access setting "send_dm" does not let this player send.
SendForbidden(m, from, to) ==
  /\ m \notin Sent
  /\ mail' = [n \in Sent \cup {m} |-> IF n = m THEN [from |-> from, to |-> to] ELSE mail[n]]
  /\ watch' = [watch EXCEPT ![m] = "Forbidden"]
  /\ UNCHANGED <<heard, peerq, nextId, waiting, link, tasks, dirq, rows, stale, faults>>

\* send_finish: a receipt other than Queued ends the library's Outstanding.
Receipt(m) ==
  /\ watch[m] # heard[m]
  /\ heard[m] \notin Final
  /\ heard' = [heard EXCEPT ![m] = watch[m]]
  /\ UNCHANGED <<mail, watch, peerq, nextId, waiting, link, tasks, dirq, rows, stale, faults>>

-----------------------------------------------------------------------------
(* The Peer of the sender's server *)

\* mutant: the identifier is handed out and the counter left where it is
SameAgain(id) == id
\* The counter is a u32 that wraps: no bound here comes near it.
Following(id) == id + 1

Ask(s) ==
  /\ peerq[s] # << >>
  /\ stale = {}
  /\ LET m == Head(peerq[s])
     IN /\ waiting' = [waiting EXCEPT ![s] = @ \cup {[id |-> nextId[s], m |-> m]}]
        /\ Post(s, Asks(nextId[s], m))
  /\ peerq' = [peerq EXCEPT ![s] = Tail(@)]
  /\ nextId' = [nextId EXCEPT ![s] = Following(@)]
  /\ UNCHANGED <<mail, heard, watch, tasks, dirq, rows, stale, faults>>

\* remote_direct_message_write: the column is TRUE when the caller has a
\* timestamp, that is on the sender's side.
Copy(w) == [player |-> mail[w.m].from, m |-> w.m, inbound |-> TRUE]

\* The sender's copy is written when the answer is Delivered; the database may fail.
KeepCopy(w) ==
  \/ w.m \in Transient /\ lastRead' = lastRead \cup {[player |-> mail[w.m].from, m |-> w.m]} /\ UNCHANGED remoteChat
  \/ w.m \notin Transient /\ remoteChat' = remoteChat \cup {Copy(w)} /\ UNCHANGED lastRead
  \/ UNCHANGED <<remoteChat, lastRead>>

EarnsACopy(status) == status = "Delivered"

\* DirectMessageResponse: the first answer to an identifier, whatever it says,
\* takes the entry out.
Answer(s) ==
  /\ link[s] # << >>
  /\ LET p == Head(link[s])
     IN /\ p.kind = "DirectMessageResponse"
        /\ \/ \E w \in waiting[s] :
                /\ w.id = p.id
                /\ waiting' = [waiting EXCEPT ![s] = @ \ {w}]
                /\ watch' = [watch EXCEPT ![w.m] = p.status]
                /\ IF EarnsACopy(p.status) THEN KeepCopy(w) ELSE UNCHANGED <<remoteChat, lastRead>>
           \/ /\ \A w \in waiting[s] : w.id # p.id
              /\ UNCHANGED <<waiting, watch, remoteChat, lastRead>>
  /\ link' = [link EXCEPT ![s] = Tail(@)]
  /\ UNCHANGED <<mail, heard, peerq, nextId, tasks, dirq, localChat, shown, stale, faults>>

\* purge_expired; the watch of the entry is dropped with it.
Expire(s) ==
  /\ Mishap
  /\ \E w \in waiting[s] : waiting' = [waiting EXCEPT ![s] = @ \ {w}]
  /\ UNCHANGED <<mail, heard, watch, peerq, nextId, link, tasks, dirq, rows, stale, restarted>>

-----------------------------------------------------------------------------
(* The Peer of the recipient's server *)

Arriving(s) == link[s] # << >> /\ Head(link[s]).kind = "DirectMessage"

Arrive(s) ==
  /\ Arriving(s)
  /\ LET p == Head(link[s])
     IN /\ dirq' = [dirq EXCEPT ![s] = Append(@, [id |-> p.id, m |-> p.m])]
        /\ tasks' = [tasks EXCEPT ![s] = @ \cup {[id |-> p.id, m |-> p.m, status |-> "Queued", told |-> "Outstanding"]}]
  /\ link' = [link EXCEPT ![s] = Tail(@)]
  /\ UNCHANGED <<mail, heard, watch, peerq, nextId, waiting, rows, stale, faults>>

\* The body has expired, or "peer_dm" or "send_dm" does not let the sender in.
ArriveForbidden(s) ==
  /\ Arriving(s)
  /\ LET p == Head(link[s])
     IN link' = [link EXCEPT ![s] = Tail(@),
                             ![Other(s)] = IF s \in stale THEN @ ELSE Append(@, Answers(p.id, p.m, "Forbidden"))]
  /\ UNCHANGED <<mail, heard, watch, peerq, nextId, waiting, tasks, dirq, rows, stale, faults>>

\* The WatchStream of a side task yields the value it has not told yet, and
\* ends with the final one.
Report(s) ==
  \E t \in tasks[s] :
    /\ t.told # t.status
    /\ Post(s, Answers(t.id, t.m, t.status))
    /\ tasks' = [tasks EXCEPT ![s] = (@ \ {t}) \cup (IF t.status \in Final THEN {} ELSE {[t EXCEPT !.told = t.status]})]
    /\ UNCHANGED <<mail, heard, watch, peerq, nextId, waiting, dirq, rows, stale, faults>>

-----------------------------------------------------------------------------
(* The player directory of the recipient's server *)

Outcome(m) == {"InternalError"} \cup IF mail[m].to \in Known THEN {"Delivered"} ELSE {"UnknownRecipient"}

Write(m) ==
  IF m \in Transient
    THEN lastRead' = lastRead \cup {[player |-> mail[m].to, m |-> m]} /\ UNCHANGED <<localChat, remoteChat>>
    ELSE /\ UNCHANGED lastRead
         /\ IF From(m) = To(m)
              THEN localChat' = localChat \cup {m} /\ UNCHANGED remoteChat
              ELSE /\ remoteChat' = remoteChat \cup {[player |-> mail[m].to, m |-> m, inbound |-> FALSE]}
                   /\ UNCHANGED localChat

\* mutant: what could not be written is forwarded too
AnyOutcome(status) == TRUE
Forwards(status) == status = "Delivered"

\* A forwarded message reaches the recipient if he has an entity at the time.
Forward(m, status) ==
  \/ Forwards(status) /\ shown' = [shown EXCEPT ![mail[m].to] = @ \cup {m}]
  \/ UNCHANGED shown

\* status.send(update): the watch of the local sender or of the side task
Tell(s, r, status) ==
  IF From(r.m) = s
    THEN watch' = [watch EXCEPT ![r.m] = status] /\ UNCHANGED tasks
    ELSE /\ tasks' = [tasks EXCEPT ![s] = {IF t.id = r.id /\ t.m = r.m THEN [t EXCEPT !.status = status] ELSE t : t \in @}]
         /\ UNCHANGED watch

Deliver(s) ==
  /\ dirq[s] # << >>
  /\ LET r == Head(dirq[s])
     IN \E status \in Outcome(r.m) :
          /\ IF status = "Delivered" THEN Write(r.m) ELSE UNCHANGED <<localChat, remoteChat, lastRead>>
          /\ Tell(s, r, status)
          /\ Forward(r.m, status)
  /\ dirq' = [dirq EXCEPT ![s] = Tail(@)]
  /\ UNCHANGED <<mail, heard, peerq, nextId, waiting, link, stale, faults>>

-----------------------------------------------------------------------------
(* The environment *)

Without(q, i) == SubSeq(q, 1, i-1) \o SubSeq(q, i+1, Len(q))

\* A socket fails with a packet in it, or a flush of the queue does.
Lose(s) ==
  /\ Mishap
  /\ \E i \in 1..Len(link[s]) : link' = [link EXCEPT ![s] = Without(@, i)]
  /\ UNCHANGED <<mail, heard, watch, peerq, nextId, waiting, tasks, dirq, rows, stale, restarted>>

\* The process of server s ends. The other one can still read what had come
\* before, and keeps the socket.
Crash(s) ==
  /\ Mishap
  /\ watch' = [m \in Message |-> IF m \in Sent /\ From(m) = s THEN heard[m] ELSE watch[m]]
  /\ peerq' = [peerq EXCEPT ![s] = << >>]
  /\ nextId' = [nextId EXCEPT ![s] = 0]
  /\ waiting' = [waiting EXCEPT ![s] = {}]
  /\ tasks' = [tasks EXCEPT ![s] = {}]
  /\ dirq' = [dirq EXCEPT ![s] = << >>]
  /\ \E j \in 0..Len(link[Other(s)]) :
       link' = [link EXCEPT ![s] = << >>, ![Other(s)] = SubSeq(@, 1, j)]
  /\ stale' = {Other(s)}
  /\ restarted' = restarted \cup {s}
  /\ UNCHANGED <<mail, heard, rows>>

\* Outgoing::Connect replaces the socket at both ends.
Reconnect ==
  /\ stale # {}
  /\ stale' = {}
  /\ link' = [s \in Server |-> << >>]
  /\ UNCHANGED <<mail, heard, watch, peerq, nextId, waiting, tasks, dirq, rows, faults>>

Next ==
  \/ \E m \in Message, from \in Known, to \in Name :
       Send(m, from, to) \/ SendForbidden(m, from, to)
  \/ \E m \in Message : Receipt(m)
  \/ \E s \in Server :
       \/ Ask(s) \/ Answer(s) \/ Expire(s)
       \/ Arrive(s) \/ ArriveForbidden(s) \/ Report(s)
       \/ Deliver(s)
       \/ Lose(s) \/ Crash(s)
  \/ Reconnect

Spec == Init /\ [][Next]_vars

-----------------------------------------------------------------------------
(* Properties *)

\* What DirectMessageGet shows a player: direct_message_get finds out the
\* direction from the row, remote_direct_message_get reads the column.
DirectMessages(n) ==
  {[m |-> m, inbound |-> mail[m].to = n] : m \in {k \in localChat : n \in {mail[k].from, mail[k].to}}}
  \cup {[m |-> r.m, inbound |-> r.inbound] : r \in {r \in remoteChat : r.player = n}}

Written(m) ==
  IF m \in Transient
    THEN [player |-> mail[m].to, m |-> m] \in lastRead
    ELSE \E e \in DirectMessages(mail[m].to) : e.m = m

\* The Peer of s goes on counting from the identifiers it has given out.
Counts(s) == s \notin restarted

\* A message its sender was told is Delivered is in its recipient's chat
\* ("The message was written to user's inbox"), whatever has been lost, has
\* expired or has failed, and though the recipient's server has restarted: only
\* where the sender's has may the answer to one message be taken for another's.
DeliveredIsWritten ==
  \A m \in Sent : heard[m] = "Delivered" /\ Counts(From(m)) => Written(m)

\* An answer on its way to a Peer that still waits under its identifier
\* answers the message the Peer waits for, through restarts of the other server.
AnswersFindTheirMessage ==
  \A s \in Server : Counts(s) =>
    \A i \in DOMAIN link[s] : \A w \in waiting[s] :
      link[s][i].kind = "DirectMessageResponse" /\ link[s][i].id = w.id => link[s][i].m = w.m

\* What a connected player is shown can be read again after the next login,
\* and after a restart; and everything has its type.
ShownIsWritten ==
  TypeOK /\ \A n \in Name : \A m \in shown[n] : mail[m].to = n /\ Written(m)
=============================================================================
