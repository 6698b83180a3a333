---------------------------- MODULE EntitySocket ----------------------------
(***************************************************************************)
(* server/src/socket_entity/mod.rs and net.rs: the task of an entity (here *)
(* a Peer, with its server/src/peer/reconnection_timer.rs) and its         *)
(* connection, which comes to life late and may die early.                 *)
(*                                                                         *)
(* Messages are numbered in the order in which the entity sends them.      *)
(* Connections come from outside, whether the entity has asked for one or  *)
(* the other server has.  Time is only known by what it makes possible: an *)
(* armed timer may fire, and the queue of a dead connection grows too old. *)
(***************************************************************************)
EXTENDS Integers, Sequences

CONSTANTS MaxSent,    \* bound: messages sent in a behaviour
          MaxSockets, \* bound: connections in a behaviour
          FirstWait, FirstDelay, MaxDelay, \* 2, 5 and 120 seconds in the code
          GiveUp      \* failures before RetryExceeded: 50 in the code

ASSUME BoundAssumption == MaxSent \in Nat /\ MaxSockets \in Nat
ASSUME DelayAssumption ==
  /\ {FirstWait, FirstDelay, MaxDelay, GiveUp} \subseteq Nat \ {0}
  /\ FirstDelay <= MaxDelay

VARIABLES
  conn,     \* EntityConnection
  queued,   \* the messages of EntityConnection::Dead
  young,    \* "yes" until EntityConnection::Dead is five minutes old
  link,     \* how the socket of EntityConnection::Online is
  sockets,  \* connections so far, for the bound
  sent,     \* messages sent so far
  accepted, \* messages for which EntityConnection::send returned Ok
  written,  \* messages given to a socket, in order
  mishaps,  \* has a queue grown too old, or a socket failed in a flush?
  delay,    \* ReconnectionTimer
  wait,     \* for how long `sleep' was set, 0 for None
  failures

socket == <<conn, queued, link, mishaps>>
log == <<sent, accepted, written>>
timer == <<delay, wait, failures>>
vars == <<socket, young, sockets, log, timer>>

Message == 1..MaxSent

TypeOK ==
  /\ conn \in {"dead", "online", "offline"}
  /\ queued \in Seq(Message)
  /\ young \in {"yes", "no"}
  /\ link \in {"none", "up", "down"}
  /\ sockets \in 0..MaxSockets
  /\ sent \in 0..MaxSent
  /\ accepted \subseteq 1..sent
  /\ written \in Seq(Message)
  /\ mishaps \subseteq {"aged", "broken"}
  /\ delay \in FirstDelay..MaxDelay
  /\ wait \in {0, FirstWait} \cup FirstDelay..MaxDelay
  /\ failures \in 0..GiveUp+1

Init ==
  /\ conn = "dead"
  /\ queued = << >>
  /\ young = "yes"
  /\ link = "none"
  /\ sockets = 0
  /\ sent = 0
  /\ accepted = {}
  /\ written = << >>
  /\ mishaps = {}
  /\ delay = FirstDelay
  /\ wait = FirstWait
  /\ failures = 0

-----------------------------------------------------------------------------
(* The timer.                                                              *)

Connected == conn = "online"   \* connection_state() # Disconnected

Lower(a, b) == IF a < b THEN a ELSE b

\* ReconnectionTimer::active(~Connected), with which Peer::process begins.
Active ==
  CASE ~Connected /\ wait = 0 -> wait' = delay /\ UNCHANGED <<delay, failures>>
    [] Connected /\ wait # 0 -> delay' = FirstDelay /\ failures' = 0 /\ wait' = 0
    [] OTHER -> UNCHANGED timer

\* What the delay becomes by ReconnectionTimer::back_off.
Doubled == Lower(delay * 2, MaxDelay)

RearmedAtFirst == FirstDelay   \* mutant: the timer is armed as if nothing had failed
\* `sleep' as active(), called after the timer has fired, leaves it.
Rearmed == IF Connected THEN 0 ELSE delay

\* InternalEvent::InitiateConnection: the handshake is refused, and back_off,
\* whose active(TRUE) finds the timer armed unless a connection has come.
Refused ==
  /\ wait # 0
  /\ failures <= GiveUp
  /\ delay' = Doubled
  /\ wait' = IF Rearmed = 0 THEN Doubled ELSE Rearmed
  /\ failures' = failures + 1
  /\ UNCHANGED <<socket, young, sockets, log>>

Rings ==
  /\ wait # 0
  /\ wait' = Rearmed
  /\ UNCHANGED <<socket, young, sockets, log, delay, failures>>

\* The handshake is accepted; the other server will connect, or will not.
Accepted == failures <= GiveUp /\ Rings

\* InternalEvent::RetryExceeded: nothing is attempted any more, and nothing
\* else is done, for Outgoing::Break ends the list of what is to be done and
\* not the task.
Exceeded == failures > GiveUp /\ Rings

-----------------------------------------------------------------------------
(* The connection.                                                         *)

Keep(m) == queued   \* mutant: the message is accepted and not queued
Queue(m) == Append(queued, m)

\* EntityConnection::send, and whether it returns Ok.
SendOnline(m) ==
  /\ conn = "online"
  /\ \/ written' = Append(written, m) /\ accepted' = accepted \cup {m}
     \/ link = "down" /\ UNCHANGED <<written, accepted>>
  /\ UNCHANGED socket

SendDead(m) ==
  /\ conn = "dead"
  /\ \/ /\ young = "yes"
        /\ queued' = Queue(m)
        /\ accepted' = accepted \cup {m}
        /\ UNCHANGED <<conn, mishaps>>
     \/ /\ young = "no"
        /\ conn' = "offline"
        /\ queued' = << >>
        /\ mishaps' = mishaps \cup {"aged"}
        /\ UNCHANGED accepted
  /\ UNCHANGED <<link, written>>

SendOffline(m) == conn = "offline" /\ UNCHANGED <<socket, accepted, written>>

\* A request of the directory, or an event of a visitor, makes the entity
\* send a message. The result of a side task and the answer to a ping are sent
\* as well, but without Peer::process and its call of active().
Send ==
  /\ sent < MaxSent
  /\ sent' = sent + 1
  /\ SendOnline(sent') \/ SendDead(sent') \/ SendOffline(sent')
  /\ Active \/ UNCHANGED timer
  /\ UNCHANGED <<young, sockets>>

\* mutant: the queue is popped from its end
Backwards == [i \in 1..Len(queued) |-> queued[Len(queued) + 1 - i]]
Flushed == queued

\* PeerRequest::Connect: EntityConnection::establish.  What was queued is
\* written; when the socket fails, the rest of the queue is lost.
Establish ==
  /\ sockets < MaxSockets
  /\ sockets' = sockets + 1
  /\ conn' = "online"
  /\ queued' = << >>
  /\ \E n \in 0..Len(queued) :
       /\ written' = written \o SubSeq(Flushed, 1, n)
       /\ link' = IF n = Len(queued) THEN "up" ELSE "down"
       /\ mishaps' = mishaps \cup (IF n = Len(queued) THEN {} ELSE {"broken"})
  /\ Active
  /\ UNCHANGED <<young, sent, accepted>>

\* A message of the other server that is not answered here, or the end of the
\* socket's stream (Incoming::StateChange), which changes nothing in the
\* connection.
OtherEvent ==
  /\ Active
  /\ UNCHANGED <<socket, young, sockets, log>>

LinkDown ==
  /\ link = "up"
  /\ link' = "down"
  /\ UNCHANGED <<conn, queued, mishaps, young, sockets, log, timer>>

Age ==
  /\ young = "yes"
  /\ young' = "no"
  /\ UNCHANGED <<socket, sockets, log, timer>>

-----------------------------------------------------------------------------
Next ==
  \/ Refused \/ Accepted \/ Exceeded
  \/ Send \/ Establish \/ OtherEvent
  \/ LinkDown \/ Age

Spec == Init /\ [][Next]_vars

-----------------------------------------------------------------------------
(* Properties.                                                             *)

Elements(q) == {q[i] : i \in 1..Len(q)}

Increasing(q) == \A i, j \in 1..Len(q) : i < j => q[i] < q[j]

\* No message overtakes another, not even one that was queued before there
\* was a connection, however many connections follow on one another.
NothingOvertakes == Increasing(written)

\* The delay after so many refusals.
Backoff[n \in Nat] == IF n = 0 THEN FirstDelay ELSE Lower(Backoff[n - 1] * 2, MaxDelay)

\* Until there is a connection, neither the messages that are queued meanwhile
\* nor handshakes that are accepted in vain stop the timer or make it hurry: it
\* is armed for as long as the refusals call for. The delay doubles with each of
\* them up to its limit; the wait that follows a refusal is still the one from
\* before it, because Peer::process has armed the timer by then. (Once there
\* are more than GiveUp refusals the timer rings and nothing is attempted: from
\* then on the entity relies on the other server to connect.)
RetriesBackOff ==
  conn # "online" =>
    /\ delay = Backoff[failures]
    /\ \/ failures = 0 /\ wait \in {FirstWait, FirstDelay}
       \/ failures # 0 /\ wait \in {Backoff[failures - 1], Backoff[failures]}

\* Without a queue grown too old or a socket that fails while the queue is
\* written, a message that was accepted is in the queue or on its way; and
\* everything has its type.
LossNeedsAMishap ==
  /\ TypeOK
  /\ mishaps = {} => accepted \subseteq Elements(queued) \cup Elements(written)
=============================================================================
