---------------------------- MODULE HostedLocation ---------------------------
(***************************************************************************)
(* A location hosted by a player: the task of                              *)
(* server/src/client/hosting.rs (start_hosting), the Client of the host    *)
(* that feeds and reads it through two bounded channels, and the guests.   *)
(*                                                                         *)
(* The task handles one event at a time. What the event has to tell the    *)
(* host waits in `outbox', since every write to the host's channel may     *)
(* block; the players found dead on the way are removed after it, one by   *)
(* one. Guests are written to without waiting: a write fails when the      *)
(* guest has hung up, and may fail when he is slow (his 100 places are     *)
(* full). Chat, announcements, avatars and the name are left out.          *)
(***************************************************************************)
EXTENDS Naturals, Sequences

CONSTANTS Player,    \* the guests
          Rules,     \* access settings, as what each guest may do
          Owner,     \* the host, as the sender of a request
          Slow,      \* the guests whose channel may be full
          Sendable,  \* what the host may send
          InputCap,  \* places of input_tx: 50
          ClientCap, \* places of client_tx: 50
          JoinCap,   \* places of the endpoint: 100
          MaxVisits, \* bound on the joins
          MaxSends   \* bound on what the host sends

ASSUME CapsAssumption == InputCap \in Nat \ {0} /\ ClientCap \in Nat \ {0} /\ JoinCap \in Nat \ {0}
ASSUME BoundsAssumption == MaxVisits \in Nat /\ MaxSends \in Nat
ASSUME OwnerAssumption == Owner \notin Player /\ Slow \subseteq Player

VARIABLES
  host,      \* Client::current_location of the host, as to this location
  connected, \* whether the host's socket is there
  pending,   \* what the Client waits to put into inputq, if anything
  sends,     \* how much the host has sent
  inputq,    \* HostInput on its way to the task
  clientq,   \* messages on their way to the Client
  joinq,     \* visits on their way in
  task,      \* whether the task runs
  outbox,    \* what the event in hand still has to tell the host
  dead,      \* the players the event in hand will remove
  acl,       \* player -> privilege
  inside,    \* player -> visit in `players', or 0
  visits,    \* visit -> player
  hung,      \* visits whose guest has dropped his channels
  believed   \* the players inside, by what the host was told last

vars == <<host, connected, pending, sends, inputq, clientq, joinq, task,
          outbox, dead, acl, inside, visits, hung, believed>>

Privilege == {"Deny", "Access", "Admin"}
ASSUME RulesAssumption == Rules \subseteq [Player -> Privilege]

Sender == Player \cup {Owner}

\* LocationRequest and PlayerEvent, by what the task does with them: Publish is
\* announcements and the name, Get everything that is only answered.
Request ==
  [kind : {"Avatar", "MessageSend", "Publish", "Get", "Internal", "Delete"}]
  \cup [kind : {"Kick"}, target : Player] \cup [kind : {"AccessSet"}, rules : Rules]

\* HostCommand; Tell is Response and RequestError, Move does the same here
Command == [kind : {"Broadcast", "Quit"}] \cup [kind : {"Drop", "Tell"}, target : Player]

Input == Request \cup Command
ASSUME SendableAssumption == Sendable \subseteq Input
HostEvent == [kind : {"PlayerEntered", "PlayerLeft", "PlayerRequest"}, player : Player]
ToClient == HostEvent \cup [kind : {"InLocation"}]

Entered(p) == [kind |-> "PlayerEntered", player |-> p]
Left(p) == [kind |-> "PlayerLeft", player |-> p]
Asks(p) == [kind |-> "PlayerRequest", player |-> p]
InLocation == [kind |-> "InLocation"]

Visit == 1..MaxVisits
Inside == {p \in Player : inside[p] # 0}

TypeOK ==
  /\ host \in {"Hosting", "NoWhere"}
  /\ connected \in BOOLEAN
  /\ pending \in Seq(Input) /\ Len(pending) <= 1
  /\ sends \in 0..MaxSends
  /\ inputq \in Seq(Input) /\ Len(inputq) <= InputCap
  /\ clientq \in Seq(ToClient) /\ Len(clientq) <= ClientCap
  /\ joinq \in Seq(Visit) /\ Len(joinq) <= JoinCap
  /\ task \in {"running", "ended"}
  /\ outbox \in Seq(ToClient) /\ Len(outbox) <= 2
  /\ dead \subseteq Player
  /\ acl \in Rules
  /\ inside \in [Player -> 0..MaxVisits]
  /\ visits \in Seq(Player) /\ Len(visits) <= MaxVisits
  /\ hung \subseteq DOMAIN visits
  /\ believed \subseteq Player

Init ==
  /\ host = "Hosting"
  /\ connected = TRUE
  /\ pending = << >> /\ sends = 0
  /\ inputq = << >> /\ clientq = << >> /\ joinq = << >>
  /\ task = "running"
  /\ outbox = << >> /\ dead = {}
  /\ acl \in Rules
  /\ inside = [p \in Player |-> 0]
  /\ visits = << >> /\ hung = {}
  /\ believed = {}

clientVars == <<host, connected, pending, sends>>
guestVars == <<visits, hung>>

-----------------------------------------------------------------------------
(* The Client of the host *)

\* The Client reads what the task has for it before it takes the next message
\* from the socket, and does neither while it waits for a place.
Listens == host = "Hosting" /\ pending = << >>

HostSends(i) ==
  /\ Listens /\ connected /\ clientq = << >>
  /\ sends < MaxSends /\ sends' = sends + 1
  /\ pending' = <<i>>
  /\ UNCHANGED <<host, connected, inputq, clientq, joinq, task, outbox, dead, acl, inside, guestVars, believed>>

HostPuts ==
  /\ pending # << >>
  /\ task = "running" /\ Len(inputq) < InputCap
  /\ inputq' = inputq \o pending
  /\ pending' = << >>
  /\ UNCHANGED <<host, connected, sends, clientq, joinq, task, outbox, dead, acl, inside, guestVars, believed>>

\* Going anywhere else drops both channels, and so does finding out that the
\* task has ended: by a send that fails or by the end of what it wrote.
HostGoes ==
  /\ \/ Listens /\ connected /\ clientq = << >>
     \/ task = "ended" /\ host = "Hosting" /\ (pending # << >> \/ clientq = << >>)
  /\ host' = "NoWhere"
  /\ pending' = << >> /\ clientq' = << >>
  /\ UNCHANGED <<connected, sends, inputq, joinq, task, outbox, dead, acl, inside, guestVars, believed>>

\* mutant: hearing from the task leaves the location as it is
StaysHosting == "Hosting"
\* poll_next returns TRUE for reset with every message of the task
AfterHearing == "NoWhere"

HostHears ==
  /\ Listens /\ clientq # << >>
  /\ host' = AfterHearing
  /\ clientq' = IF host' = "NoWhere" THEN << >> ELSE Tail(clientq)
  /\ UNCHANGED <<connected, pending, sends, inputq, joinq, task, outbox, dead, acl, inside, guestVars, believed>>

\* The socket goes, and comes back with Outgoing::Connect: the Client carries on.
SocketChanges ==
  /\ connected' = ~connected
  /\ UNCHANGED <<host, pending, sends, inputq, clientq, joinq, task, outbox, dead, acl, inside, guestVars, believed>>

-----------------------------------------------------------------------------
(* The guests *)

\* mutant: going somewhere leaves the channels of earlier visits open
LeftOpen(p) == {}
\* start_join: the channels of the player's earlier visits are gone before the
\* request is sent.
Earlier(p) == {w \in DOMAIN visits : visits[w] = p}

\* Join through the player directory: a full endpoint and one
\* that is closed turn the guest away.
GuestJoins(p) ==
  /\ Len(visits) < MaxVisits
  /\ visits' = Append(visits, p)
  /\ LET v == Len(visits) + 1
     IN IF task = "running" /\ Len(joinq) < JoinCap
          THEN joinq' = Append(joinq, v) /\ hung' = hung \cup Earlier(p)
          ELSE UNCHANGED joinq /\ hung' = hung \cup Earlier(p) \cup {v}
  /\ UNCHANGED <<clientVars, inputq, clientq, task, outbox, dead, acl, inside, believed>>

GuestHangsUp(v) ==
  /\ v \in DOMAIN visits \ hung
  /\ hung' = hung \cup {v}
  /\ UNCHANGED <<clientVars, inputq, clientq, joinq, task, outbox, dead, acl, inside, visits, believed>>

-----------------------------------------------------------------------------
(* The task *)

Ready == task = "running" /\ outbox = << >> /\ dead = {}

HungUp == {p \in Inside : inside[p] \in hung}

\* The players of S to whom a try_send fails.
Failures(S) == {(S \cap HungUp) \cup slow : slow \in SUBSET (S \cap Inside \cap Slow)}

MayManage(who) == who \in {Owner} \cup {p \in Player : acl[p] = "Admin"}

\* mutant: the rules change and everybody stays
NobodyDenied(rules) == {}
NowDenied(rules) == {p \in Inside : rules[p] = "Deny"}

\* Leaving the loop drops every channel of the task.
End ==
  /\ task' = "ended"
  /\ inside' = [p \in Player |-> 0]
  /\ joinq' = << >> /\ inputq' = << >>
  /\ outbox' = << >> /\ dead' = {}
  /\ UNCHANGED <<clientVars, clientq, acl, guestVars, believed>>

\* The event is dealt with: told is for the host, failed is to be removed.
Done(told, failed) ==
  /\ outbox' = told /\ dead' = failed
  /\ UNCHANGED <<clientVars, clientq, task, guestVars, believed>>

\* The answer to a request: the host's goes into outbox, a guest's to the guest.
Reply(who) == IF who = Owner THEN <<InLocation>> ELSE << >>
Unreached(who) == Failures({who} \ {Owner})

Remove(p) == inside' = [inside EXCEPT ![p] = 0]

Handle(who, r) ==
  \/ /\ r.kind \in {"Avatar", "MessageSend"}
     /\ \E failed \in Failures(IF r.kind = "Avatar" THEN Inside \ {who} ELSE Inside) : Done(<<InLocation>>, failed)
     /\ UNCHANGED <<acl, inside>>
  \/ /\ r.kind = "Publish" /\ MayManage(who)
     /\ \E failed \in Failures(Inside) : Done(<<InLocation>> \o Reply(who), failed)
     /\ UNCHANGED <<acl, inside>>
  \/ /\ r.kind = "Get" \/ (r.kind \in {"Publish", "Kick", "AccessSet"} /\ ~MayManage(who))
     /\ \E failed \in Unreached(who) : Done(Reply(who), failed)
     /\ UNCHANGED <<acl, inside>>
  \/ /\ r.kind = "AccessSet" /\ MayManage(who)
     /\ acl' = r.rules
     /\ \E failed \in Unreached(who) : Done(Reply(who), failed \cup NowDenied(r.rules))
     /\ UNCHANGED inside
  \/ /\ r.kind = "Kick" /\ MayManage(who)
     /\ Remove(r.target)
     /\ \E failed \in Unreached(who) :
          Done((IF r.target \in Inside THEN <<Left(r.target)>> ELSE << >>) \o Reply(who), failed \ {r.target})
     /\ UNCHANGED acl
  \/ /\ r.kind = "Internal"
     /\ Done(IF who \in Inside THEN <<Asks(who)>> ELSE << >>, {})
     /\ UNCHANGED <<acl, inside>>
  \/ r.kind = "Delete" /\ ~MayManage(who) /\ Done(<< >>, {}) /\ UNCHANGED <<acl, inside>>

Obey(c) ==
  \/ /\ c.kind = "Broadcast"
     /\ \E failed \in Failures(Inside) : Done(<< >>, failed)
     /\ UNCHANGED inside
  \/ c.kind = "Drop" /\ Remove(c.target) /\ Done(<< >>, {})
  \/ c.kind = "Tell" /\ (\E failed \in Failures({c.target}) : Done(<< >>, failed)) /\ UNCHANGED inside

\* input_rx comes first in the biased select.
TakeInput ==
  /\ Ready /\ inputq # << >>
  /\ LET i == Head(inputq)
     IN \/ i.kind \in {"Quit", "Delete"} /\ End
        \/ /\ i.kind # "Quit"
           /\ inputq' = Tail(inputq)
           /\ UNCHANGED joinq
           /\ \/ i \in Request /\ Handle(Owner, i)
              \/ i \in Command /\ Obey(i) /\ UNCHANGED acl

\* mutant: the end of input_rx is passed over like a disabled branch
NeverNoticed == FALSE
Abandoned == host = "NoWhere" /\ inputq = << >>

Quit == Ready /\ Abandoned /\ End

\* Then the players, as far as their streams are polled: nothing rests on it. The
\* map has taken out the entry whose stream ends, so that Leave finds nobody to
\* report.
TakeRequest(p) ==
  /\ Ready /\ inputq = << >> /\ ~Abandoned
  /\ p \in Inside
  /\ \/ \E r \in Request :
          \/ r.kind = "Delete" /\ MayManage(p) /\ End
          \/ Handle(p, r) /\ UNCHANGED <<inputq, joinq>>
     \/ p \in HungUp /\ Remove(p) /\ Done(<< >>, {p}) /\ UNCHANGED <<acl, inputq, joinq>>

\* And those who want to come in, perhaps while an earlier visit of the same
\* player is still in the table.
TakeJoin ==
  /\ Ready /\ inputq = << >> /\ ~Abandoned /\ joinq # << >>
  /\ LET v == Head(joinq)
         p == visits[v]
     IN \/ acl[p] = "Deny" /\ Done(<< >>, {}) /\ UNCHANGED inside
        \/ acl[p] # "Deny" /\ v \in hung /\ Done(<<Entered(p), Left(p)>>, {}) /\ UNCHANGED inside
        \/ /\ acl[p] # "Deny" /\ v \notin hung
           /\ \E failed \in Failures(Inside) : Done(<<Entered(p)>>, failed)
           /\ inside' = [inside EXCEPT ![p] = v]
  /\ joinq' = Tail(joinq)
  /\ UNCHANGED <<acl, inputq>>

Room == Len(clientq) < ClientCap

\* A write to the host waits for a place and fails once he has gone.
WriteToHost ==
  /\ task = "running" /\ outbox # << >> /\ host = "Hosting" /\ Room
  /\ LET e == Head(outbox)
     IN /\ clientq' = Append(clientq, e)
        /\ believed' = CASE e.kind = "PlayerEntered" -> believed \cup {e.player}
                         [] e.kind = "PlayerLeft" -> believed \ {e.player}
                         [] OTHER -> believed
        /\ dead' = {p \in dead : e # Left(p)}
  /\ outbox' = Tail(outbox)
  /\ UNCHANGED <<clientVars, inputq, joinq, task, acl, inside, guestVars>>

\* In the loop at the end of the event
Removing == \E p \in dead : outbox = <<Left(p)>> /\ p \notin Inside

\* There, the break only leaves that loop: the rest of the dead stay inside.
FailToWrite ==
  /\ task = "running" /\ outbox # << >> /\ host = "NoWhere"
  /\ \/ ~Removing /\ End
     \/ Removing /\ Done(<< >>, {}) /\ UNCHANGED <<inputq, joinq, acl, inside>>

RemoveDead(p) ==
  /\ task = "running" /\ outbox = << >> /\ p \in dead
  /\ IF p \in Inside
       THEN outbox' = <<Left(p)>> /\ UNCHANGED dead
       ELSE dead' = dead \ {p} /\ UNCHANGED outbox
  /\ Remove(p)
  /\ UNCHANGED <<clientVars, inputq, clientq, joinq, task, acl, guestVars, believed>>

TaskSteps ==
  \/ TakeInput \/ Quit \/ TakeJoin
  \/ WriteToHost \/ FailToWrite
  \/ \E p \in Player : TakeRequest(p) \/ RemoveDead(p)

Next ==
  \/ \E i \in Sendable : HostSends(i)
  \/ HostPuts \/ HostGoes \/ HostHears \/ SocketChanges
  \/ \E p \in Player : GuestJoins(p)
  \/ \E v \in Visit : GuestHangsUp(v)
  \/ TaskSteps

Spec == Init /\ [][Next]_vars

\* The runtime polls a task that can go on; the Client is one too.
FairSpec == Spec /\ WF_vars(TakeInput \/ Quit \/ WriteToHost \/ FailToWrite)
                 /\ WF_vars(\E p \in Player : RemoveDead(p))

-----------------------------------------------------------------------------
(* Properties *)

\* Nobody whom the access setting denies is inside once an event is dealt
\* with, whoever changed the setting and however he came in. (A host who goes
\* during the removals leaves them half done, until the task ends.)
AccessIsEnforced == Ready /\ host = "Hosting" => \A p \in Inside : acl[p] # "Deny"

\* The host has been told of everybody who is inside and has not hung up: no
\* PlayerLeft of an earlier visit, of a join that failed or of a kick makes him
\* believe that somebody has gone who is there, though the table may still hold
\* an earlier visit of one who comes again.  And everything has its type.
PresenceIsTold == TypeOK /\ (Ready => Inside \ HungUp \subseteq believed)

\* The Client never waits for a place in the task's channel while the task
\* waits for one in the Client's. (With two places or more: the first message
\* read ends the hosting, which is what keeps the two from waiting for good.)
NoGridlock ==
  ~(pending # << >> /\ Len(inputq) = InputCap
    /\ outbox # << >> /\ Len(clientq) = ClientCap)

\* When the host has gone, the task ends and drops its guests, whatever it was
\* waiting for.
NobodyStaysBehind == host = "NoWhere" ~> task = "ended"
=============================================================================
