---------------------------- MODULE LocationTask ----------------------------
(***************************************************************************)
(* server/src/database/database_location.rs, `run': the task of a location *)
(* that lives on the server.  It lets players in and out, routes what they *)
(* ask to the location's controller and what the controller answers to     *)
(* them, and obeys the location's access setting.                          *)
(*                                                                         *)
(* One step is one round of the task's loop: an event, then the outputs of *)
(* the controller, then the removal of the players found dead.  A          *)
(* connection stands for the pair of channels a player brings along in a   *)
(* JoinRequest; it is `gone' once the player's end is dropped.  The        *)
(* controller is known by what `run' hands it: it may answer anything, at  *)
(* every call, about the players it has been told of.                      *)
(***************************************************************************)
EXTENDS Integers, Sequences, FiniteSets, Functions

CONSTANTS Name,      \* SharedPlayerIdentifier
          Owner,     \* owner_name
          Settings,  \* access settings: what acl.check returns for each player
          IdSpace,   \* number of player ids: 2^32 in the code
          MaxJoins,  \* bound: connections in a behaviour
          MaxOutputs,\* bound: outputs of the controller in a behaviour
          MaxChanges \* bound: access settings in a behaviour

ASSUME NameAssumption == Owner \in Name /\ IsFiniteSet(Name)
ASSUME SettingsAssumption == Settings \subseteq [Name -> {"Access", "Admin", "Deny"}]
ASSUME BoundAssumption ==
  IdSpace \in Nat \ {0} /\ MaxJoins \in Nat \ {0} /\ MaxOutputs \in Nat /\ MaxChanges \in Nat

VARIABLES
  task,        \* is the loop of `run' running?
  row,         \* is the location in the database?
  acl,         \* the access setting in force
  waiting,     \* joins collected while the asset was fetched
  incoming,    \* joins in the endpoint's channel
  joins,       \* connection -> the name that came with it
  gone,        \* connections whose player's end is dropped
  players,     \* name -> [id, kind, conn]
  identifiers, \* id -> name
  nextId,      \* id_generator
  present,     \* ids the controller was told to add, and not to remove
  output,      \* outputs of the controller still to be dealt with
  outputs,     \* outputs so far, for the bound
  changes,     \* access settings so far, for the bound
  given,       \* <<connection, id>> of the players let in
  delivered    \* <<connection, id>>: what was addressed to an id, and got where

requests == <<waiting, incoming, joins, gone>>
table == <<players, identifiers, nextId, present, given>>
vars == <<task, row, acl, changes, requests, table, output, outputs, delivered>>

Conn == 1..MaxJoins
Id == 0..IdSpace-1
Kind == {"Regular", "Admin", "Owner"}
Join == [name : Name, conn : Conn]
Output == [kind : {"Broadcast", "Move", "Quit", "Response"}, to : Id]

TypeOK ==
  /\ task \in {"running", "over"}
  /\ row \in {"stored", "deleted"}
  /\ acl \in Settings
  /\ waiting \in Seq(Join) /\ incoming \in Seq(Join)
  /\ joins \in Seq(Name) /\ Len(joins) <= MaxJoins
  /\ gone \subseteq Conn
  /\ DOMAIN players \subseteq Name
  /\ players \in [DOMAIN players -> [id : Id, kind : Kind, conn : Conn]]
  /\ DOMAIN identifiers \subseteq Id
  /\ identifiers \in [DOMAIN identifiers -> Name]
  /\ nextId \in Id
  /\ present \subseteq Id
  /\ output \in Seq(Output)
  /\ outputs \in 0..MaxOutputs
  /\ changes \in 0..MaxChanges
  /\ given \subseteq Conn \X Id
  /\ delivered \subseteq Conn \X Id

\* The task starts with the joins that came while the asset was fetched.
Init ==
  /\ task = "running"
  /\ row = "stored"
  /\ acl \in Settings
  /\ waiting \in {<< >>} \cup {<<[name |-> n, conn |-> 1]>> : n \in Name}
  /\ incoming = << >>
  /\ joins = [i \in 1..Len(waiting) |-> waiting[i].name]
  /\ gone = {}
  /\ players = << >>
  /\ identifiers = << >>
  /\ nextId = 0
  /\ present = {}
  /\ output = << >>
  /\ outputs = 0
  /\ changes = 0
  /\ given = {}
  /\ delivered = {}

-----------------------------------------------------------------------------
(* The players' ends of the channels.                                      *)

Elements(q) == {q[i] : i \in 1..Len(q)}

\* The connections of a player, wherever the task has them.
ConnsOf(n) ==
  {j.conn : j \in {q \in Elements(waiting) \cup Elements(incoming) : q.name = n}}
    \cup {players[m].conn : m \in DOMAIN players \cap {n}}

\* A player joins, giving up the connection it may have.
Arrive(n) ==
  /\ task = "running"
  /\ Len(joins) < MaxJoins
  /\ joins' = Append(joins, n)
  /\ incoming' = Append(incoming, [name |-> n, conn |-> Len(joins')])
  /\ gone' = gone \cup ConnsOf(n)
  /\ UNCHANGED <<task, row, acl, changes, waiting, table, output, outputs, delivered>>

HangUp(n) ==
  /\ ConnsOf(n) \ gone # {}
  /\ gone' = gone \cup ConnsOf(n)
  /\ UNCHANGED <<task, row, acl, changes, waiting, incoming, joins, table,
                 output, outputs, delivered>>

-----------------------------------------------------------------------------
(* A round of the loop.                                                    *)

\* The players a try_send may fail for: those whose channel is closed, and
\* any whose channel is full.
Unreachable(pl) == {full \in SUBSET DOMAIN pl : \A n \in DOMAIN pl : pl[n].conn \in gone => n \in full}

\* What the controller, told of the players in `known', may return: nothing,
\* or one output (a bound).
Process(known) ==
  {<< >>}
    \cup {<<[kind |-> k, to |-> 0]>> : k \in {"Broadcast", "Quit"}}
    \cup {<<[kind |-> k, to |-> i]>> : k \in {"Move", "Response"}, i \in known}

\* Outputs behind a Quit are dropped with the iterator.
UpToQuit(out) == {i \in 1..Len(out) : \A j \in 1..i-1 : out[j].kind # "Quit"}

Quits(out) == \E i \in 1..Len(out) : out[i].kind = "Quit"

\* The ids that Move and Response outputs are sent to.
Addressed(out, ids, pl) ==
  {i \in DOMAIN ids : ids[i] \in DOMAIN pl /\
     \E k \in UpToQuit(out) : out[k].kind \in {"Move", "Response"} /\ out[k].to = i}

\* The players that an output could not be sent to.
DeadOf(out, ids, pl, full) ==
  full \cap ({ids[i] : i \in Addressed(out, ids, pl)} \cup
             (IF \E k \in UpToQuit(out) : out[k].kind = "Broadcast" THEN DOMAIN pl ELSE {}))

\* The end of a round that has left the players pl, the identifiers ids, the
\* outputs out, and found the players in `lost' dead; sends fail for `full'.
EndRound(pl, ids, known, out, lost, full) ==
  LET dead == (lost \cup DeadOf(out, ids, pl, full)) \cap DOMAIN pl
      deadIds == {pl[n].id : n \in dead} IN
  /\ players' = Restrict(pl, DOMAIN pl \ dead)
  /\ identifiers' = Restrict(ids, DOMAIN ids \ deadIds)
  /\ present' = known \ deadIds
  /\ delivered' = delivered \cup
       {<<pl[ids[i]].conn, i>> : i \in {j \in Addressed(out, ids, pl) : ids[j] \notin full}}
  /\ row' \in (IF Quits(out) THEN {row, "deleted"} ELSE {row})
  /\ \E after \in IF dead = {} THEN {<< >>} ELSE Process(present') :
       /\ output' = after
       /\ outputs' = outputs + Len(after) + (Len(out) - Len(output))
       /\ outputs' <= MaxOutputs

\* A round that ends with the controller's answer to the event.
Round(pl, ids, known, lost, full) ==
  /\ task = "running"
  /\ \E out \in Process(known) : EndRound(pl, ids, known, output \o out, lost, full)
  /\ UNCHANGED task

\* A round in which the controller has no part.
QuietRound(pl, ids, known, lost, full) ==
  /\ task = "running"
  /\ EndRound(pl, ids, known, output, lost, full)
  /\ UNCHANGED task

-----------------------------------------------------------------------------
(* Event::Add                                                              *)

WrappingAdd(i) == IF i = IdSpace - 1 THEN 0 ELSE i + 1

KindOf(n, setting) ==
  IF n = Owner THEN "Owner" ELSE IF setting[n] = "Admin" THEN "Admin" ELSE "Regular"

Welcome(n, setting) == n = Owner \/ setting[n] # "Deny"

Unidentified(ids, i, n) == ids   \* mutant: the id is not written down
\* mutant: the number written down is the one the generator goes on to
IdentifiedByNext(ids, i, n) == [j \in DOMAIN ids \cup {WrappingAdd(i)} |-> IF j = WrappingAdd(i) THEN n ELSE ids[j]]
Identified(ids, i, n) == [j \in DOMAIN ids \cup {i} |-> IF j = i THEN n ELSE ids[j]]

With(pl, n, player) ==
  [m \in DOMAIN pl \cup {n} |-> IF m = n THEN player ELSE pl[m]]

Admit(j) ==
  /\ Welcome(j.name, acl)
  /\ nextId' = WrappingAdd(nextId)
  /\ \E full \in Unreachable(players) :
       \/ \* the newcomer cannot be told, and the controller is told to forget
          /\ Round(players, identifiers, present \ {nextId}, {}, full)
          /\ UNCHANGED given
       \/ /\ j.conn \notin gone
          /\ given' = given \cup {<<j.conn, nextId>>}
          /\ Round(With(players, j.name,
                        [id |-> nextId, kind |-> KindOf(j.name, acl), conn |-> j.conn]),
                   Identified(identifiers, nextId, j.name),
                   present \cup {nextId}, full, full)

TurnAway(j) ==
  /\ ~Welcome(j.name, acl)
  /\ QuietRound(players, identifiers, present, {}, {})
  /\ UNCHANGED <<nextId, given>>

Add ==
  /\ task = "running"
  /\ \/ /\ waiting # << >>
        /\ LET j == waiting[Len(waiting)] IN
             \/ j.conn \notin gone /\ (Admit(j) \/ TurnAway(j))
             \/ j.conn \in gone /\ UNCHANGED <<task, row, table, output, outputs, delivered>>
        /\ waiting' = SubSeq(waiting, 1, Len(waiting) - 1)
        /\ UNCHANGED incoming
     \/ /\ waiting = << >> /\ output = << >> /\ incoming # << >>
        /\ Admit(Head(incoming)) \/ TurnAway(Head(incoming))
        /\ incoming' = Tail(incoming)
        /\ UNCHANGED waiting
  /\ UNCHANGED <<acl, changes, joins, gone>>

-----------------------------------------------------------------------------
(* The other events.                                                       *)

\* The select is reached.
Selecting == task = "running" /\ waiting = << >> /\ output = << >>

\* Event::Ignore
Ignore ==
  /\ waiting = << >> /\ output # << >>
  /\ \E full \in Unreachable(players) : QuietRound(players, identifiers, present, {}, full)
  /\ UNCHANGED <<acl, changes, requests, nextId, given>>

\* Event::Leave: the stream map has dropped the player already.
Leave(n) ==
  /\ Selecting
  /\ n \in DOMAIN players
  /\ players[n].conn \in gone
  /\ QuietRound(Restrict(players, DOMAIN players \ {n}), identifiers, present, {n}, {})
  /\ UNCHANGED <<acl, changes, requests, nextId, given>>

Timer ==
  /\ Selecting
  /\ \E full \in Unreachable(players) : Round(players, identifiers, present, {}, full)
  /\ UNCHANGED <<acl, changes, requests, nextId, given>>

\* acl.read().check(&player, ..) == Privilege::Admin
MayManage(n) == acl[n] = "Admin"

NobodyDenied(setting) == {}   \* mutant: the denied stay
Denied(setting) == {m \in Name \ {Owner} : setting[m] = "Deny"}

\* LocationRequest::AccessSet
AccessSet(n) ==
  /\ Selecting
  /\ n \in DOMAIN players
  /\ MayManage(n)
  /\ changes < MaxChanges
  /\ changes' = changes + 1
  /\ \E setting \in Settings, full \in Unreachable(players) :
       /\ acl' = setting
       /\ QuietRound([m \in DOMAIN players |->
                        [players[m] EXCEPT !.kind = KindOf(m, setting)]],
                     identifiers, present, Denied(setting) \cup (full \cap {n}), full)
  /\ UNCHANGED <<requests, nextId, given>>

\* The requests that are announced to everybody (an avatar, a chat message,
\* an announcement, a name), or answered to who made them.
Talk(n) ==
  /\ Selecting
  /\ n \in DOMAIN players
  /\ \E full \in Unreachable(players) :
       \E lost \in {full, full \cap {n}, full \ {n}} :
         QuietRound(players, identifiers, present, lost, full)
  /\ UNCHANGED <<acl, changes, requests, nextId, given>>

\* LocationRequest::Internal
AskController(n) ==
  /\ Selecting
  /\ n \in DOMAIN players
  /\ \E full \in Unreachable(players) : Round(players, identifiers, present, {}, full)
  /\ UNCHANGED <<acl, changes, requests, nextId, given>>

\* LocationRequest::Kick
Kick(n, target) ==
  /\ Selecting
  /\ {n, target} \subseteq DOMAIN players
  /\ MayManage(n)
  /\ \E full \in Unreachable(players) :
       Round(Restrict(players, DOMAIN players \ {target}),
             Restrict(identifiers, DOMAIN identifiers \ {players[target].id}),
             present \ {players[target].id}, full \cap {n}, full)
  /\ UNCHANGED <<acl, changes, requests, nextId, given>>

\* LocationRequest::Delete
Delete(n) ==
  /\ Selecting
  /\ n \in DOMAIN players
  /\ MayManage(n)
  /\ EndRound(players, identifiers, present,
              <<[kind |-> "Quit", to |-> 0]>>, {}, {})
  /\ UNCHANGED <<task, acl, changes, requests, nextId, given>>

\* Event::Quit: the server shuts down, or the endpoint is dropped.
Quit ==
  /\ Selecting
  /\ task' = "over"
  /\ UNCHANGED <<row, acl, changes, requests, table, output, outputs, delivered>>

Next ==
  \/ \E n \in Name :
       \/ Arrive(n) \/ HangUp(n)
       \/ Leave(n) \/ AccessSet(n) \/ Talk(n) \/ AskController(n) \/ Delete(n)
       \/ \E target \in Name : Kick(n, target)
  \/ Add \/ Ignore \/ Timer \/ Quit

Spec == Init /\ [][Next]_vars

-----------------------------------------------------------------------------
(* Properties.                                                             *)

\* Whoever is in the location can be reached by the id the controller knows
\* him by: through all comings and goings, kicks and failed sends, the three
\* tables of the task agree on the players that are inside.
PlayersAreKnown ==
  \A n \in DOMAIN players :
    /\ players[n].id \in present
    /\ players[n].id \in DOMAIN identifiers
    /\ identifiers[players[n].id] = n

\* Nobody stays in, or is treated as an administrator, against the access
\* setting in force, however he came in.
AccessIsEnforced ==
  \A n \in DOMAIN players : Welcome(n, acl) /\ players[n].kind = KindOf(n, acl)

\* "The backend can dispatch messages to all or select connected players and
\* the server infrastructure will provide proper routing": what reaches the
\* connection of a player who has come once was addressed to the id he was
\* given.  (Of one who left and came back the old id is still in the tables,
\* and reaches him too.)
CameOnce(n) == \A c, d \in DOMAIN joins : joins[c] = n /\ joins[d] = n => c = d

ProperRouting ==
  \A d \in delivered : CameOnce(joins[d[1]]) => d \in given

\* The tables of the task agree with one another and with the players' channels.
TablesAgree == TypeOK /\ PlayersAreKnown /\ ProperRouting
=============================================================================
