----------------------------- MODULE Whereabouts ----------------------------
(***************************************************************************)
(* PlayerOnlineCheck and Activity: a player asks where another one is, or  *)
(* how lively the location is that he hosts.  The question goes from the   *)
(* asker's Client to the directory of players of his server or, by the     *)
(* entity of the other server (Peer) and its table of requests, to that of *)
(* the other one; what it says is up to the rules of the other server and  *)
(* of the player asked about, as they are when they are consulted.         *)
(*                                                                         *)
(* Everybody is asked about by one player, Asker, whose server is Home;    *)
(* the other server is Away.  The entries of questions at Home's Peer are  *)
(* TrackingMap's.  The channels never run full: they have 100 places and   *)
(* more, and there are a few questions.                                    *)
(***************************************************************************)
EXTENDS TrackingMap, AccessRules, FiniteSets

CONSTANTS Home, Away,     \* names of the servers
          Asker,          \* the player who asks
          Plans,          \* what is asked: a kind, and whom each question is about
          People,         \* the other players there are, by name and server
          Settings,       \* online access settings
          ServerSettings, \* access settings of the other server
          MaxChanges      \* bound on what changes while questions are asked

OnlineAccess == {"Location", "OnlineOnly", "Deny"}
SimpleAccess == {"Allow", "Deny"}

ASSUME ServerAssumption == Home # Away
ASSUME NumberedAssumption == Request \subseteq Nat   \* in the order they are asked
ASSUME PlansAssumption ==
  \A p \in Plans : \A r \in Request :
    /\ p.kind \in {"Online", "Activity"}
    /\ p.about[r].form \in {"Local", "Remote"}
    /\ p.about[r].form = "Remote" => p.about[r].server \in {Home, Away}
ASSUME PeopleAssumption == Remote(Home, Asker) \notin People
ASSUME ChangesAssumption == MaxChanges \in Nat
ASSUME SettingsAssumption ==
  \A kinds \in {<<Settings, OnlineAccess>>, <<ServerSettings, SimpleAccess>>} :
    \A s \in kinds[1] :
      /\ DOMAIN s.rules = 1..Len(s.rules) /\ Len(s.rules) \in Nat
      /\ s.default \in kinds[2]
      /\ \A i \in DOMAIN s.rules : s.rules[i].access \in kinds[2]

VARIABLES
  plan,     \* what is asked, in this behaviour: each kind has a table of its own
  at,       \* question -> where it is, or its answer
  reply,    \* question -> the answer on its way
  told,     \* question -> what the asker was told
  acl,      \* player -> online_acl
  server,   \* AccessManagement::access of the other server
  place,    \* player -> his Client's location; "none" if no Client runs
  changes,  \* changes so far, for the bound
  consulted \* question -> what the rules have said since it was asked

people == <<acl, server, place, changes>>
questions == <<at, reply, told>>
allVars == <<vars, plan, people, questions, consulted>>

Myself == Remote(Home, Asker)
kind == plan.kind

\* In transit (and under a host) is told like a location.
Where == {"Location", "Hosting"}
OnlineState == {"Unknown", "Invalid", "Offline", "Online"} \cup Where
Activity == {"Unknown", "Deserted", "Quiet"}

WhereaboutsTypeOK ==
  /\ TypeOK
  /\ plan \in Plans
  /\ at \in [Request -> {"unasked", "peer", "wire", "directory", "client", "back", "lost", "done"}]
  /\ reply \in [Request -> OnlineState \cup Activity \cup {"none"}]
  /\ told \in [Request -> OnlineState \cup Activity \cup {"none"}]
  /\ acl \in [People -> Settings]
  /\ server \in ServerSettings
  /\ place \in [People \cup {Myself} -> {"none", "NoWhere"} \cup Where]
  /\ consulted \in [Request -> SUBSET (OnlineAccess \cup SimpleAccess)]
  /\ changes \in 0..MaxChanges

\* The other server knows the asker by his server.
\* mutant: by his name alone
ByName == Local(Asker)
BySender == Remote(Home, Asker)

AskerAs(s) == IF s = Home THEN Local(Asker) ELSE BySender

Target(r) == Globalize(plan.about[r], Home)
Abroad(r) == Target(r).server = Away

\* What the rules would say of question r now.
Level(r) == Check(acl[Target(r)], AskerAs(Target(r).server), Target(r).server, now)
Admitted == Check(server, BySender, Away, now)

\* What the rules say of the asker, whoever the code takes him for, about the
\* questions in qs after this step.
Consulted(qs) ==
  consulted' = [r \in Request |->
    IF r \in qs /\ kind = "Online" /\ Target(r) \in People
      THEN consulted[r] \cup {Check(acl'[Target(r)], Myself, Target(r).server, now'),
                              Check(server', Myself, Away, now')}
      ELSE consulted[r]]
Untold == {r \in Request : at[r] # "unasked" /\ told[r] = "none"}

InitWhereabouts ==
  /\ Init
  /\ plan \in Plans
  /\ at = [r \in Request |-> "unasked"]
  /\ reply = [r \in Request |-> "none"]
  /\ told = [r \in Request |-> "none"]
  /\ \E setting \in Settings : acl = [p \in People |-> setting]
  /\ server \in ServerSettings
  /\ place = [p \in People \cup {Myself} |-> IF p = Myself THEN "NoWhere" ELSE "none"]
  /\ changes = 0
  /\ consulted = [r \in Request |-> {}]

-----------------------------------------------------------------------------
(* The Client of the asker.                                                *)

\* Location::get_state
StateOf(p) == IF place[p] = "NoWhere" THEN "Online" ELSE place[p]

\* What the host's endpoint tells of itself (atomic_activity.rs).
ActivityOf(p) == IF p \in DOMAIN place /\ place[p] = "Hosting" THEN {"Deserted", "Quiet"} ELSE {"Deserted"}

Waiting == {r \in Request : at[r] = "peer" \/ stage[r] = "waiting"}

ToDirectory(r) == at' = [at EXCEPT ![r] = "directory"] /\ UNCHANGED told
ToPeer(r) ==
  /\ Cardinality(Waiting) < IdSpace   \* a bound: 2^32 requests never wait
  /\ at' = [at EXCEPT ![r] = "peer"] /\ UNCHANGED told

Answered(r, what) ==
  /\ at' = [at EXCEPT ![r] = "done"]
  /\ told' = [told EXCEPT ![r] = what]

\* Of oneself one is told at once.
AskOnline(r) ==
  /\ kind = "Online"
  /\ LET target == Localize(plan.about[r], Home) IN
       \/ target = Local(Asker) /\ Answered(r, StateOf(Myself))
       \/ target.form = "Local" /\ target # Local(Asker) /\ ToDirectory(r)
       \/ target.form = "Remote" /\ ToPeer(r)

\* Every name, also one's own, goes to the directory.
AskActivity(r) ==
  /\ kind = "Activity"
  /\ IF Localize(plan.about[r], Home).form = "Local" THEN ToDirectory(r) ELSE ToPeer(r)

Ask(r) ==
  /\ at[r] = "unasked" /\ \A q \in Request : q < r => at[q] # "unasked"
  /\ AskOnline(r) \/ AskActivity(r)
  /\ UNCHANGED <<vars, plan, people, reply>>
  /\ Consulted({r})

-----------------------------------------------------------------------------
(* The entity of the other server, at Home.                                *)

\* The asker's side task: rx.await.unwrap_or(Unknown).
TellThose(whom, what) ==
  told' = [r \in Request |-> IF r \in whom THEN what
                             ELSE IF r \in Expired THEN "Unknown" ELSE told[r]]

PeerAsks(r) ==
  /\ at[r] = "peer"
  /\ Add(r)
  /\ at' = [at EXCEPT ![r] = "wire"]
  /\ TellThose({}, "none")
  /\ UNCHANGED <<plan, people, reply, consulted>>

PeerHears(m) ==
  /\ at[m.request] = "back"
  /\ Finish(m)
  /\ at' = [at EXCEPT ![m.request] = "done"]
  /\ TellThose(Told(m), reply[m.request])
  /\ reply' = [reply EXCEPT ![m.request] = "none"]
  /\ UNCHANGED <<plan, people, consulted>>

PeerIsBusy ==
  /\ OtherEvent
  /\ TellThose({}, "none")
  /\ UNCHANGED <<plan, people, at, reply, consulted>>

\* A message is lost with its connection.
Lose(r) ==
  /\ at[r] \in {"wire", "back"}
  /\ at' = [at EXCEPT ![r] = "lost"]
  /\ reply' = [reply EXCEPT ![r] = "none"]
  /\ UNCHANGED <<vars, plan, people, told, consulted>>

-----------------------------------------------------------------------------
(* Where the question is answered.                                         *)

\* The answer goes back the way the question came.
Answer(r, what) ==
  /\ IF Abroad(r)
       THEN /\ at' = [at EXCEPT ![r] = "back"]
            /\ reply' = [reply EXCEPT ![r] = what]
            /\ UNCHANGED told
       ELSE Answered(r, what) /\ UNCHANGED reply
  /\ UNCHANGED <<vars, plan, people, consulted>>

Forward(r, to) ==
  /\ at' = [at EXCEPT ![r] = to]
  /\ UNCHANGED <<vars, plan, people, reply, told, consulted>>

\* mutant: who is not admitted is not answered
Ignored(r) == Forward(r, "done")
Rebuffed(r) == Answer(r, "Unknown")

\* The other server's Peer: activity is for everybody.
HostActivityRequest(r) == kind = "Activity" /\ Forward(r, "directory")
OnlineStatusRequest(r) ==
  /\ kind = "Online"
  /\ IF Admitted = "Allow" THEN Forward(r, "directory") ELSE Rebuffed(r)
PeerReceives(r) == at[r] = "wire" /\ (HostActivityRequest(r) \/ OnlineStatusRequest(r))

\* The directory of players: without a Client, the row tells (or fails to).
DirectoryChecks(r) ==
  /\ at[r] = "directory"
  /\ \/ /\ kind = "Activity"
        /\ \E what \in ActivityOf(Target(r)) : Answer(r, what)
     \/ /\ kind = "Online" /\ Target(r) \notin People
        /\ \E what \in {"Invalid", "Unknown"} : Answer(r, what)
     \/ /\ kind = "Online" /\ Target(r) \in People /\ place[Target(r)] # "none"
        /\ Forward(r, "client")
     \/ /\ kind = "Online" /\ Target(r) \in People /\ place[Target(r)] = "none"
        /\ \E what \in {IF Level(r) = "Deny" THEN "Unknown" ELSE "Offline", "Unknown"} : Answer(r, what)

\* PlayerRequest::Check
ClientChecks(r) ==
  /\ at[r] = "client"
  /\ Answer(r, CASE Level(r) = "Location" -> StateOf(Target(r))
                 [] Level(r) = "OnlineOnly" -> "Online"
                 [] OTHER -> "Unknown")

-----------------------------------------------------------------------------
(* What changes meanwhile.                                                 *)

Changes ==
  /\ changes < MaxChanges
  /\ changes' = changes + 1
  /\ UNCHANGED <<vars, plan, questions>>

SetAccess(p, setting) ==
  /\ Changes
  /\ acl' = [acl EXCEPT ![p] = setting]
  /\ UNCHANGED <<server, place>>
  /\ Consulted(Untold)

SetServerAccess(setting) ==
  /\ Changes
  /\ server' = setting
  /\ UNCHANGED <<acl, place>>
  /\ Consulted(Untold)

\* A Client starts with the first connection and stays; then its player moves.
Move(p, to) ==
  /\ Changes
  /\ place[p] = "none" => to = "NoWhere"
  /\ place' = [place EXCEPT ![p] = to]
  /\ UNCHANGED <<acl, server, consulted>>

TimePasses == Tick /\ UNCHANGED <<plan, people, questions>> /\ Consulted(Untold)

Proceed(r) ==
  \/ PeerAsks(r) \/ PeerReceives(r) \/ DirectoryChecks(r) \/ ClientChecks(r)
  \/ \E m \in sent : m.request = r /\ PeerHears(m)

NextWhereabouts ==
  \/ \E r \in Request : Ask(r) \/ Lose(r) \/ Proceed(r)
  \/ PeerIsBusy \/ TimePasses
  \/ \E p \in People, setting \in Settings : SetAccess(p, setting)
  \/ \E setting \in ServerSettings : SetServerAccess(setting)
  \/ \E p \in People \cup {Myself}, to \in {"NoWhere"} \cup Where : Move(p, to)

\* The runtime polls the tasks that have something to do.
SpecWhereabouts ==
  /\ InitWhereabouts /\ [][NextWhereabouts]_allVars
  /\ \A r \in Request : WF_allVars(Proceed(r))

-----------------------------------------------------------------------------
(* Properties.                                                             *)

\* What somebody is told of a player he was allowed to know at some moment
\* since he asked, by the rules of the player and, from another server, by
\* those of the player's server; and neither the ways the question went nor
\* a change, a move or the end of a rule in between let him know more.
\* (While identifiers are not used again.)
ToldAsAllowed ==
  /\ WhereaboutsTypeOK
  /\ \A r \in Request :
       made <= IdSpace /\ kind = "Online" /\ at[r] # "unasked" /\ Target(r) \in People =>
         /\ told[r] \in Where => "Location" \in consulted[r]
         /\ told[r] = "Online" => consulted[r] \cap {"Location", "OnlineOnly"} # {}
         /\ told[r] = "Offline" => consulted[r] \cap {"Location", "OnlineOnly"} # {}
         /\ told[r] \in Where \cup {"Online", "Offline"} /\ Abroad(r) => "Allow" \in consulted[r]

\* Whoever asks is told something, unless a message is lost: then he waits for
\* the first event of the other server's entity after his question has expired.
EverybodyIsTold ==
  \A r \in Request : at[r] # "unasked" ~> (told[r] # "none" \/ at[r] = "lost")
=============================================================================
