--------------------------- MODULE LocationStart ---------------------------
(***************************************************************************)
(* How a location on the server comes to run, and who gets into it:        *)
(* server/src/database/database_location_directory.rs, the loading and     *)
(* creating half of database/database_location.rs, and                     *)
(* directory/location_endpoint.rs.                                         *)
(*                                                                         *)
(* The directory is one task.  It serves requests in the order they come,  *)
(* keeps an endpoint per location in `active', and spawns a task where     *)
(* there is none.  A task reads the location's state, fetches its asset    *)
(* (collecting meanwhile the joins in its queue), and then runs; or it     *)
(* becomes a black hole, which takes joins and drops them; or it ends,     *)
(* which the directory notices at the next join only.  What a running      *)
(* location does with those inside is LocationTask's.                      *)
(*                                                                         *)
(* What is given to `tx.send(..)', and the future not awaited, is never    *)
(* sent: such a join is `dropped', and its player sees his channel close.  *)
(***************************************************************************)
EXTENDS Integers, Sequences, FiniteSets, Functions

CONSTANTS AssetPlace,  \* locations whose descriptor is an asset
          AppPlace,    \* locations whose descriptor is an application and a number
          Nowhere,     \* the location of a join that has none yet
          JoinCap,     \* places in an endpoint's channel: 100 in the code
          MaxJoins,    \* bound: joins in a behaviour
          MaxFailures, \* bound: failures of the database in a behaviour
          MaxErased    \* bound: locations erased in a behaviour

Place == AssetPlace \cup AppPlace
Join == 1..MaxJoins    \* in the order in which they are asked for
Task == Join           \* a task bears the number of the join that had it spawned

ASSUME PlaceAssumption == AssetPlace \cap AppPlace = {} /\ Nowhere \notin Place
ASSUME CapAssumption == JoinCap \in Nat \ {0}
ASSUME BoundAssumption == MaxJoins \in Nat /\ MaxFailures \in Nat /\ MaxErased \in Nat

VARIABLES
  directory, \* is the directory's loop running?
  requests,  \* the channel to the directory
  active,    \* location -> the task behind its endpoint
  stage,     \* task -> what it is doing
  home,      \* task -> its location
  queue,     \* task -> joins in the endpoint's channel
  waiting,   \* task -> joins collected while the asset is fetched
  rows,      \* the locations in the database
  erased,    \* the tasks whose row was deleted
  goal,      \* join -> the location it is for
  fate,      \* join -> what has become of it
  dying,     \* has the server been told to shut down?
  failures   \* failures of the database so far, for the bound

tasks == <<stage, home, queue, waiting>>
vars == <<directory, requests, active, tasks, rows, erased, goal, fate, dying, failures>>

Stage == {"unborn", "reading", "loading", "creating", "starting", "running", "hole", "ended"}
Fate == {"idle", "asking", "inside", "told", "stale", "dropped"}
Request ==
  [join : Join, kind : {"Create"}, place : AssetPlace]
    \cup [join : Join, kind : {"Join", "Redirect"}, place : Place]
    \cup [join : Join, kind : {"Application", "Unsupported"}, place : {Nowhere}]

TypeOK ==
  /\ directory \in {"serving", "over"}
  /\ requests \in Seq(Request)
  /\ DOMAIN active \subseteq Place /\ active \in [DOMAIN active -> Task]
  /\ stage \in [Task -> Stage]
  /\ home \in [Task -> Place \cup {Nowhere}]
  /\ \A i \in Task : stage[i] # "unborn" => home[i] \in Place
  /\ queue \in [Task -> Seq(Join)]
  /\ waiting \in [Task -> Seq(Join)]
  /\ rows \subseteq Place
  /\ erased \subseteq Task
  /\ goal \in [Join -> Place \cup {Nowhere}]
  /\ fate \in [Join -> Fate]
  /\ dying \in {"no", "yes"}
  /\ failures \in 0..MaxFailures

Init ==
  /\ directory = "serving"
  /\ requests = << >>
  /\ active = << >>
  /\ stage = [i \in Task |-> "unborn"]
  /\ home = [i \in Task |-> Nowhere]
  /\ queue = [i \in Task |-> << >>]
  /\ waiting = [i \in Task |-> << >>]
  /\ rows \in SUBSET Place
  /\ erased = {}
  /\ goal = [j \in Join |-> Nowhere]
  /\ fate = [j \in Join |-> "idle"]
  /\ dying = "no"
  /\ failures = 0

-----------------------------------------------------------------------------
Elements(q) == {q[k] : k \in 1..Len(q)}

\* The joins in S have ended so.
Settle(S, how) == fate' = [j \in Join |-> IF j \in S THEN how ELSE fate[j]]

\* A query of the database fails, or works.
QueryFails == failures < MaxFailures /\ failures' = failures + 1
QueryWorks == UNCHANGED failures

-----------------------------------------------------------------------------
(* A Client or Peer asks: start_join, and the request to the directory.    *)

Ask(r) ==
  /\ fate[r.join] = "idle" /\ \A j \in 1..r.join-1 : fate[j] # "idle"
  /\ Settle({r.join}, "asking")
  /\ goal' = [goal EXCEPT ![r.join] = r.place]
  /\ requests' = Append(requests, r)
  /\ UNCHANGED <<directory, active, tasks, rows, erased, dying, failures>>

-----------------------------------------------------------------------------
(* The directory's loop.                                                   *)

\* The request that is served, and the join that came with it.
Serving(j, kind, place) ==
  /\ directory = "serving"
  /\ requests # << >>
  /\ Head(requests) = [join |-> j, kind |-> kind, place |-> place]
  /\ requests' = Tail(requests)
  /\ UNCHANGED <<directory, erased, dying>>

Tell(j) ==
  /\ Settle({j}, "told")
  /\ UNCHANGED <<active, tasks>>

Removed(ends, place) == Restrict(ends, DOMAIN ends \ {place})

\* LocationEndpoint::join, and what the directory makes of its result.
JoinActive(j, place) ==
  LET i == active[place] IN
  \/ /\ stage[i] = "ended"
     /\ Settle({j}, "stale")
     /\ active' = Removed(active, place)
     /\ UNCHANGED tasks
  \/ /\ stage[i] # "ended" /\ Len(queue[i]) >= JoinCap
     /\ Tell(j)
  \/ /\ stage[i] # "ended" /\ Len(queue[i]) < JoinCap
     /\ queue' = [queue EXCEPT ![i] = Append(@, j)]
     /\ UNCHANGED <<active, stage, home, waiting, fate>>

\* An endpoint is made and put into the table, its task spawned, and the join
\* is the first in its channel.
Spawn(j, place, what) ==
  /\ active' = [p \in DOMAIN active \cup {place} |-> IF p = place THEN j ELSE active[p]]
  /\ stage' = [stage EXCEPT ![j] = what]
  /\ home' = [home EXCEPT ![j] = place]
  /\ queue' = [queue EXCEPT ![j] = <<j>>]
  /\ UNCHANGED <<waiting, fate>>

ServeUnsupported(j) ==
  /\ Serving(j, "Unsupported", Nowhere)
  /\ Tell(j)
  /\ QueryWorks
  /\ UNCHANGED <<rows, goal>>

AlwaysNew(place) == place \in Place   \* mutant: `contains_key' is forgotten
IsNew(place) == place \notin DOMAIN active

\* Create of an asset: the directory creates the location, loads it, or finds
\* it running.
ServeCreate(j, place) ==
  /\ Serving(j, "Create", place)
  /\ \/ IsNew(place) /\ QueryFails /\ Tell(j)
     \/ IsNew(place) /\ place \notin rows /\ QueryWorks /\ Spawn(j, place, "creating")
     \/ place \notin DOMAIN active /\ place \in rows /\ QueryWorks /\ Spawn(j, place, "reading")
     \/ place \in DOMAIN active /\ QueryWorks /\ JoinActive(j, place)
  /\ UNCHANGED <<rows, goal>>

Unused == AppPlace \ rows

\* Create of an application: a number is drawn that is not in the database,
\* and the location is there at once, or is a black hole.
ServeApplication(j) ==
  /\ Serving(j, "Application", Nowhere)
  /\ \E place \in Unused :
       /\ goal' = [goal EXCEPT ![j] = place]
       /\ \/ QueryWorks /\ Spawn(j, place, "starting") /\ rows' = rows \cup {place}
          \/ QueryFails /\ Spawn(j, place, "hole") /\ UNCHANGED rows

\* The directory's table goes, and with it every endpoint and the channel.
EndDirectory(told) ==
  /\ directory' = "over"
  /\ requests' = << >>
  /\ active' = << >>
  /\ fate' = [j \in Join |->
                IF j \in told THEN "told"
                ELSE IF \E k \in 1..Len(requests) : requests[k].join = j THEN "dropped"
                ELSE fate[j]]
  /\ UNCHANGED <<tasks, rows, erased, goal, dying>>

\* break 'main: no number can be found for a new application.
FailApplication(j) ==
  /\ directory = "serving"
  /\ requests # << >>
  /\ Head(requests) = [join |-> j, kind |-> "Application", place |-> Nowhere]
  /\ QueryFails \/ (Unused = {} /\ QueryWorks)
  /\ EndDirectory({j})

\* Join.  The owner in the request is a SharedRef::Shared if the controller of
\* another location sent the player here (`Redirect'), a SharedRef::Single if
\* the player asked; for the latter no location is loaded.
ServeJoin(j, kind, place) ==
  /\ Serving(j, kind, place)
  /\ \/ place \in DOMAIN active /\ QueryWorks /\ JoinActive(j, place)
     \/ place \notin DOMAIN active /\ QueryFails /\ Tell(j)
     \/ place \notin DOMAIN active /\ place \notin rows /\ QueryWorks /\ Tell(j)
     \/ /\ place \notin DOMAIN active /\ place \in rows /\ QueryWorks
        /\ \/ kind = "Redirect" /\ Spawn(j, place, "reading")
           \/ kind = "Join" /\ Settle({j}, "dropped") /\ UNCHANGED <<active, tasks>>
  /\ UNCHANGED <<rows, goal>>

\* Event::Quit
QuitDirectory ==
  /\ directory = "serving" /\ dying = "yes"
  /\ EndDirectory({})
  /\ QueryWorks

\* The channel to the directory is closed, and gives the join back.
SendFails ==
  /\ directory = "over" /\ requests # << >>
  /\ requests' = Tail(requests)
  /\ Tell(Head(requests).join)
  /\ UNCHANGED <<directory, rows, erased, goal, dying, failures>>

Serve ==
  \/ \E j \in Join :
       \/ ServeUnsupported(j) \/ ServeApplication(j) \/ FailApplication(j)
       \/ \E place \in AssetPlace : ServeCreate(j, place)
       \/ \E place \in Place, kind \in {"Join", "Redirect"} : ServeJoin(j, kind, place)
  \/ SendFails

-----------------------------------------------------------------------------
(* The tasks.                                                              *)

Moves(i, from, to) ==
  /\ stage[i] \in from
  /\ stage' = [stage EXCEPT ![i] = to]
  /\ UNCHANGED <<directory, requests, active, home, goal, dying>>

\* into_black_hole: the joins collected are dropped, those in the channel stay.
Collapse(i, from) ==
  /\ Moves(i, from, "hole")
  /\ Settle(Elements(waiting[i]), "dropped")
  /\ waiting' = [waiting EXCEPT ![i] = << >>]
  /\ UNCHANGED <<queue, rows, erased>>

\* The task returns, and with it goes the other end of its channel.
End(i, from) ==
  /\ Moves(i, from, "ended")
  /\ Settle(Elements(waiting[i]) \cup Elements(queue[i]), "dropped")
  /\ waiting' = [waiting EXCEPT ![i] = << >>]
  /\ queue' = [queue EXCEPT ![i] = << >>]
  /\ UNCHANGED <<rows, erased>>

Goes(i, from, to) ==
  /\ Moves(i, from, to)
  /\ UNCHANGED <<queue, waiting, erased, fate>>

\* load: the state is read; an application needs no asset.
Read(i) ==
  \/ /\ home[i] \in AssetPlace
     /\ QueryWorks /\ Goes(i, {"reading"}, "loading") /\ UNCHANGED rows
  \/ /\ home[i] \in AppPlace
     /\ QueryWorks /\ Goes(i, {"reading"}, "starting") /\ UNCHANGED rows
  \/ QueryFails /\ Collapse(i, {"reading"})

\* load_location: what was read is no state of an application.
Corrupt(i) == home[i] \in AppPlace /\ QueryWorks /\ Collapse(i, {"reading"})

\* find_asset

Fetching == {"loading", "creating"}

Collect(i) ==
  /\ stage[i] \in Fetching
  /\ dying = "no"
  /\ queue[i] # << >>
  /\ waiting' = [waiting EXCEPT ![i] = Append(@, Head(queue[i]))]
  /\ queue' = [queue EXCEPT ![i] = Tail(@)]
  /\ UNCHANGED <<directory, requests, active, stage, home, rows, erased, goal,
                 fate, dying, failures>>

Ephemeral(place) == rows   \* mutant: the new location is not written
Stored(place) == rows \cup {place}

\* The asset is there: the location is created, or its state is loaded.
Found(i) ==
  \/ QueryWorks /\ Goes(i, {"creating"}, "starting") /\ rows' = Stored(home[i])
  \/ QueryFails /\ Collapse(i, {"creating"})
  \/ QueryWorks /\ Goes(i, {"loading"}, "starting") /\ UNCHANGED rows
  \/ QueryWorks /\ Collapse(i, {"loading"})   \* the state is corrupt

\* The asset is no realm, or needs what this server does not have; or the
\* asset manager has gone.
Unusable(i) == QueryWorks /\ Collapse(i, Fetching)

\* The asset is not found, or not for fifteen minutes, or the server goes.
GiveUp(i) == QueryWorks /\ End(i, Fetching)

\* run: its settings are read before the loop.
Begin(i) ==
  \/ QueryWorks /\ Goes(i, {"starting"}, "running") /\ UNCHANGED rows
  \/ QueryFails /\ End(i, {"starting"})

NotPopped(q) == q   \* mutant: a join is looked at, and stays
Popped(q) == SubSeq(q, 1, Len(q) - 1)

\* The loop's Event::Add: those who waited come first, the last of them before
\* the others.  The access setting decides.
Take(i) ==
  /\ stage[i] = "running"
  /\ \E how \in {"inside", "told"} :
       \/ /\ waiting[i] # << >>
          /\ Settle({waiting[i][Len(waiting[i])]}, how)
          /\ waiting' = [waiting EXCEPT ![i] = Popped(@)]
          /\ UNCHANGED queue
       \/ /\ waiting[i] = << >> /\ queue[i] # << >> /\ dying = "no"
          /\ Settle({Head(queue[i])}, how)
          /\ queue' = [queue EXCEPT ![i] = Tail(@)]
          /\ UNCHANGED waiting
  /\ UNCHANGED <<directory, requests, active, stage, home, rows, erased, goal,
                 dying, failures>>

\* The location is deleted; its task goes on.
Erase(i) ==
  /\ stage[i] = "running"
  /\ i \notin erased
  /\ Cardinality(erased) < MaxErased
  /\ rows' = rows \ {home[i]}
  /\ erased' = erased \cup {i}
  /\ UNCHANGED <<directory, requests, active, tasks, goal, fate, dying, failures>>

Sated(i) == stage[i] = "unborn"   \* mutant: the black hole takes nothing
Swallows(i) == stage[i] = "hole" /\ dying = "no"

\* The loop of into_black_hole
Swallow(i) ==
  /\ Swallows(i)
  /\ queue[i] # << >>
  /\ Settle({Head(queue[i])}, "dropped")
  /\ queue' = [queue EXCEPT ![i] = Tail(@)]
  /\ UNCHANGED <<directory, requests, active, stage, home, waiting, rows, erased,
                 goal, dying, failures>>

\* The stream of joins ends: with the server, or when it is empty and nobody
\* holds the endpoint.
Stop(i) ==
  /\ waiting[i] = << >>
  /\ \/ dying = "yes"
     \/ queue[i] = << >> /\ \A place \in DOMAIN active : active[place] # i
  /\ QueryWorks
  /\ End(i, {"running", "hole"})

Die ==
  /\ dying = "no"
  /\ dying' = "yes"
  /\ UNCHANGED <<directory, requests, active, tasks, rows, erased, goal, fate, failures>>

Next ==
  \/ \E r \in Request : Ask(r)
  \/ Serve \/ QuitDirectory \/ Die
  \/ \E i \in Task :
       Read(i) \/ Corrupt(i) \/ Collect(i) \/ Found(i) \/ Unusable(i) \/ GiveUp(i)
         \/ Begin(i) \/ Take(i) \/ Erase(i) \/ Swallow(i) \/ Stop(i)

\* What a task does without being answered.
GoesOn(i) == Read(i) \/ GiveUp(i) \/ Begin(i) \/ Take(i) \/ Swallow(i) \/ Stop(i)

\* The executor polls what can go on, and fifteen minutes pass.
Fairness == WF_vars(Serve) /\ \A i \in Task : WF_vars(GoesOn(i))

SafeSpec == Init /\ [][Next]_vars
Spec == SafeSpec /\ Fairness

-----------------------------------------------------------------------------
(* Properties.                                                             *)

\* The tasks that are, or may become, a location with a row.
Live(i) == stage[i] \in {"reading", "loading", "creating", "starting", "running"}

\* A location never runs twice: two tasks would overwrite each other's state
\* in the one row.  (A task whose row was deleted is no danger to it: the
\* number of an erased application may be drawn again while it goes on.)
RunsOnce ==
  \A i, k \in Task \ erased :
    Live(i) /\ Live(k) /\ home[i] = home[k] => i = k

\* A running location is in the database, unless it was erased.
RunsFromTheDatabase ==
  \A i \in Task : stage[i] = "running" => i \in erased \/ home[i] \in rows

\* The directory, the endpoints and the tasks keep the promise of Admission.
Promise == INSTANCE Admission WITH
  Player <- Join,
  Unnamed <- Nowhere,
  state <- [j \in Join |-> CASE fate[j] \in {"told", "stale", "dropped"} -> "refused"
                             [] OTHER -> fate[j]],
  open <- {home[i] : i \in {k \in Task : stage[k] = "running"}}

\* A join is settled once, and admitted only to the location it was for,
\* while that runs.
AdmitsAsPromised == Promise!Init /\ [][Promise!Next]_Promise!vars

\* Nobody is left waiting: whatever fails, each join comes to an end.
EveryoneIsAnswered == Promise!Answered
=============================================================================
