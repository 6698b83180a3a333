------------------------ MODULE LocationStartProofs ------------------------
(***************************************************************************)
(* Proofs about LocationStart, for any number of joins and locations.      *)
(*                                                                         *)
(* Why a location runs once: as long as the directory serves, each task    *)
(* that may write to a row is the one its endpoint in the table leads to   *)
(* (`Reachable'); a task is spawned only for a location the table does not *)
(* have, or under a number the database does not have (`RowKept': a task   *)
(* whose row was not deleted keeps its number taken); and once the         *)
(* directory is over nothing is spawned.                                   *)
(*                                                                         *)
(* Why Admission is implemented: a join waits in one place at most         *)
(* (`Waiting'), and an endpoint leads to a task of its own location        *)
(* (`EndpointsLead'), so that whoever settles joins settles each once.     *)
(***************************************************************************)
EXTENDS LocationStart, SequenceTheorems, TLAPS

Bound(i) == Live(i) /\ i \notin erased

Reachable ==
  directory = "serving" =>
    \A i \in Task : Bound(i) => home[i] \in DOMAIN active /\ active[home[i]] = i

RowKept ==
  \A i \in Task : Bound(i) =>
    home[i] \in rows \/ (stage[i] = "creating" /\ home[i] \in AssetPlace)

Tables == Reachable /\ RunsOnce /\ RowKept

-----------------------------------------------------------------------------
(* Type correctness.                                                       *)

LEMMA ElementsInRange ==
  ASSUME NEW S, NEW q \in Seq(S)
  PROVE  Elements(q) \subseteq S
BY DEF Elements

LEMMA RemovedEndpoint ==
  ASSUME NEW place, DOMAIN active \subseteq Place, active \in [DOMAIN active -> Task]
  PROVE  /\ DOMAIN Removed(active, place) = DOMAIN active \ {place}
         /\ Removed(active, place) \in [DOMAIN active \ {place} -> Task]
         /\ \A p \in DOMAIN active \ {place} : Removed(active, place)[p] = active[p]
BY DEF Removed, Restrict

LEMMA TypeInit == Init => TypeOK
BY PlaceAssumption, BoundAssumption DEF Init, TypeOK, Place, Task, Join, Stage, Fate, Request

\* A join that has ended is still accounted for.
LEMMA SettleType ==
  ASSUME TypeOK, NEW S, NEW how \in Fate, Settle(S, how)
  PROVE  fate' \in [Join -> Fate]
BY DEF TypeOK, Settle

LEMMA QueryType ==
  ASSUME TypeOK, QueryFails \/ QueryWorks
  PROVE  failures' \in 0..MaxFailures
BY BoundAssumption DEF TypeOK, QueryFails, QueryWorks

\* The part of the state that the tasks share with the directory.
TablesTyped ==
  /\ DOMAIN active \subseteq Place /\ active \in [DOMAIN active -> Task]
  /\ stage \in [Task -> Stage]
  /\ home \in [Task -> Place \cup {Nowhere}]
  /\ \A i \in Task : stage[i] # "unborn" => home[i] \in Place
  /\ queue \in [Task -> Seq(Join)]
  /\ waiting \in [Task -> Seq(Join)]
  /\ fate \in [Join -> Fate]

LEMMA TellType ==
  ASSUME TypeOK, NEW j \in Join, Tell(j)
  PROVE  TablesTyped'
BY SettleType DEF Tell, TypeOK, TablesTyped, tasks, Fate

LEMMA SpawnType ==
  ASSUME TypeOK, NEW j \in Join, NEW place \in Place, NEW what \in Stage, Spawn(j, place, what)
  PROVE  TablesTyped'
<1>1. DOMAIN active' \subseteq Place /\ active' \in [DOMAIN active' -> Task]
  BY DEF Spawn, TypeOK, Task
<1>2. queue' \in [Task -> Seq(Join)]
  <2>1. <<j>> \in Seq(Join)
    OBVIOUS
  <2> QED BY <2>1 DEF Spawn, TypeOK, Task
<1>3. stage' \in [Task -> Stage] /\ home' \in [Task -> Place \cup {Nowhere}]
  BY DEF Spawn, TypeOK, Task
<1> QED BY <1>1, <1>2, <1>3 DEF Spawn, TypeOK, TablesTyped

LEMMA JoinActiveType ==
  ASSUME TypeOK, NEW j \in Join, NEW place \in DOMAIN active, JoinActive(j, place)
  PROVE  TablesTyped'
<1> DEFINE i == active[place]
<1>1. i \in Task
  BY DEF TypeOK
<1>2. CASE stage[i] = "ended" /\ Settle({j}, "stale") /\ active' = Removed(active, place) /\ UNCHANGED tasks
  BY <1>2, SettleType, RemovedEndpoint DEF TypeOK, TablesTyped, tasks, Fate
<1>3. CASE Tell(j)
  BY <1>3, TellType
<1>4. CASE /\ queue' = [queue EXCEPT ![i] = Append(@, j)]
           /\ UNCHANGED <<active, stage, home, waiting, fate>>
  BY <1>1, <1>4 DEF TypeOK, TablesTyped
<1> QED BY <1>2, <1>3, <1>4 DEF JoinActive

LEMMA ServingType ==
  ASSUME TypeOK, NEW j, NEW kind, NEW place, Serving(j, kind, place)
  PROVE  /\ directory' \in {"serving", "over"} /\ requests' \in Seq(Request)
         /\ erased' \subseteq Task /\ dying' \in {"no", "yes"}
BY DEF TypeOK, Serving

LEMMA EndDirectoryType ==
  ASSUME TypeOK, NEW told, EndDirectory(told), QueryFails \/ QueryWorks
  PROVE  TypeOK'
<1>1. fate' \in [Join -> Fate]
  BY DEF EndDirectory, TypeOK, Fate
<1>2. requests' \in Seq(Request) /\ DOMAIN active' \subseteq Place /\ active' \in [DOMAIN active' -> Task]
  BY DEF EndDirectory
<1> QED BY <1>1, <1>2, QueryType DEF EndDirectory, TypeOK, tasks

LEMMA ServeType ==
  ASSUME TypeOK, Serve
  PROVE  TypeOK'
<1>1. ASSUME NEW j \in Join, ServeUnsupported(j) PROVE TypeOK'
  BY <1>1, ServingType, TellType, QueryType DEF ServeUnsupported, TypeOK, TablesTyped
<1>2. ASSUME NEW j \in Join, NEW place \in AssetPlace, ServeCreate(j, place) PROVE TypeOK'
  <2>1. place \in Place
    BY DEF Place
  <2>2. TablesTyped'
    <3>1. CASE Tell(j)
      BY <3>1, TellType
    <3>2. CASE Spawn(j, place, "creating") \/ Spawn(j, place, "reading")
      BY <2>1, <3>2, SpawnType DEF Stage
    <3>3. CASE place \in DOMAIN active /\ JoinActive(j, place)
      BY <3>3, JoinActiveType
    <3> QED BY <1>2, <3>1, <3>2, <3>3 DEF ServeCreate
  <2>3. failures' \in 0..MaxFailures
    BY <1>2, QueryType DEF ServeCreate
  <2> QED BY <1>2, <2>2, <2>3, ServingType DEF ServeCreate, TypeOK, TablesTyped
<1>3. ASSUME NEW j \in Join, ServeApplication(j) PROVE TypeOK'
  <2>1. PICK place \in Unused :
          /\ goal' = [goal EXCEPT ![j] = place]
          /\ \/ QueryWorks /\ Spawn(j, place, "starting") /\ rows' = rows \cup {place}
             \/ QueryFails /\ Spawn(j, place, "hole") /\ UNCHANGED rows
    BY <1>3 DEF ServeApplication
  <2>2. place \in Place
    BY DEF Unused, Place
  <2>3. TablesTyped'
    BY <2>1, <2>2, SpawnType DEF Stage
  <2>4. goal' \in [Join -> Place \cup {Nowhere}] /\ rows' \subseteq Place
    BY <2>1, <2>2 DEF TypeOK
  <2>5. failures' \in 0..MaxFailures
    BY <2>1, QueryType
  <2> QED BY <1>3, <2>3, <2>4, <2>5, ServingType DEF ServeApplication, TypeOK, TablesTyped
<1>4. ASSUME NEW j \in Join, FailApplication(j) PROVE TypeOK'
  BY <1>4, EndDirectoryType DEF FailApplication
<1>5. ASSUME NEW j \in Join, NEW place \in Place, NEW kind, ServeJoin(j, kind, place) PROVE TypeOK'
  <2>1. TablesTyped'
    <3>1. CASE Tell(j)
      BY <3>1, TellType
    <3>2. CASE Spawn(j, place, "reading")
      BY <3>2, SpawnType DEF Stage
    <3>3. CASE place \in DOMAIN active /\ JoinActive(j, place)
      BY <3>3, JoinActiveType
    <3>4. CASE Settle({j}, "dropped") /\ UNCHANGED <<active, tasks>>
      BY <3>4, SettleType DEF TypeOK, TablesTyped, tasks, Fate
    <3> QED BY <1>5, <3>1, <3>2, <3>3, <3>4 DEF ServeJoin
  <2>2. failures' \in 0..MaxFailures
    BY <1>5, QueryType DEF ServeJoin
  <2> QED BY <1>5, <2>1, <2>2, ServingType DEF ServeJoin, TypeOK, TablesTyped
<1>6. CASE SendFails
  <2>1. requests' \in Seq(Request) /\ Head(requests) \in Request
    BY <1>6 DEF SendFails, TypeOK
  <2>2. Head(requests).join \in Join
    BY <2>1 DEF Request
  <2>3. TablesTyped'
    BY <1>6, <2>2, TellType DEF SendFails
  <2> QED BY <1>6, <2>1, <2>3 DEF SendFails, TypeOK, TablesTyped
<1> QED BY <1>1, <1>2, <1>3, <1>4, <1>5, <1>6 DEF Serve

\* The moves of a task.
LEMMA MovesType ==
  ASSUME TypeOK, NEW i \in Task, NEW from, NEW to \in Stage, Moves(i, from, to), "unborn" \notin from
  PROVE  /\ stage' \in [Task -> Stage] /\ (\A k \in Task : stage'[k] # "unborn" => home'[k] \in Place)
         /\ directory' \in {"serving", "over"}
         /\ requests' \in Seq(Request)
         /\ DOMAIN active' \subseteq Place /\ active' \in [DOMAIN active' -> Task]
         /\ home' \in [Task -> Place \cup {Nowhere}] /\ goal' \in [Join -> Place \cup {Nowhere}]
         /\ dying' \in {"no", "yes"}
BY DEF TypeOK, Moves

LEMMA CollapseType ==
  ASSUME TypeOK, NEW i \in Task, NEW from, "unborn" \notin from, Collapse(i, from), QueryFails \/ QueryWorks
  PROVE  TypeOK'
<1>1. Moves(i, from, "hole") /\ Settle(Elements(waiting[i]), "dropped")
  BY DEF Collapse
<1>2. fate' \in [Join -> Fate]
  BY <1>1, SettleType DEF Fate
<1>3. waiting' \in [Task -> Seq(Join)]
  BY DEF Collapse, TypeOK
<1> QED BY <1>1, <1>2, <1>3, MovesType, QueryType DEF Collapse, TypeOK, Stage

LEMMA EndType ==
  ASSUME TypeOK, NEW i \in Task, NEW from, "unborn" \notin from, End(i, from), QueryFails \/ QueryWorks
  PROVE  TypeOK'
<1>1. Moves(i, from, "ended") /\ Settle(Elements(waiting[i]) \cup Elements(queue[i]), "dropped")
  BY DEF End
<1>2. fate' \in [Join -> Fate]
  BY <1>1, SettleType DEF Fate
<1>3. waiting' \in [Task -> Seq(Join)] /\ queue' \in [Task -> Seq(Join)]
  BY DEF End, TypeOK
<1> QED BY <1>1, <1>2, <1>3, MovesType, QueryType DEF End, TypeOK, Stage

LEMMA GoesType ==
  ASSUME TypeOK, NEW i \in Task, NEW from, NEW to \in Stage, "unborn" \notin from, Goes(i, from, to),
         QueryFails \/ QueryWorks, rows' \subseteq Place
  PROVE  TypeOK'
BY MovesType, QueryType DEF Goes, TypeOK

LEMMA TaskType ==
  ASSUME TypeOK, NEW i \in Task,
         Read(i) \/ Corrupt(i) \/ Collect(i) \/ Found(i) \/ Unusable(i) \/ GiveUp(i)
           \/ Begin(i) \/ Take(i) \/ Erase(i) \/ Swallow(i) \/ Stop(i)
  PROVE  TypeOK'
<1>1. CASE Read(i) \/ Corrupt(i)
  BY <1>1, GoesType, CollapseType DEF Read, Corrupt, Stage, TypeOK
<1>2. CASE Collect(i)
  <2>1. Head(queue[i]) \in Join /\ Tail(queue[i]) \in Seq(Join)
    BY <1>2 DEF Collect, TypeOK
  <2>2. queue' \in [Task -> Seq(Join)] /\ waiting' \in [Task -> Seq(Join)]
    BY <1>2, <2>1 DEF Collect, TypeOK
  <2> QED BY <1>2, <2>2 DEF Collect, TypeOK
<1>3. CASE Found(i)
  <2>1. CASE QueryWorks /\ Goes(i, {"creating"}, "starting") /\ rows' = Stored(home[i])
    <3>1. home[i] \in Place
      BY <2>1 DEF Goes, Moves, TypeOK
    <3> QED BY <2>1, <3>1, GoesType DEF Stored, Stage, TypeOK
  <2> QED BY <1>3, <2>1, GoesType, CollapseType DEF Found, Stage, TypeOK
<1>4. CASE Unusable(i) \/ GiveUp(i)
  BY <1>4, CollapseType, EndType DEF Unusable, GiveUp, Fetching
<1>5. CASE Begin(i)
  BY <1>5, GoesType, EndType DEF Begin, Stage, TypeOK
<1>6. CASE Take(i)
  <2>1. PICK how \in {"inside", "told"} :
          \/ /\ waiting[i] # << >>
             /\ Settle({waiting[i][Len(waiting[i])]}, how)
             /\ waiting' = [waiting EXCEPT ![i] = Popped(@)]
             /\ UNCHANGED queue
          \/ /\ waiting[i] = << >> /\ queue[i] # << >> /\ dying = "no"
             /\ Settle({Head(queue[i])}, how)
             /\ queue' = [queue EXCEPT ![i] = Tail(@)]
             /\ UNCHANGED waiting
    BY <1>6 DEF Take
  <2>2. fate' \in [Join -> Fate]
    BY <2>1, SettleType DEF Fate
  <2>3. waiting[i] # << >> => Popped(waiting[i]) \in Seq(Join)
    BY DEF Popped, TypeOK
  <2>4. queue[i] # << >> => Tail(queue[i]) \in Seq(Join)
    BY DEF TypeOK
  <2>5. CASE waiting[i] # << >> /\ waiting' = [waiting EXCEPT ![i] = Popped(@)] /\ UNCHANGED queue
    <3>1. waiting' \in [Task -> Seq(Join)] /\ queue' \in [Task -> Seq(Join)]
      BY <2>3, <2>5 DEF TypeOK
    <3> QED BY <1>6, <2>2, <3>1 DEF Take, TypeOK
  <2>6. CASE queue[i] # << >> /\ queue' = [queue EXCEPT ![i] = Tail(@)] /\ UNCHANGED waiting
    <3>1. waiting' \in [Task -> Seq(Join)] /\ queue' \in [Task -> Seq(Join)]
      BY <2>4, <2>6 DEF TypeOK
    <3> QED BY <1>6, <2>2, <3>1 DEF Take, TypeOK
  <2> QED BY <2>1, <2>5, <2>6
<1>7. CASE Erase(i)
  BY <1>7 DEF Erase, TypeOK, tasks
<1>8. CASE Swallow(i)
  <2>1. fate' \in [Join -> Fate]
    BY <1>8, SettleType DEF Swallow, Fate
  <2>2. queue[i] # << >> => Tail(queue[i]) \in Seq(Join)
    BY DEF TypeOK
  <2>3. queue' \in [Task -> Seq(Join)]
    BY <1>8, <2>2 DEF Swallow, TypeOK
  <2> QED BY <1>8, <2>1, <2>3 DEF Swallow, TypeOK
<1>9. CASE Stop(i)
  BY <1>9, EndType DEF Stop
<1> QED BY <1>1, <1>2, <1>3, <1>4, <1>5, <1>6, <1>7, <1>8, <1>9

LEMMA TypeStep == TypeOK /\ [Next]_vars => TypeOK'
<1> SUFFICES ASSUME TypeOK, [Next]_vars PROVE TypeOK'
  OBVIOUS
<1>1. ASSUME NEW r \in Request, Ask(r) PROVE TypeOK'
  <2>1. r.join \in Join /\ r.place \in Place \cup {Nowhere}
    BY DEF Request, Place
  <2>2. fate' \in [Join -> Fate]
    BY <1>1, SettleType DEF Ask, Fate
  <2>3. goal' \in [Join -> Place \cup {Nowhere}] /\ requests' \in Seq(Request)
    BY <1>1, <2>1 DEF Ask, TypeOK
  <2> QED BY <1>1, <2>2, <2>3 DEF Ask, TypeOK, tasks
<1>2. CASE QuitDirectory
  BY <1>2, EndDirectoryType DEF QuitDirectory
<1>3. CASE Die \/ UNCHANGED vars
  BY <1>3 DEF Die, vars, tasks, TypeOK
<1> QED BY <1>1, <1>2, <1>3, ServeType, TaskType DEF Next

\* Every variable keeps its type.
THEOREM TypeCorrect == Spec => []TypeOK
BY TypeInit, TypeStep, PTL DEF Spec, SafeSpec

-----------------------------------------------------------------------------
(* A location runs once, and runs from the database.                       *)

LEMMA TablesInit == Init => Tables
BY DEF Init, Tables, Reachable, RunsOnce, RowKept, Bound, Live

\* What a task does by itself: it may lose its row or become less than Bound,
\* and a created location is written before it starts.
LEMMA SameTables ==
  ASSUME TypeOK, Tables,
         active' = active, home' = home, erased \subseteq erased',
         directory' = directory,
         \A i \in Task : Bound(i)' => Bound(i),
         \A i \in Task : Bound(i)' =>
           home[i] \in rows' \/ (stage'[i] = "creating" /\ home[i] \in AssetPlace)
  PROVE  Tables'
<1>1. Reachable'
  BY DEF Tables, Reachable
<1>2. RunsOnce'
  BY DEF Tables, RunsOnce, Bound
<1>3. RowKept'
  BY DEF RowKept
<1> QED BY <1>1, <1>2, <1>3 DEF Tables

\* An endpoint that leads to a task which has ended may go.
LEMMA JoinActiveTables ==
  ASSUME TypeOK, Tables, directory = "serving",
         NEW j \in Join, NEW place \in DOMAIN active, JoinActive(j, place),
         UNCHANGED <<directory, rows, erased>>
  PROVE  Tables'
<1> DEFINE i == active[place]
<1>1. CASE stage[i] = "ended" /\ active' = Removed(active, place) /\ UNCHANGED tasks
  <2>1. \A k \in Task : Bound(k) => home[k] # place
    BY <1>1 DEF Tables, Reachable, Bound, Live
  <2>2. /\ DOMAIN active' = DOMAIN active \ {place}
        /\ \A p \in DOMAIN active \ {place} : active'[p] = active[p]
    BY <1>1, RemovedEndpoint DEF TypeOK
  <2>3. /\ \A k \in Task : Bound(k)' => Bound(k)
        /\ stage' = stage /\ home' = home /\ directory' = directory
    BY <1>1 DEF Bound, Live, tasks
  <2>4. Reachable'
    BY <2>1, <2>2, <2>3 DEF Tables, Reachable
  <2> QED BY <1>1, <2>3, <2>4 DEF Tables, RunsOnce, RowKept, Bound, Live
<1>2. CASE UNCHANGED <<active, stage, home>>
  BY <1>2 DEF Tables, Reachable, RunsOnce, RowKept, Bound, Live
<1> QED BY <1>1, <1>2 DEF JoinActive, Tell, tasks

\* A task is spawned where no task is bound to the row.
LEMMA SpawnTables ==
  ASSUME TypeOK, Tables, directory = "serving",
         NEW j \in Join, NEW place \in Place, NEW what \in Stage, Spawn(j, place, what),
         \A i \in Task : Bound(i) => home[i] # place,
         what = "hole" \/ place \in rows' \/ (what = "creating" /\ place \in AssetPlace),
         rows \subseteq rows',
         UNCHANGED <<directory, erased>>
  PROVE  Tables'
<1>1. /\ j \in Task
      /\ \A i \in Task : stage'[i] = IF i = j THEN what ELSE stage[i]
      /\ \A i \in Task : home'[i] = IF i = j THEN place ELSE home[i]
      /\ DOMAIN active' = DOMAIN active \cup {place}
      /\ active'[place] = j
      /\ \A p \in DOMAIN active \ {place} : active'[p] = active[p]
  BY DEF Spawn, TypeOK, Task
<1>2. \A i \in Task \ {j} : Bound(i)' => Bound(i) /\ home'[i] = home[i] /\ home[i] # place
  BY <1>1 DEF Bound, Live
<1>3. Reachable'
  BY <1>1, <1>2 DEF Tables, Reachable
<1>4. RunsOnce'
  BY <1>1, <1>2 DEF Tables, RunsOnce, Bound
<1>5. RowKept'
  BY <1>1, <1>2 DEF Tables, RowKept, Bound, Live
<1> QED BY <1>3, <1>4, <1>5 DEF Tables

LEMMA Unlisted ==
  ASSUME Tables, directory = "serving", NEW place, place \notin DOMAIN active
  PROVE  \A i \in Task : Bound(i) => home[i] # place
BY DEF Tables, Reachable

LEMMA EndDirectoryTables ==
  ASSUME TypeOK, Tables, NEW told, EndDirectory(told)
  PROVE  Tables'
BY DEF EndDirectory, tasks, Tables, Reachable, RunsOnce, RowKept, Bound, Live

LEMMA ServeTables ==
  ASSUME TypeOK, Tables, Serve
  PROVE  Tables'
<1>1. ASSUME NEW j \in Join, ServeUnsupported(j) PROVE Tables'
  BY <1>1 DEF ServeUnsupported, Serving, Tell, tasks, Tables, Reachable, RunsOnce, RowKept, Bound, Live
<1>2. ASSUME NEW j \in Join, NEW place \in AssetPlace, ServeCreate(j, place) PROVE Tables'
  <2>1. directory = "serving" /\ UNCHANGED <<directory, rows, erased>> /\ place \in Place
    BY <1>2 DEF ServeCreate, Serving, Place
  <2>2. CASE Tell(j)
    BY <2>1, <2>2 DEF Tell, tasks, Tables, Reachable, RunsOnce, RowKept, Bound, Live
  <2>3. CASE place \notin DOMAIN active /\ Spawn(j, place, "creating")
    BY <2>1, <2>3, Unlisted, SpawnTables DEF Stage
  <2>4. CASE place \notin DOMAIN active /\ place \in rows /\ Spawn(j, place, "reading")
    BY <2>1, <2>4, Unlisted, SpawnTables DEF Stage
  <2>5. CASE place \in DOMAIN active /\ JoinActive(j, place)
    BY <2>1, <2>5, JoinActiveTables
  <2> QED BY <1>2, <2>2, <2>3, <2>4, <2>5 DEF ServeCreate, IsNew
<1>3. ASSUME NEW j \in Join, ServeApplication(j) PROVE Tables'
  <2>1. PICK place \in Unused :
          \/ Spawn(j, place, "starting") /\ rows' = rows \cup {place}
          \/ Spawn(j, place, "hole") /\ UNCHANGED rows
    BY <1>3 DEF ServeApplication
  <2>2. place \in Place /\ place \notin AssetPlace /\ place \notin rows
    BY PlaceAssumption DEF PlaceAssumption, Unused, Place
  <2>3. \A i \in Task : Bound(i) => home[i] # place
    BY <2>2 DEF Tables, RowKept
  <2> QED BY <1>3, <2>1, <2>2, <2>3, SpawnTables DEF ServeApplication, Serving, Stage
<1>4. ASSUME NEW j \in Join, FailApplication(j) PROVE Tables'
  BY <1>4, EndDirectoryTables DEF FailApplication
<1>5. ASSUME NEW j \in Join, NEW place \in Place, NEW kind, ServeJoin(j, kind, place) PROVE Tables'
  <2>1. directory = "serving" /\ UNCHANGED <<directory, rows, erased>>
    BY <1>5 DEF ServeJoin, Serving
  <2>2. CASE UNCHANGED <<active, tasks>>
    BY <2>1, <2>2 DEF tasks, Tables, Reachable, RunsOnce, RowKept, Bound, Live
  <2>3. CASE place \notin DOMAIN active /\ place \in rows /\ Spawn(j, place, "reading")
    BY <2>1, <2>3, Unlisted, SpawnTables DEF Stage
  <2>4. CASE place \in DOMAIN active /\ JoinActive(j, place)
    BY <2>1, <2>4, JoinActiveTables
  <2> QED BY <1>5, <2>2, <2>3, <2>4 DEF ServeJoin, Tell
<1>6. CASE SendFails
  BY <1>6 DEF SendFails, Tell, tasks, Tables, Reachable, RunsOnce, RowKept, Bound, Live
<1> QED BY <1>1, <1>2, <1>3, <1>4, <1>5, <1>6 DEF Serve

\* A task that gets no nearer to its row: it falls back to where it is no
\* longer Live.
LEMMA FallTables ==
  ASSUME TypeOK, Tables, NEW i \in Task, NEW from, NEW to \in {"hole", "ended"},
         Moves(i, from, to), UNCHANGED <<rows, erased>>
  PROVE  Tables'
<1>1. \A k \in Task : stage'[k] = IF k = i THEN to ELSE stage[k]
  BY DEF Moves, TypeOK
<1>2. \A k \in Task : Bound(k)' => Bound(k) /\ stage'[k] = stage[k]
  BY <1>1 DEF Bound, Live
<1> QED BY <1>2, SameTables DEF Moves, Tables, RowKept, Bound

\* A task that goes on, with its row in the database.
LEMMA GoesTables ==
  ASSUME TypeOK, Tables, NEW i \in Task, NEW from, NEW to \in {"loading", "starting", "running"},
         Goes(i, from, to), from \in {{"reading"}, {"loading"}, {"creating"}, {"starting"}},
         rows \subseteq rows', from # {"creating"} \/ home[i] \in rows'
  PROVE  Tables'
<1>1. \A k \in Task : stage'[k] = IF k = i THEN to ELSE stage[k]
  BY DEF Goes, Moves, TypeOK
<1>2. stage[i] \in from /\ home' = home /\ active' = active /\ directory' = directory /\ erased' = erased
  BY DEF Goes, Moves
<1>3. \A k \in Task : Bound(k)' => Bound(k)
  BY <1>1, <1>2 DEF Bound, Live
<1>4. \A k \in Task : Bound(k)' =>
        home[k] \in rows' \/ (stage'[k] = "creating" /\ home[k] \in AssetPlace)
  <2> SUFFICES ASSUME NEW k \in Task, Bound(k)'
               PROVE  home[k] \in rows' \/ (stage'[k] = "creating" /\ home[k] \in AssetPlace)
    OBVIOUS
  <2>1. home[k] \in rows \/ (stage[k] = "creating" /\ home[k] \in AssetPlace)
    BY <1>3 DEF Tables, RowKept
  <2>2. CASE k = i
    BY <1>2, <2>1, <2>2
  <2>3. CASE k # i
    BY <1>1, <2>1, <2>3
  <2> QED BY <2>2, <2>3
<1> QED BY <1>2, <1>3, <1>4, SameTables

LEMMA TaskTables ==
  ASSUME TypeOK, Tables, NEW i \in Task,
         Read(i) \/ Corrupt(i) \/ Collect(i) \/ Found(i) \/ Unusable(i) \/ GiveUp(i)
           \/ Begin(i) \/ Take(i) \/ Erase(i) \/ Swallow(i) \/ Stop(i)
  PROVE  Tables'
<1>1. ASSUME NEW from, Collapse(i, from) PROVE Tables'
  BY <1>1, FallTables DEF Collapse
<1>2. ASSUME NEW from, End(i, from) PROVE Tables'
  BY <1>2, FallTables DEF End
<1>3. CASE Read(i) \/ Corrupt(i)
  BY <1>1, <1>3, GoesTables DEF Read, Corrupt
<1>4. CASE Found(i)
  BY <1>1, <1>4, GoesTables DEF Found, Stored
<1>5. CASE Unusable(i) \/ GiveUp(i) \/ Stop(i)
  BY <1>1, <1>2, <1>5 DEF Unusable, GiveUp, Stop
<1>6. CASE Begin(i)
  BY <1>2, <1>6, GoesTables DEF Begin
<1>7. CASE Collect(i) \/ Take(i) \/ Swallow(i)
  BY <1>7 DEF Collect, Take, Swallow, Tables, Reachable, RunsOnce, RowKept, Bound, Live
<1>8. CASE Erase(i)
  <2>1. \A k \in Task : Bound(k)' => Bound(k) /\ k # i
    BY <1>8 DEF Erase, Bound, Live, tasks
  <2>2. Bound(i)
    BY <1>8 DEF Erase, Bound, Live
  <2>3. \A k \in Task : Bound(k)' => home[k] # home[i]
    BY <2>1, <2>2 DEF Tables, RunsOnce, Bound
  <2> QED BY <1>8, <2>1, <2>3, SameTables DEF Erase, tasks, Tables, RowKept, Bound
<1> QED BY <1>3, <1>4, <1>5, <1>6, <1>7, <1>8

LEMMA TablesStep == TypeOK /\ Tables /\ [Next]_vars => Tables'
<1> SUFFICES ASSUME TypeOK, Tables, [Next]_vars PROVE Tables'
  OBVIOUS
<1>1. ASSUME NEW r \in Request, Ask(r) PROVE Tables'
  BY <1>1 DEF Ask, tasks, Tables, Reachable, RunsOnce, RowKept, Bound, Live
<1>2. CASE QuitDirectory
  BY <1>2, EndDirectoryTables DEF QuitDirectory
<1>3. CASE Die \/ UNCHANGED vars
  BY <1>3 DEF Die, vars, tasks, Tables, Reachable, RunsOnce, RowKept, Bound, Live
<1> QED BY <1>1, <1>2, <1>3, ServeTables, TaskTables DEF Next

\* However requests, failures and deletions fall, no two tasks ever work from
\* the same row.
THEOREM NoSecondTask == Spec => []RunsOnce
<1>1. Tables => RunsOnce
  BY DEF Tables
<1> QED BY <1>1, TablesInit, TablesStep, TypeCorrect, PTL DEF Spec, SafeSpec

\* Who gets into a location gets into one that is stored, or was erased since.
THEOREM RunningIsStored == Spec => []RunsFromTheDatabase
<1>1. Tables => RunsFromTheDatabase
  BY DEF Tables, RowKept, RunsFromTheDatabase, Bound, Live
<1> QED BY <1>1, TablesInit, TablesStep, TypeCorrect, PTL DEF Spec, SafeSpec

-----------------------------------------------------------------------------
(* The promise of Admission.                                               *)
(*                                                                         *)
(* A step of LocationStart settles joins where it finds them: in a         *)
(* request, in an endpoint's channel or among those a task has collected.  *)
(* It keeps the promise because a join is in one such place at most, and   *)
(* is there for as long as it asks, under the location it is for.          *)

Asked == {requests[k].join : k \in 1..Len(requests)}
Held(i) == Elements(queue[i]) \cup Elements(waiting[i])
OnceIn(q) == \A k, l \in 1..Len(q) : q[k] = q[l] => k = l

RequestsWait ==
  /\ \A k \in 1..Len(requests) :
       fate[requests[k].join] = "asking" /\ goal[requests[k].join] = requests[k].place
  /\ \A k, l \in 1..Len(requests) : requests[k].join = requests[l].join => k = l

JoinsWait ==
  \A i \in Task : \A j \in Held(i) : fate[j] = "asking" /\ goal[j] = home[i] /\ j \notin Asked

HeldOnce ==
  \A i \in Task : OnceIn(queue[i]) /\ OnceIn(waiting[i]) /\ Elements(queue[i]) \cap Elements(waiting[i]) = {}

HeldByOne == \A i, k \in Task : i # k => Held(i) \cap Held(k) = {}

\* A task is spawned by the join that bears its number, and only once.
BornOfAJoin ==
  \A i \in Task : IF stage[i] = "unborn" THEN Held(i) = {} ELSE fate[i] # "idle" /\ i \notin Asked

Waiting == RequestsWait /\ JoinsWait /\ HeldOnce /\ HeldByOne /\ BornOfAJoin

\* The locations that let players in.
Opened == {home[i] : i \in {k \in Task : stage[k] = "running"}}

Asking == {j \in Join : fate[j] = "asking"}

\* What Admission sees of a join.
Seen(how) == IF how \in {"told", "stale", "dropped"} THEN "refused" ELSE how

LEMMA SeenOfAll ==
  /\ [j \in Join |-> CASE fate[j] \in {"told", "stale", "dropped"} -> "refused" [] OTHER -> fate[j]]
       = [j \in Join |-> Seen(fate[j])]
  /\ [j \in Join |-> CASE fate'[j] \in {"told", "stale", "dropped"} -> "refused" [] OTHER -> fate'[j]]
       = [j \in Join |-> Seen(fate'[j])]
BY DEF Seen

LEMMA PromisedNothing ==
  ASSUME fate' = fate, goal' = goal, Opened' = Opened
  PROVE  [Promise!Next]_Promise!vars
BY DEF Promise!vars, Opened

\* Joins that ask are refused, and nothing opens or closes.
LEMMA PromisedRefusal ==
  ASSUME TypeOK, TypeOK', NEW S, S \subseteq Asking,
         \A j \in Join : IF j \in S THEN fate'[j] \in {"told", "stale", "dropped"} ELSE fate'[j] = fate[j],
         goal' = goal, Opened' = Opened
  PROVE  [Promise!Next]_Promise!vars
<1>2. CASE S = {}
  BY <1>2, SeenOfAll DEF Promise!vars, Opened, Seen
<1>3. CASE S # {}
  <2>1. Promise!Refuse(S)
    BY <1>3, SeenOfAll DEF Promise!Refuse, Promise!Asking, Promise!Settled, Opened, Seen, Asking
  <2>2. S \in SUBSET Join
    BY DEF Asking
  <2> QED BY <2>1, <2>2 DEF Promise!Next
<1> QED BY <1>2, <1>3

\* A running location ends, or one whose number has been given to another
\* since, and the joins in its channel are refused.
LEMMA PromisedClose ==
  ASSUME TypeOK, TypeOK', NEW place \in Place, NEW S, S \subseteq Asking, \A j \in S : goal[j] = place,
         \A j \in Join : IF j \in S THEN fate'[j] \in {"told", "stale", "dropped"} ELSE fate'[j] = fate[j],
         goal' = goal, Opened' = Opened \ {place}
  PROVE  [Promise!Next]_Promise!vars
<1>1. Promise!Close(place)
  BY SeenOfAll DEF Promise!Close, Promise!Asking, Promise!Settled, Opened, Seen, Asking
<1> QED BY <1>1 DEF Promise!Next

LEMMA PromisedOpen ==
  ASSUME TypeOK, NEW place \in Place, fate' = fate, goal' = goal, Opened' = Opened \cup {place}
  PROVE  [Promise!Next]_Promise!vars
<1>1. Promise!Open(place)
  BY DEF Promise!Open, Opened
<1> QED BY <1>1 DEF Promise!Next

LEMMA PromisedAdmit ==
  ASSUME TypeOK, NEW j \in Asking, goal[j] \in Opened, Settle({j}, "inside"), goal' = goal, Opened' = Opened
  PROVE  [Promise!Next]_Promise!vars
<1>1. j \in Join /\ fate[j] = "asking"
  BY DEF Asking
<1>2. Promise!Admit(j)
  BY <1>1, SeenOfAll DEF Promise!Admit, Promise!Settled, Opened, Seen, Settle
<1> QED BY <1>1, <1>2 DEF Promise!Next

LEMMA PromisedAsk ==
  ASSUME TypeOK, NEW j \in Join, fate[j] = "idle", NEW place \in Place \cup {Nowhere},
         Settle({j}, "asking"), goal' = [goal EXCEPT ![j] = place], Opened' = Opened
  PROVE  [Promise!Next]_Promise!vars
<1>1. Promise!Ask(j)
  BY SeenOfAll DEF Promise!Ask, Promise!Settled, Opened, Seen, Settle
<1> QED BY <1>1 DEF Promise!Next

LEMMA PromisedName ==
  ASSUME TypeOK, NEW j \in Asking, goal[j] = Nowhere, NEW place \in Place,
         fate' = fate, goal' = [goal EXCEPT ![j] = place], Opened' = Opened
  PROVE  [Promise!Next]_Promise!vars
<1>1. j \in Join /\ fate[j] = "asking"
  BY DEF Asking
<1>2. Promise!Name(j, place)
  BY <1>1, SeenOfAll DEF Promise!Name, Opened, Seen
<1> QED BY <1>1, <1>2 DEF Promise!Next

\* What is left of a sequence in which everything is once.
LEMMA Shorter ==
  ASSUME NEW S, NEW q \in Seq(S), q # << >>, OnceIn(q)
  PROVE  /\ OnceIn(Tail(q)) /\ Elements(Tail(q)) = Elements(q) \ {Head(q)} /\ Head(q) \in Elements(q)
         /\ OnceIn(Popped(q)) /\ Elements(Popped(q)) = Elements(q) \ {q[Len(q)]} /\ q[Len(q)] \in Elements(q)
<1>1. Len(q) \in Nat \ {0} /\ Head(q) = q[1]
  OBVIOUS
<1>2. Len(Tail(q)) = Len(q) - 1 /\ \A k \in 1..Len(Tail(q)) : Tail(q)[k] = q[k + 1]
  OBVIOUS
<1>3. Len(Popped(q)) = Len(q) - 1 /\ \A k \in 1..Len(Popped(q)) : Popped(q)[k] = q[k]
  <2>1. PICK n \in Int : n = Len(q) - 1
    BY <1>1
  <2>2. \A k \in 1..n : q[k] \in S
    BY <1>1, <2>1
  <2>3. /\ Len(SubSeq(q, 1, n)) = IF 1 <= n THEN n - 1 + 1 ELSE 0
        /\ \A k \in 1..n - 1 + 1 : SubSeq(q, 1, n)[k] = q[1 + k - 1]
    BY <2>1, <2>2, SubSeqProperties
  <2> QED BY <1>1, <2>1, <2>3 DEF Popped
<1>4. OnceIn(Tail(q))
  <2> SUFFICES ASSUME NEW k \in 1..Len(Tail(q)), NEW l \in 1..Len(Tail(q)), Tail(q)[k] = Tail(q)[l]
               PROVE  k = l
    BY DEF OnceIn
  <2>1. k + 1 \in 1..Len(q) /\ l + 1 \in 1..Len(q) /\ q[k + 1] = q[l + 1]
    BY <1>1, <1>2
  <2>2. k + 1 = l + 1
    BY <2>1 DEF OnceIn
  <2> QED BY <2>2
<1>5. OnceIn(Popped(q))
  BY <1>1, <1>3 DEF OnceIn
<1>6. Elements(Tail(q)) = Elements(q) \ {Head(q)}
  <2>1. ASSUME NEW k \in 1..Len(Tail(q)) PROVE Tail(q)[k] \in Elements(q) \ {Head(q)}
    <3>1. k + 1 \in 1..Len(q) /\ 1 \in 1..Len(q) /\ Tail(q)[k] = q[k + 1] /\ k + 1 # 1
      BY <1>1, <1>2
    <3> QED BY <1>1, <3>1 DEF OnceIn, Elements
  <2>2. ASSUME NEW k \in 1..Len(q), q[k] # Head(q) PROVE q[k] \in Elements(Tail(q))
    <3>1. k - 1 \in 1..Len(Tail(q)) /\ Tail(q)[k - 1] = q[k]
      BY <1>1, <1>2, <2>2
    <3> QED BY <3>1 DEF Elements
  <2> QED BY <2>1, <2>2 DEF Elements
<1>7. Elements(Popped(q)) = Elements(q) \ {q[Len(q)]}
  <2>1. ASSUME NEW k \in 1..Len(Popped(q)) PROVE Popped(q)[k] \in Elements(q) \ {q[Len(q)]}
    <3>1. k \in 1..Len(q) /\ Len(q) \in 1..Len(q) /\ Popped(q)[k] = q[k] /\ k # Len(q)
      BY <1>1, <1>3
    <3> QED BY <3>1 DEF OnceIn, Elements
  <2>2. ASSUME NEW k \in 1..Len(q), q[k] # q[Len(q)] PROVE q[k] \in Elements(Popped(q))
    <3>1. k \in 1..Len(Popped(q)) /\ Popped(q)[k] = q[k]
      BY <1>1, <1>3, <2>2
    <3> QED BY <3>1 DEF Elements
  <2> QED BY <2>1, <2>2 DEF Elements
<1>8. Head(q) \in Elements(q) /\ q[Len(q)] \in Elements(q)
  <2>1. 1 \in 1..Len(q) /\ Len(q) \in 1..Len(q)
    BY <1>1
  <2> QED BY <1>1, <2>1 DEF Elements
<1> QED BY <1>4, <1>5, <1>6, <1>7, <1>8

LEMMA Longer ==
  ASSUME NEW S, NEW q \in Seq(S), NEW e \in S, OnceIn(q), e \notin Elements(q)
  PROVE  OnceIn(Append(q, e)) /\ Elements(Append(q, e)) = Elements(q) \cup {e}
<1>1. /\ Len(Append(q, e)) = Len(q) + 1 /\ Append(q, e)[Len(q) + 1] = e /\ Len(q) \in Nat
      /\ \A k \in 1..Len(q) : Append(q, e)[k] = q[k]
  OBVIOUS
<1>2. OnceIn(Append(q, e))
  BY <1>1 DEF OnceIn, Elements
<1>3. Elements(Append(q, e)) = Elements(q) \cup {e}
  <2>1. 1..Len(q) + 1 = 1..Len(q) \cup {Len(q) + 1}
    BY <1>1
  <2> QED BY <1>1, <2>1 DEF Elements
<1> QED BY <1>2, <1>3

\* The requests that are left when the first is served.
LEMMA RequestServed ==
  ASSUME TypeOK, RequestsWait, requests # << >>, requests' = Tail(requests)
  PROVE  /\ Head(requests) \in Request /\ Head(requests).join \in Asked
         /\ fate[Head(requests).join] = "asking" /\ goal[Head(requests).join] = Head(requests).place
         /\ Asked' \subseteq Asked \ {Head(requests).join}
         /\ \A k \in 1..Len(requests') : \E l \in 1..Len(requests) : requests'[k] = requests[l]
         /\ \A k, l \in 1..Len(requests') : requests'[k].join = requests'[l].join => k = l
<1>1. /\ requests \in Seq(Request) /\ Len(requests) \in Nat \ {0} /\ Head(requests) = requests[1]
      /\ Len(requests') = Len(requests) - 1 /\ \A k \in 1..Len(requests') : requests'[k] = requests[k + 1]
  BY DEF TypeOK
<1>2. 1 \in 1..Len(requests) /\ \A k \in 1..Len(requests') : k + 1 \in 1..Len(requests) /\ k + 1 # 1
  BY <1>1
<1>3. Head(requests) \in Request
  BY <1>1
<1>4. /\ Head(requests).join \in Asked
      /\ fate[Head(requests).join] = "asking" /\ goal[Head(requests).join] = Head(requests).place
  BY <1>1, <1>2 DEF Asked, RequestsWait
<1>5. Asked' \subseteq Asked \ {Head(requests).join}
  BY <1>1, <1>2 DEF Asked, RequestsWait
<1>6. \A k, l \in 1..Len(requests') : requests'[k].join = requests'[l].join => k = l
  <2> SUFFICES ASSUME NEW k \in 1..Len(requests'), NEW l \in 1..Len(requests'), requests'[k].join = requests'[l].join
               PROVE  k = l
    OBVIOUS
  <2>1. k + 1 = l + 1
    BY <1>1, <1>2 DEF RequestsWait
  <2> QED BY <2>1
<1> QED BY <1>1, <1>2, <1>3, <1>4, <1>5, <1>6

\* The queues of the next state, and what is said of them.
LEMMA QueuesNext ==
  ASSUME NEW i
  PROVE  /\ Held(i)' = Elements(queue'[i]) \cup Elements(waiting'[i])
         /\ OnceIn(queue[i])' <=> OnceIn(queue'[i])
         /\ OnceIn(waiting[i])' <=> OnceIn(waiting'[i])
         /\ Elements(queue[i])' = Elements(queue'[i]) /\ Elements(waiting[i])' = Elements(waiting'[i])
BY DEF Held, Elements, OnceIn

LEMMA HeldAreJoins ==
  ASSUME TypeOK
  PROVE  /\ \A i \in Task : Held(i) \subseteq Join /\ queue[i] \in Seq(Join) /\ waiting[i] \in Seq(Join)
         /\ Asked \subseteq Join
         /\ \A k \in 1..Len(requests) : requests[k].join \in Asked
<1>1. \A i \in Task : queue[i] \in Seq(Join) /\ waiting[i] \in Seq(Join)
  BY DEF TypeOK
<1>2. \A i \in Task : Held(i) \subseteq Join
  BY <1>1, ElementsInRange DEF Held
<1>3. \A k \in 1..Len(requests) : requests[k] \in Request
  BY DEF TypeOK
<1>4. \A k \in 1..Len(requests) : requests[k].join \in Join
  BY <1>3 DEF Request
<1> QED BY <1>1, <1>2, <1>4 DEF Asked

\* Some joins are settled and are nowhere any more; the others stay.
LEMMA SomeLeave ==
  ASSUME TypeOK, Waiting, NEW S,
         \A j \in Join : IF j \in S THEN fate'[j] # "idle" ELSE fate'[j] = fate[j],
         goal' = goal, home' = home, \A i \in Task : stage'[i] = "unborn" <=> stage[i] = "unborn",
         Asked' \subseteq Asked \ S,
         \A k \in 1..Len(requests') : \E l \in 1..Len(requests) : requests'[k] = requests[l],
         \A k, l \in 1..Len(requests') : requests'[k].join = requests'[l].join => k = l,
         \A i \in Task : /\ Elements(queue'[i]) \cup Elements(waiting'[i]) \subseteq Held(i) \ S
                         /\ OnceIn(queue'[i]) /\ OnceIn(waiting'[i])
                         /\ Elements(queue'[i]) \cap Elements(waiting'[i]) = {}
  PROVE  Waiting'
<1>1. \A i \in Task : Held(i)' \subseteq Held(i) \ S
  BY QueuesNext
<1>2. /\ \A i \in Task : Held(i) \subseteq Join
      /\ Asked \subseteq Join /\ \A k \in 1..Len(requests) : requests[k].join \in Asked
  BY HeldAreJoins
<1>3. RequestsWait'
  <2>1. ASSUME NEW k \in 1..Len(requests')
        PROVE  fate'[requests'[k].join] = "asking" /\ goal'[requests'[k].join] = requests'[k].place
    <3>1. PICK l \in 1..Len(requests) : requests'[k] = requests[l]
      OBVIOUS
    <3>2. requests'[k].join \in Asked'
      BY DEF Asked
    <3>3. fate'[requests'[k].join] = fate[requests[l].join]
      BY <1>2, <3>1, <3>2
    <3> QED BY <3>1, <3>3 DEF Waiting, RequestsWait
  <2> QED BY <2>1 DEF RequestsWait
<1>4. JoinsWait'
  <2>1. ASSUME NEW i \in Task, NEW j \in Held(i)'
        PROVE  fate'[j] = "asking" /\ goal'[j] = home'[i] /\ j \notin Asked'
    <3>1. j \in Held(i) /\ j \notin S /\ j \in Join
      BY <1>1, <1>2
    <3>2. fate[j] = "asking" /\ goal[j] = home[i] /\ j \notin Asked
      BY <3>1 DEF Waiting, JoinsWait
    <3> QED BY <3>1, <3>2
  <2> QED BY <2>1 DEF JoinsWait
<1>5. HeldOnce'
  BY QueuesNext DEF HeldOnce
<1>6. HeldByOne'
  <2>1. ASSUME NEW i \in Task, NEW k \in Task, i # k PROVE Held(i)' \cap Held(k)' = {}
    BY <1>1, <2>1 DEF Waiting, HeldByOne
  <2> QED BY <2>1 DEF HeldByOne
<1>7. BornOfAJoin'
  <2>1. ASSUME NEW i \in Task
        PROVE  IF stage'[i] = "unborn" THEN Held(i)' = {} ELSE fate'[i] # "idle" /\ i \notin Asked'
    <3>1. i \in Join
      BY DEF Task
    <3> QED BY <1>1, <3>1 DEF Waiting, BornOfAJoin
  <2> QED BY <2>1 DEF BornOfAJoin
<1> QED BY <1>3, <1>4, <1>5, <1>6, <1>7 DEF Waiting

\* The first request is served, and its join is settled.
LEMMA ServedLeaves ==
  ASSUME TypeOK, TypeOK', Waiting, requests # << >>, requests' = Tail(requests),
         NEW how \in {"told", "stale", "dropped"}, Settle({Head(requests).join}, how), goal' = goal,
         UNCHANGED tasks
  PROVE  Waiting' /\ [Promise!Next]_Promise!vars
<1> PICK j : j = Head(requests).join
  OBVIOUS
<1>1. /\ j \in Asked /\ fate[j] = "asking" /\ Asked' \subseteq Asked \ {j}
      /\ \A k \in 1..Len(requests') : \E l \in 1..Len(requests) : requests'[k] = requests[l]
      /\ \A k, l \in 1..Len(requests') : requests'[k].join = requests'[l].join => k = l
  BY RequestServed DEF Waiting
<1>2. UNCHANGED <<stage, home, queue, waiting>>
  BY DEF tasks
<1>3. \A k \in Join : IF k \in {j} THEN fate'[k] = how ELSE fate'[k] = fate[k]
  BY DEF Settle
<1>4. \A i \in Task : /\ Elements(queue'[i]) \cup Elements(waiting'[i]) \subseteq Held(i) \ {j}
                      /\ OnceIn(queue'[i]) /\ OnceIn(waiting'[i])
                      /\ Elements(queue'[i]) \cap Elements(waiting'[i]) = {}
  <2>1. \A i \in Task : j \notin Held(i)
    BY <1>1 DEF Waiting, JoinsWait
  <2> QED BY <1>2, <2>1 DEF Held, Waiting, HeldOnce
<1>5. Waiting'
  BY <1>1, <1>2, <1>3, <1>4, SomeLeave
<1>6. {j} \subseteq Asking /\ Opened' = Opened
  <2>1. j \in Join
    BY <1>1, HeldAreJoins
  <2> QED BY <1>1, <1>2, <2>1 DEF Asking, Opened
<1>7. [Promise!Next]_Promise!vars
  BY <1>3, <1>6, PromisedRefusal
<1> QED BY <1>5, <1>7

LEMMA EndDirectoryLeaves ==
  ASSUME TypeOK, TypeOK', Waiting, NEW told, EndDirectory(told), told \subseteq Asked
  PROVE  Waiting' /\ [Promise!Next]_Promise!vars
<1>1. UNCHANGED <<stage, home, queue, waiting, goal>> /\ Len(requests') = 0 /\ Asked' = {}
  BY DEF EndDirectory, tasks, Asked
<1>2. \A j \in Join : IF j \in Asked THEN fate'[j] \in {"told", "stale", "dropped"} ELSE fate'[j] = fate[j]
  BY DEF EndDirectory, Asked
<1>3. \A i \in Task : /\ Elements(queue'[i]) \cup Elements(waiting'[i]) \subseteq Held(i) \ Asked
                      /\ OnceIn(queue'[i]) /\ OnceIn(waiting'[i])
                      /\ Elements(queue'[i]) \cap Elements(waiting'[i]) = {}
  BY <1>1 DEF Held, Waiting, HeldOnce, JoinsWait
<1>4. Waiting'
  <2>1. /\ \A k \in 1..Len(requests') : \E l \in 1..Len(requests) : requests'[k] = requests[l]
        /\ \A k, l \in 1..Len(requests') : requests'[k].join = requests'[l].join => k = l
    BY <1>1
  <2>2. \A j \in Join : IF j \in Asked THEN fate'[j] # "idle" ELSE fate'[j] = fate[j]
    BY <1>2
  <2>3. Asked' \subseteq Asked \ Asked
    BY <1>1
  <2> QED BY <1>1, <1>3, <2>1, <2>2, <2>3, SomeLeave
<1>5. Asked \subseteq Asking /\ Opened' = Opened
  <2>1. Asked \subseteq Join
    BY HeldAreJoins
  <2> QED BY <1>1, <2>1 DEF Asking, Opened, Asked, Waiting, RequestsWait
<1>6. [Promise!Next]_Promise!vars
  BY <1>1, <1>2, <1>5, PromisedRefusal
<1> QED BY <1>4, <1>6

\* A task settles joins it holds.
LEMMA TaskLetsGo ==
  ASSUME TypeOK, Waiting, NEW i \in Task, NEW S, S \subseteq Held(i),
         \A j \in Join : IF j \in S THEN fate'[j] # "idle" ELSE fate'[j] = fate[j],
         UNCHANGED <<requests, goal, home>>, \A k \in Task : stage'[k] = "unborn" <=> stage[k] = "unborn",
         \A k \in Task \ {i} : queue'[k] = queue[k] /\ waiting'[k] = waiting[k],
         /\ Elements(queue'[i]) \cup Elements(waiting'[i]) \subseteq Held(i) \ S
         /\ OnceIn(queue'[i]) /\ OnceIn(waiting'[i])
         /\ Elements(queue'[i]) \cap Elements(waiting'[i]) = {}
  PROVE  Waiting'
<1>1. S \cap Asked = {} /\ \A k \in Task \ {i} : S \cap Held(k) = {}
  BY DEF Waiting, JoinsWait, HeldByOne
<1>2. Asked' = Asked
  BY DEF Asked
<1>3. \A k \in Task : /\ Elements(queue'[k]) \cup Elements(waiting'[k]) \subseteq Held(k) \ S
                      /\ OnceIn(queue'[k]) /\ OnceIn(waiting'[k])
                      /\ Elements(queue'[k]) \cap Elements(waiting'[k]) = {}
  <2>1. ASSUME NEW k \in Task, k # i
        PROVE  /\ Elements(queue'[k]) \cup Elements(waiting'[k]) \subseteq Held(k) \ S
               /\ OnceIn(queue'[k]) /\ OnceIn(waiting'[k])
               /\ Elements(queue'[k]) \cap Elements(waiting'[k]) = {}
    BY <1>1, <2>1 DEF Held, Waiting, HeldOnce
  <2> QED BY <2>1
<1>4. /\ \A k \in 1..Len(requests') : \E l \in 1..Len(requests) : requests'[k] = requests[l]
      /\ \A k, l \in 1..Len(requests') : requests'[k].join = requests'[l].join => k = l
  BY DEF Waiting, RequestsWait
<1>5. Asked' \subseteq Asked \ S
  BY <1>1, <1>2
<1> QED BY <1>3, <1>4, <1>5, SomeLeave

\* What a task holds asks, for the location of the task.
LEMMA HeldAsk ==
  ASSUME TypeOK, Waiting, NEW i \in Task
  PROVE  Held(i) \subseteq Asking /\ \A j \in Held(i) : goal[j] = home[i]
BY HeldAreJoins DEF Waiting, JoinsWait, Asking

LEMMA CollapseKeeps ==
  ASSUME TypeOK, TypeOK', Waiting, NEW i \in Task, NEW from, {"unborn", "running"} \cap from = {}, Collapse(i, from)
  PROVE  Waiting' /\ [Promise!Next]_Promise!vars
<1> PICK S : S = Elements(waiting[i])
  OBVIOUS
<1>1. /\ S \subseteq Held(i) /\ Elements(queue[i]) \cap S = {} /\ Elements(queue[i]) \subseteq Held(i)
      /\ OnceIn(queue[i])
  BY DEF Held, Waiting, HeldOnce
<1>2. \A j \in Join : IF j \in S THEN fate'[j] = "dropped" ELSE fate'[j] = fate[j]
  BY DEF Collapse, Settle
<1>3. /\ UNCHANGED <<requests, goal, home, queue>> /\ stage[i] \in from
      /\ stage' = [stage EXCEPT ![i] = "hole"] /\ waiting' = [waiting EXCEPT ![i] = << >>]
  BY DEF Collapse, Moves
<1>4. /\ \A k \in Task : stage'[k] = IF k = i THEN "hole" ELSE stage[k]
      /\ \A k \in Task : waiting'[k] = IF k = i THEN << >> ELSE waiting[k]
  BY <1>3 DEF TypeOK
<1>5. Elements(waiting'[i]) = {} /\ OnceIn(waiting'[i])
  BY <1>4 DEF Elements, OnceIn
<1>6. Waiting'
  <2>1. \A j \in Join : IF j \in S THEN fate'[j] # "idle" ELSE fate'[j] = fate[j]
    BY <1>2
  <2>2. /\ \A k \in Task : stage'[k] = "unborn" <=> stage[k] = "unborn"
        /\ \A k \in Task \ {i} : queue'[k] = queue[k] /\ waiting'[k] = waiting[k]
    BY <1>3, <1>4
  <2>3. /\ Elements(queue'[i]) \cup Elements(waiting'[i]) \subseteq Held(i) \ S
        /\ OnceIn(queue'[i]) /\ OnceIn(waiting'[i])
        /\ Elements(queue'[i]) \cap Elements(waiting'[i]) = {}
    BY <1>1, <1>3, <1>5
  <2> QED BY <1>1, <1>3, <2>1, <2>2, <2>3, TaskLetsGo
<1>7. S \subseteq Asking /\ Opened' = Opened
  <2>1. \A k \in Task : stage'[k] = "running" <=> stage[k] = "running"
    BY <1>3, <1>4
  <2> QED BY <1>1, <1>3, <2>1, HeldAsk DEF Opened
<1>8. [Promise!Next]_Promise!vars
  BY <1>2, <1>3, <1>7, PromisedRefusal
<1> QED BY <1>6, <1>8

LEMMA EndKeeps ==
  ASSUME TypeOK, TypeOK', Waiting, NEW i \in Task, NEW from, "unborn" \notin from, End(i, from)
  PROVE  Waiting' /\ [Promise!Next]_Promise!vars
<1> PICK S : S = Held(i)
  OBVIOUS
<1>1. \A j \in Join : IF j \in S THEN fate'[j] = "dropped" ELSE fate'[j] = fate[j]
  BY DEF End, Settle, Held
<1>2. /\ UNCHANGED <<requests, goal, home>> /\ stage[i] \in from
      /\ stage' = [stage EXCEPT ![i] = "ended"]
      /\ waiting' = [waiting EXCEPT ![i] = << >>] /\ queue' = [queue EXCEPT ![i] = << >>]
  BY DEF End, Moves
<1>3. /\ \A k \in Task : stage'[k] = IF k = i THEN "ended" ELSE stage[k]
      /\ \A k \in Task : waiting'[k] = IF k = i THEN << >> ELSE waiting[k]
      /\ \A k \in Task : queue'[k] = IF k = i THEN << >> ELSE queue[k]
  BY <1>2 DEF TypeOK
<1>4. /\ Elements(waiting'[i]) = {} /\ OnceIn(waiting'[i])
      /\ Elements(queue'[i]) = {} /\ OnceIn(queue'[i])
  BY <1>3 DEF Elements, OnceIn
<1>5. Waiting'
  BY <1>1, <1>2, <1>3, <1>4, TaskLetsGo
<1>6. S \subseteq Asking /\ \A j \in S : goal[j] = home[i]
  BY HeldAsk
<1>7. \A j \in Join : IF j \in S THEN fate'[j] \in {"told", "stale", "dropped"} ELSE fate'[j] = fate[j]
  BY <1>1
<1>8. CASE Opened' = Opened
  BY <1>2, <1>5, <1>6, <1>7, <1>8, PromisedRefusal
<1>9. CASE Opened' # Opened
  <2>1. \A k \in Task : stage'[k] = "running" <=> stage[k] = "running" /\ k # i
    BY <1>3
  <2>2. stage[i] = "running" /\ Opened' = Opened \ {home[i]}
    BY <1>2, <1>9, <2>1 DEF Opened
  <2>3. home[i] \in Place
    BY <2>2 DEF TypeOK
  <2>4. [Promise!Next]_Promise!vars
    BY <1>2, <1>6, <1>7, <2>2, <2>3, PromisedClose
  <2> QED BY <1>5, <2>4
<1> QED BY <1>8, <1>9

\* A task takes one join from what it holds.
LEMMA OneIsTaken ==
  ASSUME TypeOK, Waiting, NEW i \in Task, NEW j, NEW how, how # "idle", Settle({j}, how),
         UNCHANGED <<requests, goal, home, stage>>,
         \/ /\ waiting[i] # << >> /\ j = waiting[i][Len(waiting[i])]
            /\ waiting' = [waiting EXCEPT ![i] = Popped(@)] /\ UNCHANGED queue
         \/ /\ queue[i] # << >> /\ j = Head(queue[i])
            /\ queue' = [queue EXCEPT ![i] = Tail(@)] /\ UNCHANGED waiting
  PROVE  Waiting' /\ j \in Held(i)
<1>1. \A k \in Join : IF k \in {j} THEN fate'[k] # "idle" ELSE fate'[k] = fate[k]
  BY DEF Settle
<1>2. /\ queue[i] \in Seq(Join) /\ waiting[i] \in Seq(Join) /\ OnceIn(queue[i]) /\ OnceIn(waiting[i])
      /\ Elements(queue[i]) \cap Elements(waiting[i]) = {}
  BY DEF TypeOK, Waiting, HeldOnce
<1>3. \A k \in Task \ {i} : queue'[k] = queue[k] /\ waiting'[k] = waiting[k]
  BY DEF TypeOK
<1>4. /\ j \in Held(i)
      /\ Elements(queue'[i]) \cup Elements(waiting'[i]) \subseteq Held(i) \ {j}
      /\ OnceIn(queue'[i]) /\ OnceIn(waiting'[i])
      /\ Elements(queue'[i]) \cap Elements(waiting'[i]) = {}
  <2>1. CASE /\ waiting[i] # << >> /\ j = waiting[i][Len(waiting[i])]
             /\ waiting' = [waiting EXCEPT ![i] = Popped(@)] /\ UNCHANGED queue
    <3>1. waiting'[i] = Popped(waiting[i]) /\ queue'[i] = queue[i]
      BY <2>1 DEF TypeOK
    <3>2. /\ OnceIn(Popped(waiting[i])) /\ Elements(Popped(waiting[i])) = Elements(waiting[i]) \ {j}
          /\ j \in Elements(waiting[i])
      BY <1>2, <2>1, Shorter
    <3> QED BY <1>2, <3>1, <3>2 DEF Held
  <2>2. CASE /\ queue[i] # << >> /\ j = Head(queue[i])
             /\ queue' = [queue EXCEPT ![i] = Tail(@)] /\ UNCHANGED waiting
    <3>1. queue'[i] = Tail(queue[i]) /\ waiting'[i] = waiting[i]
      BY <2>2 DEF TypeOK
    <3>2. /\ OnceIn(Tail(queue[i])) /\ Elements(Tail(queue[i])) = Elements(queue[i]) \ {j}
          /\ j \in Elements(queue[i])
      BY <1>2, <2>2, Shorter
    <3> QED BY <1>2, <3>1, <3>2 DEF Held
  <2> QED BY <2>1, <2>2
<1>5. Waiting'
  <2>1. {j} \subseteq Held(i)
    BY <1>4
  <2> QED BY <1>1, <1>3, <1>4, <2>1, TaskLetsGo
<1> QED BY <1>4, <1>5

LEMMA TakeKeeps ==
  ASSUME TypeOK, TypeOK', Waiting, NEW i \in Task, Take(i) \/ Swallow(i)
  PROVE  Waiting' /\ [Promise!Next]_Promise!vars
<1>1. PICK j, how :
        /\ how \in {"inside", "told", "dropped"} /\ Settle({j}, how)
        /\ how = "inside" => stage[i] = "running"
        /\ \/ /\ waiting[i] # << >> /\ j = waiting[i][Len(waiting[i])]
              /\ waiting' = [waiting EXCEPT ![i] = Popped(@)] /\ UNCHANGED queue
           \/ /\ queue[i] # << >> /\ j = Head(queue[i])
              /\ queue' = [queue EXCEPT ![i] = Tail(@)] /\ UNCHANGED waiting
  <2>1. CASE Take(i)
    <3>1. PICK how \in {"inside", "told"} :
            \/ /\ waiting[i] # << >>
               /\ Settle({waiting[i][Len(waiting[i])]}, how)
               /\ waiting' = [waiting EXCEPT ![i] = Popped(@)]
               /\ UNCHANGED queue
            \/ /\ waiting[i] = << >> /\ queue[i] # << >> /\ dying = "no"
               /\ Settle({Head(queue[i])}, how)
               /\ queue' = [queue EXCEPT ![i] = Tail(@)]
               /\ UNCHANGED waiting
      BY <2>1 DEF Take
    <3>2. stage[i] = "running"
      BY <2>1 DEF Take
    <3> QED BY <3>1, <3>2
  <2>2. CASE Swallow(i)
    BY <2>2 DEF Swallow
  <2> QED BY <2>1, <2>2
<1>2. UNCHANGED <<requests, goal, home, stage>>
  BY DEF Take, Swallow
<1>3. Waiting' /\ j \in Held(i)
  BY <1>1, <1>2, OneIsTaken
<1>4. j \in Asking /\ goal[j] = home[i] /\ Opened' = Opened
  BY <1>2, <1>3, HeldAsk DEF Opened
<1>5. CASE how = "inside"
  <2>1. stage[i] = "running" /\ goal[j] \in Opened
    BY <1>1, <1>4, <1>5 DEF Opened
  <2> QED BY <1>1, <1>2, <1>3, <1>4, <1>5, <2>1, PromisedAdmit
<1>6. CASE how # "inside"
  <2>1. \A k \in Join : IF k \in {j} THEN fate'[k] \in {"told", "stale", "dropped"} ELSE fate'[k] = fate[k]
    BY <1>1, <1>6 DEF Settle
  <2>2. {j} \subseteq Asking /\ goal' = goal
    BY <1>2, <1>4
  <2>3. [Promise!Next]_Promise!vars
    BY <1>4, <2>1, <2>2, PromisedRefusal
  <2> QED BY <1>3, <2>3
<1> QED BY <1>5, <1>6

\* Where nothing is asked, moved or settled.
LEMMA NothingMoves ==
  ASSUME TypeOK, Waiting, UNCHANGED <<requests, goal, home, queue, waiting, fate>>,
         \A k \in Task : stage'[k] = "unborn" <=> stage[k] = "unborn"
  PROVE  Waiting'
<1>1. Asked' = Asked
  BY DEF Asked
<1>2. \A k \in Task : /\ Elements(queue'[k]) \cup Elements(waiting'[k]) \subseteq Held(k) \ {}
                      /\ OnceIn(queue'[k]) /\ OnceIn(waiting'[k])
                      /\ Elements(queue'[k]) \cap Elements(waiting'[k]) = {}
  BY DEF Held, Waiting, HeldOnce
<1>3. /\ \A k \in 1..Len(requests') : \E l \in 1..Len(requests) : requests'[k] = requests[l]
      /\ \A k, l \in 1..Len(requests') : requests'[k].join = requests'[l].join => k = l
  BY DEF Waiting, RequestsWait
<1>4. Asked' \subseteq Asked \ {} /\ \A j \in Join : IF j \in {} THEN fate'[j] # "idle" ELSE fate'[j] = fate[j]
  BY <1>1
<1> QED BY <1>2, <1>3, <1>4, SomeLeave

\* Where moreover no location starts or ends.
LEMMA NothingHappens ==
  ASSUME TypeOK, TypeOK', Waiting, UNCHANGED <<requests, goal, home, queue, waiting, fate>>,
         \A k \in Task : /\ stage'[k] = "unborn" <=> stage[k] = "unborn"
                         /\ stage'[k] = "running" <=> stage[k] = "running"
  PROVE  Waiting' /\ [Promise!Next]_Promise!vars
<1>1. Waiting'
  BY NothingMoves
<1>2. Opened' = Opened
  BY DEF Opened
<1> QED BY <1>1, <1>2, PromisedNothing

LEMMA GoesKeeps ==
  ASSUME TypeOK, TypeOK', Waiting, NEW i \in Task, NEW from, {"unborn", "running"} \cap from = {},
         NEW to \in {"loading", "starting", "running"}, Goes(i, from, to)
  PROVE  Waiting' /\ [Promise!Next]_Promise!vars
<1>1. /\ UNCHANGED <<requests, goal, home, queue, waiting, fate>> /\ stage[i] \in from
      /\ stage' = [stage EXCEPT ![i] = to]
  BY DEF Goes, Moves
<1>2. \A k \in Task : stage'[k] = IF k = i THEN to ELSE stage[k]
  BY <1>1 DEF TypeOK
<1>3. \A k \in Task : stage'[k] = "unborn" <=> stage[k] = "unborn"
  BY <1>1, <1>2
<1>4. CASE to = "running"
  <2>1. Opened' = Opened \cup {home[i]}
    <3>1. \A k \in Task : stage'[k] = "running" <=> stage[k] = "running" \/ k = i
      BY <1>1, <1>2, <1>4
    <3> QED BY <1>1, <3>1 DEF Opened
  <2>2. home[i] \in Place
    BY <1>1 DEF TypeOK
  <2>3. Waiting'
    BY <1>1, <1>3, NothingMoves
  <2>4. [Promise!Next]_Promise!vars
    BY <1>1, <2>1, <2>2, PromisedOpen
  <2> QED BY <2>3, <2>4
<1>5. CASE to # "running"
  <2>1. \A k \in Task : /\ stage'[k] = "unborn" <=> stage[k] = "unborn"
                        /\ stage'[k] = "running" <=> stage[k] = "running"
    BY <1>1, <1>2, <1>3, <1>5
  <2> QED BY <1>1, <2>1, NothingHappens
<1> QED BY <1>4, <1>5

\* A join is collected while the asset is fetched.
LEMMA CollectKeeps ==
  ASSUME TypeOK, TypeOK', Waiting, NEW i \in Task, Collect(i)
  PROVE  Waiting' /\ [Promise!Next]_Promise!vars
<1> PICK j : j = Head(queue[i])
  OBVIOUS
<1>1. /\ queue[i] \in Seq(Join) /\ waiting[i] \in Seq(Join) /\ OnceIn(queue[i]) /\ OnceIn(waiting[i])
      /\ Elements(queue[i]) \cap Elements(waiting[i]) = {}
      /\ queue[i] # << >>
  BY DEF TypeOK, Waiting, HeldOnce, Collect
<1>2. /\ UNCHANGED <<requests, goal, home, fate, stage>>
      /\ \A k \in Task : queue'[k] = IF k = i THEN Tail(queue[i]) ELSE queue[k]
      /\ \A k \in Task : waiting'[k] = IF k = i THEN Append(waiting[i], j) ELSE waiting[k]
  BY DEF Collect, TypeOK
<1>3. /\ OnceIn(Tail(queue[i])) /\ Elements(Tail(queue[i])) = Elements(queue[i]) \ {j}
      /\ j \in Elements(queue[i])
  BY <1>1, Shorter
<1>4. j \in Join /\ j \notin Elements(waiting[i])
  BY <1>1, <1>3, ElementsInRange
<1>5. OnceIn(Append(waiting[i], j)) /\ Elements(Append(waiting[i], j)) = Elements(waiting[i]) \cup {j}
  BY <1>1, <1>4, Longer
<1>6. /\ Elements(queue'[i]) \cup Elements(waiting'[i]) \subseteq Held(i) \ {}
      /\ OnceIn(queue'[i]) /\ OnceIn(waiting'[i])
      /\ Elements(queue'[i]) \cap Elements(waiting'[i]) = {}
  BY <1>1, <1>2, <1>3, <1>5 DEF Held
<1>7. Waiting'
  <2>1. /\ \A k \in Task : stage'[k] = "unborn" <=> stage[k] = "unborn"
        /\ \A k \in Task \ {i} : queue'[k] = queue[k] /\ waiting'[k] = waiting[k]
    BY <1>2
  <2>2. {} \subseteq Held(i) /\ \A k \in Join : IF k \in {} THEN fate'[k] # "idle" ELSE fate'[k] = fate[k]
    BY <1>2
  <2> QED BY <1>2, <1>6, <2>1, <2>2, TaskLetsGo
<1>8. Opened' = Opened
  BY <1>2 DEF Opened
<1> QED BY <1>2, <1>7, <1>8, PromisedNothing

LEMMA TaskKeeps ==
  ASSUME TypeOK, TypeOK', Waiting, NEW i \in Task,
         Read(i) \/ Corrupt(i) \/ Collect(i) \/ Found(i) \/ Unusable(i) \/ GiveUp(i)
           \/ Begin(i) \/ Take(i) \/ Erase(i) \/ Swallow(i) \/ Stop(i)
  PROVE  Waiting' /\ [Promise!Next]_Promise!vars
<1>1. ASSUME NEW from \in {{"reading"}, {"loading"}, {"creating"}, Fetching}, Collapse(i, from)
      PROVE  Waiting' /\ [Promise!Next]_Promise!vars
  BY <1>1, CollapseKeeps DEF Fetching
<1>2. ASSUME NEW from \in {Fetching, {"starting"}, {"running", "hole"}}, End(i, from)
      PROVE  Waiting' /\ [Promise!Next]_Promise!vars
  BY <1>2, EndKeeps DEF Fetching
<1>3. ASSUME NEW from \in {{"reading"}, {"loading"}, {"creating"}, {"starting"}},
             NEW to \in {"loading", "starting", "running"}, Goes(i, from, to)
      PROVE  Waiting' /\ [Promise!Next]_Promise!vars
  BY <1>3, GoesKeeps
<1>4. CASE Read(i) \/ Corrupt(i)
  BY <1>1, <1>3, <1>4 DEF Read, Corrupt
<1>5. CASE Found(i)
  BY <1>1, <1>3, <1>5 DEF Found
<1>6. CASE Unusable(i) \/ GiveUp(i) \/ Stop(i)
  BY <1>1, <1>2, <1>6 DEF Unusable, GiveUp, Stop
<1>7. CASE Begin(i)
  BY <1>2, <1>3, <1>7 DEF Begin
<1>8. CASE Erase(i)
  <2>1. UNCHANGED <<requests, goal, home, queue, waiting, fate, stage>>
    BY <1>8 DEF Erase, tasks
  <2> QED BY <2>1, NothingHappens
<1> QED BY <1>4, <1>5, <1>6, <1>7, <1>8, CollectKeeps, TakeKeeps

\* A join that is served goes into the channel of a task: of one that was
\* there before, or of one that is spawned for it.
LEMMA JoinIsPassedOn ==
  ASSUME TypeOK, Waiting, requests # << >>, requests' = Tail(requests), fate' = fate, UNCHANGED waiting,
         NEW j, j = Head(requests).join, NEW i \in Task,
         \A k \in Task : queue'[k] = IF k = i THEN Append(queue[i], j) ELSE queue[k],
         \A k \in Task : home'[k] = home[k] \/ (k = i /\ Held(i) = {}),
         \A k \in Join : k # j => goal'[k] = goal[k],
         goal'[j] = home'[i],
         \A k \in Task : k # i => (stage'[k] = "unborn" <=> stage[k] = "unborn"),
         stage'[i] # "unborn", i = j \/ stage[i] # "unborn"
  PROVE  Waiting'
<1>1. /\ j \in Asked /\ fate[j] = "asking" /\ Asked' \subseteq Asked \ {j}
      /\ \A k \in 1..Len(requests') : \E l \in 1..Len(requests) : requests'[k] = requests[l]
      /\ \A k, l \in 1..Len(requests') : requests'[k].join = requests'[l].join => k = l
  BY RequestServed DEF Waiting
<1>2. /\ \A k \in Task : Held(k) \subseteq Join /\ queue[k] \in Seq(Join) /\ waiting[k] \in Seq(Join)
      /\ Asked \subseteq Join /\ \A k \in 1..Len(requests) : requests[k].join \in Asked
      /\ j \in Join
  BY <1>1, HeldAreJoins
<1>3. \A k \in Task : j \notin Held(k)
  BY <1>1 DEF Waiting, JoinsWait
<1>4. OnceIn(queue'[i]) /\ Elements(queue'[i]) = Elements(queue[i]) \cup {j}
  <2>1. queue[i] \in Seq(Join) /\ OnceIn(queue[i]) /\ j \notin Elements(queue[i])
    BY <1>2, <1>3 DEF Waiting, HeldOnce, Held
  <2> QED BY <1>2, <2>1, Longer
<1>5. \A k \in Task : Held(k)' = IF k = i THEN Held(i) \cup {j} ELSE Held(k)
  BY <1>4, QueuesNext DEF Held
<1>6. RequestsWait'
  <2>1. ASSUME NEW k \in 1..Len(requests')
        PROVE  fate'[requests'[k].join] = "asking" /\ goal'[requests'[k].join] = requests'[k].place
    <3>1. PICK l \in 1..Len(requests) : requests'[k] = requests[l]
      BY <1>1
    <3>2. requests'[k].join \in Asked'
      BY DEF Asked
    <3>3. requests[l].join # j /\ requests[l].join \in Join
      BY <1>1, <1>2, <3>1, <3>2
    <3> QED BY <3>1, <3>3 DEF Waiting, RequestsWait
  <2> QED BY <1>1, <2>1 DEF RequestsWait
<1>7. JoinsWait'
  <2>1. ASSUME NEW k \in Task, NEW l \in Held(k)'
        PROVE  fate'[l] = "asking" /\ goal'[l] = home'[k] /\ l \notin Asked'
    <3>1. CASE k = i /\ l = j
      BY <1>1, <3>1
    <3>2. CASE ~(k = i /\ l = j)
      <4>1. l \in Held(k) /\ l # j /\ l \in Join
        BY <1>2, <1>3, <1>5, <2>1, <3>2
      <4>2. home'[k] = home[k] /\ goal'[l] = goal[l]
        BY <4>1
      <4>3. fate[l] = "asking" /\ goal[l] = home[k] /\ l \notin Asked
        BY <4>1 DEF Waiting, JoinsWait
      <4> QED BY <1>1, <4>2, <4>3
    <3> QED BY <3>1, <3>2
  <2> QED BY <2>1 DEF JoinsWait
<1>8. HeldOnce'
  <2>1. ASSUME NEW k \in Task
        PROVE  /\ OnceIn(queue'[k]) /\ OnceIn(waiting'[k]) /\ Elements(queue'[k]) \cap Elements(waiting'[k]) = {}
    <3>1. OnceIn(queue[k]) /\ OnceIn(waiting[k]) /\ Elements(queue[k]) \cap Elements(waiting[k]) = {}
      BY DEF Waiting, HeldOnce
    <3>2. j \notin Elements(waiting[k])
      BY <1>3 DEF Held
    <3> QED BY <1>4, <3>1, <3>2
  <2> QED BY <2>1, QueuesNext DEF HeldOnce
<1>9. HeldByOne'
  <2>1. ASSUME NEW k \in Task, NEW l \in Task, k # l PROVE Held(k)' \cap Held(l)' = {}
    BY <1>3, <1>5, <2>1 DEF Waiting, HeldByOne
  <2> QED BY <2>1 DEF HeldByOne
<1>10. BornOfAJoin'
  <2>1. ASSUME NEW k \in Task
        PROVE  IF stage'[k] = "unborn" THEN Held(k)' = {} ELSE fate'[k] # "idle" /\ k \notin Asked'
    <3>1. CASE k = i
      BY <1>1, <3>1 DEF Waiting, BornOfAJoin
    <3>2. CASE k # i
      BY <1>1, <1>5, <3>2 DEF Waiting, BornOfAJoin
    <3> QED BY <3>1, <3>2
  <2> QED BY <2>1 DEF BornOfAJoin
<1> QED BY <1>6, <1>7, <1>8, <1>9, <1>10 DEF Waiting

\* Somebody asks.
LEMMA AskKeeps ==
  ASSUME TypeOK, TypeOK', Waiting, NEW r \in Request, Ask(r)
  PROVE  Waiting' /\ [Promise!Next]_Promise!vars
<1> PICK j : j = r.join
  OBVIOUS
<1>1. j \in Join /\ r.place \in Place \cup {Nowhere} /\ fate[j] = "idle"
  BY DEF Request, Place, Ask
<1>2. /\ UNCHANGED <<stage, home, queue, waiting>>
      /\ Settle({j}, "asking") /\ goal' = [goal EXCEPT ![j] = r.place] /\ requests' = Append(requests, r)
  BY DEF Ask, tasks
<1>3. /\ \A k \in Join : fate'[k] = IF k = j THEN "asking" ELSE fate[k]
      /\ \A k \in Join : goal'[k] = IF k = j THEN r.place ELSE goal[k]
  BY <1>1, <1>2 DEF Settle, TypeOK
<1>4. /\ \A k \in Task : Held(k) \subseteq Join /\ j \notin Held(k)
      /\ Asked \subseteq Join /\ j \notin Asked
      /\ \A k \in 1..Len(requests) : requests[k].join \in Asked
  BY <1>1, HeldAreJoins DEF Waiting, JoinsWait, Asked, RequestsWait
<1>5. /\ requests \in Seq(Request) /\ Len(requests) \in Nat /\ Len(requests') = Len(requests) + 1
      /\ requests'[Len(requests) + 1] = r /\ \A k \in 1..Len(requests) : requests'[k] = requests[k]
  BY <1>2 DEF TypeOK
<1>6. 1..Len(requests') = 1..Len(requests) \cup {Len(requests) + 1} /\ Len(requests) + 1 \notin 1..Len(requests)
  BY <1>5
<1>7. Asked' = Asked \cup {j}
  BY <1>5, <1>6 DEF Asked
<1>8. \A k \in Task : Held(k)' = Held(k)
  BY <1>2, QueuesNext DEF Held
<1>9. RequestsWait'
  <2>1. ASSUME NEW k \in 1..Len(requests')
        PROVE  fate'[requests'[k].join] = "asking" /\ goal'[requests'[k].join] = requests'[k].place
    <3>1. CASE k = Len(requests) + 1
      BY <1>1, <1>3, <1>5, <3>1
    <3>2. CASE k \in 1..Len(requests)
      <4>1. requests'[k] = requests[k] /\ requests[k].join \in Join /\ requests[k].join # j
        BY <1>4, <1>5, <3>2
      <4> QED BY <1>3, <3>2, <4>1 DEF Waiting, RequestsWait
    <3> QED BY <1>6, <3>1, <3>2
  <2>2. ASSUME NEW k \in 1..Len(requests'), NEW l \in 1..Len(requests'), requests'[k].join = requests'[l].join
        PROVE  k = l
    <3>1. CASE k \in 1..Len(requests) /\ l \in 1..Len(requests)
      BY <1>5, <2>2, <3>1 DEF Waiting, RequestsWait
    <3>2. \A m \in 1..Len(requests) : requests'[m].join # j
      BY <1>4, <1>5
    <3> QED BY <1>5, <1>6, <2>2, <3>1, <3>2
  <2> QED BY <2>1, <2>2 DEF RequestsWait
<1>10. JoinsWait'
  <2>1. ASSUME NEW k \in Task, NEW l \in Held(k)'
        PROVE  fate'[l] = "asking" /\ goal'[l] = home'[k] /\ l \notin Asked'
    <3>1. l \in Held(k) /\ l # j /\ l \in Join
      BY <1>4, <1>8
    <3>2. fate[l] = "asking" /\ goal[l] = home[k] /\ l \notin Asked
      BY <3>1 DEF Waiting, JoinsWait
    <3> QED BY <1>2, <1>3, <1>7, <3>1, <3>2
  <2> QED BY <2>1 DEF JoinsWait
<1>11. HeldOnce' /\ HeldByOne'
  BY <1>2, <1>8, QueuesNext DEF Waiting, HeldOnce, HeldByOne
<1>12. BornOfAJoin'
  <2>1. ASSUME NEW k \in Task
        PROVE  IF stage'[k] = "unborn" THEN Held(k)' = {} ELSE fate'[k] # "idle" /\ k \notin Asked'
    <3>1. k \in Join
      BY DEF Task
    <3>2. stage[k] # "unborn" => k # j
      BY <1>1 DEF Waiting, BornOfAJoin
    <3> QED BY <1>2, <1>3, <1>7, <1>8, <3>1, <3>2 DEF Waiting, BornOfAJoin
  <2> QED BY <2>1 DEF BornOfAJoin
<1>13. Opened' = Opened
  BY <1>2 DEF Opened
<1>14. [Promise!Next]_Promise!vars
  BY <1>1, <1>2, <1>13, PromisedAsk
<1> QED BY <1>9, <1>10, <1>11, <1>12, <1>14 DEF Waiting

\* An endpoint leads to a task of its location.
EndpointsLead == \A place \in DOMAIN active : stage[active[place]] # "unborn" /\ home[active[place]] = place

\* Where no task is spawned.
LEMMA EndpointsStay ==
  ASSUME TypeOK, EndpointsLead, home' = home, \A k \in Task : stage'[k] = "unborn" => stage[k] = "unborn",
         \A place \in DOMAIN active' : place \in DOMAIN active /\ active'[place] = active[place]
  PROVE  EndpointsLead'
BY DEF EndpointsLead, TypeOK

LEMMA SpawnKeeps ==
  ASSUME TypeOK, TypeOK', Waiting, EndpointsLead, requests # << >>, requests' = Tail(requests),
         NEW j \in Join, j = Head(requests).join, NEW place \in Place,
         NEW what \in {"reading", "creating", "starting", "hole"}, Spawn(j, place, what),
         \/ goal' = goal /\ goal[j] = place
         \/ goal' = [goal EXCEPT ![j] = place] /\ goal[j] = Nowhere
  PROVE  Waiting' /\ EndpointsLead' /\ [Promise!Next]_Promise!vars
<1>1. /\ \A k \in Task : stage'[k] = IF k = j THEN what ELSE stage[k]
      /\ \A k \in Task : home'[k] = IF k = j THEN place ELSE home[k]
      /\ \A k \in Task : queue'[k] = IF k = j THEN <<j>> ELSE queue[k]
      /\ UNCHANGED <<waiting, fate>>
      /\ j \in Task
  BY DEF Spawn, TypeOK, Task
<1>2. j \in Asked /\ fate[j] = "asking"
  BY RequestServed DEF Waiting
<1>3. stage[j] = "unborn" /\ Held(j) = {}
  BY <1>1, <1>2 DEF Waiting, BornOfAJoin
<1>4. queue'[j] = Append(queue[j], j)
  <2>1. queue[j] \in Seq(Join) /\ Elements(queue[j]) = {}
    BY <1>1, <1>3, HeldAreJoins DEF Held
  <2>2. Len(queue[j]) = 0
    <3>1. Len(queue[j]) \in Nat
      BY <2>1
    <3>2. 1 \in 1..Len(queue[j]) => queue[j][1] \in Elements(queue[j])
      BY DEF Elements
    <3> QED BY <2>1, <3>1, <3>2
  <2>3. queue[j] = << >>
    BY <2>1, <2>2
  <2> QED BY <1>1, <2>3
<1>5. goal'[j] = place /\ \A k \in Join : k # j => goal'[k] = goal[k]
  BY DEF TypeOK
<1>6. Waiting'
  <2>1. \A k \in Task : queue'[k] = IF k = j THEN Append(queue[j], j) ELSE queue[k]
    BY <1>1, <1>4
  <2>2. /\ \A k \in Task : home'[k] = home[k] \/ (k = j /\ Held(j) = {})
        /\ goal'[j] = home'[j] /\ stage'[j] # "unborn"
        /\ \A k \in Task : k # j => (stage'[k] = "unborn" <=> stage[k] = "unborn")
    BY <1>1, <1>3, <1>5
  <2> QED BY <1>1, <1>5, <2>1, <2>2, JoinIsPassedOn
<1>7. EndpointsLead'
  <2>1. /\ DOMAIN active' = DOMAIN active \cup {place}
        /\ \A p \in DOMAIN active' : active'[p] = IF p = place THEN j ELSE active[p]
    BY DEF Spawn
  <2>2. ASSUME NEW p \in DOMAIN active'
        PROVE  stage'[active'[p]] # "unborn" /\ home'[active'[p]] = p
    <3>1. CASE p = place
      BY <1>1, <2>1, <3>1
    <3>2. CASE p # place
      <4>1. p \in DOMAIN active /\ active'[p] = active[p] /\ active[p] \in Task
        BY <2>1, <2>2, <3>2 DEF TypeOK
      <4>2. stage[active[p]] # "unborn" /\ home[active[p]] = p
        BY <4>1 DEF EndpointsLead
      <4> QED BY <1>1, <1>3, <4>1, <4>2
    <3> QED BY <3>1, <3>2
  <2> QED BY <2>2 DEF EndpointsLead
<1>8. Opened' = Opened
  <2>1. \A k \in Task : stage'[k] = "running" <=> stage[k] = "running"
    BY <1>1, <1>3
  <2>2. \A k \in Task : stage[k] = "running" => home'[k] = home[k]
    BY <1>1, <1>3
  <2> QED BY <2>1, <2>2 DEF Opened
<1>9. [Promise!Next]_Promise!vars
  <2>1. CASE goal' = goal
    BY <1>1, <1>8, <2>1, PromisedNothing
  <2>2. CASE goal' = [goal EXCEPT ![j] = place] /\ goal[j] = Nowhere
    BY <1>1, <1>2, <1>8, <2>2, PromisedName DEF Asking
  <2> QED BY <2>1, <2>2
<1> QED BY <1>6, <1>7, <1>9

LEMMA JoinActiveKeeps ==
  ASSUME TypeOK, TypeOK', Waiting, EndpointsLead, requests # << >>, requests' = Tail(requests), goal' = goal,
         NEW j \in Join, j = Head(requests).join, NEW place \in DOMAIN active, goal[j] = place, JoinActive(j, place)
  PROVE  Waiting' /\ EndpointsLead' /\ [Promise!Next]_Promise!vars
<1> PICK i : i = active[place]
  OBVIOUS
<1>1. i \in Task /\ stage[i] # "unborn" /\ home[i] = place
  BY DEF TypeOK, EndpointsLead
<1>2. CASE Settle({j}, "stale") /\ active' = Removed(active, place) /\ UNCHANGED tasks
  <2>1. Waiting' /\ [Promise!Next]_Promise!vars
    BY <1>2, ServedLeaves
  <2>2. EndpointsLead'
    BY <1>2, RemovedEndpoint, EndpointsStay DEF TypeOK, tasks
  <2> QED BY <2>1, <2>2
<1>3. CASE Tell(j)
  <2>1. Waiting' /\ [Promise!Next]_Promise!vars
    BY <1>3, ServedLeaves DEF Tell
  <2>2. EndpointsLead'
    BY <1>3, EndpointsStay DEF Tell, tasks
  <2> QED BY <2>1, <2>2
<1>4. CASE /\ queue' = [queue EXCEPT ![i] = Append(@, j)]
           /\ UNCHANGED <<active, stage, home, waiting, fate>>
  <2>1. \A k \in Task : queue'[k] = IF k = i THEN Append(queue[i], j) ELSE queue[k]
    BY <1>4 DEF TypeOK
  <2>2. Waiting'
    BY <1>1, <1>4, <2>1, JoinIsPassedOn
  <2>3. EndpointsLead'
    BY <1>4, EndpointsStay
  <2>4. [Promise!Next]_Promise!vars
    BY <1>4, PromisedNothing DEF Opened
  <2> QED BY <2>2, <2>3, <2>4
<1> QED BY <1>2, <1>3, <1>4 DEF JoinActive

LEMMA ServeKeeps ==
  ASSUME TypeOK, TypeOK', Waiting, EndpointsLead, Serve
  PROVE  Waiting' /\ EndpointsLead' /\ [Promise!Next]_Promise!vars
<1>1. ASSUME NEW j \in Join, NEW kind, NEW place, Serving(j, kind, place)
      PROVE  /\ requests # << >> /\ requests' = Tail(requests) /\ j = Head(requests).join
             /\ goal[j] = place
  <2>1. requests # << >> /\ requests' = Tail(requests) /\ Head(requests) = [join |-> j, kind |-> kind, place |-> place]
    BY <1>1 DEF Serving
  <2>2. goal[Head(requests).join] = Head(requests).place
    BY <2>1, RequestServed DEF Waiting
  <2> QED BY <2>1, <2>2
<1>2. ASSUME NEW j, requests # << >>, requests' = Tail(requests), j = Head(requests).join, goal' = goal,
             NEW how \in {"told", "stale", "dropped"}, Settle({j}, how), UNCHANGED <<active, tasks>>
      PROVE  Waiting' /\ EndpointsLead' /\ [Promise!Next]_Promise!vars
  <2>1. Waiting' /\ [Promise!Next]_Promise!vars
    BY <1>2, ServedLeaves
  <2>2. EndpointsLead'
    BY <1>2, EndpointsStay DEF tasks
  <2> QED BY <2>1, <2>2
<1>3. ASSUME NEW j \in Join, ServeUnsupported(j) PROVE Waiting' /\ EndpointsLead' /\ [Promise!Next]_Promise!vars
  <2>1. requests # << >> /\ requests' = Tail(requests) /\ j = Head(requests).join
    BY <1>1, <1>3 DEF ServeUnsupported
  <2>2. Settle({j}, "told") /\ UNCHANGED <<active, tasks>> /\ goal' = goal
    BY <1>3 DEF ServeUnsupported, Tell
  <2> QED BY <1>2, <2>1, <2>2
<1>4. ASSUME NEW j \in Join, NEW place \in AssetPlace, ServeCreate(j, place)
      PROVE  Waiting' /\ EndpointsLead' /\ [Promise!Next]_Promise!vars
  <2>1. /\ requests # << >> /\ requests' = Tail(requests) /\ j = Head(requests).join
        /\ goal[j] = place
    BY <1>1, <1>4 DEF ServeCreate
  <2>2. goal' = goal /\ place \in Place
    BY <1>4 DEF ServeCreate, Place
  <2>3. CASE Tell(j)
    BY <1>2, <2>1, <2>2, <2>3 DEF Tell
  <2>4. CASE Spawn(j, place, "creating") \/ Spawn(j, place, "reading")
    BY <2>1, <2>2, <2>4, SpawnKeeps
  <2>5. CASE place \in DOMAIN active /\ JoinActive(j, place)
    BY <2>1, <2>2, <2>5, JoinActiveKeeps
  <2> QED BY <1>4, <2>3, <2>4, <2>5 DEF ServeCreate
<1>5. ASSUME NEW j \in Join, ServeApplication(j) PROVE Waiting' /\ EndpointsLead' /\ [Promise!Next]_Promise!vars
  <2>1. PICK place \in Unused :
          /\ goal' = [goal EXCEPT ![j] = place]
          /\ Spawn(j, place, "starting") \/ Spawn(j, place, "hole")
    BY <1>5 DEF ServeApplication
  <2>2. /\ requests # << >> /\ requests' = Tail(requests) /\ j = Head(requests).join
        /\ goal[j] = Nowhere /\ place \in Place
    BY <1>1, <1>5 DEF ServeApplication, Unused, Place
  <2> QED BY <2>1, <2>2, SpawnKeeps
<1>6. ASSUME NEW told, EndDirectory(told), told \subseteq Asked
      PROVE  Waiting' /\ EndpointsLead' /\ [Promise!Next]_Promise!vars
  <2>1. EndpointsLead'
    BY <1>6 DEF EndDirectory, EndpointsLead
  <2> QED BY <1>6, <2>1, EndDirectoryLeaves
<1>7. ASSUME NEW j \in Join, FailApplication(j) PROVE Waiting' /\ EndpointsLead' /\ [Promise!Next]_Promise!vars
  <2>1. EndDirectory({j}) /\ requests # << >> /\ j = Head(requests).join
    BY <1>7 DEF FailApplication
  <2>2. j \in Asked
    <3>1. Head(requests) = requests[1] /\ 1 \in 1..Len(requests)
      BY <2>1 DEF TypeOK
    <3> QED BY <2>1, <3>1 DEF Asked
  <2> QED BY <1>6, <2>1, <2>2
<1>8. ASSUME NEW j \in Join, NEW place \in Place, NEW kind, ServeJoin(j, kind, place)
      PROVE  Waiting' /\ EndpointsLead' /\ [Promise!Next]_Promise!vars
  <2>1. /\ requests # << >> /\ requests' = Tail(requests) /\ j = Head(requests).join
        /\ goal[j] = place /\ goal' = goal
    BY <1>1, <1>8 DEF ServeJoin
  <2>2. CASE Tell(j)
    BY <1>2, <2>1, <2>2 DEF Tell
  <2>3. CASE Settle({j}, "dropped") /\ UNCHANGED <<active, tasks>>
    BY <1>2, <2>1, <2>3
  <2>4. CASE Spawn(j, place, "reading")
    BY <2>1, <2>4, SpawnKeeps
  <2>5. CASE place \in DOMAIN active /\ JoinActive(j, place)
    BY <2>1, <2>5, JoinActiveKeeps
  <2> QED BY <1>8, <2>2, <2>3, <2>4, <2>5 DEF ServeJoin
<1>9. CASE SendFails
  <2>1. /\ requests # << >> /\ requests' = Tail(requests) /\ goal' = goal
        /\ Settle({Head(requests).join}, "told") /\ UNCHANGED <<active, tasks>>
    BY <1>9 DEF SendFails, Tell
  <2> QED BY <1>2, <2>1
<1> QED BY <1>3, <1>4, <1>5, <1>7, <1>8, <1>9 DEF Serve

LEMMA PromiseStep == TypeOK /\ TypeOK' /\ Waiting /\ EndpointsLead /\ [Next]_vars =>
                       Waiting' /\ EndpointsLead' /\ [Promise!Next]_Promise!vars
<1> SUFFICES ASSUME TypeOK, TypeOK', Waiting, EndpointsLead, [Next]_vars
             PROVE  Waiting' /\ EndpointsLead' /\ [Promise!Next]_Promise!vars
  OBVIOUS
<1>1. ASSUME NEW r \in Request, Ask(r) PROVE Waiting' /\ EndpointsLead' /\ [Promise!Next]_Promise!vars
  <2>1. EndpointsLead'
    BY <1>1, EndpointsStay DEF Ask, tasks
  <2> QED BY <1>1, <2>1, AskKeeps
<1>2. CASE QuitDirectory
  <2>1. EndDirectory({})
    BY <1>2 DEF QuitDirectory
  <2>2. EndpointsLead'
    BY <2>1 DEF EndDirectory, EndpointsLead
  <2> QED BY <2>1, <2>2, EndDirectoryLeaves
<1>3. CASE Die \/ UNCHANGED vars
  <2>1. UNCHANGED <<requests, active, goal, home, queue, waiting, fate, stage>>
    BY <1>3 DEF Die, vars, tasks
  <2>2. EndpointsLead'
    BY <2>1, EndpointsStay
  <2> QED BY <2>1, <2>2, NothingHappens
<1>4. ASSUME NEW i \in Task,
             Read(i) \/ Corrupt(i) \/ Collect(i) \/ Found(i) \/ Unusable(i) \/ GiveUp(i)
               \/ Begin(i) \/ Take(i) \/ Erase(i) \/ Swallow(i) \/ Stop(i)
      PROVE  Waiting' /\ EndpointsLead' /\ [Promise!Next]_Promise!vars
  <2>1. active' = active /\ home' = home
    BY <1>4 DEF Read, Corrupt, Collect, Found, Unusable, GiveUp, Begin, Take, Erase, Swallow, Stop,
                Goes, Collapse, End, Moves, tasks
  <2>2. \A k \in Task : stage'[k] = "unborn" => stage[k] = "unborn"
    BY <1>4 DEF Read, Corrupt, Collect, Found, Unusable, GiveUp, Begin, Take, Erase, Swallow, Stop,
                Goes, Collapse, End, Moves, tasks, TypeOK
  <2>3. EndpointsLead'
    BY <2>1, <2>2, EndpointsStay
  <2> QED BY <1>4, <2>3, TaskKeeps
<1> QED BY <1>1, <1>2, <1>3, <1>4, ServeKeeps DEF Next

LEMMA PromiseInit == Init => Waiting /\ EndpointsLead /\ Promise!Init
<1> SUFFICES ASSUME Init PROVE Waiting /\ EndpointsLead /\ Promise!Init
  OBVIOUS
<1>1. Asked = {} /\ \A i \in Task : queue[i] = << >> /\ waiting[i] = << >>
  BY DEF Init, Asked
<1>2. Elements(<< >>) = {} /\ OnceIn(<< >>)
  BY DEF Elements, OnceIn
<1>3. \A i \in Task : Held(i) = {}
  BY <1>1, <1>2 DEF Held
<1>4. Waiting
  BY <1>1, <1>2, <1>3 DEF Init, Waiting, RequestsWait, JoinsWait, HeldOnce, HeldByOne, BornOfAJoin
<1>5. EndpointsLead
  BY DEF Init, EndpointsLead
<1>6. Promise!Init
  <2>1. [j \in Join |-> CASE fate[j] \in {"told", "stale", "dropped"} -> "refused" [] OTHER -> fate[j]]
          = [j \in Join |-> Seen(fate[j])]
    BY SeenOfAll
  <2>2. \A j \in Join : Seen(fate[j]) = "idle"
    BY DEF Init, Seen
  <2>3. {k \in Task : stage[k] = "running"} = {}
    BY DEF Init
  <2> QED BY <2>1, <2>2, <2>3 DEF Promise!Init, Init
<1> QED BY <1>4, <1>5, <1>6

\* The directory, its endpoints and the tasks keep the promise of Admission: a
\* join is settled once, and gets in only where it was for and while that
\* runs, whatever fails, is erased or shuts down on the way, for any number of
\* joins and locations.  (That each is settled eventually is liveness.)
THEOREM PromiseIsKept == Spec => AdmitsAsPromised
<1>1. Spec => [](TypeOK /\ Waiting /\ EndpointsLead)
  BY TypeInit, TypeStep, PromiseInit, PromiseStep, PTL DEF Spec, SafeSpec
<1> QED BY <1>1, PromiseInit, PromiseStep, PTL DEF Spec, SafeSpec, AdmitsAsPromised
=============================================================================
