# Spadina in TLA+

Spadina is a federated puzzle game: players have an account on one server,
enter *locations* on any server (or host one themselves), talk to each other,
and servers exchange visitors, messages and assets over web sockets. This
directory holds TLA+ specifications of the concurrent core of that program,
the configurations that check them with TLC, and proofs checked by TLAPS.
Paths below are relative to the repository; every definition of a module is
assigned to the source lines it translates in `PROJECT.json` (`map`).

## The system

| part | state | operations | talks to |
|---|---|---|---|
| keyed stream maps `server/src/stream_map.rs` | wrapped map, `ready` set, wakers | poll_next, wake, mutate, entry, remove | every task below |
| tracking maps `core/src/tracking_map` | `next_id`, `active` | add, finish, purge_expired | Peer, client library |
| socket entity `server/src/socket_entity` | connection (Dead queue, Online, Offline), side tasks | run loop, establish, send | Client and Peer are entities |
| Peer `server/src/peer` | outstanding requests, `players_on_peer`, `players_from_peer`, reconnection timer | one per PeerMessage, PeerRequest and internal event | the Peer of the other server, directory, locations |
| Client `server/src/client` | `current_location`, avatar, access settings, searches, keys | one per ClientRequest and PlayerRequest | socket, directory, location |
| hosting task `server/src/client/hosting.rs` | players, chat, announcements, acl | HostCommand, PlayerEvent, join | Client of the host, guests |
| location task `server/src/database/database_location.rs` | players, identifiers, controller, acl | join, event, timer, outputs | Clients, Peers (visitors), database |
| directories `server/src/directory`, `database_location_directory.rs` | running entities, hosts, locations | one per directory request | everything |
| access management, persisted settings `server/src/access.rs`, `database/persisted.rs` | settings in memory and in the database | read, mutate, write, watch | Client, Peer, locations |
| asset manager, expiring maps `asset_store/manager.rs`, `gc_map` | assets cached, waiting or in flight | pull, receive, expire | Peer, stores, locations |
| handshake `peer/handshake.rs` | tokens handed out | initiate, finish | HTTP server, directory |
| access rules `core/src/access.rs`, `core/src/player.rs` | none | check, globalize, localize | settings of players, locations and the server |
| puzzle state machine `core/src/controller` | states, locals, timers | input, timer, triggers | location task |
| database `server/src/database` | rows of players, locations, messages, settings, keys | queries | every task above |
| accounts, logins `server/src/accounts`, `http_server` | pending logins, signing key, keys and codes in rows | password, key and OpenID logins, tokens | database, providers, sockets |
| client library `client/src` | caches, outstanding requests | responses and updates | server |

What is hard here: nearly everything is a task of its own and talks through
bounded channels, one-shots and watches; a select loop mixes them; players are
known by name in tables that several visits pass through; identifiers of
requests are reused; connections come and go while entities live on; rows are
written on both ends of a conversation. `PROJECT.json` (`hazards`) lists what
can go wrong, line by line. The repository has no tests of these parts.

What makes each part correct, in short: a stream that has something is polled; an answer
goes to the one who asked; messages go out in order and are lost only with a queue or a
socket; a visitor is known at home as long as he is away, and no longer; the tables of a
location agree on who is inside and the access setting is obeyed at once; what a sender, a
recipient and the database say of a message agrees; a host knows his guests and takes them
with him when he goes; a setting that was accepted is stored, and the client shows it;
nobody finds, changes or learns more than he may; a puzzle's machines come to rest in
states that can be read back; a login, a key and a token are worth what they were checked
against.

## The modules

**StreamMap** (stream_map.rs). `map`, `ready` and, per stream, what is queued,
closed and which waker is held. Producers wake in two steps (insert the key,
notify the task), the owner polls one key per step because the mutex guard
lives through the loop body. `Mutate`, `Entry` and `Remove` are the owner's
accesses; `GuardDrop` is the `Drop` of the guard, with the condition as it is in
the code. The executor and tokio's channels are external.

**TrackingMap** (tracking_map, and the way Peer::process uses it: purge first).
`active` maps identifiers to entries, `nextId` wraps at `IdSpace`. The other
server may answer never, once or several times, at any later moment.

**EntitySocket** (socket_entity, reconnection_timer.rs). A message is its number
in the order of sending; `written` is what went to sockets. What goes through
Peer::process first arms or disarms the timer (`Active`); the results of side
tasks and pings do not. `failures` counts the refused handshakes and `delay`
backs off with them; after `GiveUp` refusals the timer still rings, but to no
effect (`Exceeded`).

**VisitorHandoff** (peer/mod.rs, on_peer.rs, from_peer.rs, client/location.rs). One
player per server, both of the same name, each attempt a session; `onPeer` and
`visit` are the two tables, `link` the messages between servers, in order and
without loss. The streams of either table may be polled at any moment or never.

**LocationTask** (`run` of database_location.rs). A step is a round of the loop: an
event, then the outputs of the controller, then the removal of the dead. A
controller may answer anything about the players it knows.

**DirectMessage** (Directory::send_dm, both Peers, the player directory, the chat
tables, the receipts in the client library). `mail` is what was sent, `watch` the
status the sender's Client polls, `heard` what its library has made of it;
`waiting`/`tasks` are the outstanding messages and side tasks of the Peers,
`dirq` the requests of the player directory, `localChat`, `remoteChat`,
`lastRead` the rows. A server may restart: its identifiers start at 0 while
the other one's side tasks live on.

**HostedLocation** (hosting.rs, client/location.rs). `inputq` and `clientq` are the
bounded channels between the host's Client and the task. What an event tells
the host waits in `outbox`, because each write may block; `dead` is the set of
that name, removed one by one after the event. `believed` follows what the
host has been told. The streams of guests may be polled at any moment or never,
so that a guest who has hung up stays in the table (`HungUp`), and may come
again meanwhile.

**LocationStart** (database_location_directory.rs, the loading half of
database_location.rs, location_endpoint.rs). `requests` is the channel to the
directory, `active` its table; a task is `stage`, `home`, `queue` (its endpoint's
channel) and `waiting` (what find_asset collects); `rows` is the table of the
database. A join is a number, in the order of asking; `fate` is what becomes of
it: `told` is an answer on its channel, `stale` the answer of an endpoint whose
task has ended, `dropped` a channel that closes without an answer.

**Admission** is what LocationStart implements: a request is settled once, by
entry to an open location it was for or by refusal, and it is settled in the
end. `LocationStart!Promise` maps `told`, `stale` and `dropped` to a refusal and the
running tasks to the open locations. One step of the code may settle several
requests and close a location, so `Close` and `Refuse` take sets.

**AccountSettings** (client/cache.rs and updates.rs of the client library, the
handlers of the Client, persisted.rs, access.rs). Every kind of setting has a
`cache` at the player's client, where updates show before they are accepted, a
value in the server's memory (`mem`) and a `row`; `toServer` and `toClient` are
the connection in order, `pending` the maps of outstanding updates, `writing`
the tasks that have changed the shared announcements and not yet stored them.
`tainted` records the cases in which the code is known to go wrong (below),
`last` the answer to the last write. A query may fail, a connection break, the
server crash.

**LocationRecords** (database/mod.rs, location_persistence.rs, the searches of
Client and Peer). `visibility` and `acl` are columns, `seen` and `memory` what a
running task goes by, `inbox` its broadcast channel with `Lag` places, `bulk` and
`notices` the two halves of a bulk change. A search goes through `query`,
`found`, `chunks` (what waits for its estimate), `link` (the other server's
messages), `watch`, where a message replaces one that was not taken, and `shown`;
`tracked` ends when the search's time is up, and `LoseFar` is a connection that breaks.

**PuzzleMachine** (controller/puzzle). One call of `process` is several steps,
one per machine looked at; `triggers` are the events of this round, `serviced`
the machines that have moved. `saved` is what the row of the location holds,
`wake` the timer of its task, `torn` the machines in which an error struck
between locals and outputs. What expressions evaluate to is a parameter;
**PuzzleExpression** is the code's evaluation with words of `Width` bits, and
**PuzzleHoliday** the calendar behind it, with Easter by the code's arithmetic.
`HolidaysAreKept`, an ASSUME that TLC evaluates with its run, compares that Easter with
the published Gregorian rule over three centuries, and over eleven years says of every date
that it is observed on exactly one day when it is moved off its weekend as the code moves it
(a Saturday's holiday to the Sunday, a Sunday's to the Saturday). PuzzleExpression is
recursive, so PuzzleMachine does not extend it: MCPuzzleMachine brings the two together.

**Logins** (accounts, http_server, public keys, open_websocket). A request being
handled is a record with its next `step`; reads of stores and locks are steps of
their own. `requests` are logins at the provider, `keys` the rows of public keys,
`tokens` what has been signed, `upgrades` the connections whose token was checked
and whose upgrade is awaited, `online` those that came of it; `run` counts the
starts of the server, each of which draws a new signing key, and `since` is when
the last one was. The seven stores are the kinds of account the code can be
configured for; each looks up, validates and locks in its own way. `locked` is
what the store's administrator has locked: what a query makes of it is the
store's, and phpBB's has it the wrong way round.

**AccessRules** (access.rs, player.rs): identifiers, settings and what they say of
a player. A domain name is the sequence of its labels, so that a suffix of
labels is what `has_domain_suffix` looks for in the text.

**Whereabouts** composes TrackingMap and AccessRules: the questions
PlayerOnlineCheck and Activity on their way from the asker's Client through the
directory or both Peers to the answer and back. `at` is where a question is,
`reply` what comes back, `told` what the asker has heard; `acl`, `server` and
`place` change meanwhile. `consulted` remembers what the rules have said since he
asked, when asked about the asker himself and not under the name by which the
code calls him.

`MC*` modules only give the constants values.

StreamMap!GuardDrop shows that entries inserted through `mutate()`, as visitors
and guests are, are never polled (known divergences). In the other modules the
streams of such tables may be polled at any moment or never: no action waits for
one, no fairness is assumed of them, and their order against other events is
open. What is shown therefore holds of the code as it is, and would hold if the
entries were polled. Properties that need them to be polled, as that a player
who has left is taken out of a location, do not hold and are not stated.

## The runs

Bounds are the smallest at which the interesting cases meet; each is a CONSTANT
named in its module. Where a run has `CHECK_DEADLOCK FALSE`, its bounds end the
behaviour (nothing is left to send) or the system may stop.

| run | bounds | shows |
|---|---|---|
| StreamMapSafety | 2 streams, 2 items, 3 owner operations, fairness | no wake-up is lost, what is ready is served |
| WhereaboutsTold | 3 questions in three plans, 2 identifiers, lifetime 1, 2 moments, 1 change, fairness | an answer reaches its requester as long as identifiers are not used again; wrapping passes over identifiers in use; nobody learns more than the rules allowed since he asked; everybody is told something, unless a message is lost |
| EntitySocketSends | 4 messages, 3 sockets, 6 failures | order, loss only by mishap, each refusal backs the next attempt off |
| VisitorVisits | 1 traveller, 2 sessions, 1 move, 1 chatter, fairness | no entry at home for somebody who is nowhere; the guest of a first visit is known at home; who sets out is placed or told to be elsewhere |
| LocationTables | 2 names, 4 settings, 3 joins, 3 ids, 1 output, 1 change of access | tables agree, access is enforced, outputs reach their player |
| LocationStarts | 1 asset and 1 application location, 3 joins, 1 place in a channel, 1 database failure, 1 erasure, a shutdown, fairness | one task per row, from its row; a dead endpoint costs one join; every join is settled as Admission says |
| DirectMessages | 2 messages (one transient), 3 accounts and an unknown name on 2 servers, one mishap (expiry, loss or restart) | what is reported and shown is in the recipient's chat; answers find their message, unless the sender's own server restarted |
| HostedVisits | 2 guests (one slow), 2 visits, 3 sends, 1 place towards the task, 3 places towards the host, fairness | access is enforced, who is inside and has not hung up is known to the host, no gridlock, the location ends with its host |
| AccountSettingsKept | 3 tastes, 3 entries, 8 groups of kinds, 4 requests, 1 fault | a settled cache shows what the server holds; a success is stored; answers to updates are on their way |
| LocationRecordsKept | 2 players with 2 locations each, 2 far locations, a channel of 1, messages of 2, 2 of the visibilities, 3 operations, 1 failed query or lost connection | a change of visibility is heard or on its way; searches show only what is allowed, and what was found; bulk changes stay with one's own |
| PuzzleMachineRuns | 3 machines, 5 inputs of which 3 happen, 5 moments around an Easter Sunday, words of 3 bits, 1 restart | calls end, leave nobody out and leave whole machines; a timer call leaves no overdue timer; holidays are right |
| LoginsKept | 7 stores, 2 accounts under 3 spellings, 1 key, 2 requests and 1 connection at a time, 3 moments, 2 starts of the server, 1 change | locks hold but for phpBB, removed keys open nothing, a provider's login is used once, connections are vouched for |

The type invariant of a module is a conjunct of one of the invariants its run
checks (`TablesAgree`, `LossNeedsAMishap`, `ShownIsWritten`, `PresenceIsTold`,
`FirstGuestIsAccountedFor`, `CacheIsRight`, `FoundIsShown`,
`RoundsAreBounded`, `ConnectionsAreVouched`, `ToldAsAllowed`); those of StreamMap,
TrackingMap, LocationStart, LocationTask and HostedLocation are proved as theorems of
their own too. WhereaboutsTold is the run of
TrackingMap as well; answers in several parts (`Partial`) belong to searches, and
only the proofs about TrackingMap deal with them.

Two guests, visits or messages are enough for one to overtake or replace the other; a
third join lets a guest come back while an earlier visit is still being removed. In
LocationStarts three joins are one that starts a location, one that fills its channel or
comes after its end, and one that finds what those left. The code's queues (50, 100) are
shrunk so that they fill: `NoGridlock` at 3 places in the host's channel stands for an
event whose outputs fill the 50 places of the code. It holds only because the first
message the host reads ends his hosting (client/location.rs:115, below): with that
repaired, the same configuration finds the two tasks waiting for each other's places.

In AccountSettings a behaviour exercises a group of kinds at a time: kinds meet
only in the maps of outstanding updates and in what a failure invalidates, and
the groups are those in which they do. In Whereabouts the plans are two
questions about the same foreign player around one about oneself; one each about
a neighbour, oneself and a foreigner who does not exist; and three about the same
foreign host, so that an identifier is given out again. In Logins the one change
is of an account or of a key, and falls between any two steps of two requests.
In LocationRecords a request asks for one visibility that searches may show to
everybody or for one that is shown to nobody (`Wanted`), and messages of two
results are filled or not (`Chunk`, 20 in the code).
The machines of PuzzleMachineRuns trigger each other both forwards and backwards
in the order in which they are asked.

## Fairness

Weak fairness stands for an executor that polls a task that can go on, and a thread that
finishes a wake-up it has begun: in StreamMap per producer and for the owner's loop, in
VisitorHandoff for what the Client's and the Peer's tasks take from their channels and
from the link, in HostedLocation for the task's reads of the host's channel, its writes
and removals, in LocationStart for the directory's loop and for each task's next step
(which includes that the fifteen minutes of find_asset pass, and that no asset arrives is
no excuse), in Whereabouts for each question's next step on either server (the loss of a
message is not one: `EverybodyIsTold` excepts it, since the question then waits for
another event of the Peer). Nothing is assumed of the streams of guests and visitors. No
player, host, location or connection is made to do anything, so nothing is promised that
needs one to act.

## What is proved

Each theorem holds for every value of the constants under the ASSUMEs of its component's
module. Those say that bounds are natural numbers, that a queue has a place, that names
which stand for nobody are nobody's, that settings are built from the code's rules, that
a puzzle could be created from its template and that converting an address to the local form
twice is the same as once. DirectMessage, Whereabouts and VisitorHandoff are about two
servers, since it takes two Peers to carry a message or a question. Some theorems have a
hypothesis:

* tables of a location agree while no more players join than there are ids (`MaxJoins <=
  IdSpace`, 2^32 in the code);
* host and task do not wait for each other if the channel to the host has two places (50 in
  the code);
* the rounds of a puzzle end, and its timers are served, if an expression has a word or an
  error for a value (`ExpressionsAreTyped`, the type of `Expression::evaluate`; that module
  is recursive, so it is a constant operator here);
* visitors are accounted for if the player of only one of two servers travels
  (`OnlyOneTravels`, as in the run). It cannot be left out: a host's yank goes by name
  (below), and TLC finds it to take out the entry of a namesake who travels the other way.

* `TransportProofs`, about StreamMap: `StreamsTypeCorrect` and `NotificationsAreNotLost`,
  which is inductive with it: the owner parks only on an empty ready set, and a producer
  that inserts a key has the notification as its next step.
* `TransportProofs`, about EntitySocket: `NothingIsOvertaken` (`Order`: what is written,
  then what is queued, then what is still to be sent are increasing, and a queue exists only
  before the first connection; the inner steps are lemmas on sequences that increase),
  `RefusalsAreCounted` (`RetriesBackOff`, inductive as it stands; that there is a function
  `Backoff` as its recursion says is shown by taking the least number at which two functions
  on an interval could disagree), and `AcceptedIsOnItsWay`, inductive as well, the types
  being part of it: what `send` accepts goes to the queue or the socket, and a queue is lost
  only when it is too old or while it is written, both of which are mishaps.
* `WhereaboutsProofs`, about TrackingMap: `TypeCorrect`; `NoMisdelivery` (an answer goes to
  its requester while no more requests are made than there are identifiers; the invariant
  `IdInv` says that identifiers are given out in order, that each entry was announced under
  its own and that no two requests share one, which is what rules out a second meaning of a
  late answer); `NobodyWaitsForNothing` (a request waits exactly as long as it has an entry,
  however far `nextId` wraps; `OneEntryEach` strengthens it: no request has two entries).
* `WhereaboutsProofs`, about Whereabouts: every step of Whereabouts is one of TrackingMap or
  leaves its variables alone (`StepsOfTheTable`), so that `AnswersReachTheAsker` and
  `QuestionsAreTracked` follow from the two theorems above. `NobodyLearnsMore` needs to know
  of a question on its way what has been decided of it: `RulesAreConsulted` (what the rules
  say now is among what they have said since he asked), `WaysOfQuestions` (who has an entry
  has not been told), `Passage` (a question that came in from another server was let in, an
  answer that goes back may be given).
* `DirectMessageProofs`: `AnswersAreForTheAsked`: as long as a server has not restarted
  (`Counts`), an answer finds the entry of the message it answers, whatever became of the
  other server. `Identified` says of such a server that every identifier of its own found in
  a packet, a side task, a directory request or an outstanding entry is below its counter,
  and that two mentions of one identifier are about the same message. Each action either
  only removes mentions, passes one on, or adds one with a fresh identifier; there is a
  lemma for each, and a crash of the other server is one that removes.
  `ShownCanBeReadAgain` and `DeliveredCanBeRead` rest on `Traced`: whoever says Delivered of
  a message, in a packet or a side task, says it of one that is written, and no step takes a
  row away. That the sender hears it of the message it is about is where `Identified` comes
  in again, with `Homely`, that a Peer asks for players of its own server only: so the second
  excepts the messages of a sender whose own server has restarted, and no others.
* `LocationStartProofs`: `TypeCorrect`, `NoSecondTask` (`RunsOnce`) and `RunningIsStored`
  (`RunsFromTheDatabase`). `RunsOnce` alone is not inductive: nothing in it says that the
  directory knows the tasks. `Tables` adds `Reachable`, that while the directory serves,
  each task which may write to a row is the one its endpoint leads to, so that a location
  absent from the table has no task; and `RowKept`, that such a task's location is in the
  database or is still to be created there, so that a number drawn for a new application is
  nobody's. Tasks whose row was deleted are exempt from both, as in the properties.
  `PromiseIsKept` is the refinement of Admission, safety part: the initial states and every
  step are mapped. A step may settle a whole set of joins, and Admission lets it only if
  each of them still asks: `Waiting` says that a join is in at most one request, channel or
  task at a time, under the location it is for, and only as long as it asks; `EndpointsLead`
  that who goes through an endpoint gets to a task of that location.
* `LocationTaskProofs`, about LocationTask: `TypeIsCorrect`, `NobodyIsInUnlessAllowed`
  (`AccessIsEnforced`, between rounds), `MessagesGoToTheirPlayer` (`ProperRouting`) and
  `TablesStayInAgreement` (`TablesAgree`). A round is an event, any number of outputs and
  the removal of the dead, so there are lemmas for each part that speak of any tables, and
  the actions put them together. `TablesInv` traces each player to the join he came by
  (`Traced`) and, as long as ids are not used again, says that they are given out in order
  and that whom the controller knows is in the table.
* `LocationTaskProofs`, about PuzzleMachine: `RoundsEnd` (`RoundsAreBounded`),
  `NoTimerIsLeftBehind` (`DueTimersAreServed`), `NobodyKeepsWaiting` (`NobodyIsLeftOut`)
  and `MachinesStayWhole` (`WholeUnlessTorn`). A call is many steps, and
  `InOrder` says how far it has got: which machines were asked, and that a round follows
  another only if a machine has moved, so that rounds are no more than machines that moved,
  and each moves once. `Asked` says that a machine that has not moved would not be moved by
  any event of the rounds before, nor, once it was asked, by one of this round. `Sound` says
  of every machine, in memory and in the row, that it has the form its state asks for and,
  unless it is torn, shows what that state says on some day so far: what a restart reads
  back. `TimersServed` says of the machines that a timer call has asked that none has a
  timer from before the call, and of all that a state without a timer has none running
  (`Clocked`).
* `HostedLocationProofs`, about HostedLocation: `TypeIsCorrect`,
  `NobodyStaysAgainstTheRules` (`AccessIsEnforced`), `TheHostKnowsHisGuests`
  (`PresenceIsTold`) and `NeitherWaitsForTheOther` (`NoGridlock`). Nothing is known of the
  order in which the select takes a guest's end and his next join, so that one may come
  again while the table has his earlier visit. But who comes again has hung up that visit
  (`VisitsInOrder`), and the same round throws him out with it. `Announced` is therefore
  about those who have not hung up: they have been reported or are about to be, and nobody
  who is to stay is about to be reported gone. It and `DeniedAreDead` are carried through
  the removals. For the gridlock: the first message the host reads ends his hosting, so
  while he hosts nobody has read anything (`Unread`), and with the news of somebody inside
  nothing else waits, unless older news of him is still unread (`AloneInTheOutbox`); he
  can wait for a place only when nothing had been written yet, which leaves the words of
  one event, two at most (`FewWords`).
* `HostedLocationProofs`, about VisitorHandoff: `TheHomeServerKnows`
  (`HomeKnowsItsTraveller`) and `TheFirstGuestIsKnown` (`FirstGuestIsAccountedFor`). Nothing
  moves against the traveller (`OneWay`: the kinds of messages on either link), so that
  every step has one of nine effects on his entries and messages (`EveryStepHasItsEffect`),
  and each invariant is proved by them. `HomeKnowsItsTraveller` is not inductive: a Send
  that is on its way may be followed by a Yank or another Send. `Awaited` says that the last
  of these is the Send of the session at home, or that all are taken and the host has the
  guest or has said that it has not. `FirstVisit` is a diagram of four states: nothing said
  yet, the Send on its way with nothing before it, the guest at the location, the guest
  gone.
* `LocationRecordsProofs`, about AccountSettings: `WhatSucceededIsStored`
  (`StoredOnSuccess`), `UpdatesAreAnswered` (`AnswerIsOnItsWay`) and `TheCacheIsRight`
  (`CacheIsRight`). The first is inductive with what is kept by kind (`KeptByKind`), the
  second with the types. The third speaks only of a client about whom nothing is under way;
  `UnderWay` speaks of all of them. `Promised`: unless a value of the kind, or the failure
  of an update of a list, is on its way to the client, the requests on their way to the
  server, carried out in turn, lead from what the server holds to what the client shows
  (`Runs`, a chain of values, since a fold over the requests could not be unfolded by the
  provers). `Recent`: the last word about a kind is what the server holds, if no update is
  still to come. `InTurn`: updates of a list are answered in the order in which they were
  made, each while the client waits for it. `LocalForms`: bookmarks are in the local form
  wherever they are compared.
* `LocationRecordsProofs`, about LocationRecords: `ChangesAreHeard` (`VisibilityIsHeard`,
  which becomes inductive when it is claimed from the query on and not only from the
  subscription: a task subscribes with what it has read), `NobodyChangesAnothers`
  (`ChangesOnlyOwn`), `NobodySeesMore` (`SearchShowsAllowed`, with the messages of the other
  server added) and `SearchesEndWithResults` (`FoundIsShown`). The last speaks of a search
  that is done; `Forthcoming` of one that goes on: what was found here waits or was shown,
  and of what another server found some is still to come or has come, which needs that no
  message is empty and that only a search elsewhere has messages (`SearchTypes`).
* `LoginsProofs`: `NoLockedLogin`, `NoRemovedKey`, `LoginsAreUsedOnce` and
  `NobodyIsUnvouched`. `TasksAreVetted` relates the step at which a request is to what was
  the case since it came in: what its next step will rely on has been found in the store,
  and what was found was so at some moment of the request. It claims nothing of locks with
  phpBB, and needs that the stores that are files lock nobody (`FilesLockNobody`). A restart
  ends connections and upgrades alike, and a token of an earlier start opens none, which is
  what `NobodyIsUnvouched` says by `since`. `UsedUp` says that a login once
  taken is not among those that wait.

The conditions under which these hold ("while no identifier has been used again", "unless
his own server has restarted") are part of the properties where they can be seen in a
state: the runs reach states on both sides of them.

A prefix operator next to an infix one of the same precedence (`SUBSET S \ T`, `UNION S \cup
T`) is read differently by TLC and by the proof system; such terms have parentheses.

Every invariant that a run checks is the property of a theorem. Only model-checked is what
is temporal (ReadyIsServed, TravellerIsPlaced, NobodyStaysBehind, EveryoneIsAnswered,
EverybodyIsTold: liveness under fairness and ENABLED are outside what TLAPS does). What the
recursive evaluation of PuzzleExpression computes is checked on the expressions of the run
only; induction over expressions is beyond the provers.

## Known divergences

Met while modelling. The modules follow the code in these too, where they model
the part concerned, and a property says in its statement which of them it
excepts; where a doc or a comment says otherwise it is named.

Streams, sockets and Peers:

* `ready.retain` in the guard's Drop has its condition inverted: a stream that
  was inserted is never polled (stream_map.rs:142). So a player who leaves a location stays
  in its table until a send to him fails, and the yank that ends a visit (on_peer.rs:58) is
  never sent, against "until the originating server yanks them back" (peer/message.rs:116).
  The lock of `ready` is held through the loop's body, where an inner stream may wake
  itself (stream_map.rs:151).
* The first answer to a direct message, Queued, takes out the entry, so that
  Delivered never comes through (peer/mod.rs:300).
* When a socket's stream ends, `run` loops over StateChange for good and the
  entity stays online (socket_entity/mod.rs:132); Break leaves only the inner
  loop (:181), so that an entity's task never ends and a player who has been
  online once is never Offline again.
* After fifty refused handshakes the reconnection timer goes on ringing to no effect:
  RetryExceeded is answered by Break, which ends a list of outputs and not the task
  (reconnection_timer.rs:55, peer/mod.rs:133). Only a connection from the other server
  starts it anew.
* Expired requests are purged only when an event reaches the Peer (peer/mod.rs:118);
  `calendar_requests` never are.
* A handshake is posted to /api/server/v1, which no route serves, and is refused
  when all bans are about the server, so always while there are none (handshake.rs:33).

Visitors, locations and messages:

* A release goes by name, not by visit (peer/mod.rs:443, against message.rs:116): a
  guest who has come back is left inside without an entry at home.
  `FirstGuestIsAccountedFor` is therefore about first visits.
* A move releases a guest whom the host goes on showing (from_peer.rs:54, against
  the comment at message.rs:109).
* A host's yank goes by name and hits a namesake from another server
  (peer/mod.rs:393, message.rs:122).
* `Location::poll_next` resets the location with every response: the first response
  of any location, not only a hosted one, puts its player nowhere
  (client/location.rs:115, 124, background-player.md:74).
* A leaver's id stays in `identifiers`: a returning player of that name shares
  outputs with it (database_location.rs:173, glossary.md:4), and the same round
  that lets him in may throw him out (database_location.rs:156,
  background-player.md:79). `ProperRouting` is therefore about players who came once.
* The direction of an inbound message is stored the wrong way round
  (database/mod.rs:1318, communication.rs:32).
* Identifiers start again with a server, so that an old answer may finish another
  message (peer/mod.rs:300, tracking_map/mod.rs:44, communication.rs:47).
  `AnswersFindTheirMessage` excepts the senders whose own server has restarted.
* A guest who comes back while the hosting table still has his earlier visit is thrown out
  with it, since the dead are removed by name (hosting.rs:137, 388).
* Guests enter while their host has no connection (client/mod.rs:872, glossary.md:6).
* The location directory passes over a join to a stored location that does not run when
  its owner is a `SharedRef::Single` (database_location_directory.rs:153), as it is
  whenever a player or a peer asks (client/mod.rs:590, peer/mod.rs:464). Such a location
  is loaded only by its owner's Create or by a controller's redirect
  (database_location.rs:381); the one who joins sees his channel close
  (background-player.md:79).
* `tx.send(..)` is called and its future dropped in find_asset and in the black hole
  (database_location.rs:578, 585, 601, 619, location_endpoint.rs:66): WaitingForAsset and
  every reason for a refusal there are never sent. In LocationStart these joins are
  `dropped`.
* A failure of the database while a location is read or created makes it a black
  hole, which stays in the table until the server restarts (database_location.rs:518, 477).
* `break 'main` for one row that cannot be read ends the location directory and, with its
  endpoints, every location (database_location_directory.rs:97, 110).
* The number of an erased application may be drawn again while its task goes on: the new
  endpoint replaces the old (one chance in 2^32); `RunsOnce` exempts erased tasks.
* An erased location goes on (database_location.rs:391).
* A guest who leaves or is dropped while he enters is not always reported by
  PlayerLeft (hosting.rs:190).
* A controller that quits leaves only the inner loop, and the location goes on.

Settings, records and searches:

* `id int PRIMARY KEY NOT NULL` (up.sql:2, 11, 71) does not stand for SQLite's row number,
  so that an insert without an id fails: those of players, locations and announcements
  (database/mod.rs:700, 1121, 141); and `ON CONFLICT (name)` (:707) has no unique index to
  refer to. The modules take these inserts to succeed, but for the failures that any query
  may have.
* A value read before an update and heard after it replaces what the client shows;
  a failed change of a bookmark invalidates the avatar's cache, one of a
  subscription invalidates none; failed queries are answered as empty lists.
* An update that changes nothing in the cache leaves its outstanding entry for
  good; the answer to a bulk change is looked up in another map.
* A new ban is added in memory only and one that exists is stored again
  (client/mod.rs:813, `!banned.insert(ban)`); cleaning up the announcements of
  locations deletes those that have not expired (database/mod.rs:835).
* A location that starts queries its visibility and then subscribes to changes
  (database/mod.rs:1265); bulk access rules never reach running locations.
* Searches are never finished at the client (`get_mut`), an empty local search sends
  nothing, and chunks from another server replace each other in a watch
  channel (active_search.rs:22). Empty lists of criteria admit nothing.
* Removing all calendar subscriptions leaves those to other servers; removing a
  player leaves rows of other tables.

Accounts:

* `can_create` and `is_administrator` both read `creating`, while SetCreator writes
  `admin` and SetAdmin `creating` (db_policy.rs:31-48).
* Uru's query compares with `==` (uru.rs:60), so that no password is ever right.
* phpBB's query leaves out the user types that are not locked and admits those that are
  (php_bb.rs:29), against "Any account that is locked in phpBB will also be locked in
  Spadina" (background-admin.md:254). `LockHolds` is about the other six stores.
* The token of a connection is checked before the upgrade and not again after it
  (socket_entity/mod.rs:212, 242): it may have expired when the connection begins.
* LDAP waits for passwords on a path which the server answers itself (ldap.rs:120,
  http_server/mod.rs:81).
* A login whose return from the provider fails has been used up
  (openid/mod.rs:101); a one-time code may be used again within its 30 seconds; a
  token outlives a lock by up to its hour.
* Registering a public key that another player has is answered with Success.

Access and whereabouts:

* Activity is told to everybody, and half of a small count is lost:
  `(old + count) / 2` keeps a location with one player Deserted
  (atomic_activity.rs:25, against "No players in recent time" in
  core/src/location/directory.rs:10).
* A rule that expires evicts nobody: settings are read again only when somebody
  joins or they are changed.

Puzzles:

* A transition stores its locals before its outputs and its timer, which may fail
  (state.rs:125): the torn state may not be read back.
* The next timer is asked for in every round of the loop, and is off once the earliest is
  overdue (database_location.rs:99, against background-dev.md): any other event at
  that moment silences it until a later timer rings. TimerDuration is 0 in the actions of
  a timer, and counters are computed and never stored.
* Multiply adds, Or ands, a mask of 32 bits is 0, an offset of -128 days from
  Easter overflows, a weekday counted from the end counts back from the first.
* One machine's error ends the call: later machines are not asked, and the events
  of the round are lost.

## What is not modelled, and the plan

Left out for good:

* conversions between owned and borrowed strings, rendering, realms and scenes,
  asset stores, certificates, metrics: data and I/O without behaviour of their own;
* `server/src/realm`, which is not part of the build;
* the asset manager: its futures are stored and never polled, and uploads reach
  a `todo!()`; administration of accounts, PuzzleRealm and the Editor controller
  are `todo!()` as well;
* the handshake between servers: no handshake of this code succeeds.

Partly: the bounded queues between directories and entities are never full in the
models (a hazard without a property says what would happen); calendars are seen
only as subscriptions; LocationTask and HostedLocation take what a rule says of a
player as a constant rather than from AccessRules; VisitorHandoff's link stays up.

Next: an abstract specification of a location, which LocationTask and
HostedLocation both implement (who may be inside, who is told what).
