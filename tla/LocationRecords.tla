-------------------------- MODULE LocationRecords --------------------------
(***************************************************************************)
(* The rows of locations, what running locations remember of them, the     *)
(* bulk changes of their access rules and visibility that players ask for, *)
(* and the searches in them, here and on another server.                   *)
(***************************************************************************)
EXTENDS Integers, Sequences, FiniteSets

CONSTANTS
    People,          \* the players of this server
    Administrators,  \* those who administer it
    Descriptors,     \* what an owner may have one location of each
    KindOf,          \* descriptor -> its kind
    Criteria,        \* descriptors that a search's criteria may admit
    Rules, OwnRules, \* access settings, and the default of a new location
    Marked,          \* locations that everyone has bookmarked or subscribed to
    FarPublic,       \* the public locations of another server
    Wanted,          \* the visibilities that requests ask for
    Lag,             \* places in the broadcast channel, 200 in the code
    Chunk,           \* locations per message, 20 in the code
    Nobody,
    MaxOps,          \* bound on the requests and on the locations started
    MaxErrors        \* bound on failed queries and lost connections

Visibility == {"Public", "Private", "Archived", "Trashed"}

ASSUME LocationRecordsAssumption ==
    Administrators \subseteq People /\ Nobody \notin People /\ OwnRules \in Rules
        /\ Lag \in Nat \ {0} /\ Chunk \in Nat \ {0}
        /\ MaxOps \in Nat /\ MaxErrors \in Nat /\ Wanted \subseteq Visibility

Places == [owner : People, descriptor : Descriptors]
Entries == [place : Places \cup FarPublic, visibility : Visibility]

VARIABLES
    visibility,  \* place -> the row's visibility, "absent" without a row
    acl,         \* place -> the row's access rules
    phase,       \* place -> how far its task has come
    seen,        \* place -> the visibility its task goes by
    memory,      \* place -> the access rules its task goes by
    inbox,       \* place -> broadcast ids its task has not taken
    bulk,        \* player -> the ids selected for new rules
    notices,     \* player -> the changed ids not yet broadcast
    missed,      \* places whose task was not told of a change
    query,       \* the search under way and whose it is
    found,       \* what the search's query returned and no lost connection took
    chunks,      \* what waits for an estimate of its activity
    link,        \* messages with results from the other server
    tracked,     \* whether the Peer still knows the search
    watch,       \* the value in the search's channel that was not taken
    shown,       \* results the client has got
    ops, errors

rows == <<visibility, acl>>
tasks == <<phase, seen, memory, inbox, missed>>
requests == <<bulk, notices>>
search == <<query, found, chunks, link, tracked, watch, shown>>
vars == <<rows, tasks, requests, search, ops, errors>>

NoBulk == [ids |-> {}, rules |-> OwnRules]
NoQuery == [by |-> Nobody, source |-> "none"]

Init ==
    /\ visibility \in {[l \in Places |-> IF l \in some THEN "Private" ELSE "absent"] :
                         some \in {Places, {}}}
    /\ acl = [l \in Places |-> OwnRules]
    /\ phase = [l \in Places |-> "idle"]
    /\ seen = [l \in Places |-> "Private"]
    /\ memory = [l \in Places |-> OwnRules]
    /\ inbox = [l \in Places |-> <<>>]
    /\ missed = {}
    /\ bulk = [p \in People |-> NoBulk]
    /\ notices = [p \in People |-> {}]
    /\ query = NoQuery
    /\ found = {} /\ chunks = {} /\ link = <<>> /\ tracked = FALSE
    /\ watch = {} /\ shown = {}
    /\ ops = 0 /\ errors = 0

Operation == ops < MaxOps /\ ops' = ops + 1
Fails == errors < MaxErrors /\ errors' = errors + 1
Works == UNCHANGED errors
Rows == {l \in Places : visibility[l] # "absent"}

-----------------------------------------------------------------------------
(* Scopes: LocationListScope as the rows it admits. *)

Owned(p) == {l \in Rows : l.owner = p}
Exactly(p, ds) == {l \in Owned(p) : l.descriptor \in ds}
OfKind(k) == {l \in Rows : KindOf[l.descriptor] = k}
Visible(vs) == {l \in Rows : visibility[l] \in vs}

\* BulkLocationSelector: all of a player's locations or of the server's, some
\* descriptors, or a kind.
Selectors ==
    [of : People, which : {"all"}]
      \cup [of : People, which : {"descriptors"}, ds : SUBSET Descriptors]
      \cup [of : People, which : {"kind"}, kind : {KindOf[d] : d \in Descriptors}]
      \cup {[of |-> Nobody, which |-> "server"]}
ScopeOf(s) == CASE s.which = "all" -> Owned(s.of)
                [] s.which = "descriptors" -> Exactly(s.of, s.ds)
                [] s.which = "kind" -> Owned(s.of) \cap OfKind(s.kind)
                [] s.which = "server" -> Rows

\* mutant: whole kinds are open to everyone
AllowedKinds(p, s) == s.of = p \/ s.which = "kind" \/ p \in Administrators
Allowed(p, s) == s.of = p \/ p \in Administrators

-----------------------------------------------------------------------------
(* Requests of players. A player's entity does one thing at a time. *)

Idle(p) == bulk[p] = NoBulk /\ notices[p] = {}

\* AccessSetLocationBulk, first half: location_acl_write_bulk selects the ids.
\* A request that is not allowed changes nothing.
SelectForRules(p, s, rules) ==
    /\ Operation /\ Idle(p)
    /\ Allowed(p, s) /\ ScopeOf(s) # {}
    /\ bulk' = [bulk EXCEPT ![p] = [ids |-> ScopeOf(s), rules |-> rules]]
    /\ UNCHANGED <<rows, tasks, notices, search, errors>>

\* The second half updates them. Running locations are not told.
WriteRules(p) ==
    /\ bulk[p].ids # {}
    /\ \/ Works /\ acl' = [l \in Places |-> IF l \in bulk[p].ids \cap Rows
                                            THEN bulk[p].rules ELSE acl[l]]
       \/ Fails /\ UNCHANGED acl
    /\ bulk' = [bulk EXCEPT ![p] = NoBulk]
    /\ UNCHANGED <<visibility, tasks, notices, search, ops>>

\* A task between its query and its subscription is told nothing of a change.
Deaf == {l \in Places : phase[l] = "read"}

\* mutant: the rows that the update passed over are told
Unchanged(s, v) == {l \in ScopeOf(s) : visibility[l] = v}
Changed(s, v) == {l \in ScopeOf(s) : visibility[l] # v}

\* LocationChangeVisibility: one update of the rows that differ, which returns
\* their ids.
ChangeVisibility(p, s, v) ==
    /\ Operation /\ Idle(p)
    /\ Allowed(p, s) /\ ScopeOf(s) # {}
    /\ \/ /\ Works
          /\ visibility' = [l \in Places |-> IF l \in ScopeOf(s) THEN v ELSE visibility[l]]
          /\ notices' = [notices EXCEPT ![p] = Changed(s, v)]
       \/ Fails /\ UNCHANGED <<visibility, notices>>
    /\ UNCHANGED <<acl, tasks, bulk, search>>

\* A receiver that lags behind loses the oldest id.
Received(queue, l) == IF Len(queue) < Lag THEN Append(queue, l)
                      ELSE Append(Tail(queue), l)
Overrun(l, id) == /\ phase[l] = "running" /\ Len(inbox[l]) = Lag
                  /\ Head(inbox[l]) = l /\ id # l

Broadcast(p, id) ==
    /\ id \in notices[p]
    /\ notices' = [notices EXCEPT ![p] = @ \ {id}]
    /\ inbox' = [l \in Places |-> IF phase[l] = "running" THEN Received(inbox[l], id)
                                  ELSE inbox[l]]
    /\ missed' = missed \cup {l \in Places : Overrun(l, id)} \cup (Deaf \cap {id})
    /\ UNCHANGED <<rows, phase, seen, memory, bulk, search, ops, errors>>

\* An id that cannot be read ends the loop: the rows have changed, and the ids
\* that would have followed are not sent.
CutShort(p) ==
    /\ notices[p] # {} /\ Fails
    /\ notices' = [notices EXCEPT ![p] = {}]
    /\ missed' = missed \cup {l \in notices[p] : phase[l] \in {"read", "running"}}
    /\ UNCHANGED <<rows, phase, seen, memory, inbox, bulk, search, ops>>

-----------------------------------------------------------------------------
(* Running locations. *)

\* location_create: a new location is private and has its owner's default rules.
\* The directory of locations creates none while a task runs in its place. The
\* insert leaves the id to the database, and fails where the schema has none for it.
Create(l) ==
    /\ Operation
    /\ l \notin Rows /\ phase[l] = "idle"
    /\ \/ /\ Works
          /\ visibility' = [visibility EXCEPT ![l] = "Private"]
          /\ acl' = [acl EXCEPT ![l] = OwnRules]
       \/ Fails /\ UNCHANGED rows
    /\ UNCHANGED <<tasks, requests, search>>

\* PersistedLocal::new loads the rules; the visibility is read later.
LoadRules(l) ==
    /\ Operation
    /\ phase[l] = "idle" /\ l \in Rows
    /\ memory' = [memory EXCEPT ![l] = acl[l]]
    /\ phase' = [phase EXCEPT ![l] = "loaded"]
    /\ UNCHANGED <<rows, seen, inbox, missed, requests, search, errors>>

\* location_visibility queries the row and only then subscribes.
ReadVisibility(l) ==
    /\ phase[l] = "loaded"
    /\ IF l \in Rows THEN /\ phase' = [phase EXCEPT ![l] = "read"]
                          /\ seen' = [seen EXCEPT ![l] = visibility[l]]
       ELSE phase' = [phase EXCEPT ![l] = "idle"] /\ UNCHANGED seen
    /\ missed' = missed \ {l}
    /\ UNCHANGED <<rows, memory, inbox, requests, search, ops, errors>>

Subscribe(l) ==
    /\ phase[l] = "read"
    /\ phase' = [phase EXCEPT ![l] = "running"]
    /\ UNCHANGED <<rows, seen, memory, inbox, missed, requests, search, ops, errors>>

\* The stream asks the row for ids of its own and drops everything else. A row
\* that cannot be read is passed over.
HeardOfItself(l) == Head(inbox[l]) = l
HearVisibility(l) ==
    /\ inbox[l] # <<>>
    /\ inbox' = [inbox EXCEPT ![l] = Tail(@)]
    /\ \/ /\ HeardOfItself(l) /\ l \in Rows /\ Works
          /\ seen' = [seen EXCEPT ![l] = visibility[l]]
          /\ missed' = missed \ {l}
       \/ /\ HeardOfItself(l) /\ Fails
          /\ missed' = missed \cup {l} /\ UNCHANGED seen
       \/ ~(HeardOfItself(l) /\ l \in Rows) /\ Works /\ UNCHANGED <<seen, missed>>
    /\ UNCHANGED <<rows, phase, memory, requests, search, ops>>

\* AccessSet inside the location: memory first, then the row.
SetRules(l, rules) ==
    /\ Operation
    /\ phase[l] = "running" /\ rules # memory[l]
    /\ memory' = [memory EXCEPT ![l] = rules]
    /\ \/ Works /\ acl' = [acl EXCEPT ![l] = IF l \in Rows THEN rules ELSE @]
       \/ Fails /\ UNCHANGED acl
    /\ UNCHANGED <<visibility, phase, seen, inbox, missed, requests, search>>

\* The controller quits and location_delete removes the row. The break that is
\* to end the task ends the loop over the controller's outputs.
Delete(l) ==
    /\ Operation
    /\ phase[l] = "running" /\ l \in Rows
    /\ visibility' = [visibility EXCEPT ![l] = "absent"]
    /\ UNCHANGED <<acl, tasks, requests, search, errors>>

Stop(l) ==
    /\ phase[l] = "running"
    /\ phase' = [phase EXCEPT ![l] = "idle"]
    /\ inbox' = [inbox EXCEPT ![l] = <<>>]
    /\ missed' = missed \ {l}
    /\ UNCHANGED <<rows, seen, memory, requests, search, ops, errors>>

-----------------------------------------------------------------------------
(* Searches. One is followed at a time. *)

EntriesOf(places) == {[place |-> l, visibility |-> visibility[l]] : l \in places}
FarEntries == {[place |-> l, visibility |-> "Public"] : l \in FarPublic}
Meeting(ds) == {l \in Rows : l.descriptor \in ds}

\* ReifiedSearch::convert: what a search looks at, and on whose authority.
\* mutant: criteria are taken for an alternative to what may be seen
SearchedEither(p, source, of, vs, ds) ==
    CASE source = "personal" -> Owned(of) \cap Visible(vs) \cap Meeting(ds)
      [] source = "public" -> Visible({"Public"}) \cup Meeting(ds)
      [] source = "marked" -> Marked \cap Rows
Searched(p, source, of, vs, ds) ==
    CASE source = "personal" -> Owned(of) \cap Visible(vs) \cap Meeting(ds)
      [] source = "public" -> Visible({"Public"}) \cap Meeting(ds)
      [] source = "marked" -> Marked \cap Rows

\* Only a search in another player's locations needs an administrator.
MaySearch(p, source, of) == source = "personal" => p = of \/ p \in Administrators

NoSearch == query = NoQuery

\* LocationsList for Personal, PersonalSearch, PublicLocal, PublicSearch,
\* Bookmarks and Calendar: the query runs at once, the results are sent as their
\* activity is estimated. A query that fails, like one that is not allowed, is
\* answered with LocationsUnavailable; one that finds nothing with nothing.
SearchHere(p, source, of, vs, ds) ==
    /\ Operation
    /\ NoSearch
    /\ MaySearch(p, source, of)
    /\ query' = [by |-> p, source |-> source]
    /\ found' = EntriesOf(Searched(p, source, of, vs, ds))
    /\ chunks' = found'
    /\ UNCHANGED <<rows, tasks, requests, link, tracked, watch, shown, errors>>

\* mutant: what does not fill a message is dropped
OnlyFull(some) == IF Cardinality(some) = Chunk THEN some ELSE {}
\* buffer_unordered and chunks_timeout: estimates come in any order, and what
\* has come goes out together, a full message or less.
Message(some) == some
SendHere ==
    /\ query.source \notin {"none", "far"}
    /\ \E some \in (SUBSET chunks) \ {{}} :
         /\ Cardinality(some) <= Chunk
         /\ chunks' = chunks \ some
         /\ shown' = shown \cup Message(some)
    /\ UNCHANGED <<rows, tasks, requests, query, found, link, tracked, watch, ops,
                   errors>>

\* PublicRemote, PublicSearch and the bookmarks of another server: its Peer asks
\* and the other server's Peer searches what is public there.
SearchFar(p) ==
    /\ Operation
    /\ NoSearch
    /\ query' = [by |-> p, source |-> "far"]
    /\ found' \in SUBSET FarEntries
    /\ chunks' = found'
    /\ tracked' = TRUE
    /\ UNCHANGED <<rows, tasks, requests, link, watch, shown, errors>>

SendFar ==
    /\ query.source = "far"
    /\ \E some \in (SUBSET chunks) \ {{}} :
         /\ Cardinality(some) <= Chunk
         /\ chunks' = chunks \ some
         /\ link' = Append(link, Message(some))
    /\ UNCHANGED <<rows, tasks, requests, query, found, tracked, watch, shown, ops,
                   errors>>

\* ActiveSearch::send puts the message into a watch channel, where it replaces
\* one that the client's task has not taken.
ReceiveFar ==
    /\ link # <<>>
    /\ link' = Tail(link)
    /\ watch' = IF tracked THEN Head(link) ELSE watch
    /\ UNCHANGED <<rows, tasks, requests, query, found, chunks, tracked, shown, ops,
                   errors>>

\* WatchStream: the task takes the value of the moment and sends it.
TakeFar ==
    /\ watch # {}
    /\ shown' = shown \cup watch
    /\ watch' = {}
    /\ UNCHANGED <<rows, tasks, requests, query, found, chunks, link, tracked, ops,
                   errors>>

\* purge_expired drops the sender when the client's timeout has passed.
ExpireFar ==
    /\ tracked
    /\ tracked' = FALSE
    /\ UNCHANGED <<rows, tasks, requests, query, found, chunks, link, watch, shown,
                   ops, errors>>

\* The connection to the other server breaks with messages on the way. What is
\* not sent yet is sent over the next one.
LoseFar ==
    /\ link # <<>> /\ Fails
    /\ link' = <<>> /\ found' = chunks \cup watch \cup shown
    /\ UNCHANGED <<rows, tasks, requests, query, chunks, tracked, watch, shown, ops>>

\* Another search begins where this one left nothing to do. The entry of the
\* client library stays, it is never finished.
NothingWaits == chunks = {} /\ link = <<>> /\ watch = {}
Done ==
    /\ ~NoSearch /\ NothingWaits
    /\ query' = NoQuery
    /\ found' = {} /\ tracked' = FALSE /\ shown' = {}
    /\ UNCHANGED <<rows, tasks, requests, chunks, link, watch, ops, errors>>

-----------------------------------------------------------------------------
Requests ==
    \E p \in People :
      \/ \E s \in Selectors :
           \/ \E rules \in Rules : SelectForRules(p, s, rules)
           \/ \E v \in Wanted : ChangeVisibility(p, s, v)
      \/ WriteRules(p)
      \/ \E id \in Places : Broadcast(p, id)
      \/ CutShort(p)

Locations ==
    \E l \in Places :
      \/ Create(l) \/ LoadRules(l) \/ ReadVisibility(l) \/ Subscribe(l)
      \/ HearVisibility(l) \/ Delete(l) \/ Stop(l)
      \/ \E rules \in Rules : SetRules(l, rules)

Searches ==
    \/ \E p, of \in People : \E source \in {"personal", "public", "marked"} :
         \E vs \in {Visibility, {"Private"}} : \E ds \in Criteria :
           SearchHere(p, source, of, vs, ds)
    \/ \E p \in People : SearchFar(p)
    \/ SendHere \/ SendFar \/ ReceiveFar \/ TakeFar \/ ExpireFar \/ LoseFar \/ Done

Next == Requests \/ Locations \/ Searches

Spec == Init /\ [][Next]_vars

-----------------------------------------------------------------------------
(* Properties *)

\* Every variable keeps its type; no channel holds more than its places.
TypeOK ==
    /\ visibility \in [Places -> Visibility \cup {"absent"}]
    /\ acl \in [Places -> Rules] /\ memory \in [Places -> Rules]
    /\ phase \in [Places -> {"idle", "loaded", "read", "running"}]
    /\ seen \in [Places -> Visibility] /\ missed \subseteq Places
    /\ \A l \in Places : Len(inbox[l]) <= Lag
    /\ bulk \in [People -> [ids : SUBSET Places, rules : Rules]]
    /\ notices \in [People -> SUBSET Places]
    /\ found \cup shown \cup watch \cup chunks \subseteq Entries
    /\ ops \in 0 .. MaxOps /\ errors \in 0 .. MaxErrors

\* A running location goes by the visibility of its row, and so stops saving its
\* state when it is archived, unless the news is on its way. The exceptions are
\* what `missed' records: a change broadcast between the task's query and its
\* subscription, one that fell out of the channel, one that was not broadcast
\* after an error, and one whose query failed.
VisibilityIsHeard ==
    \A l \in Rows : phase[l] = "running" =>
        \/ seen[l] = visibility[l] \/ l \in missed
        \/ l \in UNION {notices[p] : p \in People}
        \/ \E i \in 1 .. Len(inbox[l]) : inbox[l][i] = l

\* Whatever the selector, and whatever happens between the selection and the
\* update, a player who is no administrator changes only his own locations.
ChangesOnlyOwn ==
    \A p \in People \ Administrators :
        \A l \in bulk[p].ids \cup notices[p] : l.owner = p

\* A search shows a player who is no administrator what was public, his own, or
\* what he has marked, also when its criteria would admit more.
SearchShowsAllowed ==
    query.by \notin Administrators =>
        \A e \in shown \cup chunks \cup watch :
            \/ e.visibility = "Public" \/ e.place \in Marked
            \/ e.place \in Places /\ e.place.owner = query.by

\* A search that has nothing left to do has shown what it found: all of it here,
\* whatever order the estimates came in. Messages of another server replace one
\* another while they wait to be taken, so that only what was taken in between is
\* seen; but one of them always is, unless the search's time was up before its
\* results came or lost connections took them all. And everything has its type.
FoundIsShown ==
    /\ TypeOK
    /\ ~NoSearch /\ NothingWaits =>
         IF query.source = "far" THEN tracked /\ found # {} => shown # {}
         ELSE shown = found
=============================================================================
