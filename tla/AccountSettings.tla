-------------------------- MODULE AccountSettings --------------------------
(***************************************************************************)
(* The settings of an account: the caches of the client library, which     *)
(* apply an update before the server has accepted it, the handlers of the  *)
(* player's entity, and the three ways the server keeps a value: beside    *)
(* the entity (PersistedLocal), beside the server (PersistedGlobal and     *)
(* PersistedWatch) and only in the rows of the database.                   *)
(*                                                                         *)
(* A behaviour exercises the kinds of setting in `studied`, chosen at the  *)
(* start: settings of different kinds meet only in the maps of outstanding *)
(* requests and in what a failure invalidates.                             *)
(***************************************************************************)
EXTENDS Integers, Sequences, FiniteSets

CONSTANTS
    Tastes,      \* avatars and access settings a player may choose
    FirstTaste,  \* the one a new player has
    Items,       \* bookmarks, subscriptions, keys, announcements and bans
    LocalForm,   \* what localize and into_local make of an entry or a taste
    Here,        \* the entries that are existing locations of this server
    Elsewhere,   \* the entries that are locations of other servers
    Malformed,   \* the entries that cannot be parsed
    NoValue,     \* an empty cache
    Groups,      \* the sets of kinds a behaviour may exercise together
    MaxAsked,    \* bound on the requests sent
    MaxFaults    \* bound on failed queries, lost connections and crashes

ASSUME TastesAssumption == FirstTaste \in Tastes /\ NoValue \notin Tastes
ASSUME LocalFormAssumption ==
    /\ \A e \in Items \cup Tastes : LocalForm[LocalForm[e]] = LocalForm[e]
    /\ \A e \in Items : LocalForm[e] \in Items
    /\ \A t \in Tastes : LocalForm[t] \in Tastes

Access == {"access_default", "access_message", "access_online"}
Whole == Access \cup {"avatar"}
Listed == {"bookmarks", "calendar_locations", "public_keys"}
Shared == {"announcements", "banned_peers"}
Kinds == Whole \cup Listed \cup Shared \cup {"calendar_id"}
Own == Kinds \ Shared
Remembered == Kinds \ Listed

ASSUME GroupsAssumption == Groups \subseteq SUBSET Kinds
ASSUME LimitsAssumption == MaxAsked \in Nat /\ MaxFaults \in Nat

VARIABLES
    studied,    \* the kinds this behaviour is about
    admin,      \* whether the player administers the server
    row,        \* kind -> what the database holds
    mem,        \* kind -> what the server holds in memory
    writing,    \* the writers that have changed the announcements and not yet
                \* stored them
    last,       \* kind -> the result of the last write anyone made
    expired,    \* announcements that are over
    cache,      \* kind -> what the client library shows
    pending,    \* the client's maps of outstanding updates
    nextId,     \* map -> the next id it gives out
    toServer, toClient, online, asked, faults,
    tainted     \* kinds whose cache is known to be wrong, see CacheIsRight

server == <<row, mem, writing, last>>
client == <<cache, pending, nextId, tainted>>
settingsVars == <<studied, admin, server, expired, client, toServer, toClient, online,
          asked, faults>>

-----------------------------------------------------------------------------
(* Values, updates and messages. *)

ValuesOf(k) == CASE k \in Whole -> Tastes
                 [] k = "calendar_id" -> 0 .. MaxAsked
                 [] OTHER -> SUBSET Items
FirstOf(k) == CASE k \in Whole -> FirstTaste
                [] k = "calendar_id" -> 0
                [] OTHER -> {}

\* Set, Add, Remove and Clear, and the kinds that implement them.
Updates == [op : {"set"}, of : Tastes] \cup [op : {"add", "remove"}, of : Items]
             \cup {[op |-> "clear", of |-> NoValue]}
Offered(k) ==
    CASE k \in Whole -> {"set"}
      [] k \in {"calendar_locations", "public_keys"} -> {"add", "remove", "clear"}
      [] k \in {"bookmarks", "banned_peers"} -> {"add", "remove"}
      [] k = "announcements" -> {"add", "clear"}
      [] OTHER -> {}
UpdatesOf(k) == {u \in Updates : u.op \in Offered(k)}
Applied(u, value) == CASE u.op = "set" -> u.of
                       [] u.op = "add" -> value \cup {u.of}
                       [] u.op = "remove" -> value \ {u.of}
                       [] u.op = "clear" -> {}

\* The map an update of a kind waits in, and the maps there are.
MapOf(k) == IF k \in Access THEN "access" ELSE k
Maps == {MapOf(k) : k \in Kinds} \cup {"visibility"}

ClientRequest ==
    [ask : {"get"}, kind : Kinds]
      \cup [ask : {"update"}, kind : Kinds, id : Nat, u : Updates]
      \cup [ask : {"reset_id"}, kind : {"calendar_id"}]
      \cup [ask : {"bulk"}, kind : {"visibility"}, id : Nat]
Results == {"Success", "Redundant", "NotAllowed", "InternalError"}
\* `sure` is FALSE for the empty list sent when the query has failed; `map` is
\* the map the client looks the id up in.
ClientResponse(value) ==
    [tell : {"current"}, kind : Kinds, value : {value}, sure : BOOLEAN]
      \cup [tell : {"change"}, kind : Kinds \cup {"visibility"}, map : Maps,
            id : Nat, result : Results]

SettingsInit ==
    /\ studied \in Groups
    /\ admin \in IF studied \subseteq Own THEN {TRUE} ELSE BOOLEAN
    /\ row = [k \in Kinds |-> FirstOf(k)]
    /\ mem = [k \in Remembered |-> FirstOf(k)]
    /\ writing = {} /\ expired = {}
    /\ last = [k \in Remembered |-> "Success"]
    /\ cache = [k \in Kinds |-> NoValue]
    /\ pending = {} /\ tainted = {}
    /\ nextId = [m \in Maps |-> 0]
    /\ toServer = <<>> /\ toClient = <<>>
    /\ online = TRUE /\ asked = 0 /\ faults = 0

-----------------------------------------------------------------------------
(* The client library: reading and changing a setting. *)

\* Avatars and calendar identifiers are kept for good.
GoesStale(k) == k \notin {"avatar", "calendar_id"}

\* ActiveConnection: a message sent on a lost connection is gone.
Send(m) == toServer' = IF online THEN Append(toServer, m) ELSE toServer

Asking == asked < MaxAsked /\ asked' = asked + 1

\* Cache::get: asks for a value that is absent, or old.
Read(k) ==
    /\ Asking
    /\ cache[k] = NoValue \/ GoesStale(k)
    /\ Send([ask |-> "get", kind |-> k])
    /\ UNCHANGED <<studied, admin, server, expired, client, toClient, online,
                   faults>>

\* An update the cache already shows is not sent; it is tracked all the same.
\* Announcements are a list and take every addition.
Superfluous(k, u) ==
    /\ cache[k] # NoValue
    /\ k # "announcements"
    /\ \/ u.op = "add" /\ u.of \in cache[k]
       \/ u.op = "remove" /\ u.of \notin cache[k]

\* TrackingMap::add gives the next id and keeps the entry.
Track(m, k, silent) ==
    /\ pending' = pending \cup
         {[map |-> m, id |-> nextId[m], kind |-> k, silent |-> silent]}
    /\ nextId' = [nextId EXCEPT ![m] = @ + 1]

\* The value the cache shows while the update is on its way.
Optimistic(k, u) == IF cache[k] = NoValue THEN NoValue ELSE Applied(u, cache[k])

\* Cache::modify and Update::update. A bookmark that names this server is
\* stored in its local form, which the cache does not know.
Modify(k, u) ==
    /\ Asking
    /\ u \in UpdatesOf(k)
    /\ Track(MapOf(k), k, Superfluous(k, u))
    /\ cache' = [cache EXCEPT ![k] = Optimistic(k, u)]
    /\ IF Superfluous(k, u) THEN UNCHANGED toServer
       ELSE Send([ask |-> "update", kind |-> k, id |-> nextId[MapOf(k)], u |-> u])
    /\ tainted' = IF k = "bookmarks" /\ LocalForm[u.of] # u.of
                  THEN tainted \cup {k} ELSE tainted
    /\ UNCHANGED <<studied, admin, server, expired, toClient, online, faults>>

CalendarReset ==
    /\ Asking
    /\ Send([ask |-> "reset_id", kind |-> "calendar_id"])
    /\ UNCHANGED <<studied, admin, server, expired, client, toClient, online,
                   faults>>

\* set_location_visibility, which asks for a bulk change of access rules.
SetLocationVisibility ==
    /\ Asking
    /\ Track("visibility", "visibility", FALSE)
    /\ Send([ask |-> "bulk", kind |-> "visibility", id |-> nextId["visibility"]])
    /\ UNCHANGED <<studied, admin, server, expired, cache, tainted, toClient,
                   online, faults>>


-----------------------------------------------------------------------------
(* The player's entity on the server: one handler per request. *)

QueryFails == faults < MaxFaults /\ faults' = faults + 1
QueryWorks == UNCHANGED faults

\* The handler of the next request runs once the one before has stored.
Serving(what) ==
    /\ toServer # <<>> /\ Head(toServer).ask = what
    /\ \A w \in writing : w.who # "player"
    /\ toServer' = Tail(toServer)
    /\ UNCHANGED <<studied, admin, expired, client, online, asked>>

Reply(m) == toClient' = IF online THEN Append(toClient, m) ELSE toClient
Current(k, value, sure) ==
    [tell |-> "current", kind |-> k, value |-> value, sure |-> sure]
\* mutant: announcements are answered like bulk changes of access
ChangeMisfiled(k, id, result) ==
    [tell |-> "change", kind |-> k, map |-> IF k = "announcements" THEN "access" ELSE MapOf(k),
     id |-> id, result |-> result]
Change(k, id, result) ==
    [tell |-> "change", kind |-> k, map |-> MapOf(k), id |-> id, result |-> result]

\* calendar_list joins the subscriptions with the locations.
Shown(k) == IF k = "calendar_locations" THEN row[k] \cap Here ELSE row[k]

\* AccessGetDefault, AvatarGet, CalendarIdentifier, AnnouncementList, PeerBanList.
ServeFromMemory ==
    LET k == Head(toServer).kind IN
    /\ Serving("get")
    /\ k \in Remembered
    /\ QueryWorks /\ Reply(Current(k, mem[k], TRUE))
    /\ UNCHANGED server

\* BookmarksList, CalendarLocationList, PublicKeyList: a query whose failure
\* looks like an empty list.
ServeFromRows ==
    LET k == Head(toServer).kind IN
    /\ Serving("get")
    /\ k \in Listed
    /\ \/ QueryWorks /\ Reply(Current(k, Shown(k), TRUE))
       \/ QueryFails /\ Reply(Current(k, {}, FALSE))
    /\ UNCHANGED server

\* Only the rules for direct messages are brought into local form.
Kept(k, taste) == IF k = "access_message" THEN LocalForm[taste] ELSE taste

\* A query that stores `value` for a kind, answered by `result` if it works.
\* mutant: memory that could not be stored counts as stored
StoreUnchecked(k, value, result) ==
    \/ QueryWorks /\ row' = [row EXCEPT ![k] = value] /\ result = "Success"
    \/ QueryFails /\ UNCHANGED row /\ result = "Success"
Store(k, value, result) ==
    \/ QueryWorks /\ row' = [row EXCEPT ![k] = value] /\ result = "Success"
    \/ QueryFails /\ UNCHANGED row /\ result = "InternalError"

\* PersistedLocal::mutate: memory changes first, and stays changed.
ServeMutate ==
    LET m == Head(toServer)
        value == Kept(m.kind, m.u.of) IN
    /\ Serving("update")
    /\ m.kind \in Whole
    /\ mem' = [mem EXCEPT ![m.kind] = value]
    /\ \E result \in Results :
         /\ Store(m.kind, value, result)
         /\ last' = [last EXCEPT ![m.kind] = result]
         /\ Reply(Change(m.kind, m.id, result))
    /\ UNCHANGED writing

\* Bookmarks are stored in local form.
BookmarksWritten(u) == Applied([u EXCEPT !.of = LocalForm[@]], row["bookmarks"])

\* A subscription needs an existing location, and clearing spares the locations
\* of other servers.
SubscriptionsWritten(u) ==
    CASE u.op = "add" -> row["calendar_locations"] \cup ({u.of} \cap (Here \cup Elsewhere))
      [] u.op = "clear" -> row["calendar_locations"] \ Here
      [] OTHER -> Applied(u, row["calendar_locations"])

KeysWritten(u) == Applied(u, row["public_keys"])

\* A handler that only touches rows.
Answered(k, value, refused) ==
    LET id == Head(toServer).id IN
    /\ Serving("update")
    /\ Head(toServer).kind = k
    /\ IF refused THEN QueryWorks /\ UNCHANGED row /\ Reply(Change(k, id, "NotAllowed"))
       ELSE \E result \in Results : /\ Store(k, value, result)
                                    /\ Reply(Change(k, id, result))
    /\ UNCHANGED <<mem, writing, last>>

\* BookmarkAdd, BookmarkRemove.
ServeBookmark ==
    LET u == Head(toServer).u IN Answered("bookmarks", BookmarksWritten(u), FALSE)

\* CalendarLocationAdd, Remove and Clear: a server name that does not parse.
ServeSubscription ==
    LET u == Head(toServer).u IN
    Answered("calendar_locations", SubscriptionsWritten(u), u.of \in Malformed)

\* PublicKeyAdd, Delete and DeleteAll: only an addition parses the key.
ServeKey ==
    LET u == Head(toServer).u IN
    Answered("public_keys", KeysWritten(u), u.op = "add" /\ u.of \in Malformed)

\* CalendarReset: the new identifier is the answer, and a failure has none.
NewIdentifier == row["calendar_id"] + 1
ServeReset ==
    /\ Serving("reset_id")
    /\ \/ /\ QueryWorks
          /\ row' = [row EXCEPT !["calendar_id"] = NewIdentifier]
          /\ mem' = [mem EXCEPT !["calendar_id"] = NewIdentifier]
          /\ Reply(Current("calendar_id", NewIdentifier, TRUE))
       \/ QueryFails /\ UNCHANGED <<row, mem, toClient>>
    /\ UNCHANGED <<writing, last>>

\* AccessSetLocationBulk answers with AccessChange.
ServeBulk ==
    /\ Serving("bulk")
    /\ \E result \in {"Success", "NotAllowed"} :
         Reply([Change("visibility", Head(toServer).id, result)
                  EXCEPT !.map = "access"])
    /\ QueryWorks
    /\ UNCHANGED server

\* PersistedWatch::write, first half: send_modify. An addition drops what is over.
AnnouncementsAfter(u) ==
    IF u.op = "clear" THEN {} ELSE (mem["announcements"] \cup {u.of}) \ expired
ModifyAnnouncements(who, id, u) ==
    /\ mem' = [mem EXCEPT !["announcements"] = AnnouncementsAfter(u)]
    /\ writing' = writing \cup {[who |-> who, id |-> id]}
    /\ UNCHANGED <<row, last>>

ServeAnnouncement ==
    LET m == Head(toServer) IN
    /\ Serving("update")
    /\ m.kind = "announcements"
    /\ IF m.u.of \in expired \/ ~admin
       THEN Reply(Change(m.kind, m.id, "NotAllowed")) /\ UNCHANGED server
       ELSE ModifyAnnouncements("player", m.id, m.u) /\ UNCHANGED toClient
    /\ QueryWorks

\* The second half stores what is in memory by then, of every writer.
StoreAnnouncements(w) ==
    /\ writing' = writing \ {w}
    /\ \E result \in Results :
         /\ Store("announcements", mem["announcements"], result)
         /\ last' = [last EXCEPT !["announcements"] = result]
         /\ IF w.who = "player" THEN Reply(Change("announcements", w.id, result))
            ELSE UNCHANGED toClient
    /\ UNCHANGED <<studied, admin, mem, expired, client, toServer, online, asked>>

\* PersistedGlobal::write: the closure says whether to store. The one of
\* PeerBanAdd says so when the ban was there already.
BanChanges(u) ==
    IF u.op = "clear" THEN mem["banned_peers"] # {} ELSE u.of \in mem["banned_peers"]
WriteBans(u, result) ==
    /\ mem' = [mem EXCEPT !["banned_peers"] = Applied(u, @)]
    /\ last' = [last EXCEPT !["banned_peers"] = result]
    /\ IF BanChanges(u) THEN Store("banned_peers", mem'["banned_peers"], result)
       ELSE QueryWorks /\ UNCHANGED row /\ result = "Redundant"
    /\ UNCHANGED writing

ServeBan ==
    LET m == Head(toServer) IN
    /\ Serving("update")
    /\ m.kind = "banned_peers"
    /\ IF admin THEN \E result \in Results : /\ WriteBans(m.u, result)
                                             /\ Reply(Change(m.kind, m.id, result))
       ELSE Reply(Change(m.kind, m.id, "NotAllowed")) /\ UNCHANGED server /\ QueryWorks

\* Another administrator's entity does the same to what all entities share.
OtherAdministrator(u) ==
    /\ Asking
    /\ \/ /\ "announcements" \in studied /\ u.op \in {"add", "clear"}
          /\ u.of \notin expired
          /\ \A w \in writing : w.who # "other"
          /\ ModifyAnnouncements("other", 0, u) /\ QueryWorks
       \/ /\ "banned_peers" \in studied /\ u.op # "set"
          /\ \E result \in Results : WriteBans(u, result)
    /\ UNCHANGED <<studied, admin, expired, client, toServer, toClient, online>>

Expire(e) ==
    /\ "announcements" \in studied /\ expired = {}
    /\ expired' = {e}
    /\ UNCHANGED <<studied, admin, server, client, toServer, toClient, online,
                   asked, faults>>

-----------------------------------------------------------------------------
(* The client library: Server::process. *)

\* The caches a failed update empties; for bookmarks it is the avatar's, and
\* for subscriptions none.
\* mutant: a rejected key stays in the cache
ForgetsButKeys(k) ==
    CASE k \in Access -> Access
      [] k = "bookmarks" -> {"avatar"}
      [] k \in {"calendar_locations", "public_keys"} -> {}
      [] OTHER -> {k}
Forgets(k) ==
    CASE k \in Access -> Access
      [] k = "bookmarks" -> {"avatar"}
      [] k = "calendar_locations" -> {}
      [] OTHER -> {k}

Hearing(what) ==
    /\ toClient # <<>> /\ Head(toClient).tell = what
    /\ toClient' = Tail(toClient)
    /\ UNCHANGED <<studied, admin, server, expired, nextId, toServer, online,
                   asked, faults>>

\* An update of the kind that the server took after it read the value.
Overtaken(k) == \/ \E i \in 1 .. Len(toServer) :
                     toServer[i].ask = "update" /\ toServer[i].kind = k
                \/ \E i \in 2 .. Len(toClient) :
                     toClient[i].tell = "change" /\ toClient[i].kind = k
                \/ k = "announcements" /\ writing # {}

\* A current value replaces what the cache shows, even an update made since.
HearCurrent ==
    LET m == Head(toClient) IN
    /\ Hearing("current")
    /\ cache' = [cache EXCEPT ![m.kind] = m.value]
    /\ tainted' = IF Overtaken(m.kind) \/ ~m.sure THEN tainted \cup {m.kind}
                  ELSE tainted \ {m.kind}
    /\ UNCHANGED pending

\* The answer to an update that is tracked: a failure empties caches.
HearChange ==
    LET m == Head(toClient)
        ours == {p \in pending : p.map = m.map /\ p.id = m.id}
        failed == IF m.result = "Success" THEN {} ELSE {p.kind : p \in ours}
        emptied == UNION {Forgets(k) : k \in failed} IN
    /\ Hearing("change")
    /\ pending' = pending \ ours
    /\ cache' = [k \in Kinds |-> IF k \in emptied THEN NoValue ELSE cache[k]]
    /\ tainted' = (tainted \cup (failed \cap {"bookmarks", "calendar_locations"}))
                    \ emptied

-----------------------------------------------------------------------------
(* Lost connections and restarts. *)

LoseConnection ==
    /\ online /\ QueryFails
    /\ online' = FALSE /\ toServer' = <<>> /\ toClient' = <<>>
    /\ UNCHANGED <<studied, admin, server, expired, client, asked>>

\* A new session starts with a fresh Server structure.
NewSession ==
    /\ ~online /\ online' = TRUE
    /\ cache' = [k \in Kinds |-> NoValue]
    /\ pending' = {} /\ tainted' = {}
    /\ nextId' = [m \in Maps |-> 0]
    /\ UNCHANGED <<studied, admin, server, expired, toServer, toClient, asked,
                   faults>>

\* Memory is loaded again: that of the player by a new entity, all of it by a
\* new server.
Reload(kinds) ==
    /\ ~online
    /\ mem' = [k \in Remembered |-> IF k \in kinds THEN row[k] ELSE mem[k]]
    /\ last' = [k \in Remembered |-> IF k \in kinds THEN "Success" ELSE last[k]]
    /\ UNCHANGED <<studied, admin, row, expired, client, toServer, toClient,
                   online, asked, faults>>
IdleTimeout ==
    /\ \A w \in writing : w.who # "player"
    /\ Reload(Remembered \cap Own)
    /\ UNCHANGED writing
Restart == Reload(Remembered) /\ writing' = {}

SettingsNext ==
    \/ \E k \in studied : Read(k)
    \/ \E k \in studied : \E u \in Updates : Modify(k, u)
    \/ "calendar_id" \in studied /\ CalendarReset
    \/ "access_message" \in studied /\ SetLocationVisibility
    \/ ServeFromMemory \/ ServeFromRows \/ ServeMutate \/ ServeReset \/ ServeBulk
    \/ ServeBookmark \/ ServeSubscription \/ ServeKey
    \/ ServeAnnouncement \/ ServeBan
    \/ \E w \in writing : StoreAnnouncements(w)
    \/ \E u \in Updates : OtherAdministrator(u)
    \/ \E e \in Items : Expire(e)
    \/ HearCurrent \/ HearChange
    \/ LoseConnection \/ NewSession \/ IdleTimeout \/ Restart

SettingsSpec == SettingsInit /\ [][SettingsNext]_settingsVars

-----------------------------------------------------------------------------
(* Properties *)

Writers == [who : {"player", "other"}, id : Nat]

\* Every variable keeps the type its code declares; ids fit the maps' counters.
SettingsTypeOK ==
    /\ studied \in SUBSET Kinds /\ admin \in BOOLEAN
    /\ \A k \in Kinds : /\ row[k] \in ValuesOf(k)
                        /\ cache[k] \in ValuesOf(k) \cup {NoValue}
    /\ \A k \in Remembered : mem[k] \in ValuesOf(k) /\ last[k] \in Results
    /\ \A w \in writing : w \in Writers
    /\ \A p \in pending : p.map \in Maps /\ p.id < nextId[p.map]
    /\ nextId \in [Maps -> 0 .. MaxAsked]
    /\ \A i \in 1 .. Len(toServer) : toServer[i] \in ClientRequest
    /\ \A i \in 1 .. Len(toClient) :
         LET m == toClient[i] IN
         IF m.tell = "current" THEN m \in ClientResponse(m.value) /\ m.value \in ValuesOf(m.kind)
         ELSE m \in ClientResponse(NoValue)
    /\ tainted \subseteq Kinds /\ expired \subseteq Items
    /\ online \in BOOLEAN /\ asked \in 0 .. MaxAsked /\ faults \in 0 .. MaxFaults

\* What a value means: access rules and bookmarks up to their local form,
\* subscriptions as far as they can be listed.
Meaning(k, value) ==
    CASE k = "access_message" -> LocalForm[value]
      [] k = "bookmarks" -> {LocalForm[e] : e \in value}
      [] k = "calendar_locations" -> value \cap Here
      [] OTHER -> value
Truth(k) == IF k \in Remembered THEN mem[k] ELSE row[k]

Settled(k) ==
    /\ online
    /\ \A i \in 1 .. Len(toServer) : toServer[i].kind # k
    /\ \A i \in 1 .. Len(toClient) : toClient[i].kind # k

\* Once nothing about one of the player's own settings is under way, what the
\* client shows is what the server holds, although updates are shown before
\* they are accepted and may be refused. The cases in which the code gets it
\* wrong are the ones that taint a kind: a value read before an update and
\* heard after it was made, a failed query answered as an empty list, a failed
\* change of a bookmark (it empties the avatar's cache) or of a subscription (it
\* empties none), and a bookmark stored in another form. And everything has its
\* type.
CacheIsRight ==
    SettingsTypeOK /\ \A k \in Own : Settled(k) /\ k \notin tainted /\ cache[k] # NoValue =>
        Meaning(k, cache[k]) = Meaning(k, Truth(k))

\* When the last write of a setting that the server remembers has succeeded and
\* no other is under way, a restart loads what is in memory now: with two
\* administrators writing at once, after failed writes, and in spite of the
\* bans that PeerBanAdd changes only in memory.
StoredOnSuccess ==
    \A k \in Remembered :
        last[k] = "Success" /\ (k = "announcements" => writing = {}) =>
            row[k] = mem[k]

\* Every update the client has sent and not heard about is on its way: the
\* request, the write it waits for or the answer. Updates the cache made
\* superfluous and bulk changes are never answered and stay in their maps.
AnswerIsOnItsWay ==
    online => \A p \in pending :
        \/ p.silent \/ p.map = "visibility"
        \/ \E i \in 1 .. Len(toServer) :
             toServer[i].ask = "update" /\ toServer[i].kind = p.kind /\ toServer[i].id = p.id
        \/ \E i \in 1 .. Len(toClient) :
             toClient[i].tell = "change" /\ toClient[i].map = p.map /\ toClient[i].id = p.id
        \/ p.kind = "announcements" /\ [who |-> "player", id |-> p.id] \in writing

=============================================================================
