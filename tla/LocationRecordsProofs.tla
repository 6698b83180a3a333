------------------------ MODULE LocationRecordsProofs ------------------------
(***************************************************************************)
(* Theorems about what is kept in rows and shown from copies.              *)
(*                                                                         *)
(* First AccountSettings, for any settings, entries and number of          *)
(* requests and faults: what a restart loads, that updates are answered,   *)
(* and that the client shows what the server holds.                        *)
(*                                                                         *)
(* Then LocationRecords, for any players, locations, channels and number   *)
(* of requests: what running locations hear of a change, whose locations a *)
(* bulk change reaches, and what a search shows.                           *)
(***************************************************************************)
EXTENDS AccountSettings, LocationRecords, SequenceTheorems, WellFoundedInduction, TLAPS

LEMMA Appended ==
  ASSUME NEW S, NEW q \in Seq(S), NEW e \in S
  PROVE  /\ Append(q, e) \in Seq(S) /\ Len(Append(q, e)) = Len(q) + 1
         /\ \A i \in 1 .. Len(q) : Append(q, e)[i] = q[i]
         /\ Append(q, e)[Len(q) + 1] = e
OBVIOUS

LEMMA Taken ==
  ASSUME NEW S, NEW q \in Seq(S), q # <<>>
  PROVE  /\ Tail(q) \in Seq(S) /\ Len(Tail(q)) = Len(q) - 1
         /\ Len(q) \in Nat \ {0} /\ Head(q) = q[1] /\ Head(q) \in S
         /\ \A i \in 1 .. Len(Tail(q)) : i + 1 \in 1 .. Len(q) /\ Tail(q)[i] = q[i + 1]
         /\ \A i \in 1 .. Len(q) : i = 1 \/ (i - 1 \in 1 .. Len(Tail(q)) /\ Tail(q)[i - 1] = q[i])
OBVIOUS

-----------------------------------------------------------------------------
(* What has been stored. *)

\* What the server keeps for each kind.
KeptByKind ==
  /\ row = [k \in Kinds |-> row[k]]
  /\ mem = [k \in Remembered |-> mem[k]] /\ last = [k \in Remembered |-> last[k]]

LEMMA KindsDiffer ==
  /\ Kinds = {"access_default", "access_message", "access_online", "avatar", "bookmarks",
              "calendar_locations", "public_keys", "announcements", "banned_peers", "calendar_id"}
  /\ Remembered = {"access_default", "access_message", "access_online", "avatar",
                   "announcements", "banned_peers", "calendar_id"}
  /\ Own = {"access_default", "access_message", "access_online", "avatar", "bookmarks",
            "calendar_locations", "public_keys", "calendar_id"}
BY DEF Kinds, Remembered, Own, Whole, Access, Listed, Shared

\* What a change of one kind leaves of the others.
LEMMA OneKindChanges ==
    ASSUME NEW S, NEW f, f = [k \in S |-> f[k]], NEW a \in S, NEW v, NEW g, g = [f EXCEPT ![a] = v]
    PROVE  g = [k \in S |-> g[k]] /\ g[a] = v /\ \A k \in S \ {a} : g[k] = f[k]
OBVIOUS

\* A write of one kind of setting.
Written(a, value, result) ==
    /\ a \in Remembered
    /\ mem' = [mem EXCEPT ![a] = value] /\ last' = [last EXCEPT ![a] = result]
    /\ \/ row' = [row EXCEPT ![a] = value] /\ result = "Success"
       \/ row' = row /\ result # "Success"
    /\ a = "announcements" \/ UNCHANGED writing

LEMMA WritesAreStored ==
    ASSUME KeptByKind, StoredOnSuccess, NEW a, NEW value, NEW result, Written(a, value, result)
    PROVE  KeptByKind' /\ StoredOnSuccess'
<1>1. a \in Kinds /\ \A k \in Remembered : k \in Kinds
  BY DEF Remembered, Written
<1>2. mem' = [k \in Remembered |-> mem'[k]] /\ mem'[a] = value /\ \A k \in Remembered \ {a} : mem'[k] = mem[k]
  BY OneKindChanges DEF KeptByKind, Written
<1>3. last' = [k \in Remembered |-> last'[k]] /\ last'[a] = result /\ \A k \in Remembered \ {a} : last'[k] = last[k]
  BY OneKindChanges DEF KeptByKind, Written
<1>4. /\ row' = [k \in Kinds |-> row'[k]] /\ \A k \in Kinds \ {a} : row'[k] = row[k]
      /\ result = "Success" => row'[a] = value
  BY <1>1, OneKindChanges DEF KeptByKind, Written
<1> QED BY <1>1, <1>2, <1>3, <1>4 DEF KeptByKind, StoredOnSuccess, Written

LEMMA StoredStep ==
    ASSUME KeptByKind, StoredOnSuccess, [SettingsNext]_settingsVars
    PROVE  KeptByKind' /\ StoredOnSuccess'
<1>1. ASSUME UNCHANGED server PROVE KeptByKind' /\ StoredOnSuccess'
  BY <1>1 DEF server, KeptByKind, StoredOnSuccess
<1>2. CASE ServeMutate
  <2>1. PICK k, value, result :
          /\ k \in Whole
          /\ mem' = [mem EXCEPT ![k] = value] /\ last' = [last EXCEPT ![k] = result]
          /\ Store(k, value, result) /\ UNCHANGED writing
    BY <1>2, Zenon DEF ServeMutate
  <2>2. k \in Remembered
    BY <2>1, KindsDiffer DEF Whole, Access
  <2>3. Written(k, value, result)
    BY <2>1, <2>2 DEF Store, Written
  <2> QED BY <2>3, WritesAreStored
<1>3. CASE ServeReset
  <2>1. CASE UNCHANGED <<row, mem>>
    BY <1>1, <1>3, <2>1 DEF ServeReset, server
  <2>2. ASSUME NEW value, mem' = [mem EXCEPT !["calendar_id"] = value],
               row' = [row EXCEPT !["calendar_id"] = value]
        PROVE  KeptByKind' /\ StoredOnSuccess'
    <3>1. "calendar_id" \in Remembered /\ "calendar_id" \in Kinds
      BY KindsDiffer
    <3>2. /\ mem' = [k \in Remembered |-> mem'[k]] /\ mem'["calendar_id"] = value
          /\ \A k \in Remembered \ {"calendar_id"} : mem'[k] = mem[k]
      BY <2>2, <3>1, OneKindChanges DEF KeptByKind
    <3>3. /\ row' = [k \in Kinds |-> row'[k]] /\ row'["calendar_id"] = value
          /\ \A k \in Kinds \ {"calendar_id"} : row'[k] = row[k]
      BY <2>2, <3>1, OneKindChanges DEF KeptByKind
    <3>4. (\A k \in Remembered : k \in Kinds) /\ UNCHANGED <<writing, last>>
      BY <1>3 DEF Remembered, ServeReset
    <3> QED BY <3>2, <3>3, <3>4 DEF KeptByKind, StoredOnSuccess
  <2> QED BY <1>3, <2>1, <2>2, Zenon DEF ServeReset
<1>4. ASSUME NEW a \in Listed, NEW value, NEW refused, Answered(a, value, refused)
      PROVE  KeptByKind' /\ StoredOnSuccess'
  <2>1. a \notin Remembered /\ a \in Kinds /\ \A k \in Remembered : k \in Kinds
    BY DEF Remembered, Kinds
  <2>2. UNCHANGED <<mem, last, writing>> /\ (row' = row \/ row' = [row EXCEPT ![a] = value])
    BY <1>4, Zenon DEF Answered, Store
  <2>3. row' = [k \in Kinds |-> row'[k]] /\ \A k \in Remembered : row'[k] = row[k]
    BY <2>1, <2>2, OneKindChanges DEF KeptByKind
  <2> QED BY <2>1, <2>2, <2>3 DEF KeptByKind, StoredOnSuccess
<1>5. ASSUME NEW who, NEW id, NEW u, ModifyAnnouncements(who, id, u)
      PROVE  KeptByKind' /\ StoredOnSuccess'
  <2>1. PICK value : mem' = [mem EXCEPT !["announcements"] = value]
    BY <1>5 DEF ModifyAnnouncements
  <2>2. UNCHANGED <<row, last>> /\ writing' # {}
    BY <1>5 DEF ModifyAnnouncements
  <2>3. "announcements" \in Remembered
    BY KindsDiffer
  <2>4. mem' = [k \in Remembered |-> mem'[k]] /\ \A k \in Remembered \ {"announcements"} : mem'[k] = mem[k]
    BY <2>1, <2>3, OneKindChanges DEF KeptByKind
  <2> QED BY <2>2, <2>4 DEF KeptByKind, StoredOnSuccess
<1>6. ASSUME NEW w \in writing, StoreAnnouncements(w)
      PROVE  KeptByKind' /\ StoredOnSuccess'
  <2>1. PICK value, result : /\ value = mem["announcements"] /\ mem' = mem
                             /\ Store("announcements", value, result)
                             /\ last' = [last EXCEPT !["announcements"] = result]
    BY <1>6, Zenon DEF StoreAnnouncements
  <2>2. "announcements" \in Remembered
    BY KindsDiffer
  <2>3. mem' = [mem EXCEPT !["announcements"] = value]
    BY <2>1 DEF KeptByKind
  <2>4. Written("announcements", value, result)
    BY <2>1, <2>2, <2>3 DEF Store, Written
  <2> QED BY <2>4, WritesAreStored
<1>7. ASSUME NEW u, NEW result, WriteBans(u, result)
      PROVE  KeptByKind' /\ StoredOnSuccess'
  <2>1. PICK value : mem' = [mem EXCEPT !["banned_peers"] = value]
    BY <1>7, Zenon DEF WriteBans
  <2>2. "banned_peers" \in Remembered
    BY KindsDiffer
  <2>3. mem'["banned_peers"] = value
    BY <2>1, <2>2, OneKindChanges DEF KeptByKind
  <2>4. /\ last' = [last EXCEPT !["banned_peers"] = result] /\ UNCHANGED writing
        /\ \/ Store("banned_peers", value, result)
           \/ UNCHANGED row /\ result = "Redundant"
    BY <1>7, <2>3, Zenon DEF WriteBans
  <2>5. Written("banned_peers", value, result)
    BY <2>1, <2>2, <2>4 DEF Store, Written
  <2> QED BY <2>5, WritesAreStored
<1>8. CASE IdleTimeout \/ Restart
  BY <1>8, KindsDiffer DEF IdleTimeout, Restart, Reload, KeptByKind, StoredOnSuccess
<1>9. CASE ServeBookmark \/ ServeSubscription \/ ServeKey
  BY <1>4, <1>9 DEF ServeBookmark, ServeSubscription, ServeKey, Listed
<1>10. CASE ServeAnnouncement
  BY <1>1, <1>5, <1>10 DEF ServeAnnouncement
<1>11. CASE ServeBan
  BY <1>1, <1>7, <1>11 DEF ServeBan
<1>12. CASE \E u \in Updates : OtherAdministrator(u)
  BY <1>5, <1>7, <1>12 DEF OtherAdministrator
<1>13. CASE \/ \E k \in studied : Read(k) \/ \E u \in Updates : Modify(k, u)
            \/ CalendarReset \/ SetLocationVisibility
  BY <1>1, <1>13 DEF Read, Modify, CalendarReset, SetLocationVisibility
<1>14. CASE \/ ServeFromMemory \/ ServeFromRows \/ ServeBulk \/ HearCurrent \/ HearChange
            \/ \E e \in Items : Expire(e)
  BY <1>1, <1>14 DEF ServeFromMemory, ServeFromRows, ServeBulk, HearCurrent, HearChange,
                     Hearing, Expire
<1>15. CASE LoseConnection \/ NewSession \/ UNCHANGED settingsVars
  BY <1>1, <1>15 DEF LoseConnection, NewSession, settingsVars
<1> QED BY <1>2, <1>3, <1>6, <1>8, <1>9, <1>10, <1>11, <1>12, <1>13, <1>14, <1>15
        DEF SettingsNext

\* When the last write of a setting that the server remembers has succeeded and
\* no other is under way, a restart loads what is in memory: whoever wrote, and
\* whatever failed before.
THEOREM WhatSucceededIsStored == SettingsSpec => []StoredOnSuccess
<1>1. SettingsInit => KeptByKind /\ StoredOnSuccess
  BY KindsDiffer DEF SettingsInit, KeptByKind, StoredOnSuccess
<1> QED BY <1>1, StoredStep, PTL DEF SettingsSpec

-----------------------------------------------------------------------------
(* Types of what is kept and of what is on the connection. *)

WireRequests ==
  [ask : {"get"}, kind : Kinds]
    \cup (UNION {[ask : {"update"}, kind : {k}, id : Nat, u : UpdatesOf(k)] : k \in Kinds})
    \cup [ask : {"reset_id"}, kind : {"calendar_id"}]
    \cup [ask : {"bulk"}, kind : {"visibility"}, id : Nat]
\* The answer to a bulk change is looked up in the map of the access rules.
Answers ==
  (UNION {[tell : {"current"}, kind : {k}, value : ValuesOf(k), sure : BOOLEAN] : k \in Kinds})
    \cup (UNION {[tell : {"change"}, kind : {k}, map : {MapOf(k)}, id : Nat, result : Results] : k \in Kinds})
    \cup [tell : {"change"}, kind : {"visibility"}, map : {"access"}, id : Nat, result : Results]

WireTyped ==
  /\ toServer \in Seq(WireRequests) /\ toClient \in Seq(Answers)
  /\ online \in BOOLEAN
  /\ ~online => toServer = <<>> /\ toClient = <<>>

ServerTyped ==
  /\ \A k \in Kinds : row[k] \in ValuesOf(k)
  /\ \A k \in Remembered : mem[k] \in ValuesOf(k) /\ last[k] \in Results
  /\ mem["calendar_id"] = row["calendar_id"]
  /\ writing \subseteq Writers
  /\ studied \subseteq Kinds /\ admin \in BOOLEAN /\ expired \subseteq Items

ClientTyped ==
  /\ cache = [k \in Kinds |-> cache[k]]
  /\ \A k \in Kinds : cache[k] \in ValuesOf(k) \cup {NoValue}
  /\ nextId \in [Maps -> Nat] /\ \A m \in Maps : nextId[m] <= asked
  /\ \A p \in pending : /\ p.kind \in Kinds \cup {"visibility"} /\ p.map = MapOf(p.kind)
                        /\ p.id \in Nat /\ p.id < nextId[p.map]
  /\ tainted \subseteq Kinds

\* Each new identifier was asked for by a request of its own.
AskedFor ==
  /\ asked \in 0 .. MaxAsked /\ faults \in 0 .. MaxFaults
  /\ row["calendar_id"] + Len(toServer) <= asked

LEMMA ValuesByKind ==
  /\ \A k \in Whole : ValuesOf(k) = Tastes
  /\ ValuesOf("calendar_id") = 0 .. MaxAsked
  /\ \A k \in Kinds : k \notin Whole /\ k # "calendar_id" => ValuesOf(k) = SUBSET Items
BY DEF ValuesOf, Whole, Access

LEMMA MapsByKind ==
  /\ \A k \in Kinds \cup {"visibility"} : MapOf(k) \in Maps
  /\ MapOf("visibility") = "visibility" /\ "visibility" \in Maps /\ "access" \in Maps
  /\ \A k \in Access : MapOf(k) = "access"
  /\ \A k \in Kinds \ Access : MapOf(k) = k
BY DEF MapOf, Maps, Kinds, Whole, Access

LEMMA AppliedType ==
  ASSUME NEW k \in Kinds, NEW u \in UpdatesOf(k), NEW v \in ValuesOf(k)
  PROVE  Applied(u, v) \in ValuesOf(k)
<1>1. CASE k \in Whole
  <2>1. u \in [op : {"set"}, of : Tastes]
    <3>1. Offered(k) = {"set"}
      BY <1>1 DEF Offered, Whole, Access
    <3> QED BY <3>1 DEF UpdatesOf, Updates
  <2>2. u.op = "set" /\ u.of \in Tastes
    BY <2>1
  <2>3. Applied(u, v) = u.of
    BY <2>2 DEF Applied
  <2> QED BY <1>1, <2>2, <2>3, ValuesByKind
<1>2. CASE k \notin Whole /\ k # "calendar_id"
  <2>1. u \in [op : {"add", "remove"}, of : Items] \cup {[op |-> "clear", of |-> NoValue]}
    BY <1>2 DEF UpdatesOf, Offered, Updates
  <2>2. v \subseteq Items
    BY <1>2, ValuesByKind
  <2>3. CASE u \in [op : {"add", "remove"}, of : Items]
    <3>1. u.op \in {"add", "remove"} /\ u.of \in Items
      BY <2>3
    <3>2. Applied(u, v) = v \cup {u.of} \/ Applied(u, v) = v \ {u.of}
      BY <3>1 DEF Applied
    <3> QED BY <1>2, <2>2, <3>1, <3>2, ValuesByKind
  <2>4. CASE u = [op |-> "clear", of |-> NoValue]
    <3>1. u.op = "clear"
      BY <2>4
    <3>2. Applied(u, v) = {}
      BY <3>1 DEF Applied
    <3> QED BY <1>2, <3>2, ValuesByKind
  <2> QED BY <2>1, <2>3, <2>4
<1>3. CASE k = "calendar_id"
  BY <1>3 DEF UpdatesOf, Offered, Whole, Access
<1> QED BY <1>1, <1>2, <1>3

\* What a request and an answer say of themselves.
LEMMA RequestsSay ==
  ASSUME NEW m \in WireRequests
  PROVE  /\ m.ask \in {"get", "update", "reset_id", "bulk"}
         /\ m.kind \in Kinds \cup {"visibility"}
         /\ m.ask = "get" => m = [ask |-> "get", kind |-> m.kind] /\ m.kind \in Kinds
         /\ m.ask = "update" => /\ m = [ask |-> "update", kind |-> m.kind, id |-> m.id, u |-> m.u]
                                /\ m.kind \in Kinds /\ m.id \in Nat /\ m.u \in UpdatesOf(m.kind)
         /\ m.ask = "bulk" => m.id \in Nat
         /\ m \in ClientRequest
<1>0. \/ m \in [ask : {"get"}, kind : Kinds]
      \/ \E k \in Kinds : m \in [ask : {"update"}, kind : {k}, id : Nat, u : UpdatesOf(k)]
      \/ m \in [ask : {"reset_id"}, kind : {"calendar_id"}]
      \/ m \in [ask : {"bulk"}, kind : {"visibility"}, id : Nat]
  BY DEF WireRequests
<1>1. CASE m \in [ask : {"get"}, kind : Kinds]
  <2>1. m.ask = "get" /\ m = [ask |-> "get", kind |-> m.kind] /\ m.kind \in Kinds
    BY <1>1
  <2> QED BY <1>1, <2>1 DEF ClientRequest
<1>2. ASSUME NEW k \in Kinds, m \in [ask : {"update"}, kind : {k}, id : Nat, u : UpdatesOf(k)]
      PROVE  /\ m.ask = "update" /\ m.kind = k /\ m.id \in Nat /\ m.u \in UpdatesOf(k)
             /\ m = [ask |-> "update", kind |-> m.kind, id |-> m.id, u |-> m.u]
             /\ m \in ClientRequest
  <2>1. /\ m.ask = "update" /\ m.kind = k /\ m.id \in Nat /\ m.u \in UpdatesOf(k)
        /\ m = [ask |-> "update", kind |-> m.kind, id |-> m.id, u |-> m.u]
    BY <1>2
  <2>2. m.u \in Updates
    BY <2>1 DEF UpdatesOf
  <2> QED BY <2>1, <2>2 DEF ClientRequest
<1>3. CASE m \in [ask : {"reset_id"}, kind : {"calendar_id"}]
  <2>1. m.ask = "reset_id" /\ m.kind = "calendar_id" /\ m.kind \in Kinds
    BY <1>3, KindsDiffer
  <2> QED BY <1>3, <2>1 DEF ClientRequest
<1>4. CASE m \in [ask : {"bulk"}, kind : {"visibility"}, id : Nat]
  <2>1. m.ask = "bulk" /\ m.kind = "visibility" /\ m.id \in Nat
    BY <1>4
  <2> QED BY <1>4, <2>1 DEF ClientRequest
<1>5. CASE \E k \in Kinds : m \in [ask : {"update"}, kind : {k}, id : Nat, u : UpdatesOf(k)]
  <2>1. m.ask = "update" /\ m.kind \in Kinds
    BY <1>2, <1>5
  <2> QED BY <1>2, <1>5, <2>1
<1> QED BY <1>0, <1>1, <1>3, <1>4, <1>5

LEMMA AnswersSay ==
  ASSUME NEW m \in Answers
  PROVE  /\ m.tell \in {"current", "change"} /\ m.kind \in Kinds \cup {"visibility"}
         /\ m.tell = "current" => /\ m.kind \in Kinds /\ m.value \in ValuesOf(m.kind)
                                  /\ m.sure \in BOOLEAN /\ m \in ClientResponse(m.value)
         /\ m.tell = "change" => /\ m.id \in Nat /\ m.result \in Results
                                 /\ m.kind \in Kinds => m.map = MapOf(m.kind)
                                 /\ m.kind \notin Kinds => m.map = "access"
                                 /\ m \in ClientResponse(NoValue)
<1>1. ASSUME NEW k \in Kinds, m \in [tell : {"current"}, kind : {k}, value : ValuesOf(k), sure : BOOLEAN]
      PROVE  /\ m.tell = "current" /\ m.kind = k /\ m.value \in ValuesOf(k)
             /\ m.sure \in BOOLEAN /\ m \in ClientResponse(m.value)
  BY <1>1 DEF ClientResponse
<1>2. ASSUME NEW k \in Kinds,
             m \in [tell : {"change"}, kind : {k}, map : {MapOf(k)}, id : Nat, result : Results]
      PROVE  /\ m.tell = "change" /\ m.kind = k /\ m.map = MapOf(k) /\ m.id \in Nat
             /\ m.result \in Results /\ m \in ClientResponse(NoValue)
  BY <1>2, MapsByKind DEF ClientResponse
<1>3. ASSUME m \in [tell : {"change"}, kind : {"visibility"}, map : {"access"}, id : Nat, result : Results]
      PROVE  /\ m.tell = "change" /\ m.kind = "visibility" /\ m.map = "access" /\ m.id \in Nat
             /\ m.result \in Results /\ m \in ClientResponse(NoValue)
  BY <1>3, MapsByKind DEF ClientResponse
<1>4. "visibility" \notin Kinds
  BY KindsDiffer
<1>5. \/ \E k \in Kinds : m \in [tell : {"current"}, kind : {k}, value : ValuesOf(k), sure : BOOLEAN]
      \/ \E k \in Kinds : m \in [tell : {"change"}, kind : {k}, map : {MapOf(k)}, id : Nat, result : Results]
      \/ m \in [tell : {"change"}, kind : {"visibility"}, map : {"access"}, id : Nat, result : Results]
  BY DEF Answers
<1>6. CASE \E k \in Kinds : m \in [tell : {"current"}, kind : {k}, value : ValuesOf(k), sure : BOOLEAN]
  BY <1>1, <1>6
<1>7. CASE \E k \in Kinds : m \in [tell : {"change"}, kind : {k}, map : {MapOf(k)}, id : Nat, result : Results]
  BY <1>2, <1>7
<1> QED BY <1>3, <1>4, <1>5, <1>6, <1>7

-----------------------------------------------------------------------------
(* What the steps do to the connection. *)

\* The answers the server gives to the request h, or the write it starts.
AnswersTo(h) ==
  \/ /\ h.ask = "update"
     /\ \E result \in Results : Reply(Change(h.kind, h.id, result))
     /\ UNCHANGED writing
  \/ /\ h.ask = "update" /\ h.kind = "announcements"
     /\ writing' = writing \cup {[who |-> "player", id |-> h.id]}
     /\ UNCHANGED toClient
  \/ /\ h.ask = "get"
     /\ \E value \in ValuesOf(h.kind), sure \in BOOLEAN : Reply(Current(h.kind, value, sure))
     /\ UNCHANGED writing
  \/ /\ h.ask = "reset_id"
     /\ \/ UNCHANGED toClient
        \/ \E value \in ValuesOf("calendar_id") : Reply(Current("calendar_id", value, TRUE))
     /\ UNCHANGED writing
  \/ /\ h.ask = "bulk"
     /\ \E result \in Results :
          Reply([Change("visibility", h.id, result) EXCEPT !.map = "access"])
     /\ UNCHANGED writing
Served ==
  /\ toServer # <<>> /\ AnswersTo(Head(toServer)) /\ toServer' = Tail(toServer)
  /\ UNCHANGED <<studied, admin, expired, client, online, asked>>
Serves ==
  \/ ServeFromMemory \/ ServeFromRows \/ ServeMutate \/ ServeReset \/ ServeBulk
  \/ ServeBookmark \/ ServeSubscription \/ ServeKey \/ ServeAnnouncement \/ ServeBan

\* A value is shown as the kind's values are.
LEMMA ShownType ==
  ASSUME NEW k \in Listed, ServerTyped
  PROVE  Shown(k) \in ValuesOf(k) /\ {} \in ValuesOf(k) /\ k \in Kinds
<1>1. k \in Kinds /\ k \notin Whole /\ k # "calendar_id"
  BY DEF Listed, Kinds, Whole, Access
<1>2. row[k] \subseteq Items /\ ValuesOf(k) = SUBSET Items
  BY <1>1, ValuesByKind DEF ServerTyped
<1> QED BY <1>1, <1>2 DEF Shown

LEMMA RequestsAreServed ==
  ASSUME WireTyped, ServerTyped, AskedFor, Serves
  PROVE  Served
<1>1. ASSUME NEW what, Serving(what)
      PROVE  /\ toServer # <<>> /\ Head(toServer) \in WireRequests /\ Head(toServer).ask = what
             /\ toServer' = Tail(toServer) /\ Len(toServer) >= 1
             /\ UNCHANGED <<studied, admin, expired, client, online, asked>>
  BY <1>1, Taken DEF Serving, WireTyped
<1>2. PICK h : h = Head(toServer)
  OBVIOUS
<1>3. ASSUME NEW k, NEW value, NEW refused, Answered(k, value, refused)
      PROVE  Served
  <2>1. Serving("update") /\ h.kind = k /\ UNCHANGED writing
    BY <1>2, <1>3 DEF Answered
  <2>2. \E result \in Results : Reply(Change(h.kind, h.id, result))
    <3>1. CASE refused
      BY <1>2, <1>3, <3>1 DEF Answered, Results
    <3>2. CASE ~refused
      BY <1>2, <1>3, <3>2, Zenon DEF Answered
    <3> QED BY <3>1, <3>2
  <2> QED BY <1>1, <1>2, <2>1, <2>2 DEF Served, AnswersTo
<1>4. CASE ServeBookmark \/ ServeSubscription \/ ServeKey
  BY <1>3, <1>4, Zenon DEF ServeBookmark, ServeSubscription, ServeKey
<1>5. CASE ServeFromMemory
  <2>1. h.kind \in Remembered /\ UNCHANGED server /\ Serving("get")
    BY <1>2, <1>5 DEF ServeFromMemory
  <2>2. Reply(Current(h.kind, mem[h.kind], TRUE)) /\ mem[h.kind] \in ValuesOf(h.kind)
    BY <1>2, <1>5, <2>1 DEF ServeFromMemory, ServerTyped
  <2> QED BY <1>1, <1>2, <2>1, <2>2 DEF Served, AnswersTo, server
<1>6. CASE ServeFromRows
  <2>1. h.kind \in Listed /\ UNCHANGED server /\ Serving("get")
    BY <1>2, <1>6 DEF ServeFromRows
  <2>2. Shown(h.kind) \in ValuesOf(h.kind) /\ {} \in ValuesOf(h.kind)
    BY <2>1, ShownType
  <2>3. Reply(Current(h.kind, Shown(h.kind), TRUE)) \/ Reply(Current(h.kind, {}, FALSE))
    BY <1>2, <1>6 DEF ServeFromRows
  <2> QED BY <1>1, <1>2, <2>1, <2>2, <2>3 DEF Served, AnswersTo, server
<1>7. CASE ServeMutate
  <2>1. Serving("update") /\ UNCHANGED writing
    BY <1>7 DEF ServeMutate
  <2>2. \E result \in Results : Reply(Change(h.kind, h.id, result))
    BY <1>2, <1>7, Zenon DEF ServeMutate
  <2> QED BY <1>1, <1>2, <2>1, <2>2 DEF Served, AnswersTo
<1>8. CASE ServeReset
  <2>1. Serving("reset_id") /\ UNCHANGED writing
    BY <1>8 DEF ServeReset
  <2>2. row["calendar_id"] \in 0 .. MaxAsked
    BY ValuesByKind, KindsDiffer DEF ServerTyped
  <2>3. NewIdentifier \in ValuesOf("calendar_id")
    BY <1>1, <2>1, <2>2, ValuesByKind, LimitsAssumption DEF AskedFor, NewIdentifier, WireTyped, LimitsAssumption
  <2>4. UNCHANGED toClient \/ Reply(Current("calendar_id", NewIdentifier, TRUE))
    BY <1>8 DEF ServeReset
  <2> QED BY <1>1, <1>2, <2>1, <2>3, <2>4 DEF Served, AnswersTo
<1>9. CASE ServeBulk
  <2>1. Serving("bulk") /\ UNCHANGED writing
    BY <1>9 DEF ServeBulk, server
  <2>2. \E result \in Results : Reply([Change("visibility", h.id, result) EXCEPT !.map = "access"])
    BY <1>2, <1>9, Zenon DEF ServeBulk, Results
  <2> QED BY <1>1, <1>2, <2>1, <2>2 DEF Served, AnswersTo
<1>10. CASE ServeAnnouncement
  <2>1. Serving("update") /\ h.kind = "announcements"
    BY <1>2, <1>10 DEF ServeAnnouncement
  <2>2. \/ Reply(Change(h.kind, h.id, "NotAllowed")) /\ UNCHANGED writing
        \/ writing' = writing \cup {[who |-> "player", id |-> h.id]} /\ UNCHANGED toClient
    BY <1>2, <1>10, Zenon DEF ServeAnnouncement, ModifyAnnouncements, server
  <2>3. "NotAllowed" \in Results
    BY DEF Results
  <2> QED BY <1>1, <1>2, <2>1, <2>2, <2>3 DEF Served, AnswersTo
<1>11. CASE ServeBan
  <2>1. Serving("update") /\ UNCHANGED writing
    BY <1>11 DEF ServeBan, WriteBans, server
  <2>2. "NotAllowed" \in Results
    BY DEF Results
  <2>3. \E result \in Results : Reply(Change(h.kind, h.id, result))
    BY <1>2, <1>11, <2>2, Zenon DEF ServeBan
  <2> QED BY <1>1, <1>2, <2>1, <2>3 DEF Served, AnswersTo
<1> QED BY <1>4, <1>5, <1>6, <1>7, <1>8, <1>9, <1>10, <1>11 DEF Serves

-----------------------------------------------------------------------------
(* What the steps store. *)

\* What the server makes of an update of a kind it keeps only in rows.
Accepted(k, u) == CASE k = "bookmarks" -> BookmarksWritten(u)
                    [] k = "calendar_locations" -> SubscriptionsWritten(u)
                    [] k = "public_keys" -> KeysWritten(u)

LEMMA LocalUpdate ==
  ASSUME NEW u \in UpdatesOf("bookmarks")
  PROVE  /\ u.op \in {"add", "remove"} /\ u.of \in Items
         /\ [u EXCEPT !.of = LocalForm[@]] = [op |-> u.op, of |-> LocalForm[u.of]]
         /\ [u EXCEPT !.of = LocalForm[@]] \in UpdatesOf("bookmarks")
<1>1. Offered("bookmarks") = {"add", "remove"}
  BY DEF Offered, Whole, Access
<1>2. u \in [op : {"add", "remove"}, of : Items]
  BY <1>1 DEF UpdatesOf, Updates
<1>3. u.op \in {"add", "remove"} /\ u.of \in Items /\ u = [op |-> u.op, of |-> u.of]
  BY <1>2
<1>4. PICK v : v = [u EXCEPT !.of = LocalForm[@]]
  OBVIOUS
<1>5. v = [op |-> u.op, of |-> LocalForm[u.of]]
  BY <1>3, <1>4
<1>6. LocalForm[u.of] \in Items
  BY <1>3, LocalFormAssumption DEF LocalFormAssumption
<1>7. v \in Updates /\ v.op = u.op
  BY <1>3, <1>5, <1>6 DEF Updates
<1> QED BY <1>1, <1>3, <1>4, <1>5, <1>7 DEF UpdatesOf

LEMMA AcceptedType ==
  ASSUME NEW k \in Listed, NEW u \in UpdatesOf(k), ServerTyped
  PROVE  Accepted(k, u) \in ValuesOf(k)
<1>1. /\ k \in Kinds /\ k \notin Whole /\ k # "calendar_id"
      /\ row[k] \in ValuesOf(k)
  BY DEF Listed, Kinds, Whole, Access, ServerTyped
<1>2. row[k] \subseteq Items /\ ValuesOf(k) = SUBSET Items
  BY <1>1, ValuesByKind
<1>3. CASE k = "bookmarks"
  BY <1>1, <1>3, LocalUpdate, AppliedType DEF Accepted, BookmarksWritten
<1>4. CASE k = "calendar_locations"
  <2>1. Applied(u, row[k]) \subseteq Items
    BY <1>1, <1>2, AppliedType
  <2>2. u.op = "add" => u.of \in Items
    <3>1. Offered(k) = {"add", "remove", "clear"}
      BY <1>4 DEF Offered, Whole, Access
    <3> QED BY <3>1 DEF UpdatesOf, Updates
  <2>3. Accepted(k, u) = SubscriptionsWritten(u)
    BY <1>4 DEF Accepted
  <2> QED BY <1>2, <1>4, <2>1, <2>2, <2>3 DEF SubscriptionsWritten
<1>5. CASE k = "public_keys"
  BY <1>1, <1>5, AppliedType DEF Accepted, KeysWritten
<1> QED BY <1>3, <1>4, <1>5 DEF Listed

LEMMA StoringOneKind ==
  ASSUME KeptByKind, ServerTyped, NEW a \in Kinds, NEW value \in ValuesOf(a), NEW result,
         Store(a, value, result)
  PROVE  /\ \A k \in Kinds : row'[k] \in ValuesOf(k)
         /\ \A k \in Kinds \ {a} : row'[k] = row[k]
         /\ \/ row'[a] = value /\ result = "Success"
            \/ UNCHANGED row /\ result = "InternalError"
         /\ result \in Results
<1>1. CASE row' = [row EXCEPT ![a] = value] /\ result = "Success"
  <2>1. row' = [k \in Kinds |-> row'[k]] /\ row'[a] = value /\ \A k \in Kinds \ {a} : row'[k] = row[k]
    BY <1>1, OneKindChanges DEF KeptByKind
  <2> QED BY <1>1, <2>1 DEF ServerTyped, Results
<1>2. CASE UNCHANGED row /\ result = "InternalError"
  BY <1>2 DEF ServerTyped, Results
<1> QED BY <1>1, <1>2, Zenon DEF Store

\* What a step may change of what the server holds of a player's own settings.
OwnIsLeft(kinds) ==
  \A k \in Own \cap kinds : /\ row'[k] = row[k]
                            /\ k \in Remembered => mem'[k] = mem[k]

LEMMA AnnouncementsKeepTypes ==
  ASSUME KeptByKind, ServerTyped, NEW who, NEW id, NEW u \in Updates, u.op # "set",
         ModifyAnnouncements(who, id, u)
  PROVE  /\ UNCHANGED <<row, last>>
         /\ \A k \in Remembered : mem'[k] \in ValuesOf(k)
         /\ \A k \in Remembered \ {"announcements"} : mem'[k] = mem[k]
<1>1. "announcements" \in Remembered /\ ValuesOf("announcements") = SUBSET Items
  BY ValuesByKind, KindsDiffer DEF Whole, Access
<1>2. PICK value : value = AnnouncementsAfter(u) /\ mem' = [mem EXCEPT !["announcements"] = value]
  BY DEF ModifyAnnouncements
<1>3. u.op = "clear" \/ u.of \in Items
  BY DEF Updates
<1>4. value \in SUBSET Items
  BY <1>1, <1>2, <1>3 DEF AnnouncementsAfter, ServerTyped
<1>5. mem'["announcements"] = value /\ \A k \in Remembered \ {"announcements"} : mem'[k] = mem[k]
  BY <1>1, <1>2, OneKindChanges DEF KeptByKind
<1> QED BY <1>1, <1>4, <1>5 DEF ServerTyped, ModifyAnnouncements

LEMMA BansKeepTypes ==
  ASSUME KeptByKind, ServerTyped, NEW result, NEW u \in Updates, u.op # "set", WriteBans(u, result)
  PROVE  /\ \A k \in Kinds : row'[k] \in ValuesOf(k)
         /\ \A k \in Remembered : mem'[k] \in ValuesOf(k) /\ last'[k] \in Results
         /\ \A k \in Kinds \ {"banned_peers"} : row'[k] = row[k]
         /\ \A k \in Remembered \ {"banned_peers"} : mem'[k] = mem[k]
<1>1. /\ "banned_peers" \in Remembered /\ "banned_peers" \in Kinds
      /\ ValuesOf("banned_peers") = SUBSET Items
  BY ValuesByKind, KindsDiffer DEF Whole, Access
<1>2. PICK value : /\ value = Applied(u, mem["banned_peers"])
                   /\ mem' = [mem EXCEPT !["banned_peers"] = value]
  BY Zenon DEF WriteBans
<1>3. value \in SUBSET Items
  <2>1. mem["banned_peers"] \subseteq Items
    BY <1>1 DEF ServerTyped
  <2>2. CASE u \in [op : {"add", "remove"}, of : Items]
    <3>1. u.op \in {"add", "remove"} /\ u.of \in Items
      BY <2>2
    <3>2. value = mem["banned_peers"] \cup {u.of} \/ value = mem["banned_peers"] \ {u.of}
      BY <1>2, <3>1 DEF Applied
    <3> QED BY <2>1, <3>1, <3>2
  <2>3. CASE u.op = "clear"
    <3>1. value = {}
      BY <1>2, <2>3 DEF Applied
    <3> QED BY <3>1
  <2> QED BY <2>2, <2>3 DEF Updates
<1>4. mem'["banned_peers"] = value /\ \A k \in Remembered \ {"banned_peers"} : mem'[k] = mem[k]
  BY <1>1, <1>2, OneKindChanges DEF KeptByKind
<1>5. \/ Store("banned_peers", value, result)
      \/ UNCHANGED row /\ result = "Redundant"
  BY <1>4, Zenon DEF WriteBans
<1>6. /\ \A k \in Kinds : row'[k] \in ValuesOf(k)
      /\ \A k \in Kinds \ {"banned_peers"} : row'[k] = row[k]
      /\ result \in Results
  <2>1. CASE Store("banned_peers", value, result)
    BY <1>1, <1>3, <2>1, StoringOneKind
  <2>2. CASE UNCHANGED row /\ result = "Redundant"
    BY <2>2 DEF ServerTyped, Results
  <2> QED BY <1>5, <2>1, <2>2
<1>7. last'["banned_peers"] = result /\ \A k \in Remembered \ {"banned_peers"} : last'[k] = last[k]
  BY <1>1, OneKindChanges DEF KeptByKind, WriteBans
<1> QED BY <1>1, <1>3, <1>4, <1>6, <1>7 DEF ServerTyped

LEMMA ServingStoresTyped ==
  ASSUME KeptByKind, ServerTyped, WireTyped, AskedFor, Serves
  PROVE  /\ \A k \in Kinds : row'[k] \in ValuesOf(k)
         /\ \A k \in Remembered : mem'[k] \in ValuesOf(k) /\ last'[k] \in Results
         /\ mem'["calendar_id"] = row'["calendar_id"]
         /\ \/ row'["calendar_id"] = row["calendar_id"]
            \/ row'["calendar_id"] = row["calendar_id"] + 1
         /\ OwnIsLeft(Kinds \ {Head(toServer).kind})
<1> DEFINE Goal == /\ \A k \in Kinds : row'[k] \in ValuesOf(k)
                   /\ \A k \in Remembered : mem'[k] \in ValuesOf(k) /\ last'[k] \in Results
                   /\ mem'["calendar_id"] = row'["calendar_id"]
                   /\ \/ row'["calendar_id"] = row["calendar_id"]
                      \/ row'["calendar_id"] = row["calendar_id"] + 1
                   /\ OwnIsLeft(Kinds \ {Head(toServer).kind})
<1>1. ASSUME UNCHANGED <<row, mem, last>> PROVE Goal
  BY <1>1 DEF ServerTyped, OwnIsLeft
<1>2. PICK h : h = Head(toServer)
  OBVIOUS
<1>3. ASSUME NEW what, Serving(what)
      PROVE  h \in WireRequests /\ h.ask = what /\ Len(toServer) \in Nat /\ Len(toServer) >= 1
  BY <1>2, <1>3, Taken DEF Serving, WireTyped
<1>4. "calendar_id" \in Kinds /\ "calendar_id" \in Remembered /\ Remembered \subseteq Kinds
      /\ Whole \subseteq Remembered /\ Own \subseteq Kinds
  BY KindsDiffer DEF Whole, Access
<1>5. ASSUME NEW a \in Listed, NEW u \in UpdatesOf(a), NEW value, NEW refused, value = Accepted(a, u),
             Answered(a, value, refused)
      PROVE  Goal
  <2>1. UNCHANGED <<mem, last>> /\ h.kind = a
    BY <1>2, <1>5 DEF Answered
  <2>2. CASE UNCHANGED row
    BY <1>1, <2>1, <2>2
  <2>3. CASE \E result \in Results : Store(a, value, result)
    <3>1. value \in ValuesOf(a) /\ a \in Kinds /\ a # "calendar_id"
      BY <1>5, AcceptedType DEF Listed, Kinds
    <3>2. (\A k \in Kinds : row'[k] \in ValuesOf(k)) /\ (\A k \in Kinds \ {a} : row'[k] = row[k])
      BY <2>3, <3>1, StoringOneKind
    <3> QED BY <1>2, <1>4, <2>1, <3>1, <3>2 DEF ServerTyped, OwnIsLeft
  <2> QED BY <1>5, <2>2, <2>3, Zenon DEF Answered
<1>6. CASE ServeBookmark
  <2>1. Serving("update") /\ h.kind = "bookmarks"
    BY <1>2, <1>6 DEF ServeBookmark, Answered
  <2>2. h.u \in UpdatesOf("bookmarks")
    BY <1>3, <2>1, RequestsSay
  <2>3. PICK value, refused : Answered("bookmarks", value, refused) /\ value = BookmarksWritten(h.u)
    BY <1>2, <1>6 DEF ServeBookmark
  <2> QED BY <1>5, <2>2, <2>3 DEF Accepted, Listed
<1>7. CASE ServeSubscription
  <2>1. Serving("update") /\ h.kind = "calendar_locations"
    BY <1>2, <1>7 DEF ServeSubscription, Answered
  <2>2. h.u \in UpdatesOf("calendar_locations")
    BY <1>3, <2>1, RequestsSay
  <2>3. PICK value, refused :
          Answered("calendar_locations", value, refused) /\ value = SubscriptionsWritten(h.u)
    BY <1>2, <1>7 DEF ServeSubscription
  <2> QED BY <1>5, <2>2, <2>3 DEF Accepted, Listed
<1>8. CASE ServeKey
  <2>1. Serving("update") /\ h.kind = "public_keys"
    BY <1>2, <1>8 DEF ServeKey, Answered
  <2>2. h.u \in UpdatesOf("public_keys")
    BY <1>3, <2>1, RequestsSay
  <2>3. PICK value, refused : Answered("public_keys", value, refused) /\ value = KeysWritten(h.u)
    BY <1>2, <1>8 DEF ServeKey
  <2> QED BY <1>5, <2>2, <2>3 DEF Accepted, Listed
<1>9. CASE ServeMutate
  <2>1. Serving("update") /\ h.kind \in Whole
    BY <1>2, <1>9 DEF ServeMutate
  <2>2. PICK a, value, result :
          /\ a = h.kind /\ value = Kept(h.kind, h.u.of)
          /\ mem' = [mem EXCEPT ![a] = value] /\ last' = [last EXCEPT ![a] = result]
          /\ Store(a, value, result)
    BY <1>2, <1>9, Zenon DEF ServeMutate
  <2>3. h.u.of \in Tastes
    <3>1. h.u \in UpdatesOf(h.kind)
      BY <1>3, <2>1, RequestsSay
    <3>2. Offered(h.kind) = {"set"}
      BY <2>1 DEF Offered, Whole, Access
    <3> QED BY <3>1, <3>2 DEF UpdatesOf, Updates
  <2>4. value \in ValuesOf(a) /\ a \in Kinds /\ a \in Remembered /\ a # "calendar_id"
    BY <1>4, <2>1, <2>2, <2>3, ValuesByKind, LocalFormAssumption DEF Kept, LocalFormAssumption, Whole, Access
  <2>5. /\ \A k \in Kinds : row'[k] \in ValuesOf(k)
        /\ \A k \in Kinds \ {a} : row'[k] = row[k]
        /\ result \in Results
    BY <2>2, <2>4, StoringOneKind
  <2>6. mem'[a] = value /\ \A k \in Remembered \ {a} : mem'[k] = mem[k]
    BY <2>2, <2>4, OneKindChanges DEF KeptByKind
  <2>7. last'[a] = result /\ \A k \in Remembered \ {a} : last'[k] = last[k]
    BY <2>2, <2>4, OneKindChanges DEF KeptByKind
  <2> QED BY <1>2, <1>4, <2>2, <2>4, <2>5, <2>6, <2>7 DEF ServerTyped, OwnIsLeft
<1>10. CASE ServeReset
  <2>1. CASE UNCHANGED <<row, mem>>
    BY <1>1, <1>10, <2>1 DEF ServeReset
  <2>2. CASE /\ row' = [row EXCEPT !["calendar_id"] = NewIdentifier]
             /\ mem' = [mem EXCEPT !["calendar_id"] = NewIdentifier]
    <3>1. h.kind = "calendar_id" /\ UNCHANGED last /\ Serving("reset_id")
      <4>1. h \in WireRequests /\ h.ask = "reset_id"
        BY <1>3, <1>10 DEF ServeReset
      <4>2. h.kind = "calendar_id"
        BY <4>1 DEF WireRequests
      <4> QED BY <1>10, <4>2 DEF ServeReset
    <3>2. row["calendar_id"] \in 0 .. MaxAsked
      BY <1>4, ValuesByKind DEF ServerTyped
    <3>3. NewIdentifier \in ValuesOf("calendar_id") /\ NewIdentifier = row["calendar_id"] + 1
      BY <1>3, <3>1, <3>2, ValuesByKind, LimitsAssumption DEF AskedFor, NewIdentifier, LimitsAssumption
    <3>4. row'["calendar_id"] = NewIdentifier /\ \A k \in Kinds \ {"calendar_id"} : row'[k] = row[k]
      BY <1>4, <2>2, OneKindChanges DEF KeptByKind
    <3>5. mem'["calendar_id"] = NewIdentifier /\ \A k \in Remembered \ {"calendar_id"} : mem'[k] = mem[k]
      BY <1>4, <2>2, OneKindChanges DEF KeptByKind
    <3> QED BY <1>2, <1>4, <3>1, <3>3, <3>4, <3>5 DEF ServerTyped, OwnIsLeft
  <2> QED BY <1>10, <2>1, <2>2 DEF ServeReset
<1>11. CASE ServeFromMemory \/ ServeFromRows \/ ServeBulk
  BY <1>1, <1>11 DEF ServeFromMemory, ServeFromRows, ServeBulk, server
<1>12. CASE ServeAnnouncement
  <2>1. CASE UNCHANGED server
    BY <1>1, <2>1 DEF server
  <2>2. ASSUME ModifyAnnouncements("player", h.id, h.u), h.kind = "announcements", Serving("update")
        PROVE  Goal
    <3>1. h.u \in UpdatesOf("announcements")
      BY <1>3, <2>2, RequestsSay
    <3>2. Offered("announcements") = {"add", "clear"}
      BY DEF Offered, Whole, Access
    <3>3. h.u \in Updates /\ h.u.op # "set"
      BY <3>1, <3>2 DEF UpdatesOf
    <3>4. /\ UNCHANGED <<row, last>>
          /\ \A k \in Remembered : mem'[k] \in ValuesOf(k)
          /\ \A k \in Remembered \ {"announcements"} : mem'[k] = mem[k]
      BY <2>2, <3>3, AnnouncementsKeepTypes
    <3> QED BY <1>2, <1>4, <2>2, <3>4 DEF ServerTyped, OwnIsLeft
  <2> QED BY <1>2, <1>12, <2>1, <2>2, Zenon DEF ServeAnnouncement
<1>13. CASE ServeBan
  <2>1. CASE UNCHANGED server
    BY <1>1, <2>1 DEF server
  <2>2. ASSUME NEW result, WriteBans(h.u, result), h.kind = "banned_peers", Serving("update")
        PROVE  Goal
    <3>1. h.u \in UpdatesOf("banned_peers")
      BY <1>3, <2>2, RequestsSay
    <3>2. Offered("banned_peers") = {"add", "remove"}
      BY DEF Offered, Whole, Access
    <3>3. h.u \in Updates /\ h.u.op # "set"
      BY <3>1, <3>2 DEF UpdatesOf
    <3> QED BY <1>2, <1>4, <2>2, <3>3, BansKeepTypes DEF ServerTyped, OwnIsLeft
  <2> QED BY <1>2, <1>13, <2>1, <2>2, Zenon DEF ServeBan
<1> QED BY <1>6, <1>7, <1>8, <1>9, <1>10, <1>11, <1>12, <1>13 DEF Serves

\* The other steps leave a player's own settings alone, as long as he is there.
LEMMA OthersStoreTyped ==
  ASSUME KeptByKind, ServerTyped, [SettingsNext]_settingsVars, ~Serves
  PROVE  /\ \A k \in Kinds : row'[k] \in ValuesOf(k)
         /\ \A k \in Remembered : mem'[k] \in ValuesOf(k) /\ last'[k] \in Results
         /\ \A k \in Own : row'[k] = row[k]
         /\ \A k \in Own \cap Remembered : mem'[k] = mem[k] \/ (~online /\ mem'[k] = row[k])
<1> DEFINE Goal == /\ \A k \in Kinds : row'[k] \in ValuesOf(k)
                   /\ \A k \in Remembered : mem'[k] \in ValuesOf(k) /\ last'[k] \in Results
                   /\ \A k \in Own : row'[k] = row[k]
                   /\ \A k \in Own \cap Remembered : mem'[k] = mem[k] \/ (~online /\ mem'[k] = row[k])
<1>1. ASSUME UNCHANGED <<row, mem, last>> PROVE Goal
  BY <1>1 DEF ServerTyped
<1>2. /\ Own \subseteq Kinds /\ Remembered \subseteq Kinds
      /\ "announcements" \notin Own /\ "banned_peers" \notin Own
      /\ "announcements" \in Remembered
  BY KindsDiffer
<1>3. ASSUME NEW w \in writing, StoreAnnouncements(w) PROVE Goal
  <2>1. PICK value, result : /\ value = mem["announcements"] /\ mem' = mem
                             /\ Store("announcements", value, result)
                             /\ last' = [last EXCEPT !["announcements"] = result]
    BY <1>3, Zenon DEF StoreAnnouncements
  <2>2. value \in ValuesOf("announcements")
    BY <1>2, <2>1 DEF ServerTyped
  <2>3. /\ \A k \in Kinds : row'[k] \in ValuesOf(k)
        /\ \A k \in Kinds \ {"announcements"} : row'[k] = row[k]
        /\ result \in Results
    BY <1>2, <2>1, <2>2, StoringOneKind
  <2>4. last'["announcements"] = result /\ \A k \in Remembered \ {"announcements"} : last'[k] = last[k]
    BY <1>2, <2>1, OneKindChanges DEF KeptByKind
  <2> QED BY <1>2, <2>1, <2>3, <2>4 DEF ServerTyped
<1>4. ASSUME NEW u \in Updates, OtherAdministrator(u) PROVE Goal
  <2>1. CASE u.op \in {"add", "clear"} /\ ModifyAnnouncements("other", 0, u)
    <3>1. u.op # "set"
      BY <2>1
    <3>2. /\ UNCHANGED <<row, last>>
          /\ \A k \in Remembered : mem'[k] \in ValuesOf(k)
          /\ \A k \in Remembered \ {"announcements"} : mem'[k] = mem[k]
      BY <2>1, <3>1, AnnouncementsKeepTypes
    <3> QED BY <1>2, <3>2 DEF ServerTyped
  <2>2. ASSUME NEW result, u.op # "set", WriteBans(u, result) PROVE Goal
    BY <1>2, <2>2, BansKeepTypes
  <2> QED BY <1>4, <2>1, <2>2, Zenon DEF OtherAdministrator
<1>5. ASSUME NEW kinds, Reload(kinds) PROVE Goal
  <2>1. ~online /\ row' = row
    BY <1>5 DEF Reload
  <2>2. ASSUME NEW k \in Remembered
        PROVE  /\ mem'[k] = IF k \in kinds THEN row[k] ELSE mem[k]
               /\ last'[k] = IF k \in kinds THEN "Success" ELSE last[k]
    BY <1>5 DEF Reload
  <2> QED BY <1>2, <2>1, <2>2 DEF ServerTyped, Results
<1>6. CASE IdleTimeout \/ Restart
  BY <1>5, <1>6 DEF IdleTimeout, Restart
<1>7. CASE \/ \E k \in studied : Read(k) \/ \E u \in Updates : Modify(k, u)
           \/ CalendarReset \/ SetLocationVisibility
  BY <1>1, <1>7 DEF Read, Modify, CalendarReset, SetLocationVisibility, server
<1>8. CASE HearCurrent \/ HearChange \/ \E e \in Items : Expire(e)
  BY <1>1, <1>8 DEF HearCurrent, HearChange, Hearing, Expire, server
<1>9. CASE LoseConnection \/ NewSession \/ UNCHANGED settingsVars
  BY <1>1, <1>9 DEF LoseConnection, NewSession, settingsVars, server
<1> QED BY <1>3, <1>4, <1>6, <1>7, <1>8, <1>9 DEF SettingsNext, Serves

LEMMA SentIsTyped ==
  ASSUME WireTyped, NEW m \in WireRequests, Send(m) \/ UNCHANGED toServer, UNCHANGED <<toClient, online>>
  PROVE  WireTyped' /\ Len(toServer') <= Len(toServer) + 1
<1>1. toServer' = toServer \/ (online /\ toServer' = Append(toServer, m))
  BY DEF Send
<1>2. Len(toServer) \in Nat
  BY DEF WireTyped
<1> QED BY <1>1, <1>2, Appended DEF WireTyped

LEMMA ReplyIsTyped ==
  ASSUME WireTyped, NEW m \in Answers, Reply(m)
  PROVE  toClient' \in Seq(Answers) /\ (~online => toClient' = <<>>)
BY Appended DEF Reply, WireTyped

LEMMA AnswersAreTyped ==
  ASSUME NEW k \in Kinds, NEW id \in Nat, NEW result \in Results
  PROVE  /\ Change(k, id, result) \in Answers
         /\ [Change("visibility", id, result) EXCEPT !.map = "access"] \in Answers
         /\ \A value \in ValuesOf(k), sure \in BOOLEAN : Current(k, value, sure) \in Answers
<1>1. Change(k, id, result) \in Answers
  BY DEF Change, Answers
<1>2. [Change("visibility", id, result) EXCEPT !.map = "access"] \in Answers
  <2>1. [Change("visibility", id, result) EXCEPT !.map = "access"] =
          [tell |-> "change", kind |-> "visibility", map |-> "access", id |-> id, result |-> result]
    BY DEF Change
  <2> QED BY <2>1 DEF Answers
<1>3. ASSUME NEW value \in ValuesOf(k), NEW sure \in BOOLEAN PROVE Current(k, value, sure) \in Answers
  BY DEF Current, Answers
<1> QED BY <1>1, <1>2, <1>3

LEMMA ServedIsTyped ==
  ASSUME WireTyped, ServerTyped, Served
  PROVE  /\ WireTyped' /\ Len(toServer') = Len(toServer) - 1 /\ Len(toServer) \in Nat
         /\ writing' \subseteq Writers
<1>1. PICK h : h = Head(toServer)
  OBVIOUS
<1>2. /\ toServer' \in Seq(WireRequests) /\ Len(toServer') = Len(toServer) - 1 /\ Len(toServer) \in Nat
      /\ h \in WireRequests
  BY <1>1, Taken DEF WireTyped, Served
<1>3. UNCHANGED online /\ online
  BY DEF WireTyped, Served
<1>4. toClient' \in Seq(Answers) /\ writing' \subseteq Writers
  <2>1. "calendar_id" \in Kinds /\ 0 \in Nat /\ "Success" \in Results
    BY KindsDiffer DEF Results
  <2>2. CASE h.ask = "update" /\ (\E result \in Results : Reply(Change(h.kind, h.id, result))) /\ UNCHANGED writing
    BY <1>2, <2>2, RequestsSay, ReplyIsTyped, AnswersAreTyped DEF ServerTyped
  <2>3. CASE /\ h.ask = "update" /\ UNCHANGED toClient
             /\ writing' = writing \cup {[who |-> "player", id |-> h.id]}
    BY <1>2, <2>3, RequestsSay DEF ServerTyped, Writers, WireTyped
  <2>4. CASE /\ h.ask = "get" /\ UNCHANGED writing
             /\ \E value \in ValuesOf(h.kind), sure \in BOOLEAN : Reply(Current(h.kind, value, sure))
    BY <1>2, <2>1, <2>4, RequestsSay, ReplyIsTyped, AnswersAreTyped DEF ServerTyped
  <2>5. CASE /\ UNCHANGED writing
             /\ \/ UNCHANGED toClient
                \/ \E value \in ValuesOf("calendar_id") : Reply(Current("calendar_id", value, TRUE))
    BY <1>2, <2>1, <2>5, ReplyIsTyped, AnswersAreTyped DEF ServerTyped, WireTyped
  <2>6. CASE /\ h.ask = "bulk" /\ UNCHANGED writing
             /\ \E result \in Results : Reply([Change("visibility", h.id, result) EXCEPT !.map = "access"])
    BY <1>2, <2>1, <2>6, RequestsSay, ReplyIsTyped, AnswersAreTyped DEF ServerTyped
  <2> QED BY <1>1, <2>2, <2>3, <2>4, <2>5, <2>6, Zenon DEF Served, AnswersTo
<1> QED BY <1>2, <1>3, <1>4 DEF WireTyped

LEMMA FaultsAreCounted ==
  ASSUME [SettingsNext]_settingsVars
  PROVE  UNCHANGED faults \/ QueryFails
<1>1. CASE ServeFromMemory \/ ServeFromRows \/ ServeReset \/ ServeBulk \/ ServeAnnouncement
  BY <1>1, Zenon DEF ServeFromMemory, ServeFromRows, ServeReset, ServeBulk, ServeAnnouncement, QueryWorks
<1>2. CASE ServeMutate \/ ServeBookmark \/ ServeSubscription \/ ServeKey
  BY <1>2, Zenon DEF ServeMutate, ServeBookmark, ServeSubscription, ServeKey, Answered, Store, QueryWorks
<1>3. CASE ServeBan \/ (\E u \in Updates : OtherAdministrator(u)) \/ (\E w \in writing : StoreAnnouncements(w))
  BY <1>3, Zenon DEF ServeBan, OtherAdministrator, StoreAnnouncements, WriteBans, Store, QueryWorks
<1>4. CASE \/ \E k \in studied : Read(k) \/ \E u \in Updates : Modify(k, u)
           \/ CalendarReset \/ SetLocationVisibility
  BY <1>4 DEF Read, Modify, CalendarReset, SetLocationVisibility
<1>5. CASE HearCurrent \/ HearChange \/ (\E e \in Items : Expire(e)) \/ IdleTimeout \/ Restart
  BY <1>5 DEF HearCurrent, HearChange, Hearing, Expire, IdleTimeout, Restart, Reload
<1>6. CASE LoseConnection \/ NewSession \/ UNCHANGED settingsVars
  BY <1>6 DEF LoseConnection, NewSession, settingsVars
<1> QED BY <1>1, <1>2, <1>3, <1>4, <1>5, <1>6 DEF SettingsNext

\* What the client asks for, and how it keeps count.
Asks ==
  \/ \E k \in studied : Read(k) \/ \E u \in Updates : Modify(k, u)
  \/ "calendar_id" \in studied /\ CalendarReset
  \/ "access_message" \in studied /\ SetLocationVisibility

LEMMA AskingIsTyped ==
  ASSUME WireTyped, ServerTyped, ClientTyped, AskedFor, Asks
  PROVE  /\ WireTyped' /\ Len(toServer') <= Len(toServer) + 1
         /\ UNCHANGED <<server, studied, admin, expired, faults, toClient, online>>
         /\ asked' = asked + 1 /\ asked' \in 0 .. MaxAsked
         /\ ClientTyped'
<1>5. /\ UNCHANGED <<server, studied, admin, expired, faults, toClient, online>>
      /\ asked' = asked + 1 /\ asked' \in 0 .. MaxAsked
  <2>1. UNCHANGED <<server, studied, admin, expired, faults, toClient, online>> /\ Asking
    BY DEF Asks, Read, Modify, CalendarReset, SetLocationVisibility
  <2> QED BY <2>1, LimitsAssumption DEF Asking, AskedFor, LimitsAssumption
<1>6. UNCHANGED client => ClientTyped'
  BY <1>5 DEF client, ClientTyped, AskedFor
<1>1. ASSUME NEW k \in studied, Read(k)
      PROVE  /\ WireTyped' /\ Len(toServer') <= Len(toServer) + 1
             /\ UNCHANGED client
  <2>1. k \in Kinds /\ [ask |-> "get", kind |-> k] \in WireRequests
    BY DEF ServerTyped, WireRequests
  <2> QED BY <1>1, <2>1, SentIsTyped DEF Read
<1>2. ASSUME NEW k \in studied, NEW u \in Updates, Modify(k, u)
      PROVE  /\ WireTyped' /\ Len(toServer') <= Len(toServer) + 1
             /\ ClientTyped'
  <2>1. PICK m, id : m = MapOf(k) /\ id = nextId[m]
    OBVIOUS
  <2>2. /\ k \in Kinds /\ m \in Maps /\ id \in Nat /\ id <= asked /\ asked \in Nat /\ u \in UpdatesOf(k)
        /\ asked' = asked + 1
    BY <1>2, <2>1, MapsByKind DEF ServerTyped, ClientTyped, AskedFor, Modify, Asking
  <2>3. [ask |-> "update", kind |-> k, id |-> id, u |-> u] \in WireRequests
    BY <2>2 DEF WireRequests
  <2>4. Send([ask |-> "update", kind |-> k, id |-> id, u |-> u]) \/ UNCHANGED toServer
    BY <1>2, <2>1, Zenon DEF Modify
  <2>5. WireTyped' /\ Len(toServer') <= Len(toServer) + 1
    BY <1>2, <2>3, <2>4, SentIsTyped DEF Modify
  <2>6. nextId' = [nextId EXCEPT ![m] = id + 1]
    BY <1>2, <2>1 DEF Modify, Track
  <2>7. nextId' \in [Maps -> Nat] /\ \A n \in Maps : nextId'[n] <= asked' /\ nextId[n] <= nextId'[n]
    BY <2>2, <2>1, <2>6 DEF ClientTyped
  <2>8. PICK silent : pending' = pending \cup {[map |-> m, id |-> id, kind |-> k, silent |-> silent]}
    BY <1>2, <2>1 DEF Modify, Track
  <2>9. ASSUME NEW p \in pending'
        PROVE  /\ p.kind \in Kinds \cup {"visibility"} /\ p.map = MapOf(p.kind)
               /\ p.id \in Nat /\ p.id < nextId'[p.map]
    <3>1. CASE p \in pending
      <4>1. /\ p.kind \in Kinds \cup {"visibility"} /\ p.map = MapOf(p.kind)
            /\ p.id \in Nat /\ p.id < nextId[p.map]
        BY <3>1 DEF ClientTyped
      <4>2. p.map \in Maps
        BY <4>1, MapsByKind
      <4>3. nextId[p.map] \in Nat /\ nextId'[p.map] \in Nat /\ nextId[p.map] <= nextId'[p.map]
        BY <2>7, <4>2 DEF ClientTyped
      <4> QED BY <4>1, <4>3
    <3>2. CASE p = [map |-> m, id |-> id, kind |-> k, silent |-> silent]
      <4>1. nextId'[m] = id + 1
        BY <2>2, <2>6 DEF ClientTyped
      <4> QED BY <2>1, <2>2, <3>2, <4>1
    <3> QED BY <2>8, <3>1, <3>2
  <2>10. PICK v : v = Optimistic(k, u) /\ cache' = [cache EXCEPT ![k] = v]
    BY <1>2 DEF Modify
  <2>11. v \in ValuesOf(k) \cup {NoValue}
    BY <2>2, <2>10, AppliedType DEF Optimistic, ClientTyped
  <2>12. /\ cache' = [n \in Kinds |-> cache'[n]]
         /\ \A n \in Kinds : cache'[n] \in ValuesOf(n) \cup {NoValue}
    BY <2>2, <2>10, <2>11, OneKindChanges DEF ClientTyped
  <2>13. tainted' \subseteq Kinds
    BY <1>2, <2>2 DEF Modify, ClientTyped
  <2> QED BY <2>5, <2>7, <2>9, <2>12, <2>13 DEF ClientTyped
<1>3. CASE CalendarReset
  <2>1. [ask |-> "reset_id", kind |-> "calendar_id"] \in WireRequests
    BY DEF WireRequests
  <2>2. WireTyped' /\ Len(toServer') <= Len(toServer) + 1 /\ UNCHANGED client
    BY <1>3, <2>1, SentIsTyped DEF CalendarReset
  <2> QED BY <1>5, <1>6, <2>2
<1>4. CASE SetLocationVisibility
  <2>1. PICK m, id : m = "visibility" /\ id = nextId[m]
    OBVIOUS
  <2>2. /\ m \in Maps /\ id \in Nat /\ id <= asked /\ asked \in Nat
        /\ asked' = asked + 1
    BY <1>4, <2>1, MapsByKind DEF ClientTyped, AskedFor, SetLocationVisibility, Asking
  <2>3. [ask |-> "bulk", kind |-> "visibility", id |-> id] \in WireRequests
    BY <2>2 DEF WireRequests
  <2>4. WireTyped' /\ Len(toServer') <= Len(toServer) + 1
    BY <1>4, <2>1, <2>3, SentIsTyped DEF SetLocationVisibility
  <2>5. nextId' = [nextId EXCEPT ![m] = id + 1]
    BY <1>4, <2>1 DEF SetLocationVisibility, Track
  <2>6. nextId' \in [Maps -> Nat] /\ \A n \in Maps : nextId'[n] <= asked' /\ nextId[n] <= nextId'[n]
    BY <2>2, <2>1, <2>5 DEF ClientTyped
  <2>7. pending' = pending \cup {[map |-> m, id |-> id, kind |-> "visibility", silent |-> FALSE]}
    BY <1>4, <2>1 DEF SetLocationVisibility, Track
  <2>8. ASSUME NEW p \in pending'
        PROVE  /\ p.kind \in Kinds \cup {"visibility"} /\ p.map = MapOf(p.kind)
               /\ p.id \in Nat /\ p.id < nextId'[p.map]
    <3>1. CASE p \in pending
      <4>1. /\ p.kind \in Kinds \cup {"visibility"} /\ p.map = MapOf(p.kind)
            /\ p.id \in Nat /\ p.id < nextId[p.map]
        BY <3>1 DEF ClientTyped
      <4>2. p.map \in Maps
        BY <4>1, MapsByKind
      <4>3. nextId[p.map] \in Nat /\ nextId'[p.map] \in Nat /\ nextId[p.map] <= nextId'[p.map]
        BY <2>6, <4>2 DEF ClientTyped
      <4> QED BY <4>1, <4>3
    <3>2. CASE p = [map |-> m, id |-> id, kind |-> "visibility", silent |-> FALSE]
      <4>1. nextId'[m] = id + 1
        BY <2>2, <2>5 DEF ClientTyped
      <4> QED BY <2>1, <2>2, <3>2, <4>1, MapsByKind
    <3> QED BY <2>7, <3>1, <3>2
  <2>9. UNCHANGED <<cache, tainted>>
    BY <1>4 DEF SetLocationVisibility
  <2>10. ClientTyped'
    BY <2>6, <2>8, <2>9 DEF ClientTyped
  <2> QED BY <1>5, <2>4, <2>10
<1> QED BY <1>1, <1>2, <1>3, <1>4, <1>5, <1>6 DEF Asks

LEMMA HearingIsTyped ==
  ASSUME WireTyped, ClientTyped, HearCurrent \/ HearChange
  PROVE  /\ WireTyped' /\ ClientTyped'
         /\ UNCHANGED <<studied, admin, server, expired, nextId, toServer, online, asked, faults>>
<1>1. /\ toClient # <<>> /\ toClient' = Tail(toClient)
      /\ UNCHANGED <<studied, admin, server, expired, nextId, toServer, online, asked, faults>>
  BY DEF HearCurrent, HearChange, Hearing
<1>2. PICK h : h = Head(toClient)
  OBVIOUS
<1>3. WireTyped' /\ h \in Answers
  BY <1>1, <1>2, Taken DEF WireTyped
<1>4. CASE HearCurrent
  <2>1. /\ h.tell = "current" /\ h.kind \in Kinds /\ h.value \in ValuesOf(h.kind)
        /\ cache' = [cache EXCEPT ![h.kind] = h.value] /\ UNCHANGED pending
    BY <1>2, <1>3, <1>4, AnswersSay DEF HearCurrent, Hearing
  <2>2. PICK k, v : k = h.kind /\ v = h.value
    OBVIOUS
  <2>3. /\ cache' = [n \in Kinds |-> cache'[n]]
        /\ \A n \in Kinds : cache'[n] \in ValuesOf(n) \cup {NoValue}
    BY <2>1, <2>2, OneKindChanges DEF ClientTyped
  <2>4. tainted' \subseteq Kinds
    <3>1. tainted' = tainted \cup {h.kind} \/ tainted' = tainted \ {h.kind}
      BY <1>2, <1>4 DEF HearCurrent
    <3> QED BY <2>1, <3>1 DEF ClientTyped
  <2> QED BY <1>1, <1>3, <2>1, <2>3, <2>4 DEF ClientTyped
<1>5. CASE HearChange
  <2>1. /\ cache' = [k \in Kinds |-> cache'[k]]
        /\ \A k \in Kinds : cache'[k] = NoValue \/ cache'[k] = cache[k]
    BY <1>5 DEF HearChange
  <2>2. pending' \subseteq pending
    BY <1>5 DEF HearChange
  <2>3. tainted' \subseteq Kinds
    <3>1. PICK failed, gone : tainted' = (tainted \cup (failed \cap {"bookmarks", "calendar_locations"})) \ gone
      BY <1>5 DEF HearChange
    <3> QED BY <3>1, KindsDiffer DEF ClientTyped
  <2> QED BY <1>1, <1>3, <2>1, <2>2, <2>3 DEF ClientTyped
<1> QED BY <1>1, <1>3, <1>4, <1>5

\* Steps in which nobody asks, is served or hears.
LEMMA ElsewhereIsTyped ==
  ASSUME WireTyped, ServerTyped, ClientTyped, AskedFor, [SettingsNext]_settingsVars,
         ~Asks, ~Serves, ~HearCurrent, ~HearChange
  PROVE  /\ WireTyped' /\ ClientTyped' /\ Len(toServer') <= Len(toServer)
         /\ asked' \in asked .. MaxAsked
         /\ writing' \subseteq Writers /\ UNCHANGED <<studied, admin>> /\ expired' \subseteq Items
<1>1. asked \in Nat /\ MaxAsked \in Nat /\ asked \in asked .. MaxAsked /\ Len(toServer) \in Nat
  BY LimitsAssumption DEF AskedFor, LimitsAssumption, WireTyped
<1>2. ASSUME NEW w \in writing, StoreAnnouncements(w)
      PROVE  /\ UNCHANGED <<studied, admin, expired, client, toServer, online, asked>>
             /\ writing' \subseteq writing /\ toClient' \in Seq(Answers)
             /\ ~online => toClient' = <<>>
  <2>1. PICK result : /\ result \in Results
                      /\ \/ Reply(Change("announcements", w.id, result))
                         \/ UNCHANGED toClient
    BY <1>2, Zenon DEF StoreAnnouncements
  <2>2. Change("announcements", w.id, result) \in Answers
    <3>1. w.id \in Nat /\ "announcements" \in Kinds
      BY KindsDiffer DEF ServerTyped, Writers
    <3> QED BY <2>1, <3>1, AnswersAreTyped
  <2>3. toClient' \in Seq(Answers) /\ (~online => toClient' = <<>>)
    BY <2>1, <2>2, ReplyIsTyped DEF WireTyped
  <2> QED BY <1>2, <2>3 DEF StoreAnnouncements
<1>3. CASE \E w \in writing : StoreAnnouncements(w)
  <2>1. WireTyped'
    BY <1>2, <1>3 DEF WireTyped
  <2>2. ClientTyped'
    BY <1>2, <1>3 DEF ClientTyped, client
  <2>3. writing' \subseteq Writers /\ expired' \subseteq Items
    BY <1>2, <1>3 DEF ServerTyped
  <2>4. asked' = asked /\ UNCHANGED <<studied, admin>> /\ toServer' = toServer
    BY <1>2, <1>3
  <2> QED BY <1>1, <2>1, <2>2, <2>3, <2>4
<1>4. CASE \E u \in Updates : OtherAdministrator(u)
  <2>1. /\ Asking /\ UNCHANGED <<studied, admin, expired, client, toServer, toClient, online>>
        /\ writing' = writing \cup {[who |-> "other", id |-> 0]} \/ UNCHANGED writing
    BY <1>4 DEF OtherAdministrator, ModifyAnnouncements, WriteBans
  <2>2. writing' \subseteq Writers
    BY <2>1 DEF ServerTyped, Writers
  <2>3. asked' = asked + 1 /\ asked' \in asked .. MaxAsked
    BY <1>1, <2>1 DEF Asking
  <2>4. ClientTyped'
    BY <1>1, <2>1, <2>3 DEF client, ClientTyped
  <2> QED BY <1>1, <2>1, <2>2, <2>3, <2>4 DEF WireTyped, ServerTyped
<1>5. CASE \/ IdleTimeout \/ Restart
           \/ (\E e \in Items : Expire(e)) \/ UNCHANGED settingsVars
  <2>1. UNCHANGED <<studied, admin, client, toServer, toClient, online, asked>>
    BY <1>5 DEF IdleTimeout, Restart, Reload, Expire, settingsVars
  <2>2. writing' \subseteq Writers
    BY <1>5 DEF IdleTimeout, Restart, Expire, settingsVars, server, ServerTyped
  <2>3. expired' \subseteq Items
    BY <1>5 DEF IdleTimeout, Restart, Reload, Expire, settingsVars, ServerTyped
  <2>4. WireTyped' /\ ClientTyped'
    BY <2>1 DEF WireTyped, ClientTyped, client
  <2> QED BY <1>1, <2>1, <2>2, <2>3, <2>4
<1>6. CASE LoseConnection
  <2>1. /\ online' = FALSE /\ toServer' = <<>> /\ toClient' = <<>>
        /\ UNCHANGED <<studied, admin, server, expired, client, asked>>
    BY <1>6 DEF LoseConnection
  <2>2. <<>> \in Seq(WireRequests) /\ <<>> \in Seq(Answers) /\ Len(<<>>) = 0
    OBVIOUS
  <2>4. WireTyped' /\ Len(toServer') = 0
    BY <2>1, <2>2, Zenon DEF WireTyped
  <2>3. ClientTyped'
    BY <2>1 DEF ClientTyped, client
  <2> QED BY <1>1, <2>1, <2>3, <2>4 DEF server, ServerTyped
<1>7. CASE NewSession
  <2>1. /\ UNCHANGED <<studied, admin, server, expired, toServer, toClient, asked>> /\ online' = TRUE
        /\ cache' = [k \in Kinds |-> NoValue] /\ pending' = {} /\ tainted' = {}
        /\ nextId' = [m \in Maps |-> 0]
    BY <1>7 DEF NewSession
  <2>2. ClientTyped'
    BY <1>1, <2>1 DEF ClientTyped
  <2>3. WireTyped'
    BY <2>1 DEF WireTyped
  <2> QED BY <1>1, <2>1, <2>2, <2>3 DEF server, ServerTyped
<1> QED BY <1>3, <1>4, <1>5, <1>6, <1>7 DEF SettingsNext, Serves, Asks

\* Everything has its type.
SettingsTyped == WireTyped /\ ServerTyped /\ ClientTyped /\ AskedFor

LEMMA SettingsStayTyped ==
  ASSUME KeptByKind, SettingsTyped, [SettingsNext]_settingsVars
  PROVE  SettingsTyped'
<1>1. faults' \in 0 .. MaxFaults
  BY FaultsAreCounted, LimitsAssumption DEF QueryFails, SettingsTyped, AskedFor, LimitsAssumption
<1>2. "calendar_id" \in Own /\ "calendar_id" \in Remembered /\ Remembered \subseteq Kinds
      /\ "calendar_id" \in Kinds
  BY KindsDiffer
<1>3. row["calendar_id"] \in Nat /\ Len(toServer) \in Nat
  <2>1. row["calendar_id"] \in 0 .. MaxAsked
    BY <1>2, ValuesByKind DEF SettingsTyped, ServerTyped
  <2> QED BY <2>1 DEF SettingsTyped, WireTyped
<1>4. CASE Serves
  <2>1. Served
    BY <1>4, RequestsAreServed DEF SettingsTyped
  <2>2. /\ WireTyped' /\ Len(toServer') = Len(toServer) - 1 /\ writing' \subseteq Writers
        /\ UNCHANGED <<studied, admin, expired, client, online, asked>>
    BY <2>1, ServedIsTyped DEF SettingsTyped, Served
  <2>3. /\ \A k \in Kinds : row'[k] \in ValuesOf(k)
        /\ \A k \in Remembered : mem'[k] \in ValuesOf(k) /\ last'[k] \in Results
        /\ mem'["calendar_id"] = row'["calendar_id"]
        /\ \/ row'["calendar_id"] = row["calendar_id"]
           \/ row'["calendar_id"] = row["calendar_id"] + 1
    BY <1>4, ServingStoresTyped DEF SettingsTyped
  <2>4. ServerTyped'
    BY <2>2, <2>3 DEF SettingsTyped, ServerTyped
  <2>5. ClientTyped'
    BY <2>2 DEF SettingsTyped, ClientTyped, client
  <2>6. AskedFor'
    BY <1>1, <1>3, <2>2, <2>3 DEF SettingsTyped, AskedFor
  <2> QED BY <2>2, <2>4, <2>5, <2>6 DEF SettingsTyped
<1>5. CASE Asks
  <2>1. /\ WireTyped' /\ Len(toServer') <= Len(toServer) + 1
        /\ UNCHANGED <<server, studied, admin, expired>>
        /\ asked' = asked + 1 /\ asked' \in 0 .. MaxAsked
        /\ ClientTyped'
    BY <1>5, AskingIsTyped DEF SettingsTyped
  <2>2. ServerTyped'
    BY <2>1 DEF SettingsTyped, ServerTyped, server
  <2>3. row' = row /\ Len(toServer') \in Nat
    BY <2>1 DEF server, WireTyped
  <2>4. AskedFor'
    BY <1>1, <1>3, <2>1, <2>3 DEF SettingsTyped, AskedFor
  <2> QED BY <2>1, <2>2, <2>4 DEF SettingsTyped
<1>6. CASE HearCurrent \/ HearChange
  <2>1. /\ WireTyped' /\ ClientTyped'
        /\ UNCHANGED <<studied, admin, server, expired, nextId, toServer, online, asked, faults>>
    BY <1>6, HearingIsTyped DEF SettingsTyped
  <2>2. ServerTyped' /\ AskedFor'
    BY <2>1 DEF SettingsTyped, ServerTyped, AskedFor, server
  <2> QED BY <2>1, <2>2 DEF SettingsTyped
<1>7. CASE ~Asks /\ ~Serves /\ ~HearCurrent /\ ~HearChange
  <2>1. /\ WireTyped' /\ ClientTyped' /\ Len(toServer') <= Len(toServer)
        /\ asked' \in asked .. MaxAsked
        /\ writing' \subseteq Writers /\ UNCHANGED <<studied, admin>> /\ expired' \subseteq Items
    BY <1>7, ElsewhereIsTyped DEF SettingsTyped
  <2>2. /\ \A k \in Kinds : row'[k] \in ValuesOf(k)
        /\ \A k \in Remembered : mem'[k] \in ValuesOf(k) /\ last'[k] \in Results
        /\ \A k \in Own : row'[k] = row[k]
        /\ \A k \in Own \cap Remembered : mem'[k] = mem[k] \/ (~online /\ mem'[k] = row[k])
    BY <1>7, OthersStoreTyped DEF SettingsTyped
  <2>3. row'["calendar_id"] = row["calendar_id"] /\ mem'["calendar_id"] = row'["calendar_id"]
    BY <1>2, <2>2 DEF SettingsTyped, ServerTyped
  <2>4. ServerTyped'
    BY <2>1, <2>2, <2>3 DEF SettingsTyped, ServerTyped
  <2>5. Len(toServer') \in Nat
    BY <2>1 DEF WireTyped
  <2>6. AskedFor'
    BY <1>1, <1>3, <2>1, <2>3, <2>5 DEF SettingsTyped, AskedFor
  <2> QED BY <2>1, <2>4, <2>6 DEF SettingsTyped
<1> QED BY <1>4, <1>5, <1>6, <1>7

LEMMA SettingsStartTyped == SettingsInit => KeptByKind /\ StoredOnSuccess /\ SettingsTyped
<1> SUFFICES ASSUME SettingsInit PROVE KeptByKind /\ StoredOnSuccess /\ SettingsTyped
  OBVIOUS
<1>1. KeptByKind /\ StoredOnSuccess
  BY KindsDiffer DEF SettingsInit, KeptByKind, StoredOnSuccess
<1>2. WireTyped
  BY DEF SettingsInit, WireTyped
<1>3. \A k \in Kinds : FirstOf(k) \in ValuesOf(k)
  <2>1. ASSUME NEW k \in Kinds PROVE FirstOf(k) \in ValuesOf(k)
    <3>1. CASE k \in Whole
      BY <3>1, ValuesByKind, TastesAssumption DEF FirstOf, TastesAssumption, Whole, Access
    <3>2. CASE k = "calendar_id"
      BY <3>2, ValuesByKind, LimitsAssumption DEF FirstOf, LimitsAssumption, Whole, Access
    <3>3. CASE k \notin Whole /\ k # "calendar_id"
      BY <3>3, ValuesByKind DEF FirstOf
    <3> QED BY <3>1, <3>2, <3>3
  <2> QED BY <2>1
<1>4. /\ \A k \in Kinds : row[k] = FirstOf(k)
      /\ \A k \in Remembered : mem[k] = FirstOf(k) /\ last[k] = "Success"
      /\ Remembered \subseteq Kinds /\ "calendar_id" \in Kinds /\ "calendar_id" \in Remembered
  BY KindsDiffer DEF SettingsInit
<1>5. ServerTyped
  <2>1. studied \subseteq Kinds /\ admin \in BOOLEAN /\ expired \subseteq Items /\ writing \subseteq Writers
    BY GroupsAssumption DEF SettingsInit, GroupsAssumption
  <2> QED BY <1>3, <1>4, <2>1 DEF ServerTyped, Results
<1>6. AskedFor
  <2>1. row["calendar_id"] = 0
    BY <1>4 DEF FirstOf, Whole, Access
  <2> QED BY <2>1, LimitsAssumption DEF SettingsInit, AskedFor, LimitsAssumption
<1>7. ClientTyped
  BY LimitsAssumption DEF SettingsInit, ClientTyped
<1> QED BY <1>1, <1>2, <1>5, <1>6, <1>7 DEF SettingsTyped

LEMMA SettingsHaveTypes == KeptByKind /\ SettingsTyped => SettingsTypeOK
<1> SUFFICES ASSUME KeptByKind, SettingsTyped PROVE SettingsTypeOK
  OBVIOUS
<1>1. /\ studied \in SUBSET Kinds /\ admin \in BOOLEAN
      /\ \A k \in Kinds : /\ row[k] \in ValuesOf(k)
                          /\ cache[k] \in ValuesOf(k) \cup {NoValue}
      /\ \A k \in Remembered : mem[k] \in ValuesOf(k) /\ last[k] \in Results
      /\ \A w \in writing : w \in Writers
      /\ tainted \subseteq Kinds /\ expired \subseteq Items
  BY DEF SettingsTyped, ServerTyped, ClientTyped
<1>2. \A p \in pending : p.map \in Maps /\ p.id < nextId[p.map]
  BY MapsByKind DEF SettingsTyped, ClientTyped
<1>3. nextId \in [Maps -> 0 .. MaxAsked]
  BY LimitsAssumption DEF SettingsTyped, ClientTyped, AskedFor, LimitsAssumption
<1>4. \A i \in 1 .. Len(toServer) : toServer[i] \in ClientRequest
  BY RequestsSay DEF SettingsTyped, WireTyped
<1>5. ASSUME NEW i \in 1 .. Len(toClient)
      PROVE  LET m == toClient[i]
             IN IF m.tell = "current" THEN m \in ClientResponse(m.value) /\ m.value \in ValuesOf(m.kind)
                ELSE m \in ClientResponse(NoValue)
  <2>1. toClient[i] \in Answers
    BY DEF SettingsTyped, WireTyped
  <2> QED BY <2>1, AnswersSay
<1>6. online \in BOOLEAN /\ asked \in 0 .. MaxAsked /\ faults \in 0 .. MaxFaults
  BY DEF SettingsTyped, WireTyped, AskedFor
<1> QED BY <1>1, <1>2, <1>3, <1>4, <1>5, <1>6 DEF SettingsTypeOK

-----------------------------------------------------------------------------
(* Every update is answered. *)

Requested(p) == \E i \in 1 .. Len(toServer) :
                  toServer[i].ask = "update" /\ toServer[i].kind = p.kind /\ toServer[i].id = p.id
Returned(p) == \E i \in 1 .. Len(toClient) :
                 toClient[i].tell = "change" /\ toClient[i].map = p.map /\ toClient[i].id = p.id
BeingStored(p) == p.kind = "announcements" /\ [who |-> "player", id |-> p.id] \in writing
AnswerComes(p) == \/ p.silent \/ p.map = "visibility"
               \/ Requested(p) \/ Returned(p) \/ BeingStored(p)

LEMMA RepliesAreKept ==
  ASSUME WireTyped, NEW m \in Answers, Reply(m)
  PROVE  /\ \A p : Returned(p) => Returned(p)'
         /\ online /\ m.tell = "change" => \A p : m.map = p.map /\ m.id = p.id => Returned(p)'
<1>1. CASE ~online
  BY <1>1 DEF Reply, Returned
<1>2. CASE online
  <2>1. /\ Len(toClient) \in Nat /\ Len(toClient') = Len(toClient) + 1
        /\ \A i \in 1 .. Len(toClient) : toClient'[i] = toClient[i]
        /\ toClient'[Len(toClient) + 1] = m
    BY <1>2, Appended DEF Reply, WireTyped
  <2> QED BY <2>1 DEF Returned
<1> QED BY <1>1, <1>2

LEMMA SendingIsKept ==
  ASSUME WireTyped, NEW m \in WireRequests, Send(m)
  PROVE  /\ \A p : Requested(p) => Requested(p)'
         /\ online /\ m.ask = "update" => \A p : m.kind = p.kind /\ m.id = p.id => Requested(p)'
<1>1. CASE ~online
  BY <1>1 DEF Send, Requested
<1>2. CASE online
  <2>1. /\ Len(toServer) \in Nat /\ Len(toServer') = Len(toServer) + 1
        /\ \A i \in 1 .. Len(toServer) : toServer'[i] = toServer[i]
        /\ toServer'[Len(toServer) + 1] = m
    BY <1>2, Appended DEF Send, WireTyped
  <2> QED BY <2>1 DEF Requested
<1> QED BY <1>1, <1>2

LEMMA ServedIsAnswered ==
  ASSUME SettingsTyped, Served, NEW p \in pending, AnswerComes(p)
  PROVE  AnswerComes(p)'
<1>1. PICK h : h = Head(toServer)
  OBVIOUS
<1>2. /\ h \in WireRequests /\ h = toServer[1] /\ online /\ AnswersTo(h)
      /\ \A i \in 1 .. Len(toServer) : i = 1 \/ (i - 1 \in 1 .. Len(toServer') /\ toServer'[i - 1] = toServer[i])
  BY <1>1, Taken DEF Served, SettingsTyped, WireTyped
<1>3. p.kind \in Kinds \cup {"visibility"} /\ p.map = MapOf(p.kind)
  BY DEF SettingsTyped, ClientTyped
<1>4. "calendar_id" \in Kinds /\ 0 \in Nat /\ "Success" \in Results
  BY KindsDiffer DEF Results
<1>5. writing \subseteq writing' /\ (UNCHANGED toClient \/ \E m \in Answers : Reply(m))
  <2>1. CASE h.ask = "update" /\ (\E result \in Results : Reply(Change(h.kind, h.id, result))) /\ UNCHANGED writing
    BY <1>2, <2>1, RequestsSay, AnswersAreTyped
  <2>2. CASE writing' = writing \cup {[who |-> "player", id |-> h.id]} /\ UNCHANGED toClient
    BY <2>2
  <2>3. CASE /\ h.ask = "get" /\ UNCHANGED writing
             /\ \E value \in ValuesOf(h.kind), sure \in BOOLEAN : Reply(Current(h.kind, value, sure))
    BY <1>2, <1>4, <2>3, RequestsSay, AnswersAreTyped
  <2>4. CASE /\ UNCHANGED writing
             /\ \/ UNCHANGED toClient
                \/ \E value \in ValuesOf("calendar_id") : Reply(Current("calendar_id", value, TRUE))
    BY <1>4, <2>4, AnswersAreTyped
  <2>5. CASE /\ h.ask = "bulk" /\ UNCHANGED writing
             /\ \E result \in Results : Reply([Change("visibility", h.id, result) EXCEPT !.map = "access"])
    BY <1>2, <1>4, <2>5, RequestsSay, AnswersAreTyped
  <2> QED BY <1>2, <2>1, <2>2, <2>3, <2>4, <2>5, Zenon DEF AnswersTo
<1>6. Returned(p) => Returned(p)'
  BY <1>5, RepliesAreKept DEF Returned, SettingsTyped
<1>7. BeingStored(p) => BeingStored(p)'
  BY <1>5 DEF BeingStored
<1>8. ASSUME Requested(p) PROVE Requested(p)' \/ Returned(p)' \/ BeingStored(p)'
  <2>1. PICK i \in 1 .. Len(toServer) :
          toServer[i].ask = "update" /\ toServer[i].kind = p.kind /\ toServer[i].id = p.id
    BY <1>8 DEF Requested
  <2>2. CASE i # 1
    BY <1>2, <2>1, <2>2 DEF Requested
  <2>3. CASE i = 1
    <3>1. h.ask = "update" /\ h.kind = p.kind /\ h.id = p.id /\ h.kind \in Kinds /\ h.id \in Nat
      BY <1>2, <2>1, <2>3, RequestsSay
    <3>2. CASE \E result \in Results : Reply(Change(h.kind, h.id, result))
      <4>1. PICK result \in Results : Reply(Change(h.kind, h.id, result))
        BY <3>2
      <4>2. PICK m : m = Change(h.kind, h.id, result)
        OBVIOUS
      <4>3. m \in Answers /\ m.tell = "change" /\ m.map = p.map /\ m.id = p.id
        BY <1>3, <3>1, <4>1, <4>2, AnswersAreTyped DEF Change
      <4> QED BY <1>2, <4>1, <4>2, <4>3, RepliesAreKept DEF SettingsTyped
    <3>3. CASE h.kind = "announcements" /\ writing' = writing \cup {[who |-> "player", id |-> h.id]}
      BY <3>1, <3>3 DEF BeingStored
    <3> QED BY <1>2, <3>1, <3>2, <3>3 DEF AnswersTo
  <2> QED BY <2>2, <2>3
<1> QED BY <1>6, <1>7, <1>8 DEF AnswerComes

LEMMA AskingIsAnswered ==
  ASSUME SettingsTyped, AnswerIsOnItsWay, Asks, online
  PROVE  \A p \in pending' : AnswerComes(p)'
<1>1. \A p \in pending : AnswerComes(p)
  BY Zenon DEF AnswerIsOnItsWay, AnswerComes, Requested, Returned, BeingStored
<1>2. UNCHANGED <<toClient, writing>>
  BY AskingIsTyped DEF SettingsTyped, server
<1>3. \A p : (Returned(p) => Returned(p)') /\ (BeingStored(p) => BeingStored(p)')
  BY <1>2 DEF Returned, BeingStored
<1>4. ASSUME UNCHANGED pending, NEW m \in WireRequests, Send(m) PROVE \A p \in pending' : AnswerComes(p)'
  BY <1>1, <1>3, <1>4, SendingIsKept DEF AnswerComes, SettingsTyped
<1>5. ASSUME NEW k \in studied, Read(k) PROVE \A p \in pending' : AnswerComes(p)'
  <2>1. k \in Kinds /\ [ask |-> "get", kind |-> k] \in WireRequests
    BY DEF SettingsTyped, ServerTyped, WireRequests
  <2> QED BY <1>4, <1>5, <2>1 DEF Read, client
<1>6. CASE CalendarReset
  <2>1. [ask |-> "reset_id", kind |-> "calendar_id"] \in WireRequests
    BY DEF WireRequests
  <2> QED BY <1>4, <1>6, <2>1 DEF CalendarReset, client
<1>7. CASE SetLocationVisibility
  <2>1. PICK id : id = nextId["visibility"]
    OBVIOUS
  <2>2. [ask |-> "bulk", kind |-> "visibility", id |-> id] \in WireRequests
    BY <2>1, MapsByKind DEF SettingsTyped, ClientTyped, WireRequests
  <2>3. \A p : Requested(p) => Requested(p)'
    BY <1>7, <2>1, <2>2, SendingIsKept DEF SetLocationVisibility, SettingsTyped
  <2>4. PICK q : q = [map |-> "visibility", id |-> id, kind |-> "visibility", silent |-> FALSE]
    OBVIOUS
  <2>5. pending' = pending \cup {q} /\ q.map = "visibility"
    BY <1>7, <2>1, <2>4 DEF SetLocationVisibility, Track
  <2> QED BY <1>1, <1>3, <2>3, <2>5 DEF AnswerComes
<1>8. ASSUME NEW k \in studied, NEW u \in Updates, Modify(k, u)
      PROVE  \A p \in pending' : AnswerComes(p)'
  <2>1. PICK id, silent : id = nextId[MapOf(k)] /\ silent = Superfluous(k, u)
    OBVIOUS
  <2>2. PICK q : q = [map |-> MapOf(k), id |-> id, kind |-> k, silent |-> silent]
    OBVIOUS
  <2>3. pending' = pending \cup {q}
    BY <1>8, <2>1, <2>2 DEF Modify, Track
  <2>4. PICK m : m = [ask |-> "update", kind |-> k, id |-> id, u |-> u]
    OBVIOUS
  <2>5. m \in WireRequests /\ m.ask = "update" /\ m.kind = q.kind /\ m.id = q.id
    <3>1. k \in Kinds /\ MapOf(k) \in Maps /\ u \in UpdatesOf(k)
      BY <1>8, MapsByKind DEF SettingsTyped, ServerTyped, Modify
    <3> QED BY <2>1, <2>2, <2>4, <3>1 DEF WireRequests, SettingsTyped, ClientTyped
  <2>6. CASE silent
    <3>1. toServer' = toServer
      BY <1>8, <2>1, <2>6 DEF Modify
    <3>2. \A p : Requested(p) => Requested(p)'
      BY <3>1 DEF Requested
    <3>3. q.silent
      BY <2>2, <2>6
    <3> QED BY <1>1, <1>3, <2>3, <3>2, <3>3 DEF AnswerComes
  <2>7. CASE ~silent
    <3>1. Send(m)
      BY <1>8, <2>1, <2>4, <2>7 DEF Modify
    <3>2. (\A p : Requested(p) => Requested(p)') /\ Requested(q)'
      BY <2>5, <3>1, SendingIsKept DEF SettingsTyped
    <3> QED BY <1>1, <1>3, <2>3, <3>2 DEF AnswerComes
  <2> QED BY <2>6, <2>7
<1> QED BY <1>5, <1>6, <1>7, <1>8 DEF Asks

LEMMA HearingIsAnswered ==
  ASSUME SettingsTyped, AnswerIsOnItsWay, HearCurrent \/ HearChange, online
  PROVE  \A p \in pending' : AnswerComes(p)'
<1>1. \A p \in pending : AnswerComes(p)
  BY Zenon DEF AnswerIsOnItsWay, AnswerComes, Requested, Returned, BeingStored
<1>2. toClient # <<>> /\ toClient' = Tail(toClient) /\ UNCHANGED <<toServer, server>>
  BY DEF HearCurrent, HearChange, Hearing
<1>3. \A p : (Requested(p) => Requested(p)') /\ (BeingStored(p) => BeingStored(p)')
  BY <1>2 DEF Requested, BeingStored, server
<1>4. PICK h : h = Head(toClient)
  OBVIOUS
<1>5. /\ h = toClient[1]
      /\ \A i \in 1 .. Len(toClient) : i = 1 \/ (i - 1 \in 1 .. Len(toClient') /\ toClient'[i - 1] = toClient[i])
  BY <1>2, <1>4, Taken DEF SettingsTyped, WireTyped
<1>6. ASSUME NEW p, Returned(p), ~(h.tell = "change" /\ h.map = p.map /\ h.id = p.id)
      PROVE  Returned(p)'
  BY <1>5, <1>6 DEF Returned
<1>7. CASE HearCurrent
  <2>1. h.tell = "current" /\ UNCHANGED pending
    BY <1>4, <1>7 DEF HearCurrent, Hearing
  <2> QED BY <1>1, <1>3, <1>6, <2>1 DEF AnswerComes
<1>8. CASE HearChange
  <2>1. pending' = pending \ {p \in pending : p.map = h.map /\ p.id = h.id}
    BY <1>4, <1>8 DEF HearChange
  <2> QED BY <1>1, <1>3, <1>6, <2>1 DEF AnswerComes
<1> QED BY <1>7, <1>8

LEMMA ElsewhereIsAnswered ==
  ASSUME SettingsTyped, AnswerIsOnItsWay, [SettingsNext]_settingsVars,
         ~Asks, ~Serves, ~HearCurrent, ~HearChange
  PROVE  AnswerIsOnItsWay'
<1>1. online => \A p \in pending : AnswerComes(p)
  BY Zenon DEF AnswerIsOnItsWay, AnswerComes, Requested, Returned, BeingStored
<1>2. (online' => \A p \in pending' : AnswerComes(p)') => AnswerIsOnItsWay'
  BY Zenon DEF AnswerIsOnItsWay, AnswerComes, Requested, Returned, BeingStored
<1>3. CASE \E w \in writing : StoreAnnouncements(w)
  <2>1. PICK w \in writing : StoreAnnouncements(w)
    BY <1>3
  <2>2. UNCHANGED <<client, toServer, online>> /\ writing' = writing \ {w}
    BY <2>1 DEF StoreAnnouncements
  <2>3. PICK result : /\ result \in Results
                      /\ IF w.who = "player" THEN Reply(Change("announcements", w.id, result))
                         ELSE UNCHANGED toClient
    BY <2>1, Zenon DEF StoreAnnouncements
  <2>4. PICK m : m = Change("announcements", w.id, result)
    OBVIOUS
  <2>5. w.id \in Nat /\ "announcements" \in Kinds /\ MapOf("announcements") = "announcements"
    BY KindsDiffer, MapsByKind DEF SettingsTyped, ServerTyped, Writers, Access
  <2>6. m \in Answers /\ m.tell = "change" /\ m.map = "announcements" /\ m.id = w.id
    BY <2>3, <2>4, <2>5, AnswersAreTyped DEF Change
  <2>7. \A p : (Requested(p) => Requested(p)') /\ (Returned(p) => Returned(p)')
    BY <2>2, <2>3, <2>4, <2>6, RepliesAreKept DEF Requested, Returned, SettingsTyped
  <2>8. ASSUME NEW p \in pending, BeingStored(p), online PROVE BeingStored(p)' \/ Returned(p)'
    <3>1. p.kind = "announcements" /\ p.map = "announcements"
      BY <2>5, <2>8 DEF BeingStored, SettingsTyped, ClientTyped
    <3>2. CASE w = [who |-> "player", id |-> p.id]
      <4>1. w.who = "player" /\ w.id = p.id
        BY <3>2
      <4> QED BY <2>3, <2>4, <2>6, <2>8, <3>1, <4>1, RepliesAreKept DEF SettingsTyped
    <3>3. CASE w # [who |-> "player", id |-> p.id]
      BY <2>2, <2>8, <3>3 DEF BeingStored
    <3> QED BY <3>2, <3>3
  <2> QED BY <1>1, <1>2, <2>2, <2>7, <2>8 DEF AnswerComes, client
<1>4. CASE \E u \in Updates : OtherAdministrator(u)
  <2>1. UNCHANGED <<client, toServer, toClient, online>> /\ writing \subseteq writing'
    BY <1>4 DEF OtherAdministrator, ModifyAnnouncements, WriteBans
  <2> QED BY <1>1, <1>2, <2>1 DEF AnswerComes, Requested, Returned, BeingStored, client
<1>5. CASE (\E e \in Items : Expire(e)) \/ UNCHANGED settingsVars
  <2>1. UNCHANGED <<client, toServer, toClient, online, writing>>
    BY <1>5 DEF Expire, settingsVars, server
  <2> QED BY <1>1, <1>2, <2>1 DEF AnswerComes, Requested, Returned, BeingStored, client
<1>6. CASE IdleTimeout \/ Restart \/ LoseConnection
  <2>1. online' = FALSE
    BY <1>6 DEF IdleTimeout, Restart, Reload, LoseConnection, SettingsTyped, WireTyped
  <2> QED BY <1>2, <2>1
<1>7. CASE NewSession
  <2>1. pending' = {}
    BY <1>7 DEF NewSession
  <2> QED BY <1>2, <2>1
<1> QED BY <1>3, <1>4, <1>5, <1>6, <1>7 DEF SettingsNext, Serves, Asks

LEMMA AnswersStayOnTheirWay ==
  ASSUME SettingsTyped, AnswerIsOnItsWay, [SettingsNext]_settingsVars
  PROVE  AnswerIsOnItsWay'
<1>1. online => \A p \in pending : AnswerComes(p)
  BY Zenon DEF AnswerIsOnItsWay, AnswerComes, Requested, Returned, BeingStored
<1>2. (online' => \A p \in pending' : AnswerComes(p)') => AnswerIsOnItsWay'
  BY Zenon DEF AnswerIsOnItsWay, AnswerComes, Requested, Returned, BeingStored
<1>3. CASE Serves
  <2>1. Served
    BY <1>3, RequestsAreServed DEF SettingsTyped
  <2>2. UNCHANGED <<client, online>>
    BY <2>1 DEF Served
  <2> QED BY <1>1, <1>2, <2>1, <2>2, ServedIsAnswered DEF client
<1>4. CASE Asks
  BY <1>2, <1>4, AskingIsAnswered, AskingIsTyped DEF SettingsTyped
<1>5. CASE HearCurrent \/ HearChange
  BY <1>2, <1>5, HearingIsAnswered, HearingIsTyped DEF SettingsTyped
<1> QED BY <1>3, <1>4, <1>5, ElsewhereIsAnswered

\* Every update the client has sent and not heard about is on its way: the
\* request, the write it waits for, or the answer, whoever else writes and
\* whatever fails.
THEOREM UpdatesAreAnswered == SettingsSpec => []AnswerIsOnItsWay
<1>1. SettingsInit => AnswerIsOnItsWay
  BY DEF SettingsInit, AnswerIsOnItsWay
<1>2. /\ KeptByKind /\ StoredOnSuccess /\ SettingsTyped /\ AnswerIsOnItsWay
      /\ [SettingsNext]_settingsVars
      => KeptByKind' /\ StoredOnSuccess' /\ SettingsTyped' /\ AnswerIsOnItsWay'
  BY StoredStep, SettingsStayTyped, AnswersStayOnTheirWay
<1> QED BY <1>1, <1>2, SettingsStartTyped, PTL DEF SettingsSpec

-----------------------------------------------------------------------------
(* What the client shows. *)

\* Values in the form the server stores.
Local(entries) == \A e \in entries : LocalForm[e] = e

\* What an update makes of the meaning of a value.
Effect(k, u, x) ==
  IF k \in Whole THEN Meaning(k, u.of)
  ELSE IF k = "bookmarks"
       THEN IF u.op = "add" THEN x \cup {LocalForm[u.of]} ELSE x \ {LocalForm[u.of]}
       ELSE IF k = "calendar_locations" /\ u.op = "add" THEN x \cup ({u.of} \cap Here)
            ELSE Applied(u, x)

LEMMA MeaningByKind ==
  ASSUME NEW v
  PROVE  /\ Meaning("access_message", v) = LocalForm[v]
         /\ Meaning("bookmarks", v) = {LocalForm[e] : e \in v}
         /\ Meaning("calendar_locations", v) = v \cap Here
         /\ \A k : k \notin {"access_message", "bookmarks", "calendar_locations"} => Meaning(k, v) = v
<1>1. ASSUME NEW k, k \notin {"access_message", "bookmarks", "calendar_locations"}
      PROVE  Meaning(k, v) = v
  BY <1>1 DEF Meaning
<1>2. /\ Meaning("access_message", v) = LocalForm[v]
      /\ Meaning("bookmarks", v) = {LocalForm[e] : e \in v}
      /\ Meaning("calendar_locations", v) = v \cap Here
  BY DEF Meaning
<1> QED BY <1>1, <1>2

LEMMA LocalMeaning ==
  ASSUME NEW v, Local(v)
  PROVE  Meaning("bookmarks", v) = v
BY MeaningByKind DEF Local

LEMMA UpdatesByKind ==
  ASSUME NEW k \in Own, NEW u \in UpdatesOf(k)
  PROVE  /\ k \in Whole => u.op = "set" /\ u.of \in Tastes
         /\ k = "bookmarks" => u.op \in {"add", "remove"} /\ u.of \in Items
         /\ k \in {"calendar_locations", "public_keys"} => u.op \in {"add", "remove", "clear"}
         /\ k # "calendar_id"
<1>1. CASE k \in Whole
  <2>1. Offered(k) = {"set"} /\ k # "calendar_id" /\ k \notin Listed
    BY <1>1 DEF Offered, Whole, Access, Listed
  <2> QED BY <1>1, <2>1 DEF UpdatesOf, Updates, Listed
<1>2. CASE k = "bookmarks"
  <2>1. k \notin Whole
    BY <1>2 DEF Whole, Access
  <2> QED BY <1>2, <2>1, LocalUpdate
<1>3. CASE k \in {"calendar_locations", "public_keys"}
  <2>1. Offered(k) = {"add", "remove", "clear"} /\ k \notin Whole
    BY <1>3 DEF Offered, Whole, Access
  <2> QED BY <1>3, <2>1 DEF UpdatesOf, Updates
<1>4. CASE k = "calendar_id"
  <2>1. Offered(k) = {}
    BY <1>4 DEF Offered, Whole, Access
  <2> QED BY <2>1 DEF UpdatesOf
<1> QED BY <1>1, <1>2, <1>3, <1>4, KindsDiffer DEF Whole, Access

LEMMA AppliedByOp ==
  ASSUME NEW u, NEW v
  PROVE  /\ u.op = "set" => Applied(u, v) = u.of
         /\ u.op = "add" => Applied(u, v) = v \cup {u.of}
         /\ u.op = "remove" => Applied(u, v) = v \ {u.of}
         /\ u.op = "clear" => Applied(u, v) = {}
BY DEF Applied

\* The client's cache changes as the meaning does, except for a bookmark that is
\* stored in another form.
LEMMA ClientEffect ==
  ASSUME NEW k \in Own, NEW u \in UpdatesOf(k), NEW v,
         k = "bookmarks" => Local(v) /\ LocalForm[u.of] = u.of
  PROVE  /\ Meaning(k, Applied(u, v)) = Effect(k, u, Meaning(k, v))
         /\ k = "bookmarks" => Local(Applied(u, v))
<1>1. CASE k \in Whole
  <2>1. k # "bookmarks" /\ u.op = "set"
    BY <1>1, UpdatesByKind DEF Whole, Access
  <2> QED BY <1>1, <2>1, AppliedByOp DEF Effect
<1>2. CASE k = "bookmarks"
  <2>1. k \notin Whole /\ u.op \in {"add", "remove"}
    BY <1>2, UpdatesByKind DEF Whole, Access
  <2>2. Applied(u, v) = IF u.op = "add" THEN v \cup {u.of} ELSE v \ {u.of}
    BY <2>1, AppliedByOp
  <2>3. Local(Applied(u, v))
    BY <1>2, <2>2 DEF Local
  <2>4. Meaning(k, Applied(u, v)) = Applied(u, v) /\ Meaning(k, v) = v
    BY <1>2, <2>3, LocalMeaning
  <2> QED BY <1>2, <2>1, <2>2, <2>3, <2>4 DEF Effect
<1>3. CASE k = "calendar_locations"
  <2>1. k \notin Whole /\ u.op \in {"add", "remove", "clear"}
    BY <1>3, UpdatesByKind DEF Whole, Access
  <2>2. Meaning(k, Applied(u, v)) = Applied(u, v) \cap Here /\ Meaning(k, v) = v \cap Here
    BY <1>3, MeaningByKind
  <2>3. CASE u.op = "add"
    BY <1>3, <2>1, <2>2, <2>3, AppliedByOp DEF Effect
  <2>4. CASE u.op # "add"
    <3>1. Effect(k, u, v \cap Here) = Applied(u, v \cap Here)
      BY <1>3, <2>1, <2>4 DEF Effect
    <3> QED BY <1>3, <2>1, <2>2, <2>4, <3>1, AppliedByOp
  <2> QED BY <2>3, <2>4
<1>4. CASE k = "public_keys"
  <2>1. k \notin Whole
    BY <1>4 DEF Whole, Access
  <2>2. /\ Meaning(k, Applied(u, v)) = Applied(u, v) /\ Meaning(k, v) = v
        /\ Effect(k, u, v) = Applied(u, v)
    BY <1>4, <2>1, MeaningByKind DEF Effect
  <2> QED BY <1>4, <2>2
<1> QED BY <1>1, <1>2, <1>3, <1>4, UpdatesByKind, KindsDiffer DEF Whole, Access

\* So do the server's memory and rows when a request is accepted.
LEMMA ServerEffect ==
  ASSUME NEW k \in Own, NEW u \in UpdatesOf(k), Local(row["bookmarks"])
  PROVE  /\ k \in Whole => \A x : Meaning(k, Kept(k, u.of)) = Effect(k, u, x)
         /\ k \in Listed => Meaning(k, Accepted(k, u)) = Effect(k, u, Meaning(k, row[k]))
         /\ k = "bookmarks" => Local(Accepted(k, u))
<1>1. CASE k \in Whole
  <2>1. k \notin Listed
    BY <1>1 DEF Whole, Access, Listed
  <2>2. u.of \in Tastes
    BY <1>1, UpdatesByKind
  <2>3. CASE k = "access_message"
    <3>1. LocalForm[LocalForm[u.of]] = LocalForm[u.of]
      BY <2>2, LocalFormAssumption DEF LocalFormAssumption
    <3> QED BY <1>1, <2>1, <2>3, <3>1, MeaningByKind DEF Effect, Kept, Listed
  <2>4. CASE k # "access_message"
    BY <1>1, <2>1, <2>4 DEF Effect, Kept, Listed
  <2> QED BY <2>3, <2>4
<1>2. CASE k = "bookmarks"
  <2>1. k \notin Whole /\ u.op \in {"add", "remove"} /\ u.of \in Items
    BY <1>2, UpdatesByKind DEF Whole, Access
  <2>2. PICK f, v, w : f = LocalForm[u.of] /\ v = row["bookmarks"] /\ w = [u EXCEPT !.of = LocalForm[@]]
    OBVIOUS
  <2>3. LocalForm[f] = f /\ Local(v) /\ w = [op |-> u.op, of |-> f]
    BY <1>2, <2>1, <2>2, LocalUpdate, LocalFormAssumption DEF LocalFormAssumption
  <2>4. w.op = u.op /\ w.of = f
    BY <2>3
  <2>5. Accepted(k, u) = IF u.op = "add" THEN v \cup {f} ELSE v \ {f}
    <3>1. Accepted(k, u) = Applied(w, v)
      BY <1>2, <2>2 DEF Accepted, BookmarksWritten
    <3> QED BY <2>1, <2>4, <3>1, AppliedByOp
  <2>6. Local(Accepted(k, u))
    BY <2>3, <2>5 DEF Local
  <2>7. Meaning(k, Accepted(k, u)) = Accepted(k, u) /\ Meaning(k, row[k]) = v
    BY <1>2, <2>2, <2>3, <2>6, LocalMeaning
  <2> QED BY <1>2, <2>1, <2>2, <2>5, <2>6, <2>7 DEF Effect
<1>3. CASE k = "calendar_locations"
  <2>1. k \notin Whole /\ u.op \in {"add", "remove", "clear"}
    BY <1>3, UpdatesByKind DEF Whole, Access
  <2>2. PICK v : v = row["calendar_locations"]
    OBVIOUS
  <2>3. Meaning(k, Accepted(k, u)) = Accepted(k, u) \cap Here /\ Meaning(k, row[k]) = v \cap Here
    BY <1>3, <2>2, MeaningByKind
  <2>4. Accepted(k, u) = SubscriptionsWritten(u)
    BY <1>3 DEF Accepted
  <2>5. CASE u.op = "add"
    <3>1. Accepted(k, u) = v \cup ({u.of} \cap (Here \cup Elsewhere))
      BY <2>2, <2>4, <2>5 DEF SubscriptionsWritten
    <3>2. Effect(k, u, v \cap Here) = (v \cap Here) \cup ({u.of} \cap Here)
      BY <1>3, <2>1, <2>5 DEF Effect
    <3> QED BY <1>3, <2>1, <2>3, <3>1, <3>2
  <2>6. CASE u.op = "clear"
    <3>1. Accepted(k, u) = v \ Here
      BY <2>2, <2>4, <2>6 DEF SubscriptionsWritten
    <3>2. Effect(k, u, v \cap Here) = {}
      BY <1>3, <2>1, <2>6, AppliedByOp DEF Effect
    <3> QED BY <1>3, <2>1, <2>3, <3>1, <3>2
  <2>7. CASE u.op = "remove"
    <3>1. Accepted(k, u) = v \ {u.of}
      BY <2>2, <2>4, <2>7, AppliedByOp DEF SubscriptionsWritten
    <3>2. Effect(k, u, v \cap Here) = (v \cap Here) \ {u.of}
      BY <1>3, <2>1, <2>7, AppliedByOp DEF Effect
    <3> QED BY <1>3, <2>1, <2>3, <3>1, <3>2
  <2> QED BY <2>1, <2>5, <2>6, <2>7
<1>4. CASE k = "public_keys"
  <2>1. k \notin Whole
    BY <1>4 DEF Whole, Access
  <2>2. PICK v : v = row["public_keys"]
    OBVIOUS
  <2>3. Accepted(k, u) = Applied(u, v) /\ row[k] = v
    BY <1>4, <2>2 DEF Accepted, KeysWritten
  <2>4. /\ Meaning(k, Applied(u, v)) = Applied(u, v) /\ Meaning(k, v) = v
        /\ Effect(k, u, v) = Applied(u, v)
    BY <1>4, <2>1, MeaningByKind DEF Effect
  <2> QED BY <1>4, <2>1, <2>3, <2>4
<1> QED BY <1>1, <1>2, <1>3, <1>4, UpdatesByKind, KindsDiffer DEF Whole, Access

\* What the requests on their way make of a meaning x, if all are accepted: y.
IsUpdate(m, k) == m.ask = "update" /\ m.kind = k
Reached(k, m, x) == IF IsUpdate(m, k) THEN Effect(k, m.u, x) ELSE x
Runs(k, q, x, y) ==
  \E h : /\ h[0] = x /\ h[Len(q)] = y
         /\ \A i \in 1 .. Len(q) : h[i] = Reached(k, q[i], h[i - 1])

LEMMA RunsOfNothing ==
  ASSUME NEW k, NEW S, NEW q \in Seq(S), \A i \in 1 .. Len(q) : ~IsUpdate(q[i], k), NEW x
  PROVE  Runs(k, q, x, x)
<1>1. PICK h : h = [i \in 0 .. Len(q) |-> x]
  OBVIOUS
<1>2. Len(q) \in Nat
  OBVIOUS
<1>3. \A i \in 0 .. Len(q) : h[i] = x
  BY <1>1
<1> QED BY <1>2, <1>3 DEF Runs, Reached

LEMMA RunsOfAppended ==
  ASSUME NEW k, NEW S, NEW q \in Seq(S), NEW m \in S, NEW x, NEW y, Runs(k, q, x, y)
  PROVE  Runs(k, Append(q, m), x, Reached(k, m, y))
<1>1. PICK h : /\ h[0] = x /\ h[Len(q)] = y
               /\ \A i \in 1 .. Len(q) : h[i] = Reached(k, q[i], h[i - 1])
  BY DEF Runs
<1>2. PICK z : z = Reached(k, m, y)
  OBVIOUS
<1>3. PICK g : g = [i \in 0 .. Len(q) + 1 |-> IF i <= Len(q) THEN h[i] ELSE z]
  OBVIOUS
<1>4. PICK r : r = Append(q, m)
  OBVIOUS
<1>5. /\ Len(q) \in Nat /\ Len(r) = Len(q) + 1 /\ r[Len(q) + 1] = m
      /\ \A i \in 1 .. Len(q) : r[i] = q[i]
  BY <1>4, Appended
<1>6. (\A i \in 0 .. Len(q) : g[i] = h[i]) /\ g[Len(q) + 1] = z
  BY <1>3, <1>5
<1>7. g[0] = x /\ g[Len(r)] = z
  BY <1>1, <1>5, <1>6
<1>8. ASSUME NEW i \in 1 .. Len(r) PROVE g[i] = Reached(k, r[i], g[i - 1])
  <2>1. CASE i \in 1 .. Len(q)
    <3>1. i \in 0 .. Len(q) /\ i - 1 \in 0 .. Len(q)
      BY <1>5, <2>1
    <3> QED BY <1>1, <1>5, <1>6, <2>1, <3>1
  <2>2. CASE i = Len(q) + 1
    <3>1. i - 1 = Len(q) /\ Len(q) \in 0 .. Len(q)
      BY <1>5, <2>2
    <3> QED BY <1>1, <1>2, <1>5, <1>6, <2>2, <3>1
  <2> QED BY <1>5, <2>1, <2>2
<1>9. Runs(k, r, x, z)
  BY <1>7, <1>8, Zenon DEF Runs
<1> QED BY <1>2, <1>4, <1>9

LEMMA RunsOfTail ==
  ASSUME NEW k, NEW S, NEW q \in Seq(S), q # <<>>, NEW x, NEW y, Runs(k, q, x, y)
  PROVE  Runs(k, Tail(q), Reached(k, Head(q), x), y)
<1>1. PICK h : /\ h[0] = x /\ h[Len(q)] = y
               /\ \A i \in 1 .. Len(q) : h[i] = Reached(k, q[i], h[i - 1])
  BY DEF Runs
<1>2. PICK g : g = [i \in 0 .. Len(q) - 1 |-> h[i + 1]]
  OBVIOUS
<1>3. PICK r : r = Tail(q)
  OBVIOUS
<1>4. /\ Len(q) \in Nat \ {0} /\ Len(r) = Len(q) - 1 /\ Head(q) = q[1]
      /\ \A i \in 1 .. Len(r) : i + 1 \in 1 .. Len(q) /\ r[i] = q[i + 1]
  BY <1>3, Taken
<1>5. \A i \in 0 .. Len(r) : g[i] = h[i + 1]
  BY <1>2, <1>4
<1>6. g[0] = Reached(k, Head(q), x)
  <2>1. h[1] = Reached(k, q[1], h[1 - 1])
    BY <1>1, <1>4
  <2> QED BY <1>1, <1>4, <1>5, <2>1
<1>7. g[Len(r)] = y
  BY <1>1, <1>4, <1>5
<1>8. ASSUME NEW i \in 1 .. Len(r) PROVE g[i] = Reached(k, r[i], g[i - 1])
  <2>1. h[i + 1] = Reached(k, q[i + 1], h[(i + 1) - 1])
    BY <1>1, <1>4
  <2>2. (i + 1) - 1 = i /\ (i - 1) + 1 = i /\ i - 1 \in 0 .. Len(r) /\ i \in 0 .. Len(r)
    BY <1>4
  <2> QED BY <1>4, <1>5, <2>1, <2>2
<1>9. Runs(k, r, Reached(k, Head(q), x), y)
  BY <1>6, <1>7, <1>8, Zenon DEF Runs
<1> QED BY <1>3, <1>9

\* Without an update among the requests the meaning stays as it is.
LEMMA RunsToTheSame ==
  ASSUME NEW k, NEW S, NEW q \in Seq(S), \A i \in 1 .. Len(q) : ~IsUpdate(q[i], k),
         NEW x, NEW y, Runs(k, q, x, y)
  PROVE  x = y
<1>1. PICK h : /\ h[0] = x /\ h[Len(q)] = y
               /\ \A i \in 1 .. Len(q) : h[i] = Reached(k, q[i], h[i - 1])
  BY DEF Runs
<1>2. Len(q) \in Nat /\ \A i \in 1 .. Len(q) : h[i] = h[i - 1]
  BY <1>1 DEF Reached
<1>3. PICK T : T = {i \in 0 .. Len(q) : h[i] # x}
  OBVIOUS
<1>4. T = {}
  <2>1. SUFFICES ASSUME T # {} PROVE FALSE
    OBVIOUS
  <2>2. T \subseteq Nat
    BY <1>2, <1>3
  <2>3. PICK i \in T : \A j \in T : <<j, i>> \notin OpToRel(<, Nat)
    BY <2>1, <2>2, WFMin, NatLessThanWellFounded, Zenon
  <2>4. i \in 1 .. Len(q) /\ i - 1 \in 0 .. Len(q) /\ i - 1 < i /\ i \in Nat /\ i - 1 \in Nat
    <3>1. i \in 0 .. Len(q) /\ h[i] # x
      BY <1>3, <2>3
    <3>2. i # 0
      BY <1>1, <3>1
    <3> QED BY <1>2, <3>1, <3>2
  <2>5. i - 1 \in T
    <3>1. h[i] # x /\ h[i] = h[i - 1]
      BY <1>2, <1>3, <2>3, <2>4
    <3> QED BY <1>3, <2>4, <3>1
  <2>6. ~(i - 1 < i)
    BY <2>3, <2>4, <2>5, Zenon DEF OpToRel
  <2> QED BY <2>4, <2>6
<1> QED BY <1>1, <1>2, <1>3, <1>4

-----------------------------------------------------------------------------
(* What is under way between what the client shows and what the server holds. *)

IsCurrent(m, k) == m.tell = "current" /\ m.kind = k
IsChange(m, k) == m.tell = "change" /\ m.kind = k

\* A value is on its way to the client, or the news that an update has failed.
Coming(k) == \E i \in 1 .. Len(toClient) : IsCurrent(toClient[i], k)
Failing(k) ==
  \E i \in 1 .. Len(toClient) : IsChange(toClient[i], k) /\ toClient[i].result # "Success"

\* Updates of a kind are answered in the order in which they were made, while
\* the client waits for each.
Awaited(k, id) == \E p \in pending : p.map = k /\ p.id = id
InTurn(k) ==
  /\ \A i, j \in 1 .. Len(toClient) :
       i < j /\ IsChange(toClient[i], k) /\ IsChange(toClient[j], k) => toClient[i].id < toClient[j].id
  /\ \A i \in 1 .. Len(toClient), j \in 1 .. Len(toServer) :
       IsChange(toClient[i], k) /\ IsUpdate(toServer[j], k) => toClient[i].id < toServer[j].id
  /\ \A i, j \in 1 .. Len(toServer) :
       i < j /\ IsUpdate(toServer[i], k) /\ IsUpdate(toServer[j], k) => toServer[i].id < toServer[j].id
  /\ \A i \in 1 .. Len(toClient) : IsChange(toClient[i], k) => Awaited(k, toClient[i].id)
  /\ \A j \in 1 .. Len(toServer) : IsUpdate(toServer[j], k) => Awaited(k, toServer[j].id)

\* Bookmarks are stored, sent and shown in their local form.
LocalForms ==
  /\ Local(row["bookmarks"])
  /\ "bookmarks" \notin tainted /\ cache["bookmarks"] # NoValue => Local(cache["bookmarks"])
  /\ \A i \in 1 .. Len(toClient) :
       IsCurrent(toClient[i], "bookmarks") => Local(toClient[i].value)

\* What the client shows is what the server will hold, unless it is told of
\* something else.
Promised(k) ==
  online /\ k \notin tainted /\ cache[k] # NoValue =>
    \/ Coming(k) \/ (k \in Listed /\ Failing(k))
    \/ Runs(k, toServer, Meaning(k, Truth(k)), Meaning(k, cache[k]))

\* The last word about a kind is what the server holds.
Recent(k) ==
  \A i \in 1 .. Len(toClient) :
    /\ IsCurrent(toClient[i], k) /\ toClient[i].sure
    /\ \A j \in 1 .. Len(toServer) : ~IsUpdate(toServer[j], k)
    /\ \A j \in 1 .. Len(toClient) : i < j => toClient[j].kind # k
    => Meaning(k, toClient[i].value) = Meaning(k, Truth(k))

UnderWay ==
  /\ \A k \in Listed : InTurn(k)
  /\ LocalForms
  /\ \A k \in Own : Promised(k) /\ Recent(k)

\* What the server makes of a request about a kind of its player's own.
Handled(h, k) ==
  \/ ~IsUpdate(h, k) /\ UNCHANGED <<toClient, Truth(k)>>
  \/ /\ ~IsUpdate(h, k)
     /\ \E m \in Answers : /\ Reply(m) /\ IsCurrent(m, k)
                           /\ m.sure => Meaning(k, m.value) = Meaning(k, Truth(k)')
                           /\ k = "bookmarks" => Local(m.value)
  \/ /\ IsUpdate(h, k)
     /\ \E m \in Answers : /\ Reply(m) /\ IsChange(m, k) /\ m.id = h.id
                           /\ \/ Meaning(k, Truth(k)') = Effect(k, h.u, Meaning(k, Truth(k)))
                              \/ k \in Listed /\ m.result # "Success"

LEMMA QuestionsAreHandled ==
  ASSUME SettingsTyped, Local(row["bookmarks"]), ServeFromMemory \/ ServeFromRows,
         NEW h, h = Head(toServer), NEW k \in Own, h.kind = k
  PROVE  Handled(h, k) /\ Local(row'["bookmarks"])
<1>1. k \in Kinds /\ h.ask = "get" /\ UNCHANGED <<row, mem>> /\ Truth(k)' = Truth(k)
  BY DEF ServeFromMemory, ServeFromRows, Serving, server, Own, Truth
<1>2. ~IsUpdate(h, k)
  BY <1>1 DEF IsUpdate
<1>3. ASSUME NEW value \in ValuesOf(k), NEW sure \in BOOLEAN, Reply(Current(k, value, sure)),
             sure => Meaning(k, value) = Meaning(k, Truth(k)), k = "bookmarks" => Local(value)
      PROVE  Handled(h, k)
  <2>1. PICK m : m = Current(k, value, sure)
    OBVIOUS
  <2>2. m \in Answers /\ m.tell = "current" /\ m.kind = k /\ m.value = value /\ m.sure = sure
    BY <1>1, <2>1 DEF Current, Answers
  <2> QED BY <1>1, <1>2, <1>3, <2>1, <2>2 DEF Handled, IsCurrent
<1>4. CASE ServeFromMemory
  <2>1. k \in Remembered /\ Reply(Current(k, mem[k], TRUE))
    BY <1>4 DEF ServeFromMemory
  <2>2. k # "bookmarks" /\ mem[k] \in ValuesOf(k) /\ Truth(k) = mem[k]
    BY <2>1, KindsDiffer DEF Truth, SettingsTyped, ServerTyped
  <2> QED BY <1>1, <1>3, <2>1, <2>2
<1>5. CASE ServeFromRows
  <2>1. k \in Listed /\ (Reply(Current(k, Shown(k), TRUE)) \/ Reply(Current(k, {}, FALSE)))
    BY <1>5 DEF ServeFromRows
  <2>2. Shown(k) \in ValuesOf(k) /\ {} \in ValuesOf(k)
    BY <2>1, ShownType DEF SettingsTyped
  <2>3. Truth(k) = row[k]
    BY <2>1 DEF Truth, Remembered
  <2>4. CASE k = "calendar_locations"
    <3>1. Meaning(k, Shown(k)) = (row[k] \cap Here) \cap Here /\ Meaning(k, Truth(k)) = row[k] \cap Here
      BY <2>3, <2>4, MeaningByKind DEF Shown
    <3>2. Meaning(k, Shown(k)) = Meaning(k, Truth(k))
      BY <3>1
    <3>3. Handled(h, k)
      BY <1>3, <2>1, <2>2, <2>4, <3>2
    <3> QED BY <1>1, <3>3
  <2>5. CASE k # "calendar_locations"
    <3>1. Shown(k) = row[k] /\ Local({}) /\ (k = "bookmarks" => Local(row[k]))
      BY <2>5 DEF Shown, Local
    <3>2. Handled(h, k)
      BY <1>3, <2>1, <2>2, <2>3, <3>1
    <3> QED BY <1>1, <3>2
  <2> QED BY <2>4, <2>5
<1> QED BY <1>1, <1>4, <1>5

LEMMA UpdatesAreHandled ==
  ASSUME KeptByKind, SettingsTyped, Local(row["bookmarks"]),
         ServeMutate \/ ServeBookmark \/ ServeSubscription \/ ServeKey,
         NEW h, h = Head(toServer), NEW k \in Own, h.kind = k
  PROVE  Handled(h, k) /\ Local(row'["bookmarks"])
<1>1. Serving("update")
  BY DEF ServeMutate, ServeBookmark, ServeSubscription, ServeKey, Answered
<1>2. /\ k \in Kinds /\ IsUpdate(h, k) /\ h.u \in UpdatesOf(k) /\ h.id \in Nat
  <2>1. h \in WireRequests /\ h.ask = "update"
    BY <1>1, Taken DEF Serving, SettingsTyped, WireTyped
  <2> QED BY <2>1, RequestsSay DEF IsUpdate, Own
<1>3. PICK u : u = h.u
  OBVIOUS
<1>4. ASSUME NEW result \in Results, Reply(Change(k, h.id, result)),
             \/ Meaning(k, Truth(k)') = Effect(k, u, Meaning(k, Truth(k)))
             \/ k \in Listed /\ result # "Success"
      PROVE  Handled(h, k)
  <2>1. PICK m : m = Change(k, h.id, result)
    OBVIOUS
  <2>2. m \in Answers /\ m.tell = "change" /\ m.kind = k /\ m.id = h.id /\ m.result = result
    BY <1>2, <2>1, AnswersAreTyped DEF Change
  <2> QED BY <1>2, <1>3, <1>4, <2>1, <2>2 DEF Handled, IsChange
<1>5. CASE ServeMutate
  <2>1. PICK value, result :
          /\ k \in Whole /\ value = Kept(k, u.of)
          /\ mem' = [mem EXCEPT ![k] = value] /\ result \in Results
          /\ Store(k, value, result) /\ Reply(Change(k, h.id, result))
    BY <1>3, <1>5, Zenon DEF ServeMutate
  <2>2. k \in Remembered /\ k # "bookmarks" /\ value \in ValuesOf(k) /\ "bookmarks" \in Kinds
    <3>1. u.of \in Tastes
      BY <1>2, <1>3, <2>1, UpdatesByKind
    <3> QED BY <2>1, <3>1, KindsDiffer, ValuesByKind, LocalFormAssumption
            DEF Kept, LocalFormAssumption, Whole, Access
  <2>3. mem'[k] = value
    BY <2>1, <2>2, OneKindChanges DEF KeptByKind
  <2>4. row'["bookmarks"] = row["bookmarks"]
    BY <1>2, <2>1, <2>2, StoringOneKind DEF SettingsTyped
  <2>5. Meaning(k, Truth(k)') = Effect(k, u, Meaning(k, Truth(k)))
    BY <1>2, <1>3, <2>1, <2>2, <2>3, ServerEffect DEF Truth
  <2> QED BY <1>4, <2>1, <2>4, <2>5
<1>6. ASSUME k \in Listed, NEW refused, Answered(k, Accepted(k, u), refused)
      PROVE  Handled(h, k) /\ Local(row'["bookmarks"])
  <2>1. PICK value : value = Accepted(k, u)
    OBVIOUS
  <2>2. value \in ValuesOf(k) /\ Truth(k) = row[k] /\ Truth(k)' = row'[k] /\ "bookmarks" \in Kinds
    BY <1>2, <1>3, <1>6, <2>1, AcceptedType, KindsDiffer DEF Truth, Remembered, SettingsTyped
  <2>3. CASE refused
    <3>1. UNCHANGED row /\ Reply(Change(k, h.id, "NotAllowed"))
      BY <1>6, <2>3 DEF Answered
    <3> QED BY <1>4, <1>6, <3>1 DEF Results
  <2>4. CASE ~refused
    <3>1. PICK result \in Results : Store(k, value, result) /\ Reply(Change(k, h.id, result))
      BY <1>6, <2>1, <2>4, Zenon DEF Answered
    <3>2. /\ \A a \in Kinds \ {k} : row'[a] = row[a]
          /\ \/ row'[k] = value /\ result = "Success"
             \/ UNCHANGED row /\ result = "InternalError"
      BY <1>2, <2>2, <3>1, StoringOneKind DEF SettingsTyped
    <3>3. CASE row'[k] = value
      <4>1. Meaning(k, Truth(k)') = Effect(k, u, Meaning(k, Truth(k)))
        BY <1>2, <1>3, <1>6, <2>1, <2>2, <3>3, ServerEffect
      <4>2. Local(row'["bookmarks"])
        BY <1>2, <1>3, <2>1, <2>2, <3>2, <3>3, ServerEffect
      <4> QED BY <1>4, <3>1, <4>1, <4>2
    <3>4. CASE UNCHANGED row /\ result = "InternalError"
      <4>1. result # "Success"
        BY <3>4
      <4> QED BY <1>4, <1>6, <3>1, <3>4, <4>1
    <3> QED BY <3>2, <3>3, <3>4
  <2> QED BY <2>3, <2>4
<1>7. CASE ServeBookmark
  <2>1. k = "bookmarks" /\ Accepted(k, u) = BookmarksWritten(u)
    BY <1>7 DEF ServeBookmark, Answered, Accepted
  <2> QED BY <1>3, <1>6, <1>7, <2>1 DEF ServeBookmark, Listed
<1>8. CASE ServeSubscription
  <2>1. k = "calendar_locations" /\ Accepted(k, u) = SubscriptionsWritten(u)
    BY <1>8 DEF ServeSubscription, Answered, Accepted
  <2> QED BY <1>3, <1>6, <1>8, <2>1 DEF ServeSubscription, Listed
<1>9. CASE ServeKey
  <2>1. k = "public_keys" /\ Accepted(k, u) = KeysWritten(u)
    BY <1>9 DEF ServeKey, Answered, Accepted
  <2> QED BY <1>3, <1>6, <1>9, <2>1 DEF ServeKey, Listed
<1> QED BY <1>5, <1>7, <1>8, <1>9

LEMMA ServingIsHandling ==
  ASSUME KeptByKind, SettingsTyped, Local(row["bookmarks"]), Serves,
         NEW h, h = Head(toServer), NEW k \in Own, h.kind = k
  PROVE  Handled(h, k) /\ Local(row'["bookmarks"])
<1>1. CASE ServeReset
  <2>1. h \in WireRequests /\ h.ask = "reset_id"
    BY <1>1, Taken DEF ServeReset, Serving, SettingsTyped, WireTyped
  <2>2. k = "calendar_id" /\ ~IsUpdate(h, k)
    BY <2>1 DEF WireRequests, IsUpdate
  <2>3. CASE UNCHANGED <<row, mem, toClient>>
    BY <2>2, <2>3 DEF Handled, Truth
  <2>4. CASE /\ row' = [row EXCEPT !["calendar_id"] = NewIdentifier]
             /\ mem' = [mem EXCEPT !["calendar_id"] = NewIdentifier]
             /\ Reply(Current("calendar_id", NewIdentifier, TRUE))
    <3>1. k \in Kinds /\ k \in Remembered /\ "bookmarks" \in Kinds
      BY <2>2, KindsDiffer
    <3>2. row'["bookmarks"] = row["bookmarks"]
      BY <2>2, <2>4, <3>1, OneKindChanges DEF KeptByKind
    <3>3. mem'[k] = NewIdentifier /\ row'[k] = NewIdentifier
      BY <2>2, <2>4, <3>1, OneKindChanges DEF KeptByKind
    <3>4. row'[k] \in ValuesOf(k) /\ Truth(k)' = NewIdentifier
      BY <3>1, <3>3, ServingStoresTyped DEF SettingsTyped, Truth
    <3>5. PICK m : m = Current(k, NewIdentifier, TRUE)
      OBVIOUS
    <3>6. m \in Answers /\ m.tell = "current" /\ m.kind = k /\ m.value = NewIdentifier
      BY <3>1, <3>3, <3>4, <3>5 DEF Current, Answers
    <3>7. Handled(h, k)
      BY <2>2, <2>4, <3>4, <3>5, <3>6 DEF Handled, IsCurrent
    <3> QED BY <3>2, <3>7
  <2> QED BY <1>1, <2>3, <2>4 DEF ServeReset
<1>2. CASE ServeBulk
  <2>1. h \in WireRequests /\ h.ask = "bulk"
    BY <1>2, Taken DEF ServeBulk, Serving, SettingsTyped, WireTyped
  <2>2. h.kind = "visibility" /\ k \in Kinds
    BY <2>1 DEF WireRequests, Own
  <2> QED BY <2>2, KindsDiffer
<1>3. CASE ServeAnnouncement \/ ServeBan
  BY <1>3, KindsDiffer DEF ServeAnnouncement, ServeBan
<1> QED BY <1>1, <1>2, <1>3, QuestionsAreHandled, UpdatesAreHandled DEF Serves

\* A request about something else changes nothing of a kind.
LEMMA OtherKindsAreLeft ==
  ASSUME KeptByKind, SettingsTyped, Serves, NEW h, h = Head(toServer), NEW k \in Own, h.kind # k
  PROVE  /\ Truth(k)' = Truth(k) /\ row'[k] = row[k]
         /\ UNCHANGED toClient \/ \E m \in Answers : Reply(m) /\ m.kind # k
<1>1. OwnIsLeft(Kinds \ {h.kind}) /\ Served
  BY ServingStoresTyped, RequestsAreServed DEF SettingsTyped
<1>2. k \in Kinds /\ "calendar_id" \in Kinds /\ k # "visibility"
  BY KindsDiffer
<1>3. h \in WireRequests
  BY <1>1, Taken DEF Served, SettingsTyped, WireTyped
<1>4. Truth(k)' = Truth(k) /\ row'[k] = row[k]
  <2>1. k \in Own \cap (Kinds \ {h.kind})
    BY <1>2
  <2>2. row'[k] = row[k] /\ (k \in Remembered => mem'[k] = mem[k])
    BY <1>1, <2>1, Zenon DEF OwnIsLeft
  <2> QED BY <2>2, Zenon DEF Truth
<1>5. CASE h.ask = "update"
  <2>1. h.kind \in Kinds /\ h.id \in Nat
    BY <1>3, <1>5, RequestsSay
  <2>2. UNCHANGED toClient \/ \E result \in Results : Reply(Change(h.kind, h.id, result))
    BY <1>1, <1>5 DEF Served, AnswersTo
  <2>3. \A result \in Results : Change(h.kind, h.id, result) \in Answers /\ Change(h.kind, h.id, result).kind = h.kind
    BY <2>1, AnswersAreTyped DEF Change
  <2> QED BY <1>4, <2>2, <2>3
<1>6. CASE h.ask = "get"
  <2>1. h.kind \in Kinds /\ 0 \in Nat /\ "Success" \in Results
    BY <1>3, <1>6, RequestsSay DEF Results
  <2>2. \E value \in ValuesOf(h.kind), sure \in BOOLEAN : Reply(Current(h.kind, value, sure))
    BY <1>1, <1>6 DEF Served, AnswersTo
  <2>3. \A value \in ValuesOf(h.kind), sure \in BOOLEAN :
          Current(h.kind, value, sure) \in Answers /\ Current(h.kind, value, sure).kind = h.kind
    BY <2>1, AnswersAreTyped DEF Current
  <2> QED BY <1>4, <2>2, <2>3
<1>7. CASE h.ask = "reset_id"
  <2>1. h.kind = "calendar_id" /\ 0 \in Nat /\ "Success" \in Results
    BY <1>3, <1>7 DEF WireRequests, Results
  <2>2. UNCHANGED toClient \/ \E value \in ValuesOf("calendar_id") : Reply(Current("calendar_id", value, TRUE))
    BY <1>1, <1>7 DEF Served, AnswersTo
  <2>3. \A value \in ValuesOf("calendar_id") :
          Current("calendar_id", value, TRUE) \in Answers /\ Current("calendar_id", value, TRUE).kind = "calendar_id"
    BY <1>2, <2>1, AnswersAreTyped DEF Current
  <2> QED BY <1>4, <2>1, <2>2, <2>3
<1>8. CASE h.ask = "bulk"
  <2>1. h.id \in Nat
    BY <1>3, <1>8, RequestsSay
  <2>2. \E result \in Results : Reply([Change("visibility", h.id, result) EXCEPT !.map = "access"])
    BY <1>1, <1>8 DEF Served, AnswersTo
  <2>3. ASSUME NEW result \in Results, NEW m, m = [Change("visibility", h.id, result) EXCEPT !.map = "access"]
        PROVE  m \in Answers /\ m.kind = "visibility"
    BY <1>2, <2>1, <2>3, AnswersAreTyped DEF Change
  <2> QED BY <1>2, <1>4, <2>2, <2>3
<1> QED BY <1>3, <1>5, <1>6, <1>7, <1>8, RequestsSay

\* What serving the request h adds to what the client will hear, for a kind.
Tells(h, k, m) ==
  \/ m.kind # k /\ ~IsUpdate(h, k) /\ Truth(k)' = Truth(k)
  \/ /\ IsCurrent(m, k) /\ ~IsUpdate(h, k)
     /\ m.sure => Meaning(k, m.value) = Meaning(k, Truth(k)')
     /\ k = "bookmarks" => Local(m.value)
  \/ /\ IsChange(m, k) /\ IsUpdate(h, k) /\ m.id = h.id
     /\ \/ Meaning(k, Truth(k)') = Effect(k, h.u, Meaning(k, Truth(k)))
        \/ k \in Listed /\ m.result # "Success"

LEMMA ServingTells ==
  ASSUME KeptByKind, SettingsTyped, Local(row["bookmarks"]), Serves, NEW h, h = Head(toServer)
  PROVE  /\ online /\ toServer # <<>> /\ toServer' = Tail(toServer)
         /\ UNCHANGED <<cache, tainted, pending, online>>
         /\ Local(row'["bookmarks"])
         /\ \A k \in Own :
              \/ ~IsUpdate(h, k) /\ Truth(k)' = Truth(k) /\ UNCHANGED toClient
              \/ \E m \in Answers : toClient' = Append(toClient, m) /\ Tells(h, k, m)
<1>1. Served /\ online
  BY RequestsAreServed DEF SettingsTyped, Served, WireTyped
<1>2. Local(row'["bookmarks"])
  <2>1. "bookmarks" \in Own
    BY KindsDiffer
  <2> QED BY <2>1, ServingIsHandling, OtherKindsAreLeft
<1>3. ASSUME NEW k \in Own, h.kind = k
      PROVE  \/ ~IsUpdate(h, k) /\ Truth(k)' = Truth(k) /\ UNCHANGED toClient
             \/ \E m \in Answers : toClient' = Append(toClient, m) /\ Tells(h, k, m)
  <2>1. Handled(h, k)
    BY <1>3, ServingIsHandling
  <2> QED BY <1>1, <2>1 DEF Handled, Reply, Tells
<1>4. ASSUME NEW k \in Own, h.kind # k
      PROVE  \/ ~IsUpdate(h, k) /\ Truth(k)' = Truth(k) /\ UNCHANGED toClient
             \/ \E m \in Answers : toClient' = Append(toClient, m) /\ Tells(h, k, m)
  <2>1. ~IsUpdate(h, k)
    BY <1>4 DEF IsUpdate
  <2> QED BY <1>1, <1>4, <2>1, OtherKindsAreLeft DEF Reply, Tells
<1> QED BY <1>1, <1>2, <1>3, <1>4 DEF Served, client

\* A queue with an element more, by its places.
LEMMA AppendedPlaces ==
  ASSUME NEW S, NEW q \in Seq(S), NEW e \in S, NEW r, r = Append(q, e)
  PROVE  /\ Len(q) \in Nat /\ Len(r) = Len(q) + 1 /\ r[Len(r)] = e /\ Len(r) \in 1 .. Len(r)
         /\ \A i \in 1 .. Len(q) : i \in 1 .. Len(r) /\ i < Len(r) /\ r[i] = q[i]
         /\ \A i \in 1 .. Len(r) : i = Len(r) \/ (i \in 1 .. Len(q) /\ r[i] = q[i])
<1>1. Len(q) \in Nat /\ Len(r) = Len(q) + 1 /\ r[Len(q) + 1] = e /\ \A i \in 1 .. Len(q) : r[i] = q[i]
  BY Appended
<1> QED BY <1>1

LEMMA ServingKeepsTurns ==
  ASSUME KeptByKind, SettingsTyped, Local(row["bookmarks"]), Serves, NEW k \in Listed, InTurn(k)
  PROVE  InTurn(k)'
<1>1. PICK h : h = Head(toServer)
  OBVIOUS
<1>2. PICK q, r : q = toServer' /\ r = toClient'
  OBVIOUS
<1>3. k \in Own /\ UNCHANGED pending /\ toServer # <<>> /\ toServer' = Tail(toServer)
  BY <1>1, ServingTells, KindsDiffer DEF Listed
<1>4. /\ h = toServer[1] /\ 1 \in 1 .. Len(toServer)
      /\ \A i \in 1 .. Len(q) : i + 1 \in 1 .. Len(toServer) /\ 1 < i + 1 /\ q[i] = toServer[i + 1]
  BY <1>1, <1>2, <1>3, Taken DEF SettingsTyped, WireTyped
<1>5. \/ r = toClient
      \/ \E m \in Answers : /\ toClient' = Append(toClient, m)
                            /\ IsChange(m, k) => IsUpdate(h, k) /\ m.id = h.id
  BY <1>1, <1>2, <1>3, ServingTells DEF Tells, IsChange, IsCurrent
<1>6. \/ r = toClient
      \/ /\ Len(r) = Len(toClient) + 1 /\ Len(toClient) \in Nat
         /\ IsChange(r[Len(r)], k) => IsUpdate(h, k) /\ r[Len(r)].id = h.id
         /\ \A i \in 1 .. Len(r) : i = Len(r) \/ (i \in 1 .. Len(toClient) /\ r[i] = toClient[i])
  <2>1. CASE r = toClient
    BY <2>1
  <2>2. ASSUME NEW m \in Answers, toClient' = Append(toClient, m),
               IsChange(m, k) => IsUpdate(h, k) /\ m.id = h.id
        PROVE  /\ Len(r) = Len(toClient) + 1 /\ Len(toClient) \in Nat
               /\ IsChange(r[Len(r)], k) => IsUpdate(h, k) /\ r[Len(r)].id = h.id
               /\ \A i \in 1 .. Len(r) : i = Len(r) \/ (i \in 1 .. Len(toClient) /\ r[i] = toClient[i])
    BY <1>2, <2>2, AppendedPlaces DEF SettingsTyped, WireTyped
  <2> QED BY <1>5, <2>1, <2>2
<1>7. ASSUME NEW i \in 1 .. Len(r), NEW j \in 1 .. Len(r), i < j, IsChange(r[i], k), IsChange(r[j], k)
      PROVE  r[i].id < r[j].id
  BY <1>4, <1>6, <1>7 DEF InTurn
<1>8. ASSUME NEW i \in 1 .. Len(r), NEW j \in 1 .. Len(q), IsChange(r[i], k), IsUpdate(q[j], k)
      PROVE  r[i].id < q[j].id
  BY <1>4, <1>6, <1>8 DEF InTurn
<1>9. ASSUME NEW i \in 1 .. Len(q), NEW j \in 1 .. Len(q), i < j, IsUpdate(q[i], k), IsUpdate(q[j], k)
      PROVE  q[i].id < q[j].id
  BY <1>4, <1>9 DEF InTurn
<1>10. ASSUME NEW i \in 1 .. Len(r), IsChange(r[i], k) PROVE Awaited(k, r[i].id)
  BY <1>4, <1>6, <1>10 DEF InTurn
<1>11. ASSUME NEW j \in 1 .. Len(q), IsUpdate(q[j], k) PROVE Awaited(k, q[j].id)
  BY <1>4, <1>11 DEF InTurn
<1>12. \A id : Awaited(k, id)' <=> Awaited(k, id)
  BY <1>3 DEF Awaited
<1> QED BY <1>2, <1>7, <1>8, <1>9, <1>10, <1>11, <1>12 DEF InTurn

LEMMA ServingKeepsPromises ==
  ASSUME KeptByKind, SettingsTyped, LocalForms, Serves, NEW k \in Own, Promised(k), Recent(k)
  PROVE  Promised(k)' /\ Recent(k)'
<1>1. PICK h : h = Head(toServer)
  OBVIOUS
<1>2. PICK x, y, z : x = Meaning(k, Truth(k)) /\ y = Meaning(k, cache[k]) /\ z = Meaning(k, Truth(k)')
  OBVIOUS
<1>3. /\ online /\ toServer # <<>> /\ toServer' = Tail(toServer)
      /\ UNCHANGED <<cache, tainted, online>>
      /\ \/ ~IsUpdate(h, k) /\ Truth(k)' = Truth(k) /\ UNCHANGED toClient
         \/ \E m \in Answers : toClient' = Append(toClient, m) /\ Tells(h, k, m)
  BY <1>1, ServingTells DEF LocalForms
<1>4. Runs(k, toServer, x, y) => Runs(k, Tail(toServer), Reached(k, h, x), y)
  BY <1>1, <1>3, RunsOfTail DEF SettingsTyped, WireTyped
<1>5. /\ (\A j \in 1 .. Len(toServer') : ~IsUpdate(toServer'[j], k)) /\ ~IsUpdate(h, k)
      => \A j \in 1 .. Len(toServer) : ~IsUpdate(toServer[j], k)
  BY <1>1, <1>3, Taken DEF SettingsTyped, WireTyped
<1>6. CASE ~IsUpdate(h, k) /\ Truth(k)' = Truth(k) /\ UNCHANGED toClient
  <2>1. Reached(k, h, x) = x /\ z = x
    BY <1>2, <1>6 DEF Reached
  <2>2. Promised(k)'
    BY <1>2, <1>3, <1>4, <1>6, <2>1 DEF Promised, Coming, Failing
  <2>3. Recent(k)'
    BY <1>5, <1>6 DEF Recent
  <2> QED BY <2>2, <2>3
<1>7. ASSUME NEW m \in Answers, toClient' = Append(toClient, m), Tells(h, k, m)
      PROVE  Promised(k)' /\ Recent(k)'
  <2>1. PICK r : r = toClient'
    OBVIOUS
  <2>2. /\ Len(toClient) \in Nat /\ Len(r) = Len(toClient) + 1 /\ r[Len(r)] = m /\ Len(r) \in 1 .. Len(r)
        /\ \A i \in 1 .. Len(toClient) : i \in 1 .. Len(r) /\ i < Len(r) /\ r[i] = toClient[i]
        /\ \A i \in 1 .. Len(r) : i = Len(r) \/ (i \in 1 .. Len(toClient) /\ r[i] = toClient[i])
    BY <1>7, <2>1, AppendedPlaces DEF SettingsTyped, WireTyped
  <2>3. (Coming(k) => Coming(k)') /\ (Failing(k) => Failing(k)')
    BY <2>1, <2>2 DEF Coming, Failing
  <2>4. IsCurrent(m, k) => Coming(k)'
    BY <2>1, <2>2 DEF Coming
  <2>5. IsChange(m, k) /\ m.result # "Success" => Failing(k)'
    BY <2>1, <2>2 DEF Failing
  <2>6. Promised(k)'
    <3>1. CASE m.kind # k /\ ~IsUpdate(h, k) /\ Truth(k)' = Truth(k)
      <4>1. Reached(k, h, x) = x /\ z = x
        BY <1>2, <3>1 DEF Reached
      <4> QED BY <1>2, <1>3, <1>4, <2>3, <4>1 DEF Promised
    <3>2. CASE IsCurrent(m, k)
      BY <2>4, <3>2 DEF Promised
    <3>3. CASE IsUpdate(h, k) /\ z = Effect(k, h.u, x)
      <4>1. Reached(k, h, x) = z
        BY <3>3 DEF Reached
      <4> QED BY <1>2, <1>3, <1>4, <2>3, <4>1 DEF Promised
    <3>4. CASE IsChange(m, k) /\ k \in Listed /\ m.result # "Success"
      BY <2>5, <3>4 DEF Promised
    <3> QED BY <1>2, <1>7, <3>1, <3>2, <3>3, <3>4 DEF Tells
  <2>7. ASSUME NEW i \in 1 .. Len(r), IsCurrent(r[i], k), r[i].sure,
               \A j \in 1 .. Len(toServer') : ~IsUpdate(toServer'[j], k),
               \A j \in 1 .. Len(r) : i < j => r[j].kind # k
        PROVE  Meaning(k, r[i].value) = z
    <3>1. CASE i = Len(r)
      <4>1. IsCurrent(m, k) /\ m.sure
        BY <2>2, <2>7, <3>1
      <4> QED BY <1>2, <1>7, <2>2, <3>1, <4>1 DEF Tells, IsCurrent, IsChange
    <3>2. CASE i \in 1 .. Len(toClient) /\ r[i] = toClient[i]
      <4>1. m.kind # k
        BY <2>2, <2>7, <3>2
      <4>2. ~IsUpdate(h, k) /\ z = x
        BY <1>2, <1>7, <4>1 DEF Tells, IsCurrent, IsChange
      <4>3. \A j \in 1 .. Len(toServer) : ~IsUpdate(toServer[j], k)
        BY <1>5, <2>7, <4>2
      <4>4. \A j \in 1 .. Len(toClient) : i < j => toClient[j].kind # k
        BY <2>2, <2>7
      <4> QED BY <1>2, <2>7, <3>2, <4>2, <4>3, <4>4 DEF Recent
    <3> QED BY <2>2, <3>1, <3>2
  <2>8. Recent(k)'
    BY <1>2, <2>1, <2>7 DEF Recent
  <2> QED BY <2>6, <2>8
<1> QED BY <1>3, <1>6, <1>7

LEMMA ServingIsUnderWay ==
  ASSUME KeptByKind, SettingsTyped, UnderWay, Serves
  PROVE  UnderWay'
<1>1. \A k \in Listed : InTurn(k)'
  BY ServingKeepsTurns DEF UnderWay, LocalForms
<1>2. \A k \in Own : Promised(k)' /\ Recent(k)'
  BY ServingKeepsPromises DEF UnderWay
<1>3. LocalForms'
  <2>1. PICK h : h = Head(toServer)
    OBVIOUS
  <2>2. /\ UNCHANGED <<cache, tainted>> /\ Local(row'["bookmarks"])
        /\ \/ UNCHANGED toClient
           \/ \E m \in Answers : toClient' = Append(toClient, m) /\ Tells(h, "bookmarks", m)
    BY <2>1, ServingTells, KindsDiffer DEF UnderWay, LocalForms
  <2>3. CASE UNCHANGED toClient
    BY <2>2, <2>3 DEF UnderWay, LocalForms
  <2>4. ASSUME NEW m \in Answers, toClient' = Append(toClient, m), Tells(h, "bookmarks", m)
        PROVE  LocalForms'
    <3>1. PICK r : r = toClient'
      OBVIOUS
    <3>2. /\ r[Len(r)] = m
          /\ \A i \in 1 .. Len(r) : i = Len(r) \/ (i \in 1 .. Len(toClient) /\ r[i] = toClient[i])
      BY <2>4, <3>1, AppendedPlaces DEF SettingsTyped, WireTyped
    <3>3. IsCurrent(m, "bookmarks") => Local(m.value)
      BY <2>4 DEF Tells, IsCurrent, IsChange
    <3>4. \A i \in 1 .. Len(r) : IsCurrent(r[i], "bookmarks") => Local(r[i].value)
      BY <3>2, <3>3 DEF UnderWay, LocalForms
    <3> QED BY <2>2, <3>1, <3>4 DEF UnderWay, LocalForms
  <2> QED BY <2>2, <2>3, <2>4
<1> QED BY <1>1, <1>2, <1>3 DEF UnderWay

\* What a request adds to what the server will hear, for a kind: none of its
\* updates, or one that the client shows already.
Adds(k) ==
  \/ /\ k \notin tainted' => k \notin tainted /\ cache'[k] = cache[k]
     /\ \/ UNCHANGED toServer
        \/ \E m \in WireRequests : toServer' = Append(toServer, m) /\ ~IsUpdate(m, k)
  \/ \E u \in UpdatesOf(k) :
       /\ k \notin tainted' => k \notin tainted /\ (k = "bookmarks" => LocalForm[u.of] = u.of)
       /\ cache'[k] = Optimistic(k, u)
       /\ \/ ~online /\ UNCHANGED toServer
          \/ \E m \in WireRequests : /\ toServer' = Append(toServer, m) /\ IsUpdate(m, k) /\ m.u = u
                                 /\ m.id = nextId[MapOf(k)] /\ Awaited(MapOf(k), m.id)'

LEMMA ModifyingAdds ==
  ASSUME SettingsTyped, NEW a \in studied, NEW u \in Updates, Modify(a, u), NEW k \in Own
  PROVE  Adds(k)
<1>1. PICK m, id : id = nextId[MapOf(a)] /\ m = [ask |-> "update", kind |-> a, id |-> id, u |-> u]
  OBVIOUS
<1>2. a \in Kinds /\ k \in Kinds /\ u \in UpdatesOf(a) /\ id \in Nat /\ m \in WireRequests
  <2>1. a \in Kinds /\ k \in Kinds /\ u \in UpdatesOf(a)
    BY DEF SettingsTyped, ServerTyped, Own, Modify
  <2>2. id \in Nat
    BY <1>1, <2>1, MapsByKind DEF SettingsTyped, ClientTyped
  <2> QED BY <1>1, <2>1, <2>2 DEF WireRequests
<1>3. /\ cache' = [cache EXCEPT ![a] = Optimistic(a, u)]
      /\ UNCHANGED toServer \/ toServer' = Append(toServer, m)
      /\ tainted \subseteq tainted'
  BY <1>1 DEF Modify, Send
<1>4. CASE a # k
  <2>1. cache'[k] = cache[k]
    BY <1>2, <1>3, <1>4, OneKindChanges DEF SettingsTyped, ClientTyped
  <2>2. ~IsUpdate(m, k)
    BY <1>1, <1>4 DEF IsUpdate
  <2> QED BY <1>2, <1>3, <2>1, <2>2 DEF Adds
<1>5. CASE a = k
  <2>1. cache'[k] = Optimistic(k, u)
    BY <1>2, <1>3, <1>5, OneKindChanges DEF SettingsTyped, ClientTyped
  <2>2. CASE Superfluous(k, u)
    <3>1. toServer' = toServer
      BY <1>5, <2>2 DEF Modify
    <3>2. /\ cache[k] # NoValue
          /\ \/ u.op = "add" /\ u.of \in cache[k]
             \/ u.op = "remove" /\ u.of \notin cache[k]
      BY <2>2 DEF Superfluous
    <3>3. k \notin Whole
      BY <1>2, <1>5, <3>2, UpdatesByKind
    <3>4. k # "calendar_id"
      BY <1>2, <1>5, UpdatesByKind
    <3>5. PICK v : v = cache[k]
      OBVIOUS
    <3>6. Applied(u, v) = v
      <4>1. v \in SUBSET Items
        BY <1>2, <3>2, <3>3, <3>4, <3>5, ValuesByKind DEF SettingsTyped, ClientTyped
      <4>2. CASE u.op = "add" /\ u.of \in v
        <5>1. Applied(u, v) = v \cup {u.of}
          BY <4>2, AppliedByOp
        <5> QED BY <4>1, <4>2, <5>1
      <4>3. CASE u.op = "remove" /\ u.of \notin v
        <5>1. Applied(u, v) = v \ {u.of}
          BY <4>3, AppliedByOp
        <5> QED BY <4>1, <4>3, <5>1
      <4> QED BY <3>2, <3>5, <4>2, <4>3
    <3>7. cache'[k] = cache[k]
      BY <2>1, <3>2, <3>5, <3>6 DEF Optimistic
    <3> QED BY <1>3, <3>1, <3>7 DEF Adds
  <2>3. CASE ~Superfluous(k, u)
    <3>1. Send(m)
      BY <1>1, <1>5, <2>3 DEF Modify
    <3>2. PICK p : p = [map |-> MapOf(k), id |-> id, kind |-> k, silent |-> Superfluous(k, u)]
      OBVIOUS
    <3>3. pending' = pending \cup {p} /\ p.map = MapOf(k) /\ p.id = id
      BY <1>1, <1>5, <3>2 DEF Modify, Track
    <3>4. Awaited(MapOf(k), m.id)' /\ IsUpdate(m, k) /\ m.u = u /\ m.id = nextId[MapOf(k)]
      BY <1>1, <1>5, <3>3 DEF Awaited, IsUpdate
    <3>5. k \notin tainted' => k \notin tainted /\ (k = "bookmarks" => LocalForm[u.of] = u.of)
      BY <1>5 DEF Modify
    <3>6. (~online /\ UNCHANGED toServer) \/ toServer' = Append(toServer, m)
      BY <3>1 DEF Send
    <3> QED BY <1>2, <1>5, <2>1, <3>4, <3>5, <3>6 DEF Adds
  <2> QED BY <2>2, <2>3
<1> QED BY <1>4, <1>5

LEMMA AskingAdds ==
  ASSUME SettingsTyped, Asks
  PROVE  /\ UNCHANGED <<row, mem, toClient, online>> /\ pending \subseteq pending'
         /\ \A k \in Own : Adds(k)
<1>1. UNCHANGED <<row, mem, toClient, online>>
  BY AskingIsTyped DEF SettingsTyped, server
<1>2. pending \subseteq pending'
  BY DEF Asks, Read, Modify, CalendarReset, SetLocationVisibility, Track, client
<1>3. ASSUME NEW m \in WireRequests, m.ask # "update", Send(m), UNCHANGED <<cache, tainted>>, NEW k \in Own
      PROVE  Adds(k)
  <2>1. ~IsUpdate(m, k)
    BY <1>3 DEF IsUpdate
  <2> QED BY <1>3, <2>1 DEF Adds, Send
<1>4. ASSUME NEW a \in studied, Read(a), NEW k \in Own PROVE Adds(k)
  <2>1. PICK m : m = [ask |-> "get", kind |-> a]
    OBVIOUS
  <2>2. m \in WireRequests /\ m.ask # "update"
    BY <2>1 DEF WireRequests, SettingsTyped, ServerTyped
  <2> QED BY <1>3, <1>4, <2>1, <2>2 DEF Read, client
<1>5. ASSUME CalendarReset, NEW k \in Own PROVE Adds(k)
  <2>1. PICK m : m = [ask |-> "reset_id", kind |-> "calendar_id"]
    OBVIOUS
  <2>2. m \in WireRequests /\ m.ask # "update"
    BY <2>1 DEF WireRequests
  <2> QED BY <1>3, <1>5, <2>1, <2>2 DEF CalendarReset, client
<1>6. ASSUME SetLocationVisibility, NEW k \in Own PROVE Adds(k)
  <2>1. PICK m : m = [ask |-> "bulk", kind |-> "visibility", id |-> nextId["visibility"]]
    OBVIOUS
  <2>2. m \in WireRequests /\ m.ask # "update"
    <3>1. nextId["visibility"] \in Nat
      BY MapsByKind DEF SettingsTyped, ClientTyped
    <3> QED BY <2>1, <3>1 DEF WireRequests
  <2> QED BY <1>3, <1>6, <2>1, <2>2 DEF SetLocationVisibility
<1> QED BY <1>1, <1>2, <1>4, <1>5, <1>6, ModifyingAdds DEF Asks

LEMMA AskingKeepsTurns ==
  ASSUME SettingsTyped, Asks, NEW k \in Listed, InTurn(k)
  PROVE  InTurn(k)'
<1>1. PICK q : q = toServer'
  OBVIOUS
<1>2. UNCHANGED toClient /\ k \in Own /\ MapOf(k) = k /\ Adds(k)
  BY AskingAdds, MapsByKind DEF Listed, Own, Kinds, Shared, Access, Whole
<1>3. \A id : Awaited(k, id) => Awaited(k, id)'
  BY AskingAdds DEF Awaited
<1>4. \A id : Awaited(k, id) => id < nextId[k]
  BY DEF Awaited, SettingsTyped, ClientTyped
<1>5. CASE UNCHANGED toServer
  BY <1>2, <1>3, <1>5 DEF InTurn
<1>6. ASSUME NEW m \in WireRequests, toServer' = Append(toServer, m),
             IsUpdate(m, k) => m.id = nextId[k] /\ Awaited(k, m.id)'
      PROVE  InTurn(k)'
  <2>1. /\ Len(toServer) \in Nat /\ Len(q) = Len(toServer) + 1 /\ q[Len(q)] = m
        /\ \A i \in 1 .. Len(q) : i = Len(q) \/ (i \in 1 .. Len(toServer) /\ q[i] = toServer[i])
    BY <1>1, <1>6, AppendedPlaces DEF SettingsTyped, WireTyped
  <2>2. ASSUME NEW i \in 1 .. Len(toClient), NEW j \in 1 .. Len(q), IsChange(toClient[i], k), IsUpdate(q[j], k)
        PROVE  toClient[i].id < q[j].id
    BY <1>4, <1>6, <2>1, <2>2 DEF InTurn
  <2>3. ASSUME NEW i \in 1 .. Len(q), NEW j \in 1 .. Len(q), i < j, IsUpdate(q[i], k), IsUpdate(q[j], k)
        PROVE  q[i].id < q[j].id
    BY <1>4, <1>6, <2>1, <2>3 DEF InTurn
  <2>4. ASSUME NEW j \in 1 .. Len(q), IsUpdate(q[j], k) PROVE Awaited(k, q[j].id)'
    BY <1>1, <1>3, <1>6, <2>1, <2>4 DEF InTurn
  <2> QED BY <1>1, <1>2, <1>3, <2>2, <2>3, <2>4 DEF InTurn
<1> QED BY <1>2, <1>5, <1>6 DEF Adds

LEMMA AskingKeepsPromises ==
  ASSUME SettingsTyped, LocalForms, Asks, NEW k \in Own, Promised(k), Recent(k)
  PROVE  Promised(k)' /\ Recent(k)'
<1>1. /\ UNCHANGED toClient /\ Truth(k)' = Truth(k) /\ UNCHANGED online /\ Adds(k) /\ k \in Kinds
      /\ (Coming(k) <=> Coming(k)') /\ (Failing(k) <=> Failing(k)')
  BY AskingAdds DEF Truth, Coming, Failing, Own
<1>2. PICK x, y : x = Meaning(k, Truth(k)) /\ y = Meaning(k, cache[k])
  OBVIOUS
<1>3. ASSUME NEW m \in WireRequests, toServer' = Append(toServer, m)
      PROVE  /\ Recent(k)'
             /\ Runs(k, toServer, x, y) => Runs(k, toServer', x, Reached(k, m, y))
  <2>1. \A j \in 1 .. Len(toServer) : j \in 1 .. Len(toServer') /\ toServer'[j] = toServer[j]
    BY <1>3, AppendedPlaces DEF SettingsTyped, WireTyped
  <2>2. Recent(k)'
    BY <1>1, <2>1 DEF Recent
  <2>3. Runs(k, toServer, x, y) => Runs(k, toServer', x, Reached(k, m, y))
    BY <1>3, RunsOfAppended DEF SettingsTyped, WireTyped
  <2> QED BY <2>2, <2>3
<1>4. CASE UNCHANGED toServer
  <2>1. Recent(k)'
    BY <1>1, <1>4 DEF Recent
  <2>2. online /\ k \notin tainted' => k \notin tainted /\ cache'[k] = cache[k]
    <3>1. \A m \in WireRequests : toServer' # Append(toServer, m)
      <4>1. ASSUME NEW m \in WireRequests, toServer' = Append(toServer, m) PROVE FALSE
        <5>1. Len(toServer') = Len(toServer) + 1 /\ Len(toServer) \in Nat
          BY <4>1, AppendedPlaces DEF SettingsTyped, WireTyped
        <5> QED BY <1>4, <5>1
      <4> QED BY <4>1
    <3> QED BY <1>1, <3>1 DEF Adds
  <2>3. Promised(k)'
    BY <1>1, <1>4, <2>2 DEF Promised
  <2> QED BY <2>1, <2>3
<1>5. ASSUME NEW m \in WireRequests, toServer' = Append(toServer, m), ~IsUpdate(m, k),
             k \notin tainted' => k \notin tainted /\ cache'[k] = cache[k]
      PROVE  Promised(k)' /\ Recent(k)'
  <2>1. Reached(k, m, y) = y
    BY <1>5 DEF Reached
  <2> QED BY <1>1, <1>2, <1>3, <1>5, <2>1 DEF Promised
<1>6. ASSUME NEW m \in WireRequests, toServer' = Append(toServer, m), IsUpdate(m, k), m.u \in UpdatesOf(k),
             k \notin tainted' => k \notin tainted /\ (k = "bookmarks" => LocalForm[m.u.of] = m.u.of),
             cache'[k] = Optimistic(k, m.u)
      PROVE  Promised(k)' /\ Recent(k)'
  <2>1. ASSUME k \notin tainted', cache'[k] # NoValue
        PROVE  /\ k \notin tainted /\ cache[k] # NoValue
               /\ Meaning(k, cache'[k]) = Reached(k, m, y)
    <3>1. PICK u, v : u = m.u /\ v = cache[k]
      OBVIOUS
    <3>2. v # NoValue /\ cache'[k] = Applied(u, v)
      BY <1>6, <2>1, <3>1 DEF Optimistic
    <3>3. u \in UpdatesOf(k) /\ k \notin tainted /\ (k = "bookmarks" => Local(v) /\ LocalForm[u.of] = u.of)
      BY <1>6, <2>1, <3>1, <3>2 DEF LocalForms
    <3>4. Meaning(k, Applied(u, v)) = Effect(k, u, Meaning(k, v))
      BY <3>3, ClientEffect
    <3> QED BY <1>2, <1>6, <3>1, <3>2, <3>3, <3>4 DEF Reached
  <2> QED BY <1>1, <1>2, <1>3, <1>6, <2>1 DEF Promised
<1> QED BY <1>1, <1>4, <1>5, <1>6 DEF Adds

LEMMA AskingIsUnderWay ==
  ASSUME SettingsTyped, UnderWay, Asks
  PROVE  UnderWay'
<1>1. \A k \in Listed : InTurn(k)'
  BY AskingKeepsTurns DEF UnderWay
<1>2. \A k \in Own : Promised(k)' /\ Recent(k)'
  BY AskingKeepsPromises DEF UnderWay
<1>3. LocalForms'
  <2>1. "bookmarks" \in Own /\ UNCHANGED <<row, toClient>> /\ Adds("bookmarks")
    BY AskingAdds, KindsDiffer
  <2>2. ASSUME "bookmarks" \notin tainted', cache'["bookmarks"] # NoValue
        PROVE  Local(cache'["bookmarks"])
    <3>1. CASE "bookmarks" \notin tainted /\ cache'["bookmarks"] = cache["bookmarks"]
      BY <2>2, <3>1 DEF UnderWay, LocalForms
    <3>2. ASSUME NEW u \in UpdatesOf("bookmarks"), "bookmarks" \notin tainted, LocalForm[u.of] = u.of,
                 cache'["bookmarks"] = Optimistic("bookmarks", u)
          PROVE  Local(cache'["bookmarks"])
      <4>1. PICK v : v = cache["bookmarks"]
        OBVIOUS
      <4>2. v # NoValue /\ cache'["bookmarks"] = Applied(u, v)
        BY <2>2, <3>2, <4>1 DEF Optimistic
      <4>3. Local(v)
        BY <3>2, <4>1, <4>2 DEF UnderWay, LocalForms
      <4> QED BY <2>1, <3>2, <4>2, <4>3, ClientEffect
    <3> QED BY <2>1, <2>2, <3>1, <3>2 DEF Adds
  <2> QED BY <2>1, <2>2 DEF UnderWay, LocalForms
<1> QED BY <1>1, <1>2, <1>3 DEF UnderWay

\* The client hears one message, and forgets the ids it was waiting for.
LEMMA HearingKeepsTurns ==
  ASSUME SettingsTyped, HearCurrent \/ HearChange, NEW k \in Listed, InTurn(k)
  PROVE  InTurn(k)'
<1>1. PICK h, r : h = Head(toClient) /\ r = toClient'
  OBVIOUS
<1>2. toClient # <<>> /\ toClient' = Tail(toClient) /\ UNCHANGED toServer
  BY DEF HearCurrent, HearChange, Hearing
<1>3. /\ h = toClient[1] /\ 1 \in 1 .. Len(toClient) /\ h \in Answers
      /\ \A i \in 1 .. Len(r) : i + 1 \in 1 .. Len(toClient) /\ 1 < i + 1 /\ r[i] = toClient[i + 1]
  BY <1>1, <1>2, Taken DEF SettingsTyped, WireTyped
<1>4. \A i \in 1 .. Len(toClient) : IsChange(toClient[i], k) => toClient[i].id \in Nat
  BY AnswersSay DEF SettingsTyped, WireTyped, IsChange
<1>5. \A j \in 1 .. Len(toServer) : IsUpdate(toServer[j], k) => toServer[j].id \in Nat
  BY RequestsSay DEF SettingsTyped, WireTyped, IsUpdate
<1>6. ASSUME NEW id \in Nat, Awaited(k, id), IsChange(h, k) => h.id < id
      PROVE  Awaited(k, id)'
  <2>1. CASE HearCurrent
    BY <1>6, <2>1 DEF HearCurrent, Awaited
  <2>2. CASE HearChange
    <3>1. pending' = pending \ {p \in pending : p.map = h.map /\ p.id = h.id} /\ h.tell = "change"
      BY <1>1, <2>2 DEF HearChange, Hearing
    <3>2. ASSUME h.map = k PROVE IsChange(h, k)
      <4>1. h.kind \in Kinds => h.map = MapOf(h.kind)
        BY <1>3, <3>1, AnswersSay
      <4>2. h.kind \notin Kinds => h.map = "access"
        BY <1>3, <3>1, AnswersSay
      <4>3. k # "access" /\ k \in Kinds
        BY DEF Listed, Kinds
      <4>4. h.kind = k
        BY <3>2, <4>1, <4>2, <4>3, MapsByKind
      <4> QED BY <3>1, <4>4 DEF IsChange
    <3>3. h.id \in Nat
      BY <1>3, <3>1, AnswersSay
    <3> QED BY <1>6, <3>1, <3>2, <3>3 DEF Awaited
  <2> QED BY <2>1, <2>2
<1>7. ASSUME NEW i \in 1 .. Len(r), NEW j \in 1 .. Len(r), i < j, IsChange(r[i], k), IsChange(r[j], k)
      PROVE  r[i].id < r[j].id
  <2>1. i + 1 < j + 1
    BY <1>7
  <2> QED BY <1>3, <1>7, <2>1 DEF InTurn
<1>8. ASSUME NEW i \in 1 .. Len(r), NEW j \in 1 .. Len(toServer), IsChange(r[i], k), IsUpdate(toServer[j], k)
      PROVE  r[i].id < toServer[j].id
  BY <1>3, <1>8 DEF InTurn
<1>9. ASSUME NEW i \in 1 .. Len(r), IsChange(r[i], k) PROVE Awaited(k, r[i].id)'
  <2>1. Awaited(k, r[i].id) /\ r[i].id \in Nat
    BY <1>3, <1>4, <1>9 DEF InTurn
  <2>2. IsChange(h, k) => h.id < r[i].id
    BY <1>3, <1>9 DEF InTurn
  <2> QED BY <1>6, <2>1, <2>2
<1>10. ASSUME NEW j \in 1 .. Len(toServer), IsUpdate(toServer[j], k) PROVE Awaited(k, toServer[j].id)'
  <2>1. Awaited(k, toServer[j].id) /\ toServer[j].id \in Nat
    BY <1>5, <1>10 DEF InTurn
  <2>2. IsChange(h, k) => h.id < toServer[j].id
    BY <1>3, <1>10 DEF InTurn
  <2>3. PICK id : id = toServer[j].id
    OBVIOUS
  <2>4. Awaited(k, id)'
    BY <1>6, <2>1, <2>2, <2>3
  <2> QED BY <1>2, <2>3, <2>4 DEF Awaited
<1>11. \A i \in 1 .. Len(toServer), j \in 1 .. Len(toServer) :
         i < j /\ IsUpdate(toServer[i], k) /\ IsUpdate(toServer[j], k) => toServer[i].id < toServer[j].id
  BY DEF InTurn
<1> QED BY <1>1, <1>2, <1>7, <1>8, <1>9, <1>10, <1>11 DEF InTurn

LEMMA HearingKeepsRecent ==
  ASSUME SettingsTyped, HearCurrent \/ HearChange, NEW k \in Own, Recent(k)
  PROVE  Recent(k)' /\ Truth(k)' = Truth(k)
<1>1. /\ toClient # <<>> /\ toClient' = Tail(toClient) /\ UNCHANGED <<toServer, row, mem>>
  BY DEF HearCurrent, HearChange, Hearing, server
<1>2. PICK r, q, x : r = toClient' /\ q = toServer /\ x = Truth(k)
  OBVIOUS
<1>3. /\ \A i \in 1 .. Len(r) : i + 1 \in 1 .. Len(toClient) /\ r[i] = toClient[i + 1]
      /\ \A i \in 1 .. Len(toClient) : i = 1 \/ (i - 1 \in 1 .. Len(r) /\ r[i - 1] = toClient[i])
  BY <1>1, <1>2, Taken DEF SettingsTyped, WireTyped
<1>4. ASSUME NEW i \in 1 .. Len(r), IsCurrent(r[i], k), r[i].sure,
             \A j \in 1 .. Len(q) : ~IsUpdate(q[j], k),
             \A j \in 1 .. Len(r) : i < j => r[j].kind # k
      PROVE  Meaning(k, r[i].value) = Meaning(k, x)
  <2>1. i + 1 \in 1 .. Len(toClient) /\ r[i] = toClient[i + 1]
    BY <1>3
  <2>2. ASSUME NEW j \in 1 .. Len(toClient), i + 1 < j PROVE toClient[j].kind # k
    <3>1. j - 1 \in 1 .. Len(r) /\ r[j - 1] = toClient[j] /\ i < j - 1
      BY <1>3, <2>2
    <3> QED BY <1>4, <3>1
  <2> QED BY <1>2, <1>4, <2>1, <2>2 DEF Recent
<1>5. Truth(k)' = Truth(k)
  BY <1>1 DEF Truth
<1> QED BY <1>1, <1>2, <1>4, <1>5 DEF Recent

\* What is left to hear after the first message.
LEMMA StillToHear ==
  ASSUME SettingsTyped, toClient # <<>>, toClient' = Tail(toClient), NEW h, h = Head(toClient), NEW k
  PROVE  /\ Coming(k) /\ ~IsCurrent(h, k) => Coming(k)'
         /\ Failing(k) /\ ~(IsChange(h, k) /\ h.result # "Success") => Failing(k)'
         /\ \A i \in 2 .. Len(toClient) : IsCurrent(toClient[i], k) => Coming(k)'
<1>1. PICK r : r = toClient'
  OBVIOUS
<1>2. /\ h = toClient[1] /\ Len(toClient) \in Nat
      /\ \A i \in 1 .. Len(toClient) : i = 1 \/ (i - 1 \in 1 .. Len(r) /\ r[i - 1] = toClient[i])
  BY <1>1, Taken DEF SettingsTyped, WireTyped
<1>3. ASSUME NEW i \in 1 .. Len(toClient), i # 1
      PROVE  /\ IsCurrent(toClient[i], k) => Coming(k)'
             /\ IsChange(toClient[i], k) /\ toClient[i].result # "Success" => Failing(k)'
  <2>1. i - 1 \in 1 .. Len(r) /\ r[i - 1] = toClient[i]
    BY <1>2, <1>3
  <2> QED BY <1>1, <2>1 DEF Coming, Failing
<1>4. Coming(k) /\ ~IsCurrent(h, k) => Coming(k)'
  BY <1>2, <1>3 DEF Coming
<1>5. Failing(k) /\ ~(IsChange(h, k) /\ h.result # "Success") => Failing(k)'
  BY <1>2, <1>3 DEF Failing
<1>6. \A i \in 2 .. Len(toClient) : i \in 1 .. Len(toClient) /\ i # 1
  BY <1>2
<1> QED BY <1>3, <1>4, <1>5, <1>6

LEMMA HearingAValue ==
  ASSUME SettingsTyped, HearCurrent, NEW k \in Own, Promised(k), Recent(k)
  PROVE  Promised(k)'
<1>1. PICK h : h = Head(toClient)
  OBVIOUS
<1>2. /\ toClient # <<>> /\ toClient' = Tail(toClient) /\ UNCHANGED <<toServer, online>>
      /\ h.tell = "current" /\ cache' = [cache EXCEPT ![h.kind] = h.value]
      /\ tainted' = IF Overtaken(h.kind) \/ ~h.sure THEN tainted \cup {h.kind} ELSE tainted \ {h.kind}
  BY <1>1 DEF HearCurrent, Hearing
<1>3. /\ h \in Answers /\ h = toClient[1] /\ 1 \in 1 .. Len(toClient) /\ Len(toClient) \in Nat
  BY <1>1, <1>2, Taken DEF SettingsTyped, WireTyped
<1>4. h.kind \in Kinds /\ Truth(k)' = Truth(k)
  BY <1>2, <1>3, AnswersSay, HearingKeepsRecent
<1>5. cache'[h.kind] = h.value /\ \A a \in Kinds \ {h.kind} : cache'[a] = cache[a]
  BY <1>2, <1>4, OneKindChanges DEF SettingsTyped, ClientTyped
<1>6. CASE h.kind # k
  <2>1. cache'[k] = cache[k] /\ (k \notin tainted' => k \notin tainted)
    BY <1>2, <1>5, <1>6 DEF Own
  <2>2. ~IsCurrent(h, k) /\ ~IsChange(h, k)
    BY <1>6 DEF IsCurrent, IsChange
  <2> QED BY <1>1, <1>2, <1>4, <2>1, <2>2, StillToHear DEF Promised
<1>7. CASE h.kind = k
  <2>1. SUFFICES ASSUME k \notin tainted', ~Coming(k)'
                 PROVE  Runs(k, toServer, Meaning(k, Truth(k)), Meaning(k, cache'[k]))
    BY <1>2, <1>4 DEF Promised
  <2>2. ~Overtaken(k) /\ h.sure
    BY <1>2, <1>7, <2>1
  <2>3. \A j \in 1 .. Len(toServer) : ~IsUpdate(toServer[j], k)
    BY <2>2 DEF Overtaken, IsUpdate
  <2>4. ASSUME NEW j \in 1 .. Len(toClient), 1 < j PROVE toClient[j].kind # k
    <3>1. j \in 2 .. Len(toClient)
      BY <1>3, <2>4
    <3>2. ~IsCurrent(toClient[j], k)
      BY <1>1, <1>2, <2>1, <3>1, StillToHear
    <3>3. ~(toClient[j].tell = "change" /\ toClient[j].kind = k)
      BY <2>2, <3>1 DEF Overtaken
    <3>4. toClient[j].tell \in {"current", "change"}
      BY AnswersSay DEF SettingsTyped, WireTyped
    <3> QED BY <3>2, <3>3, <3>4 DEF IsCurrent
  <2>5. Meaning(k, h.value) = Meaning(k, Truth(k))
    <3>1. IsCurrent(toClient[1], k) /\ toClient[1].sure /\ toClient[1].value = h.value
      BY <1>2, <1>3, <1>7, <2>2 DEF IsCurrent
    <3> QED BY <1>3, <2>3, <2>4, <3>1 DEF Recent
  <2>6. PICK x : x = Meaning(k, Truth(k))
    OBVIOUS
  <2>7. Runs(k, toServer, x, x)
    BY <2>3, RunsOfNothing DEF SettingsTyped, WireTyped
  <2> QED BY <1>5, <1>7, <2>5, <2>6, <2>7
<1> QED BY <1>6, <1>7

LEMMA HearingAnAnswer ==
  ASSUME SettingsTyped, HearChange, NEW k \in Own, Promised(k), k \in Listed => InTurn(k)
  PROVE  /\ Promised(k)'
         /\ k \notin tainted' /\ cache'[k] # NoValue => k \notin tainted /\ cache'[k] = cache[k]
<1>1. PICK h : h = Head(toClient)
  OBVIOUS
<1>2. PICK ours : ours = {p \in pending : p.map = h.map /\ p.id = h.id}
  OBVIOUS
<1>3. PICK failed : failed = IF h.result = "Success" THEN {} ELSE {p.kind : p \in ours}
  OBVIOUS
<1>4. PICK emptied : emptied = UNION {Forgets(a) : a \in failed}
  OBVIOUS
<1>5. /\ toClient # <<>> /\ toClient' = Tail(toClient) /\ UNCHANGED <<toServer, online, row, mem>>
      /\ h.tell = "change"
      /\ cache' = [a \in Kinds |-> IF a \in emptied THEN NoValue ELSE cache[a]]
      /\ tainted' = (tainted \cup (failed \cap {"bookmarks", "calendar_locations"})) \ emptied
  BY <1>1, <1>2, <1>3, <1>4, Zenon DEF HearChange, Hearing, server
<1>6. h \in Answers /\ h = toClient[1] /\ 1 \in 1 .. Len(toClient)
  BY <1>1, <1>5, Taken DEF SettingsTyped, WireTyped
<1>7. k \in Kinds /\ Truth(k)' = Truth(k)
  BY <1>5 DEF Own, Truth
<1>8. ASSUME k \notin tainted', cache'[k] # NoValue
      PROVE  /\ k \notin tainted /\ cache'[k] = cache[k] /\ k \notin emptied
             /\ k \in failed => k \notin {"bookmarks", "calendar_locations"}
  BY <1>5, <1>7, <1>8
<1>9. ASSUME k \in Listed, IsChange(h, k), h.result # "Success", k \notin tainted', cache'[k] # NoValue
      PROVE  FALSE
  <2>1. Awaited(k, h.id)
    BY <1>6, <1>9 DEF InTurn
  <2>2. PICK p \in pending : p.map = k /\ p.id = h.id
    BY <2>1 DEF Awaited
  <2>3. h.map = k /\ k \notin Access
    BY <1>6, <1>7, <1>9, AnswersSay, MapsByKind DEF IsChange, Listed, Access
  <2>4. p.kind = k
    <3>1. p.kind \in Kinds \cup {"visibility"} /\ MapOf(p.kind) = k
      BY <2>2 DEF SettingsTyped, ClientTyped
    <3>2. k # "access" /\ k # "visibility"
      BY <1>9 DEF Listed
    <3> QED BY <3>1, <3>2, MapsByKind
  <2>5. k \in failed
    BY <1>2, <1>3, <1>9, <2>2, <2>3, <2>4
  <2>6. k = "public_keys"
    BY <1>8, <1>9, <2>5 DEF Listed
  <2>7. Forgets(k) = {k}
    BY <2>6 DEF Forgets, Access
  <2> QED BY <1>4, <1>8, <1>9, <2>5, <2>7
<1>10. ~IsCurrent(h, k)
  BY <1>5 DEF IsCurrent
<1>11. Promised(k)'
  <2>1. SUFFICES ASSUME online, k \notin tainted', cache'[k] # NoValue, ~Coming(k)',
                        ~(k \in Listed /\ Failing(k)')
                 PROVE  Runs(k, toServer, Meaning(k, Truth(k)), Meaning(k, cache'[k]))
    BY <1>5, <1>7 DEF Promised
  <2>2. ~Coming(k)
    BY <1>1, <1>5, <1>10, <2>1, StillToHear
  <2>3. ~(k \in Listed /\ Failing(k))
    BY <1>1, <1>5, <1>9, <2>1, StillToHear
  <2>4. k \notin tainted /\ cache'[k] = cache[k]
    BY <1>8, <2>1
  <2> QED BY <2>1, <2>2, <2>3, <2>4 DEF Promised
<1> QED BY <1>8, <1>11

LEMMA HearingIsUnderWay ==
  ASSUME SettingsTyped, UnderWay, HearCurrent \/ HearChange
  PROVE  UnderWay'
<1>1. \A k \in Listed : InTurn(k)'
  BY HearingKeepsTurns DEF UnderWay
<1>2. \A k \in Own : Promised(k)' /\ Recent(k)'
  BY HearingAValue, HearingAnAnswer, HearingKeepsRecent DEF UnderWay
<1>3. "bookmarks" \in Own /\ "bookmarks" \in Kinds
  BY KindsDiffer
<1>4. toClient # <<>> /\ toClient' = Tail(toClient) /\ UNCHANGED row
  BY DEF HearCurrent, HearChange, Hearing, server
<1>5. PICK h, r : h = Head(toClient) /\ r = toClient'
  OBVIOUS
<1>6. /\ h \in Answers /\ h = toClient[1] /\ 1 \in 1 .. Len(toClient)
      /\ \A i \in 1 .. Len(r) : i + 1 \in 1 .. Len(toClient) /\ r[i] = toClient[i + 1]
  BY <1>4, <1>5, Taken DEF SettingsTyped, WireTyped
<1>7. \A i \in 1 .. Len(r) : IsCurrent(r[i], "bookmarks") => Local(r[i].value)
  BY <1>6 DEF UnderWay, LocalForms
<1>8. ASSUME "bookmarks" \notin tainted', cache'["bookmarks"] # NoValue
      PROVE  Local(cache'["bookmarks"])
  <2>1. CASE HearChange
    <3>1. "bookmarks" \notin tainted /\ cache'["bookmarks"] = cache["bookmarks"]
      BY <1>3, <1>8, <2>1, HearingAnAnswer DEF UnderWay
    <3> QED BY <1>8, <3>1 DEF UnderWay, LocalForms
  <2>2. CASE HearCurrent
    <3>1. /\ h.tell = "current" /\ cache' = [cache EXCEPT ![h.kind] = h.value]
          /\ h.kind # "bookmarks" => "bookmarks" \notin tainted
      BY <1>5, <1>8, <2>2 DEF HearCurrent, Hearing
    <3>2. h.kind \in Kinds
      BY <1>6, <3>1, AnswersSay
    <3>3. cache'[h.kind] = h.value /\ \A a \in Kinds \ {h.kind} : cache'[a] = cache[a]
      BY <3>1, <3>2, OneKindChanges DEF SettingsTyped, ClientTyped
    <3>4. CASE h.kind = "bookmarks"
      BY <1>6, <3>1, <3>3, <3>4 DEF UnderWay, LocalForms, IsCurrent
    <3>5. CASE h.kind # "bookmarks"
      <4>1. cache'["bookmarks"] = cache["bookmarks"]
        BY <1>3, <3>3, <3>5
      <4> QED BY <1>8, <3>1, <3>5, <4>1 DEF UnderWay, LocalForms
    <3> QED BY <3>4, <3>5
  <2> QED BY <2>1, <2>2
<1>9. LocalForms'
  BY <1>4, <1>5, <1>7, <1>8 DEF UnderWay, LocalForms
<1> QED BY <1>1, <1>2, <1>9 DEF UnderWay

\* The other steps say nothing of a player's own settings, or end the session.
LEMMA ElsewhereIsQuiet ==
  ASSUME SettingsTyped, [SettingsNext]_settingsVars,
         ~Asks, ~Serves, ~HearCurrent, ~HearChange
  PROVE  \/ /\ toServer' = <<>> /\ toClient' = <<>>
            /\ UNCHANGED <<cache, tainted>> \/ \A k \in Kinds : cache'[k] = NoValue
            /\ online' => \A k \in Kinds : cache'[k] = NoValue
         \/ /\ UNCHANGED <<cache, tainted, pending, toServer, online>>
            /\ \/ UNCHANGED toClient
               \/ online /\ \E m \in Answers : m.kind = "announcements" /\ toClient' = Append(toClient, m)
<1> DEFINE Ended == /\ toServer' = <<>> /\ toClient' = <<>>
                    /\ UNCHANGED <<cache, tainted>> \/ \A k \in Kinds : cache'[k] = NoValue
                    /\ online' => \A k \in Kinds : cache'[k] = NoValue
<1> DEFINE Quiet == /\ UNCHANGED <<cache, tainted, pending, toServer, online>>
                    /\ \/ UNCHANGED toClient
                       \/ online /\ \E m \in Answers : m.kind = "announcements" /\ toClient' = Append(toClient, m)
<1>1. CASE \E w \in writing : StoreAnnouncements(w)
  <2>1. PICK w \in writing : StoreAnnouncements(w)
    BY <1>1
  <2>2. UNCHANGED <<client, toServer, online>>
    BY <2>1 DEF StoreAnnouncements
  <2>3. PICK result \in Results : IF w.who = "player" THEN Reply(Change("announcements", w.id, result))
                                  ELSE UNCHANGED toClient
    BY <2>1, Zenon DEF StoreAnnouncements
  <2>4. PICK m : m = Change("announcements", w.id, result)
    OBVIOUS
  <2>5. m \in Answers /\ m.kind = "announcements"
    <3>1. w.id \in Nat /\ "announcements" \in Kinds
      BY KindsDiffer DEF SettingsTyped, ServerTyped, Writers
    <3> QED BY <2>4, <3>1, AnswersAreTyped DEF Change
  <2> QED BY <2>2, <2>3, <2>4, <2>5 DEF Reply, client
<1>2. CASE \/ \E u \in Updates : OtherAdministrator(u)
           \/ \E e \in Items : Expire(e)
           \/ UNCHANGED settingsVars
  BY <1>2 DEF OtherAdministrator, Expire, settingsVars, client
<1>3. CASE IdleTimeout \/ Restart
  <2>1. ~online /\ UNCHANGED <<client, toServer, toClient, online>>
    BY <1>3 DEF IdleTimeout, Restart, Reload
  <2> QED BY <2>1 DEF SettingsTyped, WireTyped, client
<1>4. CASE LoseConnection
  BY <1>4 DEF LoseConnection, client
<1>5. CASE NewSession
  BY <1>5 DEF NewSession, SettingsTyped, WireTyped
<1> QED BY <1>1, <1>2, <1>3, <1>4, <1>5 DEF SettingsNext, Serves, Asks

LEMMA ElsewhereIsUnderWay ==
  ASSUME KeptByKind, SettingsTyped, UnderWay, [SettingsNext]_settingsVars,
         ~Asks, ~Serves, ~HearCurrent, ~HearChange
  PROVE  UnderWay'
<1>1. "bookmarks" \in Own /\ "bookmarks" \in Kinds /\ Listed \subseteq Own /\ "announcements" \notin Own
  BY KindsDiffer DEF Listed
<1>2. /\ \A k \in Own : row'[k] = row[k]
      /\ online => \A k \in Own : Truth(k)' = Truth(k)
  BY OthersStoreTyped DEF SettingsTyped, Truth
<1>3. CASE /\ toServer' = <<>> /\ toClient' = <<>>
           /\ UNCHANGED <<cache, tainted>> \/ \A k \in Kinds : cache'[k] = NoValue
           /\ online' => \A k \in Kinds : cache'[k] = NoValue
  <2>1. \A k \in Listed : InTurn(k)'
    BY <1>3 DEF InTurn
  <2>2. LocalForms'
    BY <1>1, <1>2, <1>3 DEF UnderWay, LocalForms
  <2>3. \A k \in Own : Promised(k)' /\ Recent(k)'
    BY <1>3 DEF Promised, Recent, Own
  <2> QED BY <2>1, <2>2, <2>3 DEF UnderWay
<1>4. CASE UNCHANGED <<cache, tainted, pending, toServer, online, toClient>>
  <2>1. \A k \in Listed : InTurn(k)'
    BY <1>4 DEF InTurn, Awaited, UnderWay
  <2>2. LocalForms'
    BY <1>1, <1>2, <1>4 DEF UnderWay, LocalForms
  <2>3. ASSUME NEW k \in Own PROVE Promised(k)' /\ Recent(k)'
    <3>1. Promised(k)'
      BY <1>2, <1>4 DEF Promised, Coming, Failing, UnderWay
    <3>2. CASE online
      BY <1>2, <1>4, <3>1, <3>2 DEF Recent, UnderWay
    <3>3. CASE ~online
      BY <1>4, <3>1, <3>3 DEF Recent, SettingsTyped, WireTyped
    <3> QED BY <3>1, <3>2, <3>3
  <2> QED BY <2>1, <2>2, <2>3 DEF UnderWay
<1>5. ASSUME UNCHANGED <<cache, tainted, pending, toServer, online>>, online,
             NEW m \in Answers, m.kind = "announcements", toClient' = Append(toClient, m)
      PROVE  UnderWay'
  <2>1. PICK r : r = toClient'
    OBVIOUS
  <2>2. /\ Len(toClient) \in Nat /\ Len(r) = Len(toClient) + 1 /\ r[Len(r)] = m
        /\ \A i \in 1 .. Len(toClient) : i \in 1 .. Len(r) /\ i < Len(r) /\ r[i] = toClient[i]
        /\ \A i \in 1 .. Len(r) : i = Len(r) \/ (i \in 1 .. Len(toClient) /\ r[i] = toClient[i])
    BY <1>5, <2>1, AppendedPlaces DEF SettingsTyped, WireTyped
  <2>3. ASSUME NEW k \in Own
        PROVE  /\ m.kind # k /\ ~IsCurrent(m, k) /\ ~IsChange(m, k)
               /\ \A i \in 1 .. Len(r) : IsCurrent(r[i], k) \/ IsChange(r[i], k)
                     => i \in 1 .. Len(toClient) /\ r[i] = toClient[i]
    <3>1. m.kind # k /\ ~IsCurrent(m, k) /\ ~IsChange(m, k)
      BY <1>1, <1>5 DEF IsCurrent, IsChange
    <3> QED BY <2>2, <3>1
  <2>4. ASSUME NEW k \in Listed PROVE InTurn(k)'
    <3>1. k \in Own /\ InTurn(k)
      BY <1>1 DEF UnderWay
    <3>2. ASSUME NEW i \in 1 .. Len(r), NEW j \in 1 .. Len(r), i < j, IsChange(r[i], k), IsChange(r[j], k)
          PROVE  r[i].id < r[j].id
      BY <2>3, <3>1, <3>2 DEF InTurn
    <3>3. \A i \in 1 .. Len(r), j \in 1 .. Len(toServer) :
            IsChange(r[i], k) /\ IsUpdate(toServer[j], k) => r[i].id < toServer[j].id
      BY <2>3, <3>1 DEF InTurn
    <3>4. \A i \in 1 .. Len(r) : IsChange(r[i], k) => Awaited(k, r[i].id)
      BY <2>3, <3>1 DEF InTurn
    <3> QED BY <1>5, <2>1, <3>1, <3>2, <3>3, <3>4 DEF InTurn, Awaited
  <2>5. LocalForms'
    <3>1. \A i \in 1 .. Len(r) : IsCurrent(r[i], "bookmarks") => Local(r[i].value)
      BY <1>1, <2>3 DEF UnderWay, LocalForms
    <3> QED BY <1>1, <1>2, <1>5, <2>1, <3>1 DEF UnderWay, LocalForms
  <2>6. ASSUME NEW k \in Own PROVE Promised(k)' /\ Recent(k)'
    <3>1. (Coming(k) => Coming(k)') /\ (Failing(k) => Failing(k)') /\ Promised(k) /\ Recent(k)
      BY <2>1, <2>2 DEF Coming, Failing, UnderWay
    <3>2. Promised(k)'
      BY <1>2, <1>5, <3>1 DEF Promised
    <3>3. PICK q, x : q = toServer /\ x = Truth(k)
      OBVIOUS
    <3>4. ASSUME NEW i \in 1 .. Len(r), IsCurrent(r[i], k), r[i].sure,
                 \A j \in 1 .. Len(q) : ~IsUpdate(q[j], k),
                 \A j \in 1 .. Len(r) : i < j => r[j].kind # k
          PROVE  Meaning(k, r[i].value) = Meaning(k, x)
      <4>1. i \in 1 .. Len(toClient) /\ r[i] = toClient[i]
        BY <2>3, <3>4
      <4>2. \A j \in 1 .. Len(toClient) : i < j => toClient[j].kind # k
        BY <2>2, <3>4
      <4> QED BY <3>1, <3>3, <3>4, <4>1, <4>2 DEF Recent
    <3>5. Recent(k)'
      BY <1>2, <1>5, <2>1, <3>3, <3>4 DEF Recent
    <3> QED BY <3>2, <3>5
  <2> QED BY <2>4, <2>5, <2>6 DEF UnderWay
<1> QED BY <1>3, <1>4, <1>5, ElsewhereIsQuiet

LEMMA StartIsUnderWay == SettingsInit => UnderWay
<1> SUFFICES ASSUME SettingsInit PROVE UnderWay
  OBVIOUS
<1>1. /\ toServer = <<>> /\ toClient = <<>> /\ (\A k \in Kinds : cache[k] = NoValue)
      /\ row["bookmarks"] = {}
  BY KindsDiffer DEF SettingsInit, FirstOf, Whole, Access
<1>2. "bookmarks" \in Kinds /\ Own \subseteq Kinds
  BY KindsDiffer
<1> QED BY <1>1, <1>2 DEF UnderWay, InTurn, LocalForms, Local, Promised, Recent

LEMMA UnderWayStep ==
  ASSUME KeptByKind, SettingsTyped, UnderWay, [SettingsNext]_settingsVars
  PROVE  UnderWay'
BY ServingIsUnderWay, AskingIsUnderWay, HearingIsUnderWay, ElsewhereIsUnderWay

\* With nothing under way, what was promised is kept.
LEMMA SettledIsRight ==
  ASSUME KeptByKind, SettingsTyped, UnderWay
  PROVE  CacheIsRight
<1>1. ASSUME NEW k \in Own, Settled(k), k \notin tainted, cache[k] # NoValue
      PROVE  Meaning(k, cache[k]) = Meaning(k, Truth(k))
  <2>1. ~Coming(k) /\ ~Failing(k) /\ online
    BY <1>1 DEF Settled, Coming, Failing, IsCurrent, IsChange
  <2>2. \A j \in 1 .. Len(toServer) : ~IsUpdate(toServer[j], k)
    BY <1>1 DEF Settled, IsUpdate
  <2>3. PICK x, y : x = Meaning(k, Truth(k)) /\ y = Meaning(k, cache[k])
    OBVIOUS
  <2>4. Runs(k, toServer, x, y)
    BY <1>1, <2>1, <2>3 DEF UnderWay, Promised
  <2>5. x = y
    BY <2>2, <2>4, RunsToTheSame DEF SettingsTyped, WireTyped
  <2> QED BY <2>3, <2>5
<1> QED BY <1>1, SettingsHaveTypes DEF CacheIsRight

\* Once nothing about one of a player's own settings is under way, the client
\* shows what the server holds, but for the kinds that are tainted: after any
\* updates in flight, accepted, refused or failed, and any reads among them.
THEOREM TheCacheIsRight == SettingsSpec => []CacheIsRight
<1>1. /\ KeptByKind /\ StoredOnSuccess /\ SettingsTyped /\ UnderWay /\ [SettingsNext]_settingsVars
      => KeptByKind' /\ StoredOnSuccess' /\ SettingsTyped' /\ UnderWay'
  BY StoredStep, SettingsStayTyped, UnderWayStep
<1> QED BY <1>1, SettingsStartTyped, StartIsUnderWay, SettledIsRight, PTL DEF SettingsSpec

-----------------------------------------------------------------------------
(* Rows, tasks and requests of locations. *)

USE LocationRecordsAssumption DEF LocationRecordsAssumption

Counters == ops \in 0 .. MaxOps /\ errors \in 0 .. MaxErrors

\* TypeOK of rows, tasks and requests, with what the channels hold.
RecordTypes ==
  /\ visibility \in [Places -> Visibility \cup {"absent"}]
  /\ acl \in [Places -> Rules] /\ memory \in [Places -> Rules]
  /\ phase \in [Places -> {"idle", "loaded", "read", "running"}]
  /\ seen \in [Places -> Visibility] /\ missed \subseteq Places
  /\ inbox \in [Places -> Seq(Places)]
  /\ \A l \in Places : Len(inbox[l]) <= Lag
  /\ bulk \in [People -> [ids : SUBSET Places, rules : Rules]]
  /\ notices \in [People -> SUBSET Places]

\* What a selector admits is a set of rows; a player's own selects his own.
LEMMA Scopes ==
  ASSUME NEW s \in Selectors
  PROVE  /\ ScopeOf(s) \subseteq Rows
         /\ s.of \in People => \A l \in ScopeOf(s) : l.owner = s.of
<1>1. CASE s \in [of : People, which : {"all"}]
  BY <1>1 DEF ScopeOf, Owned
<1>2. CASE s \in [of : People, which : {"descriptors"}, ds : SUBSET Descriptors]
  BY <1>2 DEF ScopeOf, Exactly, Owned
<1>3. CASE s \in [of : People, which : {"kind"}, kind : {KindOf[d] : d \in Descriptors}]
  BY <1>3 DEF ScopeOf, OfKind, Owned
<1>4. CASE s = [of |-> Nobody, which |-> "server"]
  BY <1>4 DEF ScopeOf
<1> QED BY <1>1, <1>2, <1>3, <1>4 DEF Selectors

LEMMA RecordsInit == Init => RecordTypes /\ Counters
<1>1. NoBulk \in [ids : SUBSET Places, rules : Rules]
  BY DEF NoBulk
<1> QED BY <1>1 DEF Init, RecordTypes, Counters, Visibility

LEMMA CountersStep ==
  ASSUME Counters, [Next]_vars
  PROVE  Counters'
<1>1. \/ UNCHANGED ops
      \/ Operation
  BY DEF Next, Requests, Locations, Searches, vars, SelectForRules, WriteRules, ChangeVisibility,
     Broadcast, CutShort, Create, LoadRules, ReadVisibility, Subscribe, HearVisibility, SetRules, Delete, Stop,
     SearchHere, SendHere, SearchFar, SendFar, ReceiveFar, TakeFar, ExpireFar, LoseFar, Done
<1>2. \/ UNCHANGED errors
      \/ Fails
  BY DEF Next, Requests, Locations, Searches, vars, Works, SelectForRules, WriteRules, ChangeVisibility,
     Broadcast, CutShort, Create, LoadRules, ReadVisibility, Subscribe, HearVisibility, SetRules, Delete, Stop,
     SearchHere, SendHere, SearchFar, SendFar, ReceiveFar, TakeFar, ExpireFar, LoseFar, Done
<1> QED BY <1>1, <1>2 DEF Counters, Operation, Fails

\* id waits in the channel q.
Holds(q, id) == \E i \in 1 .. Len(q) : q[i] = id

\* What a broadcast channel holds once an id has been put into it: that id, and
\* what it held before, but for the oldest when it was full.
LEMMA ChannelTakes ==
  ASSUME NEW q \in Seq(Places), Len(q) <= Lag, NEW id \in Places
  PROVE  /\ Received(q, id) \in Seq(Places) /\ Len(Received(q, id)) <= Lag
         /\ Holds(Received(q, id), id)
         /\ \A e \in Places : Holds(q, e) =>
              Holds(Received(q, id), e) \/ (Len(q) = Lag /\ Head(q) = e)
<1>1. CASE Len(q) < Lag
  <2>1. PICK r : r = Append(q, id)
    OBVIOUS
  <2>2. /\ Len(q) \in Nat /\ r \in Seq(Places) /\ Len(r) = Len(q) + 1
        /\ \A i \in 1 .. Len(q) : r[i] = q[i]
        /\ r[Len(q) + 1] = id
    BY <2>1, Appended
  <2>3. Len(q) + 1 \in 1 .. Len(r) /\ \A i \in 1 .. Len(q) : i \in 1 .. Len(r)
    BY <2>2
  <2>4. Holds(r, id) /\ \A e \in Places : Holds(q, e) => Holds(r, e)
    BY <2>2, <2>3 DEF Holds
  <2>5. Len(r) <= Lag
    BY <1>1, <2>2
  <2> QED BY <1>1, <2>1, <2>2, <2>4, <2>5 DEF Received
<1>2. CASE Len(q) = Lag
  <2>1. PICK t : t = Tail(q)
    OBVIOUS
  <2>2. q # <<>>
    BY <1>2
  <2>3. /\ t \in Seq(Places) /\ Len(t) = Len(q) - 1 /\ Len(q) \in Nat \ {0} /\ Head(q) = q[1]
        /\ \A i \in 1 .. Len(q) : i = 1 \/ (i - 1 \in 1 .. Len(t) /\ t[i - 1] = q[i])
    BY <2>1, <2>2, Taken
  <2>4. PICK r : r = Append(t, id)
    OBVIOUS
  <2>5. /\ Len(t) \in Nat /\ r \in Seq(Places) /\ Len(r) = Len(t) + 1
        /\ \A i \in 1 .. Len(t) : r[i] = t[i]
        /\ r[Len(t) + 1] = id
    BY <2>3, <2>4, Appended
  <2>6. Len(t) + 1 \in 1 .. Len(r) /\ \A i \in 1 .. Len(t) : i \in 1 .. Len(r)
    BY <2>5
  <2>7. Holds(r, id) /\ \A e \in Places : Holds(t, e) => Holds(r, e)
    BY <2>5, <2>6 DEF Holds
  <2>8. \A e \in Places : Holds(q, e) => Holds(t, e) \/ Head(q) = e
    BY <2>3 DEF Holds
  <2>9. Len(r) <= Lag /\ r = Received(q, id)
    BY <1>2, <2>1, <2>3, <2>4, <2>5 DEF Received
  <2> QED BY <1>2, <2>5, <2>7, <2>8, <2>9
<1> QED BY <1>1, <1>2

LEMMA RequestTypes ==
  ASSUME RecordTypes, Requests
  PROVE  RecordTypes'
<1> USE DEF RecordTypes
<1>1. ASSUME NEW p \in People, NEW s \in Selectors, NEW rules \in Rules, SelectForRules(p, s, rules)
      PROVE  RecordTypes'
  <2>1. ScopeOf(s) \in SUBSET Places
    BY Scopes DEF Rows
  <2>2. bulk' \in [People -> [ids : SUBSET Places, rules : Rules]]
    BY <1>1, <2>1 DEF SelectForRules
  <2> QED BY <1>1, <2>2 DEF SelectForRules, rows, tasks
<1>2. ASSUME NEW p \in People, NEW s \in Selectors, NEW v \in Wanted, ChangeVisibility(p, s, v)
      PROVE  RecordTypes'
  <2>1. Changed(s, v) \in SUBSET Places
    BY Scopes DEF Rows, Changed
  <2>2. notices' \in [People -> SUBSET Places]
    BY <1>2, <2>1 DEF ChangeVisibility
  <2>3. visibility' \in [Places -> Visibility \cup {"absent"}]
    <3>1. v \in Visibility
      BY <1>2
    <3> QED BY <1>2, <3>1 DEF ChangeVisibility
  <2> QED BY <1>2, <2>2, <2>3 DEF ChangeVisibility, tasks
<1>3. ASSUME NEW p \in People, WriteRules(p) PROVE RecordTypes'
  <2>1. NoBulk \in [ids : SUBSET Places, rules : Rules]
    BY DEF NoBulk
  <2>2. bulk' \in [People -> [ids : SUBSET Places, rules : Rules]]
    BY <1>3, <2>1 DEF WriteRules
  <2>3. acl' \in [Places -> Rules]
    BY <1>3 DEF WriteRules
  <2> QED BY <1>3, <2>2, <2>3 DEF WriteRules, tasks
<1>4. ASSUME NEW p \in People, NEW id \in Places, Broadcast(p, id) PROVE RecordTypes'
  <2>1. notices' \in [People -> SUBSET Places]
    BY <1>4 DEF Broadcast
  <2>2. missed' \subseteq Places
    BY <1>4 DEF Broadcast, Deaf
  <2>3. ASSUME NEW l \in Places
        PROVE  Received(inbox[l], id) \in Seq(Places) /\ Len(Received(inbox[l], id)) <= Lag
    <3>1. inbox[l] \in Seq(Places) /\ Len(inbox[l]) <= Lag
      OBVIOUS
    <3> QED BY <3>1, ChannelTakes
  <2>4. inbox' = [l \in Places |-> IF phase[l] = "running" THEN Received(inbox[l], id) ELSE inbox[l]]
    BY <1>4 DEF Broadcast
  <2>5. inbox' \in [Places -> Seq(Places)] /\ \A l \in Places : Len(inbox'[l]) <= Lag
    BY <2>3, <2>4
  <2> QED BY <1>4, <2>1, <2>2, <2>5 DEF Broadcast, rows
<1>5. ASSUME NEW p \in People, CutShort(p) PROVE RecordTypes'
  BY <1>5 DEF CutShort, rows
<1> QED BY <1>1, <1>2, <1>3, <1>4, <1>5 DEF Requests

LEMMA LocationTypes ==
  ASSUME RecordTypes, Locations
  PROVE  RecordTypes'
<1> USE DEF RecordTypes
<1>1. ASSUME NEW l \in Places, Create(l) \/ LoadRules(l) \/ Subscribe(l) \/ Delete(l)
      PROVE  RecordTypes'
  <2>1. CASE Create(l)
    <3>1. \/ UNCHANGED rows
          \/ /\ visibility' = [visibility EXCEPT ![l] = "Private"]
             /\ acl' = [acl EXCEPT ![l] = OwnRules]
      BY <2>1 DEF Create
    <3>2. visibility' \in [Places -> Visibility \cup {"absent"}] /\ acl' \in [Places -> Rules]
      <4>1. CASE UNCHANGED rows
        BY <4>1 DEF rows
      <4>2. CASE /\ visibility' = [visibility EXCEPT ![l] = "Private"]
                 /\ acl' = [acl EXCEPT ![l] = OwnRules]
        BY <4>2 DEF Visibility
      <4> QED BY <3>1, <4>1, <4>2
    <3> QED BY <2>1, <3>2 DEF Create, tasks, requests
  <2>2. CASE LoadRules(l)
    BY <2>2 DEF LoadRules, rows, requests
  <2>3. CASE Subscribe(l)
    BY <2>3 DEF Subscribe, rows, requests
  <2>4. CASE Delete(l)
    BY <2>4 DEF Delete, tasks, requests
  <2> QED BY <1>1, <2>1, <2>2, <2>3, <2>4
<1>2. ASSUME NEW l \in Places, ReadVisibility(l) PROVE RecordTypes'
  <2>1. seen' \in [Places -> Visibility]
    BY <1>2 DEF ReadVisibility, Rows
  <2>2. phase' \in [Places -> {"idle", "loaded", "read", "running"}]
    BY <1>2 DEF ReadVisibility
  <2> QED BY <1>2, <2>1, <2>2 DEF ReadVisibility, rows, requests
<1>3. ASSUME NEW l \in Places, HearVisibility(l) PROVE RecordTypes'
  <2>1. inbox[l] \in Seq(Places) /\ inbox[l] # <<>> /\ Len(inbox[l]) <= Lag
    BY <1>3 DEF HearVisibility
  <2>2. Tail(inbox[l]) \in Seq(Places) /\ Len(Tail(inbox[l])) <= Lag
    BY <2>1, Taken
  <2>3. inbox' \in [Places -> Seq(Places)] /\ \A k \in Places : Len(inbox'[k]) <= Lag
    BY <1>3, <2>2 DEF HearVisibility
  <2>4. seen' \in [Places -> Visibility] /\ missed' \subseteq Places
    BY <1>3 DEF HearVisibility, Rows
  <2> QED BY <1>3, <2>3, <2>4 DEF HearVisibility, rows, requests
<1>4. ASSUME NEW l \in Places, NEW rules \in Rules, SetRules(l, rules) PROVE RecordTypes'
  <2>1. acl' \in [Places -> Rules]
    BY <1>4 DEF SetRules
  <2> QED BY <1>4, <2>1 DEF SetRules, requests
<1>5. ASSUME NEW l \in Places, Stop(l) PROVE RecordTypes'
  <2>1. inbox' \in [Places -> Seq(Places)] /\ \A k \in Places : Len(inbox'[k]) <= Lag
    BY <1>5 DEF Stop
  <2> QED BY <1>5, <2>1 DEF Stop, rows, requests
<1> QED BY <1>1, <1>2, <1>3, <1>4, <1>5 DEF Locations

\* Searches only read.
LEMMA SearchesOnlyRead == Searches => UNCHANGED <<rows, tasks, requests>>
BY DEF Searches, SearchHere, SendHere, SearchFar, SendFar, ReceiveFar, TakeFar, ExpireFar, LoseFar, Done,
   rows, tasks, requests

LEMMA RecordsStep ==
  ASSUME RecordTypes, [Next]_vars
  PROVE  RecordTypes'
<1>1. CASE UNCHANGED <<rows, tasks, requests>>
  BY <1>1 DEF RecordTypes, rows, tasks, requests
<1> QED BY <1>1, RequestTypes, LocationTypes, SearchesOnlyRead DEF Next, vars

-----------------------------------------------------------------------------
(* Bulk changes. *)

\* What a player has selected or changed and not yet finished with is his own,
\* unless he administers the server: his selectors reach no further, and
\* nobody else's request touches what he has selected.
THEOREM NobodyChangesAnothers == Spec => []ChangesOnlyOwn
<1>1. Init => RecordTypes /\ ChangesOnlyOwn
  BY RecordsInit DEF Init, ChangesOnlyOwn, NoBulk
<1>2. RecordTypes /\ ChangesOnlyOwn /\ [Next]_vars => ChangesOnlyOwn'
  <2> SUFFICES ASSUME RecordTypes, ChangesOnlyOwn, [Next]_vars,
                      NEW p \in People \ Administrators,
                      NEW l \in bulk'[p].ids \cup notices'[p]
               PROVE  l.owner = p
    BY DEF ChangesOnlyOwn
  <2>1. ASSUME l \in bulk[p].ids \cup notices[p] PROVE l.owner = p
    BY <2>1 DEF ChangesOnlyOwn
  <2>2. ASSUME NEW q \in People, NEW s \in Selectors, Allowed(q, s),
               \/ bulk'[p].ids \cup notices'[p] \subseteq bulk[p].ids \cup notices[p]
               \/ q = p /\ l \in bulk[p].ids \cup notices[p] \cup ScopeOf(s)
        PROVE  l.owner = p
    BY <2>1, <2>2, Scopes DEF Allowed
  <2>3. ASSUME NEW q \in People, NEW s \in Selectors, NEW rules \in Rules, SelectForRules(q, s, rules)
        PROVE  l.owner = p
    <3>1. bulk'[p] = IF p = q THEN [ids |-> ScopeOf(s), rules |-> rules] ELSE bulk[p]
      BY <2>3 DEF SelectForRules, RecordTypes
    <3>2. notices' = notices /\ Allowed(q, s)
      BY <2>3 DEF SelectForRules
    <3> QED BY <2>2, <3>1, <3>2
  <2>4. ASSUME NEW q \in People, NEW s \in Selectors, NEW v \in Wanted, ChangeVisibility(q, s, v)
        PROVE  l.owner = p
    <3>1. notices'[p] = notices[p] \/ (p = q /\ notices'[p] = Changed(s, v))
      BY <2>4 DEF ChangeVisibility, RecordTypes
    <3>2. bulk' = bulk /\ Allowed(q, s) /\ Changed(s, v) \subseteq ScopeOf(s)
      BY <2>4 DEF ChangeVisibility, Changed
    <3> QED BY <2>2, <3>1, <3>2
  <2>5. ASSUME NEW q \in People, WriteRules(q) PROVE l.owner = p
    <3>1. bulk'[p] \in {bulk[p], NoBulk} /\ notices' = notices
      BY <2>5 DEF WriteRules, RecordTypes
    <3> QED BY <2>1, <3>1 DEF NoBulk
  <2>6. ASSUME NEW q \in People, NEW id \in Places, Broadcast(q, id) PROVE l.owner = p
    <3>1. notices'[p] \subseteq notices[p] /\ bulk' = bulk
      BY <2>6 DEF Broadcast, RecordTypes
    <3> QED BY <2>1, <3>1
  <2>9. ASSUME NEW q \in People, CutShort(q) PROVE l.owner = p
    <3>1. notices'[p] \subseteq notices[p] /\ bulk' = bulk
      BY <2>9 DEF CutShort, RecordTypes
    <3> QED BY <2>1, <3>1
  <2>7. CASE UNCHANGED requests
    BY <2>1, <2>7 DEF requests
  <2>8. Locations \/ Searches \/ UNCHANGED vars => UNCHANGED requests
    BY SearchesOnlyRead DEF Locations, Create, LoadRules, ReadVisibility, Subscribe, HearVisibility,
       Delete, Stop, SetRules, vars
  <2> QED BY <2>3, <2>4, <2>5, <2>6, <2>7, <2>8, <2>9 DEF Next, Requests
<1>3. RecordTypes /\ [Next]_vars => RecordTypes'
  BY RecordsStep
<1> QED BY <1>1, <1>2, <1>3, PTL DEF Spec

-----------------------------------------------------------------------------
(* The visibility that a task goes by. *)

\* News of l is in the task's channel, or will be put there.
OnItsWay(l) ==
  \/ \E p \in People : l \in notices[p]
  \/ Holds(inbox[l], l)

\* VisibilityIsHeard already of tasks that have read and not yet subscribed,
\* which is what they subscribe with.
Heard ==
  \A l \in Rows : phase[l] \in {"read", "running"} =>
      seen[l] = visibility[l] \/ l \in missed \/ OnItsWay(l)

\* A step that leaves a location's row, task and news alone.
LEMMA NothingNew ==
  ASSUME Heard, NEW l \in Rows, phase'[l] \in {"read", "running"},
         phase[l] \in {"read", "running"},
         seen'[l] = seen[l], visibility'[l] = visibility[l],
         l \in missed => l \in missed',
         \A p \in People : l \in notices[p] => l \in notices'[p],
         inbox'[l] = inbox[l]
  PROVE  seen'[l] = visibility'[l] \/ l \in missed' \/ OnItsWay(l)'
BY DEF Heard, OnItsWay

LEMMA HeardOfRequests ==
  ASSUME RecordTypes, Heard, Requests
  PROVE  Heard'
<1> SUFFICES ASSUME NEW l \in Rows', phase'[l] \in {"read", "running"}
             PROVE  seen'[l] = visibility'[l] \/ l \in missed' \/ OnItsWay(l)'
  BY DEF Heard
<1>0. l \in Places /\ visibility'[l] # "absent"
  BY DEF Rows
<1>1. ASSUME NEW p \in People, NEW s \in Selectors, NEW rules \in Rules, SelectForRules(p, s, rules)
      PROVE  seen'[l] = visibility'[l] \/ l \in missed' \/ OnItsWay(l)'
  BY <1>0, <1>1, NothingNew DEF SelectForRules, rows, tasks, Rows
<1>2. ASSUME NEW p \in People, WriteRules(p)
      PROVE  seen'[l] = visibility'[l] \/ l \in missed' \/ OnItsWay(l)'
  BY <1>0, <1>2, NothingNew DEF WriteRules, tasks, Rows
<1>3. ASSUME NEW p \in People, NEW s \in Selectors, NEW v \in Wanted, ChangeVisibility(p, s, v)
      PROVE  seen'[l] = visibility'[l] \/ l \in missed' \/ OnItsWay(l)'
  <2>0. CASE UNCHANGED <<visibility, notices>>
    BY <1>0, <1>3, <2>0, NothingNew DEF ChangeVisibility, tasks, Rows
  <2> SUFFICES ASSUME ~UNCHANGED <<visibility, notices>>
               PROVE  seen'[l] = visibility'[l] \/ l \in missed' \/ OnItsWay(l)'
    BY <2>0
  <2>1. notices' = [notices EXCEPT ![p] = Changed(s, v)] /\ notices[p] = {} /\ UNCHANGED tasks
    BY <1>3 DEF ChangeVisibility, Idle
  <2>2. visibility'[l] = IF l \in ScopeOf(s) THEN v ELSE visibility[l]
    BY <1>0, <1>3 DEF ChangeVisibility
  <2>3. CASE l \in Changed(s, v)
    <3>1. l \in notices'[p]
      BY <2>1, <2>3 DEF RecordTypes
    <3> QED BY <3>1 DEF OnItsWay
  <2>4. CASE l \notin Changed(s, v)
    <3>1. visibility'[l] = visibility[l] /\ l \in Rows
      BY <1>0, <2>2, <2>4, Scopes DEF Changed, Rows
    <3>2. \A q \in People : l \in notices[q] => l \in notices'[q]
      BY <2>1 DEF RecordTypes
    <3> QED BY <2>1, <3>1, <3>2, NothingNew DEF tasks
  <2> QED BY <2>3, <2>4
<1>4. ASSUME NEW p \in People, NEW id \in Places, Broadcast(p, id)
      PROVE  seen'[l] = visibility'[l] \/ l \in missed' \/ OnItsWay(l)'
  <2>1. /\ notices' = [notices EXCEPT ![p] = @ \ {id}]
        /\ missed' = missed \cup {k \in Places : Overrun(k, id)} \cup (Deaf \cap {id})
        /\ UNCHANGED <<visibility, phase, seen>>
    BY <1>4 DEF Broadcast, rows
  <2>2. l \in Rows
    BY <1>0, <2>1 DEF Rows
  <2>3. inbox'[l] = IF phase[l] = "running" THEN Received(inbox[l], id) ELSE inbox[l]
    BY <1>0, <1>4 DEF Broadcast
  <2>4. inbox[l] \in Seq(Places) /\ Len(inbox[l]) <= Lag
    BY <1>0 DEF RecordTypes
  <2>5. CASE phase[l] = "read"
    <3>1. CASE l = id
      BY <1>0, <2>1, <2>5, <3>1 DEF Deaf
    <3>2. CASE l # id
      <4>1. \A q \in People : l \in notices[q] => l \in notices'[q]
        BY <2>1, <3>2 DEF RecordTypes
      <4> QED BY <2>1, <2>2, <2>3, <2>5, <4>1, NothingNew
    <3> QED BY <3>1, <3>2
  <2>6. CASE phase[l] = "running"
    <3>1. /\ Holds(inbox'[l], id)
          /\ Holds(inbox[l], l) =>
               Holds(inbox'[l], l) \/ (Len(inbox[l]) = Lag /\ Head(inbox[l]) = l)
      <4>1. PICK q \in Seq(Places) : q = inbox[l] /\ Len(q) <= Lag
        BY <2>4
      <4>2. id \in Places
        BY <1>4
      <4>3. Holds(Received(q, id), id)
        BY <4>1, <4>2, ChannelTakes
      <4>4. Holds(q, l) =>
              Holds(Received(q, id), l) \/ (Len(q) = Lag /\ Head(q) = l)
        BY <1>0, <4>1, <4>2, ChannelTakes
      <4> QED BY <2>3, <2>6, <4>1, <4>3, <4>4
    <3>2. CASE l = id
      BY <3>1, <3>2 DEF OnItsWay
    <3>3. CASE l # id
      <4>1. \A r \in People : l \in notices[r] => l \in notices'[r]
        BY <2>1, <3>3 DEF RecordTypes
      <4>2. Len(inbox[l]) = Lag /\ Head(inbox[l]) = l => l \in missed'
        BY <1>0, <2>1, <2>6, <3>3 DEF Overrun
      <4>3. seen[l] = visibility[l] \/ l \in missed \/ OnItsWay(l)
        BY <2>2, <2>6 DEF Heard
      <4> QED BY <2>1, <3>1, <4>1, <4>2, <4>3 DEF OnItsWay
    <3> QED BY <3>2, <3>3
  <2> QED BY <2>1, <2>5, <2>6
<1>5. ASSUME NEW p \in People, CutShort(p)
      PROVE  seen'[l] = visibility'[l] \/ l \in missed' \/ OnItsWay(l)'
  <2>1. /\ notices' = [notices EXCEPT ![p] = {}]
        /\ missed' = missed \cup {k \in notices[p] : phase[k] \in {"read", "running"}}
        /\ UNCHANGED <<visibility, phase, seen, inbox>>
    BY <1>5 DEF CutShort, rows
  <2>2. CASE l \in notices[p]
    BY <2>1, <2>2
  <2>3. CASE l \notin notices[p]
    <3>1. \A q \in People : l \in notices[q] => l \in notices'[q]
      BY <2>1, <2>3 DEF RecordTypes
    <3>2. l \in Rows
      BY <1>0, <2>1 DEF Rows
    <3> QED BY <2>1, <3>1, <3>2, NothingNew
  <2> QED BY <2>2, <2>3
<1> QED BY <1>1, <1>2, <1>3, <1>4, <1>5 DEF Requests

LEMMA HeardByLocations ==
  ASSUME RecordTypes, Heard, Locations
  PROVE  Heard'
<1> SUFFICES ASSUME NEW l \in Rows', phase'[l] \in {"read", "running"}
             PROVE  seen'[l] = visibility'[l] \/ l \in missed' \/ OnItsWay(l)'
  BY DEF Heard
<1>0. l \in Places /\ visibility'[l] # "absent" /\ (UNCHANGED visibility => l \in Rows)
  BY DEF Rows
<1>1. ASSUME NEW k \in Places, Create(k)
      PROVE  seen'[l] = visibility'[l] \/ l \in missed' \/ OnItsWay(l)'
  <2>1. l # k
    BY <1>1 DEF Create, tasks
  <2>2. visibility'[l] = visibility[l]
    BY <1>0, <1>1, <2>1 DEF Create, rows, RecordTypes
  <2> QED BY <1>0, <1>1, <2>2, NothingNew DEF Create, tasks, requests, Rows
<1>2. ASSUME NEW k \in Places, LoadRules(k)
      PROVE  seen'[l] = visibility'[l] \/ l \in missed' \/ OnItsWay(l)'
  <2>1. l # k
    BY <1>2 DEF LoadRules, RecordTypes
  <2>2. phase'[l] = phase[l]
    BY <1>0, <1>2, <2>1 DEF LoadRules, RecordTypes
  <2> QED BY <1>0, <1>2, <2>2, NothingNew DEF LoadRules, rows, requests
<1>3. ASSUME NEW k \in Places, ReadVisibility(k)
      PROVE  seen'[l] = visibility'[l] \/ l \in missed' \/ OnItsWay(l)'
  <2>1. l \in Rows /\ UNCHANGED visibility
    BY <1>0, <1>3 DEF ReadVisibility, rows
  <2>2. CASE l = k
    BY <1>3, <2>1, <2>2 DEF ReadVisibility, RecordTypes
  <2>3. CASE l # k
    <3>1. phase'[l] = phase[l] /\ seen'[l] = seen[l] /\ (l \in missed => l \in missed')
      BY <1>3, <1>0, <2>3 DEF ReadVisibility, RecordTypes
    <3> QED BY <1>3, <2>1, <3>1, NothingNew DEF ReadVisibility, rows, requests
  <2> QED BY <2>2, <2>3
<1>4. ASSUME NEW k \in Places, Subscribe(k)
      PROVE  seen'[l] = visibility'[l] \/ l \in missed' \/ OnItsWay(l)'
  <2>1. phase[l] \in {"read", "running"}
    BY <1>0, <1>4 DEF Subscribe, RecordTypes
  <2> QED BY <1>0, <1>4, <2>1, NothingNew DEF Subscribe, rows, requests
<1>5. ASSUME NEW k \in Places, HearVisibility(k)
      PROVE  seen'[l] = visibility'[l] \/ l \in missed' \/ OnItsWay(l)'
  <2>1. /\ l \in Rows /\ UNCHANGED <<visibility, phase, notices>>
        /\ inbox' = [inbox EXCEPT ![k] = Tail(@)]
    BY <1>0, <1>5 DEF HearVisibility, rows, requests
  <2>2. CASE l # k
    <3>1. seen'[l] = seen[l] /\ (l \in missed => l \in missed') /\ inbox'[l] = inbox[l]
      BY <1>0, <1>5, <2>1, <2>2 DEF HearVisibility, RecordTypes
    <3> QED BY <2>1, <3>1, NothingNew
  <2>3. CASE l = k
    <3> DEFINE q == inbox[l]
    <3>1. q \in Seq(Places) /\ q # <<>> /\ inbox'[l] = Tail(q)
      BY <1>0, <1>5, <2>1, <2>3 DEF HearVisibility, RecordTypes
    <3>2. CASE Head(q) = l
      <4>1. \/ seen' = [seen EXCEPT ![k] = visibility[k]]
            \/ missed' = missed \cup {k}
        BY <1>5, <2>1, <2>3, <3>2 DEF HearVisibility, HeardOfItself
      <4> QED BY <1>0, <2>1, <2>3, <4>1 DEF RecordTypes
    <3>3. CASE Head(q) # l
      <4>1. UNCHANGED <<seen, missed>>
        BY <1>5, <2>3, <3>3 DEF HearVisibility, HeardOfItself
      <4>2. \A i \in 1 .. Len(q) : i = 1 \/ (i - 1 \in 1 .. Len(Tail(q)) /\ Tail(q)[i - 1] = q[i])
        BY <3>1, Taken
      <4>3. Head(q) = q[1]
        BY <3>1, Taken
      <4>4. Holds(q, l) => Holds(Tail(q), l)
        BY <3>1, <3>3, <4>2, <4>3 DEF Holds
      <4>5. OnItsWay(l) => OnItsWay(l)'
        BY <2>1, <3>1, <4>4 DEF OnItsWay
      <4>6. seen[l] = visibility[l] \/ l \in missed \/ OnItsWay(l)
        BY <2>1 DEF Heard
      <4> QED BY <2>1, <4>1, <4>5, <4>6
    <3> QED BY <3>2, <3>3
  <2> QED BY <2>2, <2>3
<1>6. ASSUME NEW k \in Places, NEW rules \in Rules, SetRules(k, rules)
      PROVE  seen'[l] = visibility'[l] \/ l \in missed' \/ OnItsWay(l)'
  BY <1>0, <1>6, NothingNew DEF SetRules, requests
<1>7. ASSUME NEW k \in Places, Delete(k)
      PROVE  seen'[l] = visibility'[l] \/ l \in missed' \/ OnItsWay(l)'
  <2>1. visibility'[l] = visibility[l]
    BY <1>0, <1>7 DEF Delete, RecordTypes
  <2> QED BY <1>0, <1>7, <2>1, NothingNew DEF Delete, tasks, requests, Rows
<1>8. ASSUME NEW k \in Places, Stop(k)
      PROVE  seen'[l] = visibility'[l] \/ l \in missed' \/ OnItsWay(l)'
  <2>1. l # k
    BY <1>0, <1>8 DEF Stop, RecordTypes
  <2>2. phase'[l] = phase[l] /\ inbox'[l] = inbox[l] /\ (l \in missed => l \in missed')
    BY <1>0, <1>8, <2>1 DEF Stop, RecordTypes
  <2> QED BY <1>0, <1>8, <2>2, NothingNew DEF Stop, rows, requests
<1> QED BY <1>1, <1>2, <1>3, <1>4, <1>5, <1>6, <1>7, <1>8 DEF Locations

\* A running location goes by the visibility of its row, or the news is on its
\* way, or is one of those that `missed' excepts, whatever is changed, created,
\* deleted and stopped meanwhile and however small the channel is.
THEOREM ChangesAreHeard == Spec => []VisibilityIsHeard
<1>1. Init => RecordTypes /\ Heard
  BY RecordsInit DEF Init, Heard, Rows
<1>2. RecordTypes /\ Heard /\ [Next]_vars => RecordTypes' /\ Heard'
  <2> SUFFICES ASSUME RecordTypes, Heard, [Next]_vars PROVE RecordTypes' /\ Heard'
    OBVIOUS
  <2>1. CASE UNCHANGED <<rows, tasks, requests>>
    <3>1. UNCHANGED <<visibility, phase, seen, missed, notices, inbox>>
      BY <2>1 DEF rows, tasks, requests
    <3>2. Heard'
      BY <3>1 DEF Heard, OnItsWay, Rows
    <3> QED BY <3>2, RecordsStep
  <2> QED BY <2>1, RecordsStep, HeardOfRequests, HeardByLocations, SearchesOnlyRead DEF Next, vars
<1>3. Heard => VisibilityIsHeard
  BY DEF Heard, VisibilityIsHeard, OnItsWay, Holds
<1> QED BY <1>1, <1>2, <1>3, PTL DEF Spec

-----------------------------------------------------------------------------
(* Searches. *)

Hits == shown \cup chunks \cup watch

\* A message with results has some.
Messages == (SUBSET Entries) \ {{}}

\* TypeOK of the search under way. Without one there is nothing of it; only
\* one in another server's locations has messages.
SearchTypes ==
  /\ found \in SUBSET Entries /\ chunks \in SUBSET Entries /\ watch \in SUBSET Entries
  /\ shown \in SUBSET Entries
  /\ link \in Seq(Messages)
  /\ query.source # "far" => link = <<>> /\ watch = {}
  /\ query.source = "none" => query = NoQuery
  /\ query = NoQuery => found = {} /\ chunks = {} /\ shown = {}

\* What the messages on their way from the other server hold.
InMessages == UNION {link[i] : i \in 1 .. Len(link)}

\* FoundIsShown of a search that is not done: what was found here waits or was
\* shown, and while the other server's results are awaited, some of them are
\* still to come or have come.
Forthcoming ==
  /\ query.source # "far" => found = chunks \cup shown
  /\ query.source = "far" /\ tracked /\ found # {} => ~NothingWaits \/ shown # {}

\* What a search may show to the one who asked.
MayBeShown(e, p) ==
  \/ e.visibility = "Public" \/ e.place \in Marked
  \/ e.place \in Places /\ e.place.owner = p

OnlyAllowed ==
  query.by \notin Administrators => \A e \in Hits \cup InMessages : MayBeShown(e, query.by)

LEMMA MessageSent ==
  ASSUME NEW q \in Seq(Messages), NEW some \in Messages
  PROVE  /\ Append(q, some) \in Seq(Messages)
         /\ UNION {Append(q, some)[i] : i \in 1 .. Len(Append(q, some))}
              = (UNION {q[i] : i \in 1 .. Len(q)}) \cup some
<1> DEFINE r == Append(q, some)
<1>1. /\ r \in Seq(Messages) /\ Len(r) = Len(q) + 1
      /\ \A i \in 1 .. Len(q) : r[i] = q[i]
      /\ r[Len(q) + 1] = some
  BY Appended
<1> HIDE DEF r
<1>2. Len(q) \in Nat
  OBVIOUS
<1>3. 1 .. Len(r) = 1 .. Len(q) \cup {Len(q) + 1}
  BY <1>1, <1>2
<1>4. UNION {r[i] : i \in 1 .. Len(r)} = (UNION {q[i] : i \in 1 .. Len(q)}) \cup some
  BY <1>1, <1>3
<1> QED BY <1>1, <1>4 DEF r

LEMMA MessageReceived ==
  ASSUME NEW q \in Seq(Messages), q # <<>>
  PROVE  /\ Tail(q) \in Seq(Messages) /\ Head(q) \in Messages
         /\ UNION {q[i] : i \in 1 .. Len(q)}
              = Head(q) \cup UNION {Tail(q)[i] : i \in 1 .. Len(Tail(q))}
<1> DEFINE t == Tail(q)
<1>1. /\ t \in Seq(Messages) /\ Head(q) = q[1] /\ Head(q) \in Messages
      /\ Len(q) \in Nat \ {0}
      /\ \A i \in 1 .. Len(t) : i + 1 \in 1 .. Len(q) /\ t[i] = q[i + 1]
      /\ \A i \in 1 .. Len(q) : i = 1 \/ (i - 1 \in 1 .. Len(t) /\ t[i - 1] = q[i])
  BY Taken
<1> HIDE DEF t
<1>2. ASSUME NEW i \in 1 .. Len(q)
      PROVE  q[i] = Head(q) \/ \E j \in 1 .. Len(t) : q[i] = t[j]
  BY <1>1
<1>3. ASSUME NEW i \in 1 .. Len(t) PROVE \E j \in 1 .. Len(q) : t[i] = q[j]
  BY <1>1
<1>4. 1 \in 1 .. Len(q) /\ q[1] = Head(q)
  BY <1>1
<1> DEFINE all == {q[i] : i \in 1 .. Len(q)}
           rest == {t[i] : i \in 1 .. Len(t)}
<1>5. all = {Head(q)} \cup rest
  <2>1. \A e \in all : e = Head(q) \/ e \in rest
    BY <1>2
  <2>2. \A e \in rest : e \in all
    BY <1>3
  <2>3. Head(q) \in all
    BY <1>4
  <2> QED BY <2>1, <2>2, <2>3
<1> HIDE DEF all, rest
<1>6. UNION all = Head(q) \cup (UNION rest)
  BY <1>5
<1> QED BY <1>1, <1>6 DEF t, all, rest

LEMMA SearchInit == Init => SearchTypes /\ Forthcoming /\ OnlyAllowed
<1> SUFFICES ASSUME Init PROVE SearchTypes /\ Forthcoming /\ OnlyAllowed
  OBVIOUS
<1>1. InMessages = {}
  BY DEF Init, InMessages
<1>2. Hits = {}
  BY DEF Init, Hits
<1> QED BY <1>1, <1>2 DEF Init, SearchTypes, Forthcoming, OnlyAllowed, NoQuery

\* A search in this server's locations looks at rows that its asker may see.
LEMMA SearchedMayBeShown ==
  ASSUME RecordTypes, NEW p \in People, NEW of \in People,
         NEW source \in {"personal", "public", "marked"},
         NEW vs \in SUBSET Visibility, NEW ds, MaySearch(p, source, of)
  PROVE  /\ EntriesOf(Searched(p, source, of, vs, ds)) \subseteq Entries
         /\ p \notin Administrators =>
              \A e \in EntriesOf(Searched(p, source, of, vs, ds)) : MayBeShown(e, p)
<1> DEFINE places == Searched(p, source, of, vs, ds)
<1>1. ASSUME NEW l \in places
      PROVE  /\ l \in Rows
             /\ p \notin Administrators =>
                  visibility[l] = "Public" \/ l \in Marked \/ l.owner = p
  <2>1. CASE source = "personal"
    BY <1>1, <2>1 DEF Searched, Owned, MaySearch
  <2>2. CASE source = "public"
    BY <1>1, <2>2 DEF Searched, Visible
  <2>3. CASE source = "marked"
    BY <1>1, <2>3 DEF Searched
  <2> QED BY <2>1, <2>2, <2>3
<1>2. ASSUME NEW l \in Rows
      PROVE  l \in Places /\ [place |-> l, visibility |-> visibility[l]] \in Entries
  BY <1>2 DEF Rows, RecordTypes, Entries
<1> HIDE DEF places
<1>3. \A e \in EntriesOf(places) : \E l \in places : e = [place |-> l, visibility |-> visibility[l]]
  BY DEF EntriesOf
<1>4. EntriesOf(places) \subseteq Entries
  BY <1>1, <1>2, <1>3
<1>5. p \notin Administrators => \A e \in EntriesOf(places) : MayBeShown(e, p)
  BY <1>1, <1>2, <1>3 DEF MayBeShown
<1> QED BY <1>4, <1>5 DEF places

\* A new search begins in an empty state, with all that it found to be shown.
LEMMA SearchBegins ==
  ASSUME SearchTypes, NoSearch, NEW p \in People, NEW kind \in {"personal", "public", "marked", "far"},
         query' = [by |-> p, source |-> kind], found' \subseteq Entries, chunks' = found',
         UNCHANGED <<link, watch, shown>>,
         p \notin Administrators => \A e \in found' : MayBeShown(e, p)
  PROVE  SearchTypes' /\ Forthcoming' /\ OnlyAllowed'
<1>1. link' = <<>> /\ watch' = {} /\ shown' = {}
  BY DEF SearchTypes, NoSearch, NoQuery
<1>2. InMessages' = {}
  BY <1>1 DEF InMessages
<1>3. query' # NoQuery /\ query'.source = kind /\ query'.by = p
  BY DEF NoQuery
<1>4. SearchTypes'
  BY <1>1, <1>3 DEF SearchTypes
<1>5. Forthcoming'
  BY <1>1, <1>3 DEF Forthcoming, NothingWaits
<1>6. OnlyAllowed'
  BY <1>1, <1>2, <1>3 DEF OnlyAllowed, Hits
<1> QED BY <1>4, <1>5, <1>6

\* Forthcoming change hands, and none is added.
LEMMA ResultsMove ==
  ASSUME OnlyAllowed, UNCHANGED query, Hits' \cup InMessages' \subseteq Hits \cup InMessages
  PROVE  OnlyAllowed'
BY DEF OnlyAllowed

LEMMA SearchStep ==
  ASSUME RecordTypes, SearchTypes, Forthcoming, OnlyAllowed, [Next]_vars
  PROVE  SearchTypes' /\ Forthcoming' /\ OnlyAllowed'
<1>1. ASSUME NEW p \in People, NEW of \in People, NEW source \in {"personal", "public", "marked"},
             NEW vs \in {Visibility, {"Private"}}, NEW ds \in Criteria,
             SearchHere(p, source, of, vs, ds)
      PROVE  SearchTypes' /\ Forthcoming' /\ OnlyAllowed'
  <2>1. vs \in SUBSET Visibility
    BY DEF Visibility
  <2>2. /\ NoSearch /\ MaySearch(p, source, of) /\ query' = [by |-> p, source |-> source]
        /\ found' = EntriesOf(Searched(p, source, of, vs, ds)) /\ chunks' = found'
        /\ UNCHANGED <<link, watch, shown>>
    BY <1>1 DEF SearchHere
  <2>3. found' \subseteq Entries /\ (p \notin Administrators => \A e \in found' : MayBeShown(e, p))
    BY <2>1, <2>2, SearchedMayBeShown
  <2> QED BY <2>2, <2>3, SearchBegins
<1>2. ASSUME NEW p \in People, SearchFar(p)
      PROVE  SearchTypes' /\ Forthcoming' /\ OnlyAllowed'
  <2>1. /\ NoSearch /\ query' = [by |-> p, source |-> "far"]
        /\ found' \subseteq FarEntries /\ chunks' = found'
        /\ UNCHANGED <<link, watch, shown>>
    BY <1>2 DEF SearchFar
  <2>2. FarEntries \subseteq Entries /\ \A e \in FarEntries : MayBeShown(e, p)
    BY DEF FarEntries, Entries, Visibility, MayBeShown
  <2> QED BY <2>1, <2>2, SearchBegins
<1>3. CASE SendHere
  <2>1. PICK some \in SUBSET chunks : chunks' = chunks \ some /\ shown' = shown \cup some
    BY <1>3 DEF SendHere, Message
  <2>2. /\ UNCHANGED <<query, found, link, watch>>
        /\ query # NoQuery /\ query.source \notin {"none", "far"}
    BY <1>3 DEF SendHere, NoQuery
  <2>3. InMessages' = InMessages
    BY <2>2 DEF InMessages
  <2>4. SearchTypes'
    BY <2>1, <2>2 DEF SearchTypes
  <2>5. OnlyAllowed'
    BY <2>1, <2>2, <2>3, ResultsMove DEF Hits
  <2>6. Forthcoming'
    BY <2>1, <2>2 DEF Forthcoming
  <2> QED BY <2>4, <2>5, <2>6
<1>4. CASE SendFar
  <2>1. PICK some \in (SUBSET chunks) \ {{}} : chunks' = chunks \ some /\ link' = Append(link, some)
    BY <1>4 DEF SendFar, Message
  <2>2. UNCHANGED <<query, found, watch, shown>> /\ query.source = "far" /\ query # NoQuery
    BY <1>4 DEF SendFar, NoQuery
  <2>3. some \in Messages /\ link \in Seq(Messages)
    BY <2>1 DEF SearchTypes, Messages
  <2>4. link' \in Seq(Messages) /\ InMessages' = InMessages \cup some
    BY <2>1, <2>3, MessageSent DEF InMessages
  <2>5. SearchTypes'
    BY <2>1, <2>2, <2>4 DEF SearchTypes
  <2>6. OnlyAllowed'
    BY <2>1, <2>2, <2>4, ResultsMove DEF Hits
  <2>7. link' # <<>>
    BY <2>1, <2>3
  <2>8. Forthcoming'
    BY <2>2, <2>7 DEF Forthcoming, NothingWaits
  <2> QED BY <2>5, <2>6, <2>8
<1>5. CASE ReceiveFar
  <2>1. /\ link # <<>> /\ link' = Tail(link)
        /\ watch' = IF tracked THEN Head(link) ELSE watch
        /\ UNCHANGED <<query, found, chunks, shown, tracked>>
    BY <1>5 DEF ReceiveFar
  <2>2. query.source = "far" /\ query # NoQuery
    BY <2>1 DEF SearchTypes, NoQuery
  <2>3. /\ link' \in Seq(Messages) /\ Head(link) \in Messages
        /\ InMessages = Head(link) \cup InMessages'
    BY <2>1, MessageReceived DEF InMessages, SearchTypes
  <2>4. SearchTypes'
    BY <2>1, <2>2, <2>3 DEF SearchTypes, Messages
  <2>5. OnlyAllowed'
    BY <2>1, <2>3, ResultsMove DEF Hits
  <2>6. Forthcoming'
    BY <2>1, <2>2, <2>3 DEF Forthcoming, NothingWaits, Messages
  <2> QED BY <2>4, <2>5, <2>6
<1>6. CASE TakeFar \/ ExpireFar
  <2>1. \/ shown' = shown \cup watch /\ watch' = {} /\ watch # {} /\ tracked' = tracked
        \/ UNCHANGED <<shown, watch>> /\ tracked' = FALSE
    BY <1>6 DEF TakeFar, ExpireFar
  <2>2. UNCHANGED <<query, found, chunks, link>>
    BY <1>6 DEF TakeFar, ExpireFar
  <2>3. InMessages' = InMessages
    BY <2>2 DEF InMessages
  <2>4. SearchTypes'
    BY <2>1, <2>2 DEF SearchTypes, NoQuery
  <2>5. OnlyAllowed'
    BY <2>1, <2>2, <2>3, ResultsMove DEF Hits
  <2>6. query.source # "far" => watch = {}
    BY DEF SearchTypes
  <2>7. Forthcoming'
    BY <2>1, <2>2, <2>6 DEF Forthcoming
  <2> QED BY <2>4, <2>5, <2>7
<1>10. CASE LoseFar
  <2>1. /\ link # <<>> /\ link' = <<>> /\ found' = chunks \cup watch \cup shown
        /\ UNCHANGED <<query, chunks, tracked, watch, shown>>
    BY <1>10 DEF LoseFar
  <2>2. query.source = "far" /\ query # NoQuery
    BY <2>1 DEF SearchTypes, NoQuery
  <2>3. InMessages' = {}
    BY <2>1 DEF InMessages
  <2>4. SearchTypes'
    BY <2>1, <2>2 DEF SearchTypes
  <2>5. OnlyAllowed'
    BY <2>1, <2>3, ResultsMove DEF Hits
  <2>6. Forthcoming'
    BY <2>1, <2>2 DEF Forthcoming, NothingWaits
  <2> QED BY <2>4, <2>5, <2>6
<1>7. CASE Done
  <2>1. /\ query' = NoQuery /\ found' = {} /\ shown' = {}
        /\ chunks' = {} /\ link' = <<>> /\ watch' = {}
    BY <1>7 DEF Done, NothingWaits
  <2>2. InMessages' = {} /\ Hits' = {}
    BY <2>1 DEF InMessages, Hits
  <2>3. SearchTypes'
    BY <2>1 DEF SearchTypes
  <2>4. Forthcoming' /\ OnlyAllowed'
    BY <2>1, <2>2 DEF Forthcoming, OnlyAllowed, NoQuery
  <2> QED BY <2>3, <2>4
<1>8. CASE UNCHANGED search
  <2>1. UNCHANGED <<query, found, chunks, link, tracked, watch, shown>>
    BY <1>8 DEF search
  <2>2. InMessages' = InMessages /\ Hits' = Hits
    BY <2>1 DEF InMessages, Hits
  <2>3. SearchTypes'
    BY <2>1 DEF SearchTypes
  <2>4. Forthcoming' /\ OnlyAllowed'
    BY <2>1, <2>2 DEF Forthcoming, OnlyAllowed, NothingWaits
  <2> QED BY <2>3, <2>4
<1>9. Requests \/ Locations \/ UNCHANGED vars => UNCHANGED search
  BY DEF Requests, SelectForRules, WriteRules, ChangeVisibility, Broadcast, CutShort, Locations, Create, LoadRules,
     ReadVisibility, Subscribe, HearVisibility, Delete, Stop, SetRules, vars
<1> QED BY <1>1, <1>2, <1>3, <1>4, <1>5, <1>6, <1>7, <1>8, <1>9, <1>10 DEF Next, Searches

LEMMA RecordsInvariant ==
  Spec => [](RecordTypes /\ Counters /\ SearchTypes /\ Forthcoming /\ OnlyAllowed)
BY RecordsInit, SearchInit, RecordsStep, CountersStep, SearchStep, PTL DEF Spec

\* Whoever asks and whatever the criteria admit, a player who is no
\* administrator is shown what was public, what is his and what is marked; the
\* same holds of what still waits and of the messages of the other server.
THEOREM NobodySeesMore == Spec => []SearchShowsAllowed
<1>1. OnlyAllowed => SearchShowsAllowed
  BY DEF OnlyAllowed, SearchShowsAllowed, Hits, MayBeShown
<1> QED BY <1>1, RecordsInvariant, PTL

\* A search that is done has shown all that was found here, and of what another
\* server found something, for any number of results, places in a message and
\* orders of the estimates; and everything has its type.
THEOREM SearchesEndWithResults == Spec => []FoundIsShown
<1>1. RecordTypes /\ Counters /\ SearchTypes => TypeOK
  BY DEF RecordTypes, Counters, SearchTypes, TypeOK
<1>2. NothingWaits => chunks = {}
  BY DEF NothingWaits
<1>3. TypeOK /\ Forthcoming => FoundIsShown
  BY <1>2 DEF Forthcoming, FoundIsShown
<1> QED BY <1>1, <1>3, RecordsInvariant, PTL
=============================================================================
