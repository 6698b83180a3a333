-------------------------- MODULE WhereaboutsProofs --------------------------
(***************************************************************************)
(* Theorems about Whereabouts and the table of requests it is built on,    *)
(* for any players, settings and numbers of questions and identifiers.     *)
(* First TrackingMap by itself: whom an answer reaches, and who waits; then *)
(* that Whereabouts only takes its steps, so that the same holds of its    *)
(* questions; then that nobody learns more than he may.                    *)
(***************************************************************************)
EXTENDS Whereabouts, TLAPS, WellFoundedInduction

-----------------------------------------------------------------------------
(* The table of requests: TrackingMap.                                     *)

USE IdSpaceAssumption, RequestsAssumption, TimeAssumption
    DEF IdSpaceAssumption, RequestsAssumption, TimeAssumption

\* purge_expired keeps entries as they are.
LEMMA PurgedEntries ==
  /\ DOMAIN Purged = {i \in DOMAIN active : Alive(active[i])}
  /\ \A i \in DOMAIN Purged : i \in DOMAIN active /\ Purged[i] = active[i]
BY DEF Purged, Restrict

LEMMA PurgedType ==
  ASSUME TypeOK
  PROVE  DOMAIN Purged \subseteq Id /\ \A i \in DOMAIN Purged : Purged[i] \in Entry
BY PurgedEntries DEF TypeOK

\* An identifier has one successor, and it is an identifier.
LEMMA WrappingAddType == \A i \in Id : WrappingAdd(i) \in Id
BY DEF Id, WrappingAdd

LEMMA AddedEntries ==
  ASSUME NEW id, NEW r
  PROVE  /\ DOMAIN Added(id, r) = DOMAIN Purged \cup {id}
         /\ Added(id, r)[id] = [request |-> r, endOfLife |-> now + Lifetime]
         /\ \A i \in DOMAIN Purged \ {id} : Added(id, r)[i] = Purged[i]
BY DEF Added

\* The table, the messages and the requesters keep their types.
THEOREM TypeCorrect == Spec => []TypeOK
<1>1. Init => TypeOK
  BY DEF Init, TypeOK, Id, Stage
<1>2. TypeOK /\ [Next]_vars => TypeOK'
  <2> SUFFICES ASSUME TypeOK, [Next]_vars PROVE TypeOK'
    OBVIOUS
  <2>0. AfterPurge \in [Request -> Stage]
    BY DEF TypeOK, AfterPurge, Stage
  <2>1. ASSUME NEW r \in Request, Add(r) PROVE TypeOK'
    <3>1. PICK id \in Id : /\ nextId' = WrappingAdd(id)
                           /\ active' = Added(id, r)
                           /\ sent' = sent \cup {[id |-> id, request |-> r]}
      BY <2>1 DEF Add
    <3>2. /\ DOMAIN active' \subseteq Id
          /\ \A i \in DOMAIN active' : active'[i] \in Entry
      <4>1. [request |-> r, endOfLife |-> now + Lifetime] \in Entry
        BY DEF TypeOK, Entry
      <4>2. \A i \in DOMAIN Purged \cup {id} : Added(id, r)[i] \in Entry
        BY <4>1, PurgedType DEF Added
      <4>3. DOMAIN Added(id, r) = DOMAIN Purged \cup {id}
        BY AddedEntries
      <4> QED BY <3>1, <4>2, <4>3, PurgedType
    <3>3. active' \in [DOMAIN active' -> Entry]
      BY <3>1, <3>2 DEF Added
    <3>4. nextId' \in Id
      BY <3>1, WrappingAddType
    <3>5. sent' \subseteq [id : Id, request : Request]
      BY <3>1 DEF TypeOK
    <3>6. stage' \in [Request -> Stage]
      BY <2>0, <2>1 DEF Add, Stage
    <3>7. made' \in 0..MaxRequests
      BY <2>1 DEF Add, TypeOK
    <3> QED BY <2>1, <3>2, <3>3, <3>4, <3>5, <3>6, <3>7 DEF Add, TypeOK
  <2>2. ASSUME NEW m \in sent, Finish(m) PROVE TypeOK'
    <3>1. DOMAIN active' \subseteq Id /\ active' \in [DOMAIN active' -> Entry]
      BY <2>2, PurgedType DEF Finish, Restrict
    <3>2. stage' \in [Request -> Stage]
      BY <2>0, <2>2 DEF Finish, Stage
    <3>3. Told(m) \subseteq Request /\ m.request \in Request
      BY PurgedType DEF Told, Hit, Entry, TypeOK
    <3>4. answers' \subseteq Request \X Request
      BY <2>2, <3>3 DEF Finish, TypeOK
    <3> QED BY <2>2, <3>1, <3>2, <3>4 DEF Finish, TypeOK
  <2>3. ASSUME NEW m \in sent, NEW listening \in BOOLEAN, Partial(m, listening)
        PROVE  TypeOK'
    <3>1. \A e \in Entry : [e EXCEPT !.endOfLife = 0] \in Entry
      BY DEF Entry
    <3>2. DOMAIN active' \subseteq Id /\ active' \in [DOMAIN active' -> Entry]
      BY <2>3, <3>1, PurgedType DEF Partial
    <3> QED BY <2>0, <2>3, <3>2 DEF Partial, TypeOK
  <2>4. CASE OtherEvent
    <3>1. DOMAIN active' \subseteq Id /\ active' \in [DOMAIN active' -> Entry]
      BY <2>4, PurgedType DEF OtherEvent, Purged, Restrict
    <3> QED BY <2>0, <2>4, <3>1 DEF OtherEvent, TypeOK
  <2>5. CASE Tick
    BY <2>5 DEF Tick, TypeOK
  <2>6. CASE UNCHANGED vars
    BY <2>6 DEF vars, TypeOK
  <2> QED BY <2>1, <2>2, <2>3, <2>4, <2>5, <2>6 DEF Next
<1> QED BY <1>1, <1>2, PTL DEF Spec

-----------------------------------------------------------------------------
(* No answer goes astray while identifiers are not reused.                 *)

\* Identifiers are given out in order, every entry of the table was announced
\* to the other server under its own identifier, and no two requests share
\* one: that is what an answer, which names only the identifier, relies on.
IdInv ==
  /\ \A m \in sent : m.id < made
  /\ made < IdSpace => nextId = made
  /\ \A i \in DOMAIN active : [id |-> i, request |-> active[i].request] \in sent
  /\ \A m1, m2 \in sent : m1.id = m2.id => m1.request = m2.request

\* Before the first wrap the loop of `add' stops at once.
LEMMA FirstCandidateIsFree ==
  ASSUME TypeOK, IdInv, made < IdSpace, NEW id \in Id, FirstFree(Purged, id)
  PROVE  id = made
<1>1. nextId = made /\ nextId \in Id
  BY DEF IdInv, TypeOK
<1>2. nextId \notin DOMAIN Purged
  <2>1. \A i \in DOMAIN active : i < made
    BY DEF IdInv
  <2> QED BY <1>1, <2>1, PurgedEntries DEF TypeOK, Id
<1>3. id # nextId => nextId \in Skipped(id)
  BY <1>1 DEF Skipped, Id
<1> QED BY <1>1, <1>2, <1>3 DEF FirstFree

LEMMA IdInvStep ==
  ASSUME TypeOK, IdInv, [Next]_vars, made' <= IdSpace
  PROVE  IdInv'
<1>0. \A i \in DOMAIN Purged : [id |-> i, request |-> Purged[i].request] \in sent
  BY PurgedEntries DEF IdInv
<1>1. ASSUME NEW r \in Request, Add(r) PROVE IdInv'
  <2>1. PICK id \in Id : /\ FirstFree(Purged, id)
                         /\ nextId' = WrappingAdd(id)
                         /\ active' = Added(id, r)
                         /\ sent' = sent \cup {[id |-> id, request |-> r]}
    BY <1>1 DEF Add
  <2>2. made' = made + 1 /\ made \in Nat /\ made < IdSpace
    BY <1>1, IdSpaceAssumption DEF Add, TypeOK, IdSpaceAssumption
  <2>3. id = made
    BY <2>1, <2>2, FirstCandidateIsFree
  <2>4. \A m \in sent' : m.id < made'
    BY <2>1, <2>2, <2>3 DEF IdInv, TypeOK, Id
  <2>5. made' < IdSpace => nextId' = made'
    BY <2>1, <2>2, <2>3 DEF WrappingAdd
  <2>6. \A i \in DOMAIN active' : [id |-> i, request |-> active'[i].request] \in sent'
    <3>1. ASSUME NEW i \in DOMAIN Purged \cup {id}
          PROVE  [id |-> i, request |-> Added(id, r)[i].request] \in sent'
      BY <1>0, <2>1 DEF Added
    <3> QED BY <2>1, <3>1, AddedEntries
  <2>7. \A m1, m2 \in sent' : m1.id = m2.id => m1.request = m2.request
    BY <2>1, <2>3, <2>2 DEF IdInv, TypeOK, Id
  <2> QED BY <2>4, <2>5, <2>6, <2>7 DEF IdInv
<1>2. ASSUME NEW m \in sent, Finish(m) PROVE IdInv'
  BY <1>0, <1>2 DEF IdInv, Finish, Restrict
<1>3. ASSUME NEW m \in sent, NEW listening \in BOOLEAN, Partial(m, listening)
      PROVE  IdInv'
  <2>1. \A i \in DOMAIN active' : i \in DOMAIN Purged
    BY <1>3 DEF Partial
  <2>2. \A i \in DOMAIN active' : active'[i].request = Purged[i].request
    BY <1>3, PurgedType DEF Partial, Entry
  <2> QED BY <1>0, <1>3, <2>1, <2>2 DEF IdInv, Partial
<1>4. CASE OtherEvent
  BY <1>0, <1>4 DEF IdInv, OtherEvent
<1>5. CASE Tick \/ UNCHANGED vars
  BY <1>5 DEF IdInv, Tick, vars
<1> QED BY <1>1, <1>2, <1>3, <1>4, <1>5 DEF Next

\* What the identifiers mean, for as long as they are not used again.
IdsInOrder == made <= IdSpace => IdInv

LEMMA IdentifiersInOrder == Spec => []IdsInOrder
<1>1. Init => IdsInOrder
  BY DEF Init, IdsInOrder, IdInv
<1>2. TypeOK /\ IdsInOrder /\ [Next]_vars => IdsInOrder'
  <2> SUFFICES ASSUME TypeOK, IdsInOrder, [Next]_vars, made' <= IdSpace
               PROVE  IdInv'
    BY DEF IdsInOrder
  <2>1. made' = made \/ made' = made + 1
    BY DEF Next, Add, Finish, Partial, OtherEvent, Tick, vars
  <2>2. made <= IdSpace
    BY <2>1 DEF TypeOK
  <2> QED BY <2>2, IdInvStep DEF IdsInOrder
<1> QED BY <1>1, <1>2, TypeCorrect, PTL DEF Spec

\* An answer finds, if anything, the entry of the request it answers.
LEMMA FindsItsOwn ==
  ASSUME IdInv, NEW m \in sent
  PROVE  \A r \in Told(m) : r = m.request
<1>1. \A i \in Hit(m) : i = m.id /\ [id |-> i, request |-> Purged[i].request] \in sent
  BY PurgedEntries DEF Hit, Resolves, IdInv
<1> QED BY <1>1 DEF Told, IdInv

\* While at most IdSpace requests (2^32 in the code) have been made of a peer,
\* whatever is late, lost, repeated or expired, nobody receives the answer to
\* somebody else's request.
THEOREM NoMisdelivery == Spec => []AnswersGoHome
<1>1. Init => AnswersGoHome
  BY DEF Init, AnswersGoHome
<1>2. TypeOK /\ IdsInOrder /\ AnswersGoHome /\ [Next]_vars => AnswersGoHome'
  <2> SUFFICES ASSUME TypeOK, IdsInOrder, AnswersGoHome, [Next]_vars, made' <= IdSpace
               PROVE  \A a \in answers' : a[1] = a[2]
    BY DEF AnswersGoHome
  <2>1. made <= IdSpace
    <3>1. made' = made \/ made' = made + 1
      BY DEF Next, Add, Finish, Partial, OtherEvent, Tick, vars
    <3> QED BY <3>1 DEF TypeOK
  <2>2. IdInv /\ \A a \in answers : a[1] = a[2]
    BY <2>1 DEF AnswersGoHome, IdsInOrder
  <2>3. ASSUME NEW m \in sent, Finish(m) PROVE \A a \in answers' : a[1] = a[2]
    <3>1. \A r \in Told(m) : r = m.request
      BY <2>2, FindsItsOwn
    <3> QED BY <2>2, <2>3, <3>1 DEF Finish
  <2>4. ASSUME answers' = answers PROVE \A a \in answers' : a[1] = a[2]
    BY <2>2, <2>4
  <2> QED BY <2>3, <2>4 DEF Next, Add, Partial, OtherEvent, Tick, vars
<1> QED BY <1>1, <1>2, TypeCorrect, IdentifiersInOrder, PTL DEF Spec

-----------------------------------------------------------------------------
(* Waiting requests and entries of the table, however often next_id wraps. *)

\* A request has at most one entry: without it, finishing one entry could
\* leave a second one behind for a request that has been answered.
OneEntryEach ==
  \A i, j \in DOMAIN active : active[i].request = active[j].request => i = j

\* The same two facts for the table that purge_expired leaves.
LEMMA AfterPurgeTracked ==
  ASSUME TypeOK, WaitingIsTracked, OneEntryEach
  PROVE  /\ \A r \in Request :
              AfterPurge[r] = "waiting" <=> \E i \in DOMAIN Purged : Purged[i].request = r
         /\ \A i, j \in DOMAIN Purged : Purged[i].request = Purged[j].request => i = j
<1>1. \A i, j \in DOMAIN Purged : Purged[i].request = Purged[j].request => i = j
  BY PurgedEntries DEF OneEntryEach
<1>2. ASSUME NEW r \in Request
      PROVE  AfterPurge[r] = "waiting" <=> \E i \in DOMAIN Purged : Purged[i].request = r
  <2>1. r \in Expired <=> \E i \in DOMAIN active \ DOMAIN Purged : active[i].request = r
    BY DEF Expired
  <2>2. AfterPurge[r] = IF r \in Expired THEN "gone" ELSE stage[r]
    BY DEF AfterPurge
  <2>3. stage[r] = "waiting" <=> \E i \in DOMAIN active : active[i].request = r
    BY DEF WaitingIsTracked
  <2> QED BY <2>1, <2>2, <2>3, PurgedEntries DEF OneEntryEach
<1> QED BY <1>1, <1>2

\* A request waits if and only if the table holds its sender: `add' displaces
\* no live entry, and finish and purge_expired drop no sender unnoticed.
THEOREM NobodyWaitsForNothing == Spec => []WaitingIsTracked
<1>1. Init => WaitingIsTracked /\ OneEntryEach
  BY DEF Init, WaitingIsTracked, OneEntryEach
<1>2. TypeOK /\ WaitingIsTracked /\ OneEntryEach /\ [Next]_vars
        => WaitingIsTracked' /\ OneEntryEach'
  <2> SUFFICES ASSUME TypeOK, WaitingIsTracked, OneEntryEach, [Next]_vars
               PROVE  WaitingIsTracked' /\ OneEntryEach'
    OBVIOUS
  <2>1. ASSUME NEW r \in Request, Add(r) PROVE WaitingIsTracked' /\ OneEntryEach'
    <3>1. PICK id \in Id : FirstFree(Purged, id) /\ active' = Added(id, r)
      BY <2>1 DEF Add
    <3>2. id \notin DOMAIN Purged
      BY <3>1 DEF FirstFree
    <3>3. \A i \in DOMAIN Purged : Purged[i].request # r
      BY <2>1, PurgedEntries DEF Add, WaitingIsTracked
    <3>4. \A s \in Request : stage'[s] = IF s = r THEN "waiting" ELSE AfterPurge[s]
      BY <2>1 DEF Add, AfterPurge
    <3>5. /\ DOMAIN active' = DOMAIN Purged \cup {id}
          /\ active'[id].request = r
          /\ \A i \in DOMAIN Purged : active'[i] = Purged[i]
      BY <3>1, <3>2 DEF Added
    <3>6. OneEntryEach'
      BY <3>3, <3>5, AfterPurgeTracked DEF OneEntryEach
    <3>7. WaitingIsTracked'
      BY <3>3, <3>4, <3>5, AfterPurgeTracked DEF WaitingIsTracked
    <3> QED BY <3>6, <3>7
  <2>2. ASSUME NEW m \in sent, Finish(m) PROVE WaitingIsTracked' /\ OneEntryEach'
    <3>1. /\ DOMAIN active' = DOMAIN Purged \ Hit(m)
          /\ \A i \in DOMAIN active' : active'[i] = Purged[i]
      BY <2>2 DEF Finish, Restrict
    <3>2. \A r \in Request : stage'[r] = IF r \in Told(m) THEN "answered" ELSE AfterPurge[r]
      BY <2>2 DEF Finish
    <3>3. Hit(m) \subseteq DOMAIN Purged /\ \A r : r \in Told(m) <=> \E i \in Hit(m) : Purged[i].request = r
      BY DEF Hit, Told
    <3>4. OneEntryEach'
      BY <3>1, AfterPurgeTracked DEF OneEntryEach
    <3>5. WaitingIsTracked'
      BY <3>1, <3>2, <3>3, AfterPurgeTracked DEF WaitingIsTracked
    <3> QED BY <3>4, <3>5
  <2>3. ASSUME NEW m \in sent, NEW listening \in BOOLEAN, Partial(m, listening)
        PROVE  WaitingIsTracked' /\ OneEntryEach'
    <3>1. DOMAIN active' = DOMAIN Purged /\ stage' = AfterPurge
      BY <2>3 DEF Partial
    <3>2. \A i \in DOMAIN Purged : active'[i].request = Purged[i].request
      BY <2>3, PurgedType DEF Partial, Entry
    <3> QED BY <3>1, <3>2, AfterPurgeTracked DEF WaitingIsTracked, OneEntryEach
  <2>4. CASE OtherEvent
    BY <2>4, AfterPurgeTracked DEF OtherEvent, WaitingIsTracked, OneEntryEach
  <2>5. CASE Tick \/ UNCHANGED vars
    BY <2>5 DEF Tick, vars, WaitingIsTracked, OneEntryEach
  <2> QED BY <2>1, <2>2, <2>3, <2>4, <2>5 DEF Next
<1> QED BY <1>1, <1>2, TypeCorrect, PTL DEF Spec

-----------------------------------------------------------------------------
(* The questions of Whereabouts.                                           *)

\* The table is TrackingMap's: each step here is one of its steps, or none.
LEMMA StepsOfTheTable == [NextWhereabouts]_allVars => [Next]_vars
<1> SUFFICES ASSUME [NextWhereabouts]_allVars PROVE [Next]_vars
  OBVIOUS
<1>1. ASSUME NEW r \in Request, Ask(r) \/ Lose(r) PROVE UNCHANGED vars
  BY <1>1 DEF Ask, Lose
<1>2. ASSUME NEW r \in Request, PeerAsks(r) PROVE Next
  BY <1>2 DEF PeerAsks, Next
<1>3. ASSUME NEW r \in Request, PeerReceives(r) \/ DirectoryChecks(r) \/ ClientChecks(r)
      PROVE  UNCHANGED vars
  BY <1>3 DEF PeerReceives, HostActivityRequest, OnlineStatusRequest, Rebuffed,
              DirectoryChecks, ClientChecks, Answer, Forward
<1>4. ASSUME NEW m \in sent, PeerHears(m) PROVE Next
  BY <1>4 DEF PeerHears, Next
<1>5. CASE PeerIsBusy \/ TimePasses
  BY <1>5 DEF PeerIsBusy, TimePasses, Next
<1>6. ASSUME NEW p, NEW setting, SetAccess(p, setting) \/ SetServerAccess(setting) \/ Move(p, setting)
      PROVE  UNCHANGED vars
  BY <1>6 DEF SetAccess, SetServerAccess, Move, Changes
<1>7. CASE UNCHANGED allVars
  BY <1>7 DEF allVars, vars
<1> QED BY <1>1, <1>2, <1>3, <1>4, <1>5, <1>6, <1>7 DEF NextWhereabouts, Proceed

LEMMA TableOfQuestions == SpecWhereabouts => Spec
<1>1. InitWhereabouts => Init
  BY DEF InitWhereabouts
<1> QED BY <1>1, StepsOfTheTable, PTL DEF SpecWhereabouts, Spec

\* The answers of the other server reach those who asked it, as long as
\* identifiers are not used again (TrackingMap::finish, Peer::process).
THEOREM AnswersReachTheAsker == SpecWhereabouts => []AnswersGoHome
BY TableOfQuestions, NoMisdelivery, PTL

\* A question that waits has its entry, and only such a question has one.
THEOREM QuestionsAreTracked == SpecWhereabouts => []WaitingIsTracked
BY TableOfQuestions, NobodyWaitsForNothing, PTL

-----------------------------------------------------------------------------
(* What a setting says.                                                    *)

\* Of some numbers, one is the least.
LEMMA LeastNumber ==
  ASSUME NEW T, T \subseteq Nat, T # {}
  PROVE  \E i \in T : \A j \in T : i <= j
<1>1. PICK i \in T : \A j \in T : <<j, i>> \notin OpToRel(<, Nat)
  BY WFMin, NatLessThanWellFounded, Zenon
<1>2. ASSUME NEW j \in T
      PROVE  ~(j < i)
  BY <1>1, Zenon DEF OpToRel
<1> QED BY <1>2

\* Whatever rule decides, what it says is a level of the setting.
LEMMA CheckType ==
  ASSUME NEW setting, NEW levels, NEW player, NEW local, NEW time,
         DOMAIN setting.rules = 1..Len(setting.rules), Len(setting.rules) \in Nat,
         setting.default \in levels,
         \A i \in DOMAIN setting.rules : setting.rules[i].access \in levels
  PROVE  Check(setting, player, local, time) \in levels
<1> DEFINE about == {i \in DOMAIN setting.rules :
                       Matches(setting.rules[i], Globalize(player, local), local, time)}
           first == CHOOSE i \in about : \A j \in about : i <= j
<1>1. CASE about = {}
  BY <1>1 DEF Check
<1>2. CASE about # {}
  <2>1. \E i \in about : \A j \in about : i <= j
    <3> HIDE DEF first
    <3>1. about \subseteq Nat
      OBVIOUS
    <3> HIDE DEF about
    <3> QED BY <1>2, <3>1, LeastNumber
  <2>2. first \in about
    BY <2>1
  <2>3. Check(setting, player, local, time) = setting.rules[first].access
    BY <1>2 DEF Check
  <2> QED BY <2>2, <2>3
<1> QED BY <1>1, <1>2

LEMMA LevelsOfSettings ==
  ASSUME NEW player, NEW local, NEW time
  PROVE  /\ \A s \in Settings : Check(s, player, local, time) \in OnlineAccess
         /\ \A s \in ServerSettings : Check(s, player, local, time) \in SimpleAccess
<1>1. ASSUME NEW kinds \in {<<Settings, OnlineAccess>>, <<ServerSettings, SimpleAccess>>}, NEW s \in kinds[1]
      PROVE  Check(s, player, local, time) \in kinds[2]
  <2>1. /\ DOMAIN s.rules = 1..Len(s.rules) /\ Len(s.rules) \in Nat
        /\ s.default \in kinds[2]
        /\ \A i \in DOMAIN s.rules : s.rules[i].access \in kinds[2]
    BY <1>1, SettingsAssumption DEF SettingsAssumption
  <2> QED BY <2>1, CheckType
<1> QED BY <1>1

\* Seen from his own server or from another one, the asker is who he is.
LEMMA AskerIsKnown ==
  /\ BySender = Myself
  /\ \A s, setting, time :
       Check(setting, AskerAs(s), s, time) = Check(setting, Myself, s, time)
<1>1. \A s : Globalize(AskerAs(s), s) = Globalize(Myself, s)
  BY DEF AskerAs, BySender, Myself, Globalize, ServerOf, Local, Remote
<1>2. BySender = Myself
  BY DEF BySender, Myself
<1>3. ASSUME NEW s, NEW setting, NEW time
      PROVE  Check(setting, AskerAs(s), s, time) = Check(setting, Myself, s, time)
  <2> DEFINE About(g) == {i \in DOMAIN setting.rules : Matches(setting.rules[i], g, s, time)}
             Decided(g) == IF About(g) = {} THEN setting.default
                           ELSE setting.rules[CHOOSE i \in About(g) : \A j \in About(g) : i <= j].access
  <2>1. \A p : Check(setting, p, s, time) = Decided(Globalize(p, s))
    BY DEF Check
  <2> HIDE DEF Decided
  <2> QED BY <1>1, <2>1
<1> QED BY <1>2, <1>3

-----------------------------------------------------------------------------
(* What the asker learns.                                                  *)

\* The question is where a player is whose rules are modelled.
Concerned(r) == kind = "Online" /\ Target(r) \in People

\* What the rules say of the asker now.
RulesNow(r) == {Check(acl[Target(r)], Myself, Target(r).server, now),
                Check(server, Myself, Away, now)}

\* What the rules have said since question r was asked lets the asker know this.
Permitted(r, what) ==
  /\ what \in Where => "Location" \in consulted[r]
  /\ what = "Online" => consulted[r] \cap {"Location", "OnlineOnly"} # {}
  /\ what = "Offline" => consulted[r] \cap {"Location", "OnlineOnly"} # {}
  /\ what \in Where \cup {"Online", "Offline"} /\ Abroad(r) => "Allow" \in consulted[r]

\* For as long as a question is open, what the rules say is what they have said
\* since it was asked.
RulesAreConsulted ==
  \A r \in Request :
    at[r] # "unasked" /\ told[r] = "none" /\ Concerned(r) => RulesNow(r) \subseteq consulted[r]

\* How far a question has come and what its asker and his entry know of it:
\* who has an entry has not been told, and only who asks abroad gets one.
WaysOfQuestions ==
  \A r \in Request :
    /\ stage[r] = "waiting" => told[r] = "none"
    /\ at[r] \in {"unasked", "peer"} \/ ~Abroad(r) => stage[r] = "new"
    /\ at[r] \in {"unasked", "peer"} => told[r] = "none"
    /\ ~Abroad(r) /\ at[r] \in {"directory", "client"} => told[r] = "none"
    /\ at[r] \in {"peer", "wire", "back"} => Abroad(r)
    /\ at[r] = "client" => Concerned(r)

\* Until the asker is told, a question from another server has been let in, and
\* the answer that is coming back to him may be given.
Passage ==
  \A r \in Request : Concerned(r) /\ told[r] = "none" =>
    /\ Abroad(r) /\ at[r] \in {"directory", "client"} => "Allow" \in consulted[r]
    /\ at[r] = "back" => Permitted(r, reply[r])

\* What he has been told he may know.
Learnt == made <= IdSpace => \A r \in Request : Concerned(r) => Permitted(r, told[r])

WhereaboutsInv == RulesAreConsulted /\ WaysOfQuestions /\ Passage /\ Learnt

-----------------------------------------------------------------------------
(* Types.                                                                  *)

Answers == OnlineState \cup Activity \cup {"none"}
Stations == {"unasked", "peer", "wire", "directory", "client", "back", "lost", "done"}

LEMMA ConsultedType ==
  ASSUME NEW qs, Consulted(qs), acl' \in [People -> Settings], server' \in ServerSettings,
         consulted \in [Request -> SUBSET (OnlineAccess \cup SimpleAccess)]
  PROVE  consulted' \in [Request -> SUBSET (OnlineAccess \cup SimpleAccess)]
<1>1. PICK theirs, others, time : theirs = acl' /\ others = server' /\ time = now'
  OBVIOUS
<1>2. /\ \A r : Check(others, Myself, Away, time) \in SimpleAccess
      /\ \A r : Target(r) \in People =>
           Check(theirs[Target(r)], Myself, Target(r).server, time) \in OnlineAccess
  BY <1>1, LevelsOfSettings
<1>3. \A r : Target(r) \in People =>
        /\ Check(acl'[Target(r)], Myself, Target(r).server, now') \in OnlineAccess
        /\ Check(server', Myself, Away, now') \in SimpleAccess
  BY <1>1, <1>2
<1> HIDE DEF OnlineAccess, SimpleAccess
<1> QED BY <1>3 DEF Consulted

LEMMA StateOfType ==
  ASSUME WhereaboutsTypeOK, NEW p \in People \cup {Myself}
  PROVE  StateOf(p) \in Answers
BY DEF WhereaboutsTypeOK, StateOf, Answers, OnlineState, Where

LEMMA AnswerType ==
  ASSUME WhereaboutsTypeOK, NEW r \in Request, NEW what \in Answers, Answer(r, what)
  PROVE  at' \in [Request -> Stations] /\ told' \in [Request -> Answers] /\ reply' \in [Request -> Answers]
BY DEF WhereaboutsTypeOK, Answer, Answered, Answers, Stations

LEMMA WhereaboutsTypeStep ==
  ASSUME WhereaboutsTypeOK, WaysOfQuestions, TypeOK', [NextWhereabouts]_allVars
  PROVE  WhereaboutsTypeOK'
<1> USE DEF WhereaboutsTypeOK
<1> DEFINE Typed == /\ at' \in [Request -> Stations]
                    /\ told' \in [Request -> Answers]
                    /\ reply' \in [Request -> Answers]
<1>1. ASSUME Typed, UNCHANGED <<plan, people, consulted>> PROVE WhereaboutsTypeOK'
  BY <1>1 DEF people, Answers, Stations
<1>2. ASSUME NEW qs, UNCHANGED <<plan, questions>>, Consulted(qs),
             acl' \in [People -> Settings], server' \in ServerSettings,
             place' \in [People \cup {Myself} -> {"none", "NoWhere"} \cup Where],
             changes' \in 0..MaxChanges
      PROVE  WhereaboutsTypeOK'
  BY <1>2, ConsultedType DEF questions
<1>3. ASSUME NEW r \in Request, Ask(r) PROVE WhereaboutsTypeOK'
  <2>1. StateOf(Myself) \in Answers
    BY StateOfType
  <2>2. Typed
    BY <1>3, <2>1 DEF Ask, AskOnline, AskActivity, Answered, ToDirectory, ToPeer, Answers, Stations
  <2>3. consulted' \in [Request -> SUBSET (OnlineAccess \cup SimpleAccess)]
    BY <1>3, ConsultedType DEF Ask, people
  <2> QED BY <1>3, <2>2, <2>3 DEF Ask, people, Answers, Stations
<1>4. ASSUME NEW r \in Request, Lose(r) PROVE WhereaboutsTypeOK'
  BY <1>1, <1>4 DEF Lose, Answers, Stations
<1>5. ASSUME NEW whom, NEW what \in Answers, TellThose(whom, what)
      PROVE  told' \in [Request -> Answers]
  BY <1>5 DEF TellThose, Answers, OnlineState
<1>6. ASSUME NEW r \in Request, PeerAsks(r) PROVE WhereaboutsTypeOK'
  BY <1>1, <1>5, <1>6 DEF PeerAsks, Answers, Stations
<1>7. ASSUME NEW m \in sent, PeerHears(m) PROVE WhereaboutsTypeOK'
  <2>1. m.request \in Request
    BY DEF TypeOK
  <2> QED BY <1>1, <1>5, <1>7, <2>1 DEF PeerHears, Answers, Stations
<1>8. CASE PeerIsBusy
  BY <1>1, <1>5, <1>8 DEF PeerIsBusy, Answers, Stations
<1>9. ASSUME NEW r \in Request, NEW what \in Answers, Answer(r, what) PROVE WhereaboutsTypeOK'
  BY <1>1, <1>9, AnswerType DEF Answer
<1>10. ASSUME NEW r \in Request, NEW to \in Stations, Forward(r, to) PROVE WhereaboutsTypeOK'
  BY <1>1, <1>10 DEF Forward, Answers, Stations
<1>11. ASSUME NEW r \in Request, PeerReceives(r) \/ DirectoryChecks(r) PROVE WhereaboutsTypeOK'
  <2>1. {"directory", "client"} \subseteq Stations
    BY DEF Stations
  <2>2. {"Unknown", "Invalid", "Offline", "Deserted", "Quiet"} \subseteq Answers
    BY DEF Answers, OnlineState, Activity
  <2>3. ActivityOf(Target(r)) \subseteq Answers
    BY <2>2 DEF ActivityOf
  <2>4. CASE PeerReceives(r)
    BY <1>9, <1>10, <2>1, <2>2, <2>4
    DEF PeerReceives, HostActivityRequest, OnlineStatusRequest, Rebuffed
  <2>5. CASE DirectoryChecks(r)
    BY <1>9, <1>10, <2>1, <2>2, <2>3, <2>5 DEF DirectoryChecks
  <2> QED BY <1>11, <2>4, <2>5
<1>12. ASSUME NEW r \in Request, ClientChecks(r) PROVE WhereaboutsTypeOK'
  <2>1. {"Unknown", "Online"} \subseteq Answers
    BY DEF Answers, OnlineState
  <2>2. Target(r) \in People
    BY <1>12 DEF ClientChecks, WaysOfQuestions, Concerned
  <2> QED BY <1>9, <1>12, <2>1, <2>2, StateOfType DEF ClientChecks
<1>13. ASSUME NEW p \in People, NEW setting \in Settings, SetAccess(p, setting) PROVE WhereaboutsTypeOK'
  BY <1>2, <1>13, ChangesAssumption DEF SetAccess, Changes, ChangesAssumption
<1>14. ASSUME NEW setting \in ServerSettings, SetServerAccess(setting) PROVE WhereaboutsTypeOK'
  BY <1>2, <1>14, ChangesAssumption DEF SetServerAccess, Changes, ChangesAssumption
<1>15. ASSUME NEW p \in People \cup {Myself}, NEW to \in {"NoWhere"} \cup Where, Move(p, to)
       PROVE  WhereaboutsTypeOK'
  BY <1>15, ChangesAssumption DEF Move, Changes, ChangesAssumption, questions
<1>16. CASE TimePasses
  BY <1>2, <1>16 DEF TimePasses, people
<1>17. CASE UNCHANGED allVars
  BY <1>17 DEF allVars, people, questions
<1> QED BY <1>3, <1>4, <1>6, <1>7, <1>8, <1>11, <1>12, <1>13, <1>14, <1>15, <1>16, <1>17
    DEF NextWhereabouts, Proceed

-----------------------------------------------------------------------------
(* What a step does to a question and to what has been said of it.         *)

\* Whom a question is about stays.
LEMMA PlansStay ==
  ASSUME plan' = plan
  PROVE  /\ (kind)' = kind
         /\ \A r : Target(r)' = Target(r) /\ Abroad(r)' = Abroad(r) /\ Concerned(r)' = Concerned(r)
BY DEF kind, Target, Abroad, Concerned

\* What the rules have said is not forgotten.
LEMMA ConsultedStays ==
  ASSUME WhereaboutsTypeOK, [NextWhereabouts]_allVars
  PROVE  plan' = plan /\ \A r \in Request : consulted[r] \subseteq consulted'[r]
<1>1. ASSUME NEW qs, Consulted(qs) PROVE \A r \in Request : consulted[r] \subseteq consulted'[r]
  <2>1. PICK A, B : \A r \in Request : /\ A[r] = Check(acl'[Target(r)], Myself, Target(r).server, now')
                                       /\ B = Check(server', Myself, Away, now')
    <3>1. PICK A, B : /\ A = [r \in Request |-> Check(acl'[Target(r)], Myself, Target(r).server, now')]
                      /\ B = Check(server', Myself, Away, now')
      OBVIOUS
    <3> QED BY <3>1
  <2>2. \A r \in Request : consulted'[r] = IF r \in qs /\ kind = "Online" /\ Target(r) \in People
                                             THEN consulted[r] \cup {A[r], B} ELSE consulted[r]
    BY <1>1, <2>1 DEF Consulted
  <2> QED BY <2>2
<1>2. ASSUME consulted' = consulted PROVE \A r \in Request : consulted[r] \subseteq consulted'[r]
  BY <1>2
<1> QED BY <1>1, <1>2 DEF NextWhereabouts, Proceed, Ask, Lose, PeerAsks, PeerReceives,
      HostActivityRequest, OnlineStatusRequest, Rebuffed, DirectoryChecks, ClientChecks, Answer,
      Forward, PeerHears, PeerIsBusy, TimePasses, SetAccess, SetServerAccess, Move, Changes, allVars

\* What was permitted stays so.
LEMMA PermittedStays ==
  ASSUME NEW r \in Request, NEW what, Permitted(r, what),
         plan' = plan, consulted[r] \subseteq consulted'[r]
  PROVE  /\ what \in Where => "Location" \in consulted'[r]
         /\ what = "Online" => consulted'[r] \cap {"Location", "OnlineOnly"} # {}
         /\ what = "Offline" => consulted'[r] \cap {"Location", "OnlineOnly"} # {}
         /\ what \in Where \cup {"Online", "Offline"} /\ Abroad(r) => "Allow" \in consulted'[r]
BY DEF Permitted

\* Only who waits for an answer is given one, or has his question expire.
LEMMA TheyWaited ==
  ASSUME TypeOK, WaitingIsTracked
  PROVE  /\ \A r \in Expired : r \in Request /\ stage[r] = "waiting"
         /\ \A m : \A r \in Told(m) : r \in Request /\ stage[r] = "waiting"
<1>1. \A i \in DOMAIN active : active[i].request \in Request /\ stage[active[i].request] = "waiting"
  <2>1. \A i \in DOMAIN active : active[i].request \in Request
    BY DEF TypeOK, Entry
  <2> QED BY <2>1 DEF WaitingIsTracked
<1> QED BY <1>1, PurgedEntries DEF Expired, Told, Hit

\* Where a question may go from where it is.
LEMMA WaysOfAsking ==
  ASSUME WhereaboutsTypeOK, NEW r \in Request, AskOnline(r) \/ AskActivity(r)
  PROVE  \/ ~Concerned(r) /\ \E what : Answered(r, what)
         \/ ~Abroad(r) /\ ToDirectory(r)
         \/ Abroad(r) /\ ToPeer(r)
<1>1. /\ plan.about[r].form \in {"Local", "Remote"}
      /\ plan.about[r].form = "Remote" => plan.about[r].server \in {Home, Away}
  BY PlansAssumption DEF PlansAssumption, WhereaboutsTypeOK
<1>2. Localize(plan.about[r], Home).form = "Local" <=> ~Abroad(r)
  BY <1>1, ServerAssumption DEF ServerAssumption, Abroad, Target, Globalize, ServerOf, Localize, Local, Remote
<1>3. Localize(plan.about[r], Home).form \in {"Local", "Remote"}
  BY <1>1 DEF Localize, Local
<1>4. Localize(plan.about[r], Home) = Local(Asker) => ~Concerned(r)
  BY <1>1, PeopleAssumption
  DEF PeopleAssumption, Concerned, Target, Globalize, ServerOf, Localize, Local, Remote
<1> QED BY <1>2, <1>3, <1>4 DEF AskOnline, AskActivity

\* Once told, always told; and the ways stay what they are.
LEMMA WaysStep ==
  ASSUME WhereaboutsTypeOK, WaitingIsTracked, WaysOfQuestions, [NextWhereabouts]_allVars
  PROVE  WaysOfQuestions' /\ \A r \in Request : told'[r] = "none" => told[r] = "none"
<1> DEFINE Goal == WaysOfQuestions' /\ \A r \in Request : told'[r] = "none" => told[r] = "none"
<1> USE DEF WhereaboutsTypeOK
<1>0. plan' = plan /\ \A r : Abroad(r)' = Abroad(r) /\ Concerned(r)' = Concerned(r)
  BY ConsultedStays, PlansStay
<1>1. ASSUME NEW r \in Request, Ask(r) PROVE Goal
  BY <1>0, <1>1, WaysOfAsking DEF Ask, vars, Answered, ToDirectory, ToPeer, WaysOfQuestions
<1>2. ASSUME NEW r \in Request, Lose(r) PROVE Goal
  BY <1>0, <1>2 DEF Lose, vars, WaysOfQuestions
<1>3. ASSUME NEW r \in Request, PeerAsks(r) PROVE Goal
  <2>1. at[r] = "peer" /\ at' = [at EXCEPT ![r] = "wire"]
    BY <1>3 DEF PeerAsks
  <2>2. \A q \in Request : stage'[q] = IF q = r THEN "waiting" ELSE IF q \in Expired THEN "gone" ELSE stage[q]
    BY <1>3 DEF PeerAsks, Add, AfterPurge
  <2>3. \A q \in Request : told'[q] = IF q \in Expired THEN "Unknown" ELSE told[q]
    BY <1>3 DEF PeerAsks, TellThose
  <2> QED BY <1>0, <2>1, <2>2, <2>3, TheyWaited DEF WaysOfQuestions
<1>4. ASSUME NEW m \in sent, PeerHears(m) PROVE Goal
  <2>1. m.request \in Request /\ at[m.request] = "back" /\ at' = [at EXCEPT ![m.request] = "done"]
    BY <1>4 DEF PeerHears, TypeOK
  <2>2. \A q \in Request : stage'[q] = IF q \in Told(m) THEN "answered" ELSE IF q \in Expired THEN "gone" ELSE stage[q]
    BY <1>4 DEF PeerHears, Finish, AfterPurge
  <2>3. \A q \in Request : told'[q] = IF q \in Told(m) THEN reply[m.request] ELSE IF q \in Expired THEN "Unknown" ELSE told[q]
    BY <1>4 DEF PeerHears, TellThose
  <2> QED BY <1>0, <2>1, <2>2, <2>3, TheyWaited DEF WaysOfQuestions
<1>5. CASE PeerIsBusy
  <2>1. \A q \in Request : stage'[q] = IF q \in Expired THEN "gone" ELSE stage[q]
    BY <1>5 DEF PeerIsBusy, OtherEvent, AfterPurge
  <2>2. \A q \in Request : told'[q] = IF q \in Expired THEN "Unknown" ELSE told[q]
    BY <1>5 DEF PeerIsBusy, TellThose
  <2>3. at' = at
    BY <1>5 DEF PeerIsBusy
  <2> QED BY <1>0, <2>1, <2>2, <2>3, TheyWaited DEF WaysOfQuestions
<1>6. ASSUME NEW r \in Request, NEW what, at[r] \in {"wire", "directory", "client"},
             at[r] = "wire" => Abroad(r), Answer(r, what)
      PROVE  Goal
  BY <1>0, <1>6 DEF Answer, Answered, vars, WaysOfQuestions
<1>7. ASSUME NEW r \in Request, NEW to \in {"directory", "client"}, Forward(r, to),
             to = "client" => Concerned(r),
             at[r] \in {"wire", "directory"}
      PROVE  Goal
  BY <1>0, <1>7 DEF Forward, vars, WaysOfQuestions
<1>8. ASSUME NEW r \in Request, PeerReceives(r) PROVE Goal
  BY <1>6, <1>7, <1>8
  DEF PeerReceives, HostActivityRequest, OnlineStatusRequest, Rebuffed, WaysOfQuestions
<1>9. ASSUME NEW r \in Request, DirectoryChecks(r) PROVE Goal
  BY <1>6, <1>7, <1>9 DEF DirectoryChecks, Concerned
<1>10. ASSUME NEW r \in Request, ClientChecks(r) PROVE Goal
  BY <1>6, <1>10 DEF ClientChecks
<1>11. ASSUME UNCHANGED <<vars, questions>> \/ TimePasses PROVE Goal
  BY <1>0, <1>11 DEF vars, questions, TimePasses, Tick, WaysOfQuestions
<1> QED BY <1>1, <1>2, <1>3, <1>4, <1>5, <1>8, <1>9, <1>10, <1>11
    DEF NextWhereabouts, Proceed, SetAccess, SetServerAccess, Move, Changes, allVars

LEMMA RulesStep ==
  ASSUME WhereaboutsTypeOK, WaitingIsTracked, WaysOfQuestions, RulesAreConsulted,
         [NextWhereabouts]_allVars
  PROVE  RulesAreConsulted'
<1> USE DEF WhereaboutsTypeOK
<1>0. /\ plan' = plan /\ (kind)' = kind
      /\ \A r : Target(r)' = Target(r) /\ Concerned(r)' = Concerned(r)
      /\ \A r \in Request : consulted[r] \subseteq consulted'[r]
      /\ \A r \in Request : told'[r] = "none" => told[r] = "none"
  BY ConsultedStays, PlansStay, WaysStep
<1>1. ASSUME NEW qs, Consulted(qs), NEW r \in qs, r \in Request, Concerned(r)
      PROVE  RulesNow(r)' \subseteq consulted'[r]
  <2>1. RulesNow(r)' = {Check(acl'[Target(r)], Myself, Target(r).server, now'),
                        Check(server', Myself, Away, now')}
    BY <1>0 DEF RulesNow
  <2> QED BY <1>1, <2>1 DEF Consulted, Concerned
<1>2. ASSUME NEW r \in Request, UNCHANGED <<acl, server, now>> PROVE RulesNow(r)' = RulesNow(r)
  BY <1>0, <1>2 DEF RulesNow
<1>3. ASSUME UNCHANGED <<acl, server, now>>,
             \A r \in Request : at'[r] # "unasked" => at[r] # "unasked"
      PROVE  RulesAreConsulted'
  BY <1>0, <1>2, <1>3 DEF RulesAreConsulted
<1>4. ASSUME NEW r \in Request, Ask(r) PROVE RulesAreConsulted'
  <2>1. \A q \in Request : q # r => at'[q] = at[q]
    BY <1>4 DEF Ask, AskOnline, AskActivity, Answered, ToDirectory, ToPeer
  <2>2. Consulted({r}) /\ UNCHANGED <<acl, server, now>>
    BY <1>4 DEF Ask, people, vars
  <2>3. Concerned(r) => RulesNow(r)' \subseteq consulted'[r]
    BY <1>1, <2>2
  <2> QED BY <1>0, <1>2, <2>1, <2>2, <2>3 DEF RulesAreConsulted
<1>5. ASSUME Consulted(Untold), UNCHANGED <<at, told>> PROVE RulesAreConsulted'
  <2>1. ASSUME NEW r \in Request, at[r] # "unasked", told[r] = "none", Concerned(r)
        PROVE  RulesNow(r)' \subseteq consulted'[r]
    <3>1. r \in Untold
      BY <2>1 DEF Untold
    <3> QED BY <1>1, <1>5, <2>1, <3>1
  <2> QED BY <1>0, <1>5, <2>1 DEF RulesAreConsulted
<1>6. ASSUME NEW r \in Request, Lose(r) \/ PeerAsks(r) \/ PeerReceives(r) \/ DirectoryChecks(r) \/ ClientChecks(r)
      PROVE  RulesAreConsulted'
  BY <1>3, <1>6 DEF Lose, PeerAsks, PeerReceives, HostActivityRequest, OnlineStatusRequest, Rebuffed,
    DirectoryChecks, ClientChecks, Answer, Answered, Forward, Add, vars, people
<1>7. ASSUME NEW m \in sent, PeerHears(m) PROVE RulesAreConsulted'
  BY <1>3, <1>7 DEF PeerHears, Finish, people
<1>8. ASSUME PeerIsBusy \/ UNCHANGED allVars PROVE RulesAreConsulted'
  BY <1>3, <1>8 DEF PeerIsBusy, OtherEvent, people, allVars, vars, questions
<1>9. ASSUME NEW p, NEW setting, SetAccess(p, setting) \/ SetServerAccess(setting) PROVE RulesAreConsulted'
  BY <1>5, <1>9 DEF SetAccess, SetServerAccess, Changes, questions
<1>10. ASSUME NEW p, NEW to, Move(p, to) PROVE RulesAreConsulted'
  BY <1>3, <1>10 DEF Move, Changes, questions, vars
<1>11. CASE TimePasses
  BY <1>5, <1>11 DEF TimePasses, questions
<1> QED BY <1>4, <1>6, <1>7, <1>8, <1>9, <1>10, <1>11 DEF NextWhereabouts, Proceed

\* What the player's own server or the Client tells is allowed by the rules as
\* they are when it consults them.
LEMMA AnswersArePermitted ==
  ASSUME WhereaboutsTypeOK, RulesAreConsulted, Passage, NEW r \in Request, Concerned(r), told[r] = "none",
         at[r] \in {"directory", "client"}
  PROVE  /\ Permitted(r, "Unknown") /\ Permitted(r, "none")
         /\ Level(r) # "Deny" => Permitted(r, "Offline")
         /\ Level(r) = "Location" => Permitted(r, StateOf(Target(r)))
         /\ Level(r) = "OnlineOnly" => Permitted(r, "Online")
<1>1. Level(r) \in consulted[r]
  <2>1. Level(r) = Check(acl[Target(r)], Myself, Target(r).server, now)
    BY AskerIsKnown DEF Level
  <2> QED BY <2>1 DEF RulesAreConsulted, RulesNow
<1>2. Abroad(r) => "Allow" \in consulted[r]
  BY DEF Passage
<1>3. Level(r) \in OnlineAccess
  BY LevelsOfSettings DEF Level, WhereaboutsTypeOK, Concerned
<1> QED BY <1>1, <1>2, <1>3 DEF Permitted, OnlineAccess, Where

\* An answer on its way, or given where the player is at home, is permitted.
LEMMA GivenAnswers ==
  ASSUME WhereaboutsTypeOK, RulesAreConsulted, Passage, NEW r \in Request, Concerned(r), told[r] = "none",
         PeerReceives(r) \/ DirectoryChecks(r) \/ ClientChecks(r)
  PROVE  \/ \E what : Answer(r, what) /\ Permitted(r, what)
         \/ at[r] = "wire" /\ Forward(r, "directory") /\ Admitted = "Allow"
         \/ at[r] = "directory" /\ Forward(r, "client")
<1>1. CASE PeerReceives(r)
  <2>1. Permitted(r, "Unknown")
    BY DEF Permitted, Where
  <2> QED BY <1>1, <2>1
      DEF PeerReceives, HostActivityRequest, OnlineStatusRequest, Rebuffed, Concerned
<1>2. CASE DirectoryChecks(r)
  <2>1. at[r] = "directory"
    BY <1>2 DEF DirectoryChecks
  <2>2. Permitted(r, IF Level(r) = "Deny" THEN "Unknown" ELSE "Offline") /\ Permitted(r, "Unknown")
    BY <2>1, AnswersArePermitted
  <2> QED BY <1>2, <2>1, <2>2 DEF DirectoryChecks, Concerned
<1>3. CASE ClientChecks(r)
  <2>1. at[r] = "client"
    BY <1>3 DEF ClientChecks
  <2>2. /\ Permitted(r, "Unknown")
        /\ Level(r) = "Location" => Permitted(r, StateOf(Target(r)))
        /\ Level(r) = "OnlineOnly" => Permitted(r, "Online")
    BY <2>1, AnswersArePermitted
  <2> QED BY <1>3, <2>2 DEF ClientChecks
<1> QED BY <1>1, <1>2, <1>3

LEMMA PassageStep ==
  ASSUME WhereaboutsTypeOK, WaitingIsTracked, WaysOfQuestions, RulesAreConsulted, Passage,
         [NextWhereabouts]_allVars
  PROVE  Passage'
<1> USE DEF WhereaboutsTypeOK
<1>0. /\ plan' = plan
      /\ \A r : Abroad(r)' = Abroad(r) /\ Concerned(r)' = Concerned(r)
      /\ \A r \in Request : consulted[r] \subseteq consulted'[r]
      /\ \A r \in Request : told'[r] = "none" => told[r] = "none"
  BY ConsultedStays, PlansStay, WaysStep
<1> DEFINE Kept(r) == /\ Abroad(r) /\ at'[r] \in {"directory", "client"} => "Allow" \in consulted'[r]
                      /\ at'[r] = "back" => Permitted(r, reply[r])' 
<1>1. ASSUME NEW r \in Request, Concerned(r), told[r] = "none",
             at'[r] = at[r] \/ at'[r] \notin {"directory", "client", "back"}, reply'[r] = reply[r]
      PROVE  Kept(r)
  <2>1. Permitted(r, reply[r]) => Permitted(r, reply[r])'
    BY <1>0, <1>1, PermittedStays DEF Permitted
  <2> QED BY <1>0, <1>1, <2>1 DEF Passage
<1>2. ASSUME NEW r \in Request, Concerned(r), told[r] = "none", at'[r] \in {"directory", "client", "back"},
             PeerReceives(r) \/ DirectoryChecks(r) \/ ClientChecks(r)
      PROVE  Kept(r)
  <2>1. ASSUME NEW what, Answer(r, what), Permitted(r, what) PROVE Kept(r)
    <3>1. at'[r] = "back" => reply'[r] = what
      BY <1>2, <2>1 DEF Answer, Answered
    <3>2. Permitted(r, what) /\ at'[r] = "back" => Permitted(r, reply[r])'
      BY <1>0, <3>1, PermittedStays DEF Permitted
    <3>3. Abroad(r) => at'[r] = "back"
      BY <2>1 DEF Answer
    <3> QED BY <2>1, <3>2, <3>3
  <2>2. ASSUME at[r] = "wire", Forward(r, "directory"), Admitted = "Allow" PROVE Kept(r)
    <3>1. Check(server, Myself, Away, now) = "Allow"
      BY <2>2, AskerIsKnown DEF Admitted
    <3>2. "Allow" \in consulted[r]
      BY <1>2, <2>2, <3>1 DEF RulesAreConsulted, RulesNow
    <3> QED BY <1>0, <2>2, <3>2 DEF Forward
  <2>3. ASSUME at[r] = "directory", Forward(r, "client") PROVE Kept(r)
    BY <1>0, <1>2, <2>3 DEF Forward, Passage
  <2> QED BY <1>2, <2>1, <2>2, <2>3, GivenAnswers
<1>3. ASSUME NEW r \in Request, Concerned(r), told[r] = "none" PROVE Kept(r)
  <2>1. ASSUME NEW q \in Request, Ask(q) PROVE Kept(r)
    <3>1. CASE q = r
      <4>1. at'[r] # "back" /\ (Abroad(r) => at'[r] \notin {"directory", "client"})
        BY <1>3, <2>1, <3>1, WaysOfAsking DEF Ask, ToDirectory, ToPeer
      <4> QED BY <4>1
    <3>2. CASE q # r
      BY <1>1, <1>3, <2>1, <3>2 DEF Ask, AskOnline, AskActivity, Answered, ToDirectory, ToPeer
    <3> QED BY <3>1, <3>2
  <2>2. ASSUME NEW q \in Request, Lose(q) PROVE Kept(r)
    <3>1. q = r => at'[r] = "lost"
      BY <2>2 DEF Lose
    <3>2. q # r => at'[r] = at[r] /\ reply'[r] = reply[r]
      BY <2>2 DEF Lose
    <3> QED BY <1>1, <1>3, <3>1, <3>2
  <2>3. ASSUME NEW q \in Request, PeerAsks(q) PROVE Kept(r)
    BY <1>1, <1>3, <2>3 DEF PeerAsks
  <2>4. ASSUME NEW q \in Request, PeerReceives(q) \/ DirectoryChecks(q) \/ ClientChecks(q) PROVE Kept(r)
    <3>1. q # r => at'[r] = at[r] /\ reply'[r] = reply[r]
      BY <2>4 DEF PeerReceives, HostActivityRequest, OnlineStatusRequest, Rebuffed,
        DirectoryChecks, ClientChecks, Answer, Answered, Forward
    <3>2. CASE q = r
      <4>1. CASE at'[r] \in {"directory", "client", "back"}
        BY <1>2, <1>3, <2>4, <3>2, <4>1
      <4> QED BY <4>1
    <3> QED BY <1>1, <1>3, <3>1, <3>2
  <2>5. ASSUME NEW m \in sent, PeerHears(m) PROVE Kept(r)
    <3>1. m.request = r => at'[r] = "done"
      BY <2>5 DEF PeerHears
    <3>2. m.request # r => at'[r] = at[r] /\ reply'[r] = reply[r]
      BY <2>5 DEF PeerHears
    <3> QED BY <1>1, <1>3, <3>1, <3>2
  <2>6. ASSUME UNCHANGED <<at, reply>> PROVE Kept(r)
    BY <1>1, <1>3, <2>6
  <2> QED BY <2>1, <2>2, <2>3, <2>4, <2>5, <2>6 DEF NextWhereabouts, Proceed, PeerIsBusy,
        SetAccess, SetServerAccess, Move, Changes, questions, TimePasses, allVars
<1> QED BY <1>0, <1>3 DEF Passage

LEMMA LearntStep ==
  ASSUME WhereaboutsTypeOK, WaitingIsTracked, IdsInOrder, WaysOfQuestions, RulesAreConsulted, Passage, Learnt,
         [NextWhereabouts]_allVars
  PROVE  Learnt'
<1> USE DEF WhereaboutsTypeOK
<1>0. /\ plan' = plan
      /\ \A r : Abroad(r)' = Abroad(r) /\ Concerned(r)' = Concerned(r)
      /\ \A r \in Request : consulted[r] \subseteq consulted'[r]
  BY ConsultedStays, PlansStay
<1>1. SUFFICES ASSUME made' <= IdSpace, NEW r \in Request, Concerned(r) PROVE Permitted(r, told[r])'
  BY <1>0 DEF Learnt
<1>2. made <= IdSpace
  <2>1. made' = made \/ made' = made + 1
    BY StepsOfTheTable DEF Next, Add, Finish, Partial, OtherEvent, Tick, vars
  <2> QED BY <1>1, <2>1, IdSpaceAssumption, RequestsAssumption
      DEF TypeOK, IdSpaceAssumption, RequestsAssumption
<1>3. Permitted(r, told[r])
  BY <1>1, <1>2 DEF Learnt
<1>4. ASSUME NEW what, Permitted(r, what), told'[r] = what PROVE Permitted(r, told[r])'
  BY <1>0, <1>4, PermittedStays DEF Permitted
<1>5. Permitted(r, "Unknown")
  BY DEF Permitted, Where
<1>6. ASSUME NEW q \in Request, Ask(q) PROVE Permitted(r, told[r])'
  <2>1. told'[r] = told[r]
    BY <1>1, <1>6, WaysOfAsking DEF Ask, Answered, ToDirectory, ToPeer
  <2> QED BY <1>3, <1>4, <2>1
<1>7. ASSUME NEW q \in Request, PeerAsks(q) PROVE Permitted(r, told[r])'
  BY <1>3, <1>4, <1>5, <1>7 DEF PeerAsks, TellThose
<1>8. ASSUME NEW m \in sent, PeerHears(m) PROVE Permitted(r, told[r])'
  <2>1. told'[r] = IF r \in Told(m) THEN reply[m.request] ELSE IF r \in Expired THEN "Unknown" ELSE told[r]
    BY <1>8 DEF PeerHears, TellThose
  <2>2. ASSUME r \in Told(m) PROVE Permitted(r, reply[m.request])
    <3>1. r = m.request
      BY <1>2, <2>2, FindsItsOwn DEF IdsInOrder
    <3>2. at[r] = "back" /\ told[r] = "none"
      BY <1>8, <2>2, <3>1, TheyWaited DEF PeerHears, WaysOfQuestions
    <3> QED BY <1>1, <3>1, <3>2 DEF Passage
  <2> QED BY <1>3, <1>4, <1>5, <2>1, <2>2
<1>9. CASE PeerIsBusy
  BY <1>3, <1>4, <1>5, <1>9 DEF PeerIsBusy, TellThose
<1>10. ASSUME NEW q \in Request, PeerReceives(q) \/ DirectoryChecks(q) \/ ClientChecks(q)
       PROVE  Permitted(r, told[r])'
  <2>1. CASE told'[r] = told[r]
    BY <1>3, <1>4, <2>1
  <2>2. CASE told'[r] # told[r]
    <3>1. q = r /\ ~Abroad(r) /\ at[r] \in {"wire", "directory", "client"}
      BY <1>10, <2>2 DEF PeerReceives, HostActivityRequest, OnlineStatusRequest, Rebuffed,
        DirectoryChecks, ClientChecks, Answer, Answered, Forward
    <3>2. told[r] = "none"
      BY <3>1 DEF WaysOfQuestions
    <3>3. \E what : Answer(r, what) /\ Permitted(r, what)
      BY <1>1, <1>10, <2>2, <3>1, <3>2, GivenAnswers DEF Forward
    <3>4. \E what : told'[r] = what /\ Permitted(r, what)
      BY <3>1, <3>3 DEF Answer, Answered
    <3> QED BY <1>4, <3>4
  <2> QED BY <2>1, <2>2
<1>11. ASSUME told' = told PROVE Permitted(r, told[r])'
  BY <1>3, <1>4, <1>11
<1> QED BY <1>6, <1>7, <1>8, <1>9, <1>10, <1>11 DEF NextWhereabouts, Proceed, Lose,
      SetAccess, SetServerAccess, Move, Changes, questions, TimePasses, allVars

\* However the question went, and whatever rules, places and clocks changed in
\* between, nobody is told more of another player than the rules of that player
\* and, from another server, of that player's server have allowed him to know
\* at some moment since he asked (Client's and Peer's OnlineCheck, PlayerDirectory).
THEOREM NobodyLearnsMore == SpecWhereabouts => []ToldAsAllowed
<1>1. InitWhereabouts => WhereaboutsTypeOK /\ WhereaboutsInv
  <2> SUFFICES ASSUME InitWhereabouts PROVE WhereaboutsTypeOK /\ WhereaboutsInv
    OBVIOUS
  <2>1. TypeOK
    BY IdSpaceAssumption, RequestsAssumption, TimeAssumption
    DEF IdSpaceAssumption, RequestsAssumption, TimeAssumption, InitWhereabouts, Init, TypeOK, Id, Stage
  <2>2. WhereaboutsTypeOK
    BY <2>1, ChangesAssumption DEF InitWhereabouts, WhereaboutsTypeOK, ChangesAssumption
  <2>3. WhereaboutsInv
    BY DEF InitWhereabouts, Init, WhereaboutsInv, RulesAreConsulted, WaysOfQuestions, Passage,
           Learnt, Permitted, Where
  <2> QED BY <2>2, <2>3
<1>2. WhereaboutsTypeOK /\ WhereaboutsInv /\ TypeOK' /\ WaitingIsTracked /\ IdsInOrder
        /\ [NextWhereabouts]_allVars => WhereaboutsTypeOK' /\ WhereaboutsInv'
  BY WhereaboutsTypeStep, RulesStep, WaysStep, PassageStep, LearntStep DEF WhereaboutsInv
<1>3. WhereaboutsTypeOK /\ WhereaboutsInv => ToldAsAllowed
  BY DEF WhereaboutsInv, Learnt, Permitted, Concerned, ToldAsAllowed
<1>4. SpecWhereabouts => []TypeOK /\ []WaitingIsTracked /\ []IdsInOrder
  BY TableOfQuestions, TypeCorrect, NobodyWaitsForNothing, IdentifiersInOrder, PTL
<1> QED BY <1>1, <1>2, <1>3, <1>4, PTL DEF SpecWhereabouts
=============================================================================
