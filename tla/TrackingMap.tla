----------------------------- MODULE TrackingMap -----------------------------
(***************************************************************************)
(* core/src/tracking_map/mod.rs: the table of requests a Peer has sent to  *)
(* the other server and still waits for, keyed by a wrapping u32, together *)
(* with the way server/src/peer/mod.rs uses it: every message handled by   *)
(* Peer::process first purges what has expired.                            *)
(*                                                                         *)
(* The other server may answer a request never, once or (searches, direct  *)
(* messages) several times, at any later moment, so also after the request *)
(* has expired and its identifier has been given to another one.           *)
(***************************************************************************)
EXTENDS Integers, Functions

CONSTANTS Request,   \* the requests that may be made
          IdSpace,   \* number of identifiers: 2^32 in the code
          MaxRequests, \* bound on the number of requests
          Lifetime,  \* OneshotTimeout's WaitTime::DURATION, in ticks
          MaxTime    \* bound on the clock

ASSUME IdSpaceAssumption == IdSpace \in Nat \ {0}
ASSUME RequestsAssumption == MaxRequests \in Nat
ASSUME TimeAssumption == Lifetime \in Nat \ {0} /\ MaxTime \in Nat

VARIABLES
  made,     \* requests made so far, for the bound
  nextId,   \* TrackingMap::next_id
  active,   \* TrackingMap::active: identifier -> [request, endOfLife]
  now,      \* Utc::now()
  sent,     \* [id, request] of the request messages the other server has got
  stage,    \* how far each request has come, seen from its requester
  answers   \* <<requester, request>>: whose sender got the answer to what

vars == <<made, nextId, active, now, sent, stage, answers>>

Id == 0..IdSpace-1

\* A requester is told the answer or, when the sender is dropped, that there
\* will be none.
Stage == {"new", "waiting", "answered", "gone"}

Entry == [request : Request, endOfLife : 0..MaxTime+Lifetime]

TypeOK ==
  /\ made \in 0..MaxRequests
  /\ nextId \in Id
  /\ DOMAIN active \subseteq Id
  /\ active \in [DOMAIN active -> Entry]
  /\ now \in 0..MaxTime
  /\ sent \subseteq [id : Id, request : Request]
  /\ stage \in [Request -> Stage]
  /\ answers \subseteq Request \X Request

Init ==
  /\ made = 0
  /\ nextId = 0
  /\ active = << >>
  /\ now = 0
  /\ sent = {}
  /\ stage = [r \in Request |-> "new"]
  /\ answers = {}

-----------------------------------------------------------------------------
\* Expires::end_of_life() > now, the test of purge_expired.
Alive(e) == e.endOfLife > now

\* What purge_expired leaves of the table.
Purged == Restrict(active, {i \in DOMAIN active : Alive(active[i])})

\* The requests whose sender purge_expired drops.
Expired == {active[i].request : i \in DOMAIN active \ DOMAIN Purged}

\* Dropping a sender tells the requester that there will be no answer.
AfterPurge == [r \in Request |-> IF r \in Expired THEN "gone" ELSE stage[r]]

\* wrapping_add(1)
WrappingAdd(i) == IF i = IdSpace - 1 THEN 0 ELSE i + 1

\* The identifiers the loop of `add' passes over when it settles for i.
Skipped(i) == IF nextId <= i THEN nextId..i-1 ELSE (nextId..IdSpace-1) \cup (0..i-1)

AnyId(table, i) == i = nextId   \* mutant: contains_key is not consulted
FirstFree(table, i) == i \notin DOMAIN table /\ Skipped(i) \subseteq DOMAIN table

Added(id, r) ==
  [i \in DOMAIN Purged \cup {id} |->
     IF i = id THEN [request |-> r, endOfLife |-> now + Lifetime] ELSE Purged[i]]

\* A local request: Peer::process with Incoming::Directory, TrackingMap::add.
Add(r) ==
  /\ made < MaxRequests
  /\ made' = made + 1
  /\ stage[r] = "new"
  /\ \E id \in Id :
       /\ FirstFree(Purged, id)
       /\ nextId' = WrappingAdd(id)
       /\ active' = Added(id, r)
       /\ sent' = sent \cup {[id |-> id, request |-> r]}
  /\ stage' = [AfterPurge EXCEPT ![r] = "waiting"]
  /\ UNCHANGED <<now, answers>>

\* Which entry an answer resolves: the one with its identifier.
ResolvesNext(m, i) == i = WrappingAdd(m.id)   \* mutant: the wrong entry
Resolves(m, i) == i = m.id

Hit(m) == {i \in DOMAIN Purged : Resolves(m, i)}
Told(m) == {Purged[i].request : i \in Hit(m)}

\* An answer: TrackingMap::finish, and the value goes to the entry's sender.
Finish(m) ==
  /\ active' = Restrict(Purged, DOMAIN Purged \ Hit(m))
  /\ stage' = [r \in Request |-> IF r \in Told(m) THEN "answered" ELSE AfterPurge[r]]
  /\ answers' = answers \cup (Told(m) \X {m.request})
  /\ UNCHANGED <<made, nextId, now, sent>>

\* A partial answer (LocationsAvailable): get_mut; when the requester has gone
\* away, ActiveSearch::send sets the entry's end of life to the distant past.
Partial(m, listening) ==
  /\ active' = [i \in DOMAIN Purged |->
                  IF i \in Hit(m) /\ ~listening
                    THEN [Purged[i] EXCEPT !.endOfLife = 0] ELSE Purged[i]]
  /\ stage' = AfterPurge
  /\ UNCHANGED <<made, nextId, now, sent, answers>>

\* Any other message or event of the peer: process purges and no more.
OtherEvent ==
  /\ active' = Purged
  /\ stage' = AfterPurge
  /\ UNCHANGED <<made, nextId, now, sent, answers>>

Tick ==
  /\ now < MaxTime
  /\ now' = now + 1
  /\ UNCHANGED <<made, nextId, active, sent, stage, answers>>

Next ==
  \/ \E r \in Request : Add(r)
  \/ \E m \in sent : Finish(m) \/ Partial(m, TRUE) \/ Partial(m, FALSE)
  \/ OtherEvent
  \/ Tick

Spec == Init /\ [][Next]_vars

-----------------------------------------------------------------------------
(* Properties.                                                             *)

\* A requester is only ever given the answer to its own request: a late
\* answer to an expired request does not reach the one that came after it.
\* It holds while no more than IdSpace requests have been made.
AnswersGoHome == made <= IdSpace => \A a \in answers : a[1] = a[2]

\* A waiting request is in the table, and only waiting requests are: however
\* far next_id has wrapped, a new request displaces none that still waits,
\* and nobody waits for an entry that is gone.
WaitingIsTracked ==
  \A r \in Request :
    stage[r] = "waiting" <=> \E i \in DOMAIN active : active[i].request = r
=============================================================================
