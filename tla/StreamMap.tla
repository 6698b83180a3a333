------------------------------ MODULE StreamMap ------------------------------
(***************************************************************************)
(* server/src/stream_map.rs: StreamsUnorderedMap, the collection of keyed  *)
(* streams (guests, visitors, assets in flight) that every server task     *)
(* polls from its select loop.                                             *)
(*                                                                         *)
(* `ready' is the mutex-protected set of keys whose stream has something   *)
(* to say.  A producer thread that wakes a stream inserts the key and then *)
(* wakes the owner's task; these are two steps.  The owner's task is       *)
(* polling (the body of poll_next, one step per iteration because the      *)
(* guard returned by ready.lock() lives through the loop body), running    *)
(* (its own code between two polls) or parked until it is notified.        *)
(***************************************************************************)
EXTENDS Integers, FiniteSets

CONSTANTS Key,        \* the keys, ordered as BTreeSet orders them
          MaxItems,   \* bound: items queued in one inner stream
          MaxTouches  \* bound: owner operations between polls, in a behaviour

ASSUME KeyAssumption == Key \subseteq Nat
ASSUME StreamsBoundAssumption == MaxItems \in Nat \ {0} /\ MaxTouches \in Nat

VARIABLES
  map,      \* keys of the wrapped map
  ready,    \* keys to poll
  items,    \* items queued in the stream of each key
  closed,   \* keys whose sender is gone: the stream ends once drained
  armed,    \* keys whose stream holds the waker of its last poll
  waking,   \* progress of the producer that took the waker of a key
  pc,       \* what the owner's task is doing
  runQueue, \* has the executor the owner's task queued to run (again)?
  touches   \* operations of the owner so far, for the bound

streamVars == <<map, ready, items, closed, armed, waking, pc, runQueue, touches>>

Streams == <<items, closed, armed>>

StreamsTypeOK ==
  /\ map \subseteq Key
  /\ ready \subseteq Key
  /\ items \in [Key -> 0..MaxItems]
  /\ closed \subseteq Key
  /\ armed \subseteq Key
  /\ waking \in [Key -> {"idle", "insert", "notify"}]
  /\ pc \in {"running", "polling", "parked"}
  /\ runQueue \in {"empty", "queued"}
  /\ touches \in 0..MaxTouches

StreamsInit ==
  /\ map = {}
  /\ ready = {}
  /\ items = [k \in Key |-> 0]
  /\ closed = {}
  /\ armed = {}
  /\ waking = [k \in Key |-> "idle"]
  /\ pc = "running"
  /\ runQueue = "empty"
  /\ touches = 0

-----------------------------------------------------------------------------
(* The producers: the sending ends of the inner streams.                   *)

\* The waker left in the stream by its last poll, if any, is taken and used.
TakeWaker(k) ==
  /\ armed' = armed \ {k}
  /\ waking' = [waking EXCEPT ![k] = IF k \in armed THEN "insert" ELSE @]

Push(k) ==
  /\ waking[k] = "idle"
  /\ k \notin closed
  /\ items[k] < MaxItems
  /\ items' = [items EXCEPT ![k] = @ + 1]
  /\ TakeWaker(k)
  /\ UNCHANGED <<map, ready, closed, pc, runQueue, touches>>

CloseSender(k) ==
  /\ waking[k] = "idle"
  /\ k \notin closed
  /\ closed' = closed \cup {k}
  /\ TakeWaker(k)
  /\ UNCHANGED <<map, ready, items, pc, runQueue, touches>>

\* What is left to do once the key is in the ready set: wake the task.
ForgetTask == "idle"   \* mutant: only the key is inserted
AfterInsert == "notify"

\* MapWaker::wake_by_ref, first statement.
WakeInsert(k) ==
  /\ waking[k] = "insert"
  /\ ready' = ready \cup {k}
  /\ waking' = [waking EXCEPT ![k] = AfterInsert]
  /\ UNCHANGED <<map, Streams, pc, runQueue, touches>>

\* MapWaker::wake_by_ref, second statement.
WakeNotify(k) ==
  /\ waking[k] = "notify"
  /\ runQueue' = "queued"
  /\ waking' = [waking EXCEPT ![k] = "idle"]
  /\ UNCHANGED <<map, ready, Streams, pc, touches>>

-----------------------------------------------------------------------------
(* The owner, between two polls.                                           *)

Touch ==
  /\ pc = "running"
  /\ touches < MaxTouches
  /\ touches' = touches + 1
  /\ UNCHANGED <<waking, pc, runQueue>>

\* StreamMapGuard::drop: what becomes of the ready set once the guarded map,
\* whose keys were `initial', has the keys `current'.
GuardDrop(initial, current) ==
  ready' = (ready \cup (current \ initial)) \ current

\* mutate() up to the end of the guard's life: the keys become `current', and
\* the keys in `fresh' carry streams that were not in the map before.
Mutate(current, fresh) ==
  /\ Touch
  /\ current \ map \subseteq fresh
  /\ fresh \subseteq current
  /\ map' = current
  /\ GuardDrop(map, current)
  /\ items' = [k \in Key |-> IF k \in fresh THEN 0 ELSE items[k]]
  /\ closed' = closed \ fresh
  /\ armed' = armed \ fresh

\* entry(key): the caller may change the stream, so it is polled again.
Entry(k) ==
  /\ Touch
  /\ ready' = ready \cup {k}
  /\ UNCHANGED <<map, Streams>>

Remove(k) ==
  /\ Touch
  /\ ready' = ready \ {k}
  /\ map' = map \ {k}
  /\ armed' = armed \ {k}
  /\ UNCHANGED <<items, closed>>

-----------------------------------------------------------------------------
(* poll_next.                                                              *)

StartPoll ==
  /\ pc = "running"
  /\ pc' = "polling"
  /\ UNCHANGED <<map, ready, Streams, waking, runQueue, touches>>

\* pop_first
First(k) == k \in ready /\ \A j \in ready : k <= j

\* A ready key that is no longer in the map.
PollAbsent(k) ==
  /\ pc = "polling"
  /\ First(k)
  /\ k \notin map
  /\ ready' = ready \ {k}
  /\ UNCHANGED <<map, Streams, waking, pc, runQueue, touches>>

\* OutputMapper::handle and OutputMapper::end may give the caller something.
Outcomes == {"output", "nothing"}

\* The inner stream yields an item.
HasItem(k) == items[k] > 0

\* Poll::Ready(Some(_)): OutputMapper::handle decides whether poll_next
\* returns an output or looks at the next key.
PollItem(k, outcome) ==
  /\ pc = "polling"
  /\ First(k)
  /\ k \in map
  /\ HasItem(k)
  /\ ready' = ready \ {k}
  /\ items' = [items EXCEPT ![k] = @ - 1]
  /\ pc' = IF outcome = "output" THEN "running" ELSE pc
  /\ UNCHANGED <<map, closed, armed, waking, runQueue, touches>>

\* Poll::Ready(None): the stream is over and leaves the map.
PollEnd(k, outcome) ==
  /\ pc = "polling"
  /\ First(k)
  /\ k \in map
  /\ ~HasItem(k)
  /\ k \in closed
  /\ ready' = ready \ {k}
  /\ map' = map \ {k}
  /\ armed' = armed \ {k}
  /\ pc' = IF outcome = "output" THEN "running" ELSE pc
  /\ UNCHANGED <<items, closed, waking, runQueue, touches>>

\* Poll::Pending of the inner stream, which keeps the waker.
PollPending(k) ==
  /\ pc = "polling"
  /\ First(k)
  /\ k \in map
  /\ ~HasItem(k)
  /\ k \notin closed
  /\ ready' = ready \ {k}
  /\ armed' = armed \cup {k}
  /\ UNCHANGED <<map, items, closed, waking, pc, runQueue, touches>>

\* The loop ends when pop_first finds no key.
StopEarly == Cardinality(ready) <= 1   \* mutant: the last key is left behind
LoopIsOver == ready = {}

\* Poll::Pending of the map: the owner's task gives up its thread.
Park ==
  /\ pc = "polling"
  /\ LoopIsOver
  /\ pc' = "parked"
  /\ UNCHANGED <<map, ready, Streams, waking, runQueue, touches>>

\* The executor runs the task again.
Resume ==
  /\ pc = "parked"
  /\ runQueue = "queued"
  /\ pc' = "polling"
  /\ runQueue' = "empty"
  /\ UNCHANGED <<map, ready, Streams, waking, touches>>

\* Another arm of the owner's select loop completes.
OtherArm ==
  /\ pc = "parked"
  /\ touches < MaxTouches
  /\ touches' = touches + 1
  /\ pc' = "running"
  /\ UNCHANGED <<map, ready, Streams, waking, runQueue>>

-----------------------------------------------------------------------------
PollKey(k) ==
  \/ PollAbsent(k)
  \/ \E outcome \in Outcomes : PollItem(k, outcome) \/ PollEnd(k, outcome)
  \/ PollPending(k)

Producer(k) == Push(k) \/ CloseSender(k) \/ WakeInsert(k) \/ WakeNotify(k)

Owner ==
  \/ \E current, fresh \in SUBSET Key : Mutate(current, fresh)
  \/ \E k \in Key : Entry(k) \/ Remove(k)
  \/ StartPoll
  \/ \E k \in Key : PollKey(k)
  \/ Park
  \/ Resume
  \/ OtherArm

StreamsNext == Owner \/ \E k \in Key : Producer(k)

StreamsSpec == StreamsInit /\ [][StreamsNext]_streamVars

\* The executor keeps running a task that is not parked and resumes a
\* notified one; a thread in the middle of a wake-up finishes it.
FairSpec ==
  /\ StreamsSpec
  /\ WF_streamVars(StartPoll)
  /\ WF_streamVars(\E k \in Key : PollKey(k))
  /\ WF_streamVars(Park)
  /\ WF_streamVars(Resume)
  /\ \A k \in Key : WF_streamVars(WakeInsert(k)) /\ WF_streamVars(WakeNotify(k))

-----------------------------------------------------------------------------
(* Properties.                                                             *)

\* No lost wake-up: when the owner's task sleeps on a nonempty ready set, its
\* notification has arrived or is the next step of the thread that made the
\* insertion (MapWaker inserts the key before it wakes the task).
NoLostNotification ==
  pc = "parked" /\ ready # {} =>
    runQueue = "queued" \/ \E k \in Key : waking[k] = "notify"

\* A stream that is marked ready is polled, or dropped, in the end, whatever
\* order the producers wake in and however often poll_next returns early.
ReadyIsServed == \A k \in Key : k \in ready ~> k \notin ready
=============================================================================
