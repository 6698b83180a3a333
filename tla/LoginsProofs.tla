---------------------------- MODULE LoginsProofs ----------------------------
(***************************************************************************)
(* Theorems about Logins, for any accounts, spellings, keys and requests   *)
(* handled at the same time: no locked account (but with phpBB) and no     *)
(* removed key opens a session, a login with the provider is good for      *)
(* once, and who is connected has logged in since the server started.      *)
(***************************************************************************)
EXTENDS Logins, TLAPS

USE NamesAssumption, LivesAssumption DEF NamesAssumption, LivesAssumption

\* The stores that are files lock nobody.
FilesLockNobody == kind \in {"fixed_otp", "fixed"} => locked = {}

\* A request has noted that its account is not locked, and its key registered:
\* where the code looks again, it finds no more than has been noted.
Watched(t) ==
  /\ AccountOf(t.name) \notin locked => t.open
  /\ Registered(AccountOf(t.name), t.proof) => t.held

\* What has been asked of a request that came so far.
Vetted(t) ==
  /\ t.step = "validate" => t.proof \notin Prints
  /\ t.step \in {"get_key", "encode"} => t.name \in Accounts /\ (kind # "phpbb" => t.open)
  /\ t.step = "insert" => t.name \in Configured
  /\ t.step = "encode" /\ t.proof \in Prints => t.held

TasksAreVetted == \A h \in Busy : Watched(handling[h]) /\ Vetted(handling[h])

\* A login that was taken out is not among those that wait, and never will be:
\* their numbers go on.
UsedUp ==
  /\ taken \in Seq([id : 0..MaxLogins, at : 0..MaxTime, expires : Nat])
  /\ \A i \in 1..Len(taken) : taken[i].id <= asked /\ \A r \in requests : r.id # taken[i].id

LoginsInv == FilesLockNobody /\ TasksAreVetted /\ UsedUp

\* A request comes in.
Begins(h) ==
  \E n \in Names :
    \/ \E right \in BOOLEAN : AskPassword(h, n, right)
    \/ \E k \in Prints : AskKey(h, n, k)
    \/ AskProvider(h, n)
    \/ \E c \in 1..MaxLogins : n \in Accounts /\ ReturnFromProvider(h, c, n)

-----------------------------------------------------------------------------
(* Names, rows and tasks.                                                  *)

\* However a name is spelled, it becomes one of an account that the store shows: one
\* that is not locked, but for phpBB's.
Shown == IF kind = "phpbb" THEN Accounts ELSE Accounts \ locked
LEMMA NamesOfAccounts ==
  /\ \A n \in Names : Normalized(n) \in Names
  /\ \A n \in Accounts : Normalized(n) = n
  /\ \A n \in Names : FilesLockNobody /\ NormalizeUsername(n) => Normalized(n) \in Shown
  /\ \A n \in Names : FilesLockNobody /\ CheckAndNormalize(n) => n \in Shown
<1>1. \A n \in Names : Normalized(n) \in Names
  BY DEF Normalized
<1>2. \A n \in Accounts : Normalized(n) = n
  BY DEF Normalized
<1>3. \A n \in Names : FilesLockNobody /\ CheckAndNormalize(n) => n \in Shown
  BY DEF FilesLockNobody, CheckAndNormalize, OtpSecret, FixedSecret, FixedPassword, PhpBBLogin, UruLogin, Shown
<1>4. \A n \in Names : FilesLockNobody /\ NormalizeUsername(n) => Normalized(n) \in Shown
  <2>1. \A n \in Names : kind = "oidc" /\ ClientFor(n) => n \in Shown
    BY DEF ClientFor, Shown
  <2>2. \A n \in Names : kind = "ldap" /\ QueryUsername(n) => Normalized(n) \in Shown
    BY DEF QueryUsername, Normalized, Shown
  <2>3. \A n \in Shown : n \in Accounts
    BY DEF Shown
  <2> QED BY <1>2, <1>3, <2>1, <2>2, <2>3 DEF NormalizeUsername
<1> QED BY <1>1, <1>2, <1>3, <1>4

\* A request that has come as far as some step is one of the requests.
LEMMA TasksInSteps ==
  ASSUME TypeOK, NEW h \in Handlers, handling[h].step \in Steps
  PROVE  handling[h] \in Tasks /\ h \in Busy
BY DEF TypeOK, Busy, Idle, Steps

LEMMA BusyTasks == ASSUME TypeOK, NEW h \in Busy PROVE handling[h] \in Tasks
BY DEF TypeOK, Busy

LEMMA FreshTasks ==
  ASSUME NEW s \in Steps, NEW n \in Names, NEW k \in Names \cup Prints \cup {NoOne}
  PROVE  Fresh(s, n, k) \in Tasks /\ Watched(Fresh(s, n, k))
<1> DEFINE o == AccountOf(n) \notin locked
           r == Registered(AccountOf(n), k)
           t == [step |-> s, name |-> n, proof |-> k, csrf |-> 0, at |-> 0, open |-> o, held |-> r]
<1>1. o \in BOOLEAN /\ r \in BOOLEAN
  BY DEF Registered
<1>2. t.name = n /\ t.proof = k /\ t.open = o /\ t.held = r
  OBVIOUS
<1>3. t = Fresh(s, n, k)
  BY DEF Fresh
<1> HIDE DEF o, r
<1>4. t \in Tasks
  BY <1>1 DEF Tasks
<1> HIDE DEF t
<1>5. Watched(t)
  BY <1>2 DEF Watched, o, r
<1> QED BY <1>3, <1>4, <1>5

\* What a request becomes is vetted if what it was needs no more.
LEMMA OneTaskMoves ==
  ASSUME TypeOK, TasksAreVetted, NEW h \in Handlers, NEW t, Becomes(h, t),
         t = Idle \/ (t \in Tasks /\ Watched(t) /\ Vetted(t)),
         UNCHANGED store, \A n, k : Registered(n, k)' => Registered(n, k)
  PROVE  handling' \in [Handlers -> Tasks \cup {Idle}] /\ TasksAreVetted'
<1>1. handling' \in [Handlers -> Tasks \cup {Idle}]
  BY DEF Becomes, TypeOK
<1>2. ASSUME NEW g \in Handlers, handling'[g] # Idle
      PROVE  Watched(handling'[g]) /\ Vetted(handling'[g])
  BY <1>2 DEF Becomes, TypeOK, TasksAreVetted, Busy
<1>3. \A g \in Handlers : handling'[g] # Idle => Watched(handling[g])' /\ Vetted(handling[g])'
  <2>1. ASSUME NEW g \in Handlers, Registered(AccountOf(handling[g].name), handling[g].proof)'
        PROVE  Registered(AccountOf(handling'[g].name), handling'[g].proof)
    <3>1. PICK a, k : a = AccountOf(handling'[g].name) /\ k = handling'[g].proof
      OBVIOUS
    <3>2. Registered(a, k)'
      BY <2>1, <3>1 DEF store, AccountOf, Normalized, Registered
    <3> QED BY <3>1, <3>2
  <2>2. \A g \in Handlers : AccountOf(handling[g].name)' = AccountOf(handling'[g].name) /\ locked' = locked
    BY DEF store, AccountOf, Normalized
  <2> QED BY <1>2, <2>1, <2>2 DEF Watched, Vetted, store
<1> QED BY <1>1, <1>3 DEF TasksAreVetted, Busy

\* When a store or the keys change, the requests that notice it are those it
\* is about.
LEMMA TasksStay ==
  ASSUME TypeOK, TasksAreVetted,
         \A g \in Handlers : handling'[g] = handling[g] \/
           (/\ handling[g] # Idle
            /\ \/ handling'[g] = [handling[g] EXCEPT !.open = TRUE]
               \/ handling'[g] = [handling[g] EXCEPT !.held = TRUE])
  PROVE  \A g \in Handlers :
           /\ handling'[g] = Idle <=> handling[g] = Idle
           /\ handling[g] # Idle =>
                /\ handling'[g] \in Tasks /\ Vetted(handling'[g])
                /\ handling'[g].name = handling[g].name /\ handling'[g].proof = handling[g].proof
                /\ handling[g].open => handling'[g].open
                /\ handling[g].held => handling'[g].held
<1> SUFFICES ASSUME NEW g \in Handlers
             PROVE  /\ handling'[g] = Idle <=> handling[g] = Idle
                    /\ handling[g] # Idle =>
                         /\ handling'[g] \in Tasks /\ Vetted(handling'[g])
                         /\ handling'[g].name = handling[g].name /\ handling'[g].proof = handling[g].proof
                         /\ handling[g].open => handling'[g].open
                         /\ handling[g].held => handling'[g].held
  OBVIOUS
<1>1. CASE handling[g] = Idle
  BY <1>1
<1>2. CASE handling[g] # Idle
  <2>1. handling[g] \in Tasks /\ Vetted(handling[g])
    BY <1>2 DEF TypeOK, TasksAreVetted, Busy
  <2>2. \A t \in Tasks : t # Idle
    BY DEF Tasks, Idle, Steps
  <2>3. PICK t \in Tasks : t = handling[g]
    BY <2>1
  <2>4. ASSUME NEW u \in {t, [t EXCEPT !.open = TRUE], [t EXCEPT !.held = TRUE]}
        PROVE  /\ u \in Tasks
               /\ u.name = t.name /\ u.proof = t.proof /\ u.step = t.step
               /\ t.open => u.open
               /\ t.held => u.held
    <3>1. CASE u = [t EXCEPT !.open = TRUE]
      <4>1. u \in Tasks
        BY <3>1 DEF Tasks
      <4>2. u.open = TRUE /\ u.held = t.held /\ u.name = t.name /\ u.proof = t.proof /\ u.step = t.step
        BY <3>1 DEF Tasks
      <4> QED BY <4>1, <4>2
    <3>2. CASE u = [t EXCEPT !.held = TRUE]
      <4>1. u \in Tasks
        BY <3>2 DEF Tasks
      <4>2. u.held = TRUE /\ u.open = t.open /\ u.name = t.name /\ u.proof = t.proof /\ u.step = t.step
        BY <3>2 DEF Tasks
      <4> QED BY <4>1, <4>2
    <3> QED BY <2>4, <3>1, <3>2
  <2>5. handling'[g] \in {t, [t EXCEPT !.open = TRUE], [t EXCEPT !.held = TRUE]}
    BY <1>2, <2>3
  <2> QED BY <1>2, <2>1, <2>2, <2>3, <2>4, <2>5 DEF Vetted
<1> QED BY <1>1, <1>2

\* A request that goes on keeps what it has noted.
LEMMA TasksGoOn ==
  ASSUME NEW t \in Tasks, NEW s \in Steps
  PROVE  LET u == [t EXCEPT !.step = s]
         IN  /\ u \in Tasks /\ u.step = s
             /\ u.name = t.name /\ u.proof = t.proof /\ u.open = t.open /\ u.held = t.held
             /\ Watched(t) => Watched(u)
<1> DEFINE u == [t EXCEPT !.step = s]
<1>1. u \in Tasks
  BY DEF Tasks
<1>2. u.step = s /\ u.name = t.name /\ u.proof = t.proof /\ u.open = t.open /\ u.held = t.held
  BY DEF Tasks
<1> HIDE DEF u
<1>3. Watched(t) => Watched(u)
  BY <1>2 DEF Watched
<1> QED BY <1>1, <1>2, <1>3 DEF u

-----------------------------------------------------------------------------
(* What the steps of a request make of it.                                 *)

LEMMA HandlersStep ==
  ASSUME TypeOK, LoginsInv, NEW h \in Handlers,
         \/ Begins(h)
         \/ ValidatePassword(h) \/ NormalizeName(h) \/ GetKey(h) \/ FindClient(h) \/ SendToProvider(h)
         \/ RemoveRequest(h) \/ FindClientAgain(h) \/ Exchange(h) \/ FinishLogin(h)
         \/ Encode(h) \/ Fail(h)
  PROVE  handling' \in [Handlers -> Tasks \cup {Idle}] /\ TasksAreVetted'
<1> DEFINE Good(t) == t = Idle \/ (t \in Tasks /\ Watched(t) /\ Vetted(t))
           Goal == handling' \in [Handlers -> Tasks \cup {Idle}] /\ TasksAreVetted'
<1> USE DEF LoginsInv
<1>1. ASSUME NEW t, Good(t), Becomes(h, t), UNCHANGED <<store, keys>> PROVE Goal
  <2>1. UNCHANGED store /\ \A n, k : Registered(n, k)' => Registered(n, k)
    BY <1>1 DEF Registered
  <2> QED BY <1>1, <2>1, OneTaskMoves
<1>2. ASSUME Ends(h), UNCHANGED <<store, keys>> PROVE Goal
  BY <1>1, <1>2 DEF Ends
<1>3. ASSUME handling[h].step \in Steps
      PROVE  handling[h] \in Tasks /\ Watched(handling[h]) /\ Vetted(handling[h])
  BY <1>3, TasksInSteps DEF TasksAreVetted
<1>4. ASSUME NEW s \in Steps, handling[h].step \in Steps, Goes(h, s), UNCHANGED <<store, keys>>,
             Vetted([handling[h] EXCEPT !.step = s])
      PROVE  Goal
  BY <1>1, <1>3, <1>4, TasksGoOn DEF Goes
<1>5. ASSUME NEW s \in Steps \ {"get_key", "insert", "encode"}, NEW n \in Names,
             NEW k \in Names \cup Prints \cup {NoOne}, s = "validate" => k \notin Prints
      PROVE  Good(Fresh(s, n, k))
  <2>1. Fresh(s, n, k).step = s /\ Fresh(s, n, k).proof = k
    BY DEF Fresh
  <2>2. Vetted(Fresh(s, n, k))
    BY <1>5, <2>1 DEF Vetted
  <2> QED BY <1>5, <2>2, FreshTasks
<1>6. ASSUME NEW n \in Names, NEW right \in BOOLEAN, AskPassword(h, n, right) PROVE Goal
  BY <1>1, <1>5, <1>6 DEF AskPassword, Steps
<1>7. ASSUME NEW n \in Names, NEW k \in Prints, AskKey(h, n, k) PROVE Goal
  BY <1>1, <1>5, <1>7 DEF AskKey, Steps
<1>8. ASSUME NEW n \in Names, AskProvider(h, n) PROVE Goal
  BY <1>1, <1>5, <1>8 DEF AskProvider, Steps
<1>9. ASSUME NEW n \in Accounts, NEW c \in 1..MaxLogins, ReturnFromProvider(h, c, n) PROVE Goal
  <2>1. Good(Fresh("remove", n, n))
    BY <1>5 DEF Steps
  <2>2. PICK t : t = Fresh("remove", n, n)
    OBVIOUS
  <2>3. t \in Tasks /\ Watched(t) /\ Vetted(t) /\ t.step = "remove"
    BY <2>1, <2>2 DEF Fresh, Idle
  <2> DEFINE u == [t EXCEPT !.csrf = c, !.at = now]
  <2>4. u \in Tasks
    <3>1. now \in 0..MaxTime
      BY DEF TypeOK
    <3>2. c \in 0..MaxLogins
      BY <1>9
    <3> QED BY <2>3, <3>1, <3>2 DEF Tasks
  <2>5. u.step = t.step /\ u.name = t.name /\ u.proof = t.proof /\ u.open = t.open /\ u.held = t.held
    BY <2>3 DEF Tasks
  <2>6. Becomes(h, u) /\ UNCHANGED <<store, keys>>
    BY <1>9, <2>2 DEF ReturnFromProvider
  <2> HIDE DEF u
  <2>7. Watched(u) /\ Vetted(u)
    BY <2>3, <2>5 DEF Watched, Vetted
  <2> QED BY <1>1, <2>4, <2>6, <2>7
<1>10. CASE ValidatePassword(h)
  <2> DEFINE t == handling[h]
  <2>1. t.step \in Steps
    BY <1>10 DEF ValidatePassword, Steps
  <2>2. ASSUME Validate(t.name) PROVE Vetted([t EXCEPT !.step = "encode"])
    <3>1. t.name \in Names
      BY <1>3, <2>1 DEF Tasks
    <3>2. /\ t.name \in Accounts /\ AccountOf(t.name) = t.name
          /\ kind # "phpbb" => t.name \notin locked
      BY <2>2, <3>1, NamesOfAccounts DEF Validate, AccountOf, Shown
    <3>3. (kind # "phpbb" => t.open) /\ t.proof \notin Prints
      BY <1>3, <1>10, <2>1, <3>2 DEF Watched, Vetted, ValidatePassword
    <3> QED BY <1>3, <2>1, <3>2, <3>3, TasksGoOn DEF Vetted, Steps
  <2> QED BY <1>2, <1>4, <1>10, <2>1, <2>2 DEF ValidatePassword, Steps
<1>11. CASE NormalizeName(h)
  <2>1. CASE NormalizeUsername(handling[h].name)
    <3>1. PICK t : t = handling[h]
      OBVIOUS
    <3>2. t \in Tasks /\ Watched(t) /\ t.name \in Names
      BY <1>3, <1>11, <3>1 DEF NormalizeName, Steps, Tasks
    <3> DEFINE u == [t EXCEPT !.step = "get_key", !.name = Normalized(@)]
    <3>3. Becomes(h, u) /\ UNCHANGED <<store, keys>>
      BY <1>11, <2>1, <3>1 DEF NormalizeName
    <3>4. /\ Normalized(t.name) \in Accounts /\ AccountOf(Normalized(t.name)) = Normalized(t.name)
          /\ kind # "phpbb" => Normalized(t.name) \notin locked
      BY <2>1, <3>1, <3>2, NamesOfAccounts DEF AccountOf, Shown
    <3>5. u \in Tasks
      BY <3>2, <3>4 DEF Tasks, Steps
    <3>6. /\ u.step = "get_key" /\ u.name = Normalized(t.name)
          /\ u.proof = t.proof /\ u.open = t.open /\ u.held = t.held
      BY <3>2 DEF Tasks
    <3> HIDE DEF u
    <3>7. Watched(u) /\ (kind # "phpbb" => u.open)
      BY <3>2, <3>4, <3>6 DEF Watched, AccountOf
    <3> QED BY <1>1, <3>3, <3>4, <3>5, <3>6, <3>7 DEF Vetted
  <2> QED BY <1>2, <1>11, <2>1 DEF NormalizeName
<1>12. CASE GetKey(h)
  <2> DEFINE t == handling[h]
             rows == KeyRows(t.name, t.proof)
  <2>1. t \in Tasks /\ Watched(t) /\ Vetted(t) /\ t.step = "get_key"
    BY <1>3, <1>12 DEF GetKey, Steps
  <2>2. \A n, k : Registered(n, k)' => Registered(n, k)
    <3>1. \A r \in keys : [r EXCEPT !.used = TRUE].name = r.name /\ [r EXCEPT !.used = TRUE].print = r.print
      BY DEF TypeOK, Rows
    <3>2. rows \subseteq keys /\ keys' = (keys \ rows) \cup {[r EXCEPT !.used = TRUE] : r \in rows}
      BY <1>12 DEF GetKey, KeyRows
    <3> HIDE DEF rows
    <3>3. ASSUME NEW q \in keys' PROVE \E r \in keys : q.name = r.name /\ q.print = r.print
      <4>1. CASE q \in keys
        BY <4>1
      <4>2. CASE q \notin keys
        <5>1. PICK r \in rows : q = [r EXCEPT !.used = TRUE]
          BY <3>2, <3>3, <4>2
        <5>2. r \in keys
          BY <3>2
        <5> QED BY <3>1, <5>1, <5>2
      <4> QED BY <4>1, <4>2
    <3> QED BY <3>3 DEF Registered
  <2>3. CASE rows # {}
    <3>1. Registered(t.name, t.proof) /\ AccountOf(t.name) = t.name
      BY <2>1, <2>3, NamesOfAccounts DEF KeyRows, Registered, Vetted, AccountOf
    <3>2. t.held
      BY <2>1, <3>1 DEF Watched
    <3> DEFINE u == [t EXCEPT !.step = "encode"]
    <3>3. u \in Tasks /\ Watched(u) /\ u.step = "encode" /\ u.name = t.name /\ u.open = t.open /\ u.held = t.held
      BY <2>1, TasksGoOn DEF Steps
    <3>4. Vetted(u)
      BY <2>1, <3>2, <3>3 DEF Vetted
    <3>5. Becomes(h, u) /\ UNCHANGED store
      BY <1>12, <2>3 DEF GetKey, Goes
    <3> HIDE DEF u
    <3> QED BY <2>2, <3>3, <3>4, <3>5, OneTaskMoves
  <2>4. CASE rows = {}
    <3>1. Becomes(h, Idle) /\ UNCHANGED store
      BY <1>12, <2>4 DEF GetKey, Ends
    <3> QED BY <2>2, <3>1, OneTaskMoves
  <2> QED BY <2>3, <2>4
<1>13. CASE FindClient(h)
  <2>1. CASE ClientFor(handling[h].name)
    <3>1. PICK t : t = handling[h]
      OBVIOUS
    <3>2. t \in Tasks /\ Watched(t)
      BY <1>3, <1>13, <3>1 DEF FindClient, Steps
    <3> DEFINE u == [t EXCEPT !.step = "insert", !.at = now]
    <3>3. Becomes(h, u) /\ UNCHANGED <<store, keys>>
      BY <1>13, <2>1, <3>1 DEF FindClient
    <3>4. u \in Tasks
      BY <3>2 DEF Tasks, Steps, TypeOK
    <3>5. /\ u.step = "insert" /\ u.name = t.name
          /\ u.proof = t.proof /\ u.open = t.open /\ u.held = t.held
      BY <3>2 DEF Tasks
    <3> HIDE DEF u
    <3>6. Watched(u)
      BY <3>2, <3>5 DEF Watched
    <3>7. u.name \in Configured
      BY <2>1, <3>1, <3>5 DEF ClientFor
    <3> QED BY <1>1, <3>3, <3>4, <3>5, <3>6, <3>7 DEF Vetted
  <2> QED BY <1>2, <1>13, <2>1 DEF FindClient
<1>14. CASE SendToProvider(h)
  BY <1>2, <1>14 DEF SendToProvider
<1>15. CASE RemoveRequest(h)
  <2>1. CASE Ends(h)
    BY <1>2, <1>15, <2>1 DEF RemoveRequest
  <2>2. ASSUME NEW r \in requests, Becomes(h, Fresh("client_for_active", r.name, handling[h].proof)) PROVE Goal
    <3>1. handling[h].proof \in Names \cup Prints \cup {NoOne}
      BY <1>3, <1>15 DEF RemoveRequest, Steps, Tasks
    <3>2. r.name \in Names
      BY DEF TypeOK
    <3> QED BY <1>1, <1>5, <1>15, <2>2, <3>1, <3>2 DEF RemoveRequest, Steps
  <2>3. Ends(h) \/ \E r \in requests : Becomes(h, Fresh("client_for_active", r.name, handling[h].proof))
    BY <1>15 DEF RemoveRequest, Kept
  <2> QED BY <2>1, <2>2, <2>3
<1>16. ASSUME NEW s \in {"exchange", "finish"}, NEW t \in Tasks PROVE Vetted([t EXCEPT !.step = s])
  BY <1>16, TasksGoOn DEF Vetted, Steps
<1>17. CASE FindClientAgain(h) \/ Exchange(h)
  BY <1>2, <1>3, <1>4, <1>16, <1>17 DEF FindClientAgain, Exchange, Steps
<1>18. CASE FinishLogin(h)
  <2> DEFINE t == handling[h]
  <2>1. t.step \in Steps
    BY <1>18 DEF FinishLogin, Steps
  <2>2. ASSUME t.name \in Accounts \ locked, t.proof = t.name PROVE Vetted([t EXCEPT !.step = "encode"])
    <3>1. AccountOf(t.name) = t.name
      BY <2>2, NamesOfAccounts DEF AccountOf
    <3>2. t.open /\ t.proof \notin Prints
      BY <1>3, <2>1, <2>2, <3>1 DEF Watched
    <3> QED BY <1>3, <2>1, <2>2, <3>2, TasksGoOn DEF Vetted, Steps
  <2> QED BY <1>2, <1>4, <1>18, <2>1, <2>2 DEF FinishLogin, Steps
<1>19. CASE Encode(h) \/ Fail(h)
  BY <1>2, <1>19 DEF Encode, Fail
<1> QED BY <1>6, <1>7, <1>8, <1>9, <1>10, <1>11, <1>12, <1>13, <1>14, <1>15, <1>17, <1>18, <1>19 DEF Begins

\* The changes beside the requests: all who are concerned notice.
LEMMA OthersStep ==
  ASSUME TypeOK, LoginsInv,
         \/ \E n \in Accounts :
              \/ \E k \in Prints : PublicKeyAdd(n, k) \/ PublicKeyDelete(n, k)
              \/ PublicKeyDeleteAll(n) \/ StoreChanges(n)
              \/ \E lock \in BOOLEAN : LockAccount(n, lock)
         \/ \E t \in tokens : OpenWebsocket(t)
         \/ \E u \in upgrades : Establish(u) \/ UpgradeFails(u)
         \/ \E c \in online : CloseWebsocket(c)
         \/ Tick \/ Restart \/ UNCHANGED vars
  PROVE  handling' \in [Handlers -> Tasks \cup {Idle}] /\ TasksAreVetted' /\ FilesLockNobody'
<1> USE DEF LoginsInv
<1> DEFINE Goal == handling' \in [Handlers -> Tasks \cup {Idle}] /\ TasksAreVetted' /\ FilesLockNobody'
           Noticed == \A g \in Handlers : handling'[g] = handling[g] \/
                        (/\ handling[g] # Idle
                         /\ \/ handling'[g] = [handling[g] EXCEPT !.open = TRUE]
                            \/ handling'[g] = [handling[g] EXCEPT !.held = TRUE])
\* It is enough that what a request has not noted has not become so.
<1>1. ASSUME Noticed, DOMAIN handling' = Handlers, handling' = [g \in Handlers |-> handling'[g]], kind' = kind,
             \A n : n \notin locked' => n \notin locked \/
                      \A g \in Handlers : handling[g] # Idle /\ AccountOf(handling[g].name) = n => handling'[g].open,
             \A n, k : Registered(n, k)' => Registered(n, k) \/
                      \A g \in Handlers :
                        handling[g] # Idle /\ handling[g].proof = k /\ AccountOf(handling[g].name) = n => handling'[g].held
      PROVE  handling' \in [Handlers -> Tasks \cup {Idle}] /\ TasksAreVetted'
  <2>1. \A g \in Handlers :
           /\ handling'[g] = Idle <=> handling[g] = Idle
           /\ handling[g] # Idle =>
                /\ handling'[g] \in Tasks /\ Vetted(handling'[g])
                /\ handling'[g].name = handling[g].name /\ handling'[g].proof = handling[g].proof
                /\ handling[g].open => handling'[g].open
                /\ handling[g].held => handling'[g].held
    BY <1>1, TasksStay
  <2>2. handling' \in [Handlers -> Tasks \cup {Idle}]
    BY <1>1, <2>1
  <2>3. ASSUME NEW g \in Handlers, handling'[g] # Idle PROVE Watched(handling[g])' /\ Vetted(handling[g])'
    <3>1. PICK n, k : n = AccountOf(handling[g].name) /\ k = handling[g].proof
      OBVIOUS
    <3>2. AccountOf(handling[g].name)' = n /\ handling'[g].proof = k
      BY <1>1, <2>1, <2>3, <3>1 DEF AccountOf, Normalized
    <3>3. Watched(handling[g]) /\ handling[g] # Idle
      BY <2>1, <2>3 DEF TasksAreVetted, Busy
    <3>4. Registered(AccountOf(handling[g].name), handling[g].proof)' => Registered(n, k)'
      BY <3>2 DEF Registered
    <3>5. Registered(n, k)' => handling'[g].held
      BY <1>1, <2>1, <3>1, <3>3 DEF Watched
    <3>6. n \notin locked' => handling'[g].open
      BY <1>1, <2>1, <3>1, <3>3 DEF Watched
    <3>7. Vetted(handling[g])'
      BY <1>1, <2>1, <3>3 DEF Vetted
    <3> QED BY <3>2, <3>4, <3>5, <3>6, <3>7 DEF Watched
  <2> QED BY <2>2, <2>3 DEF TasksAreVetted, Busy
<1>2. ASSUME UNCHANGED <<handling, store>>, \A n, k : Registered(n, k)' => Registered(n, k) PROVE Goal
  <2>1. Noticed /\ DOMAIN handling' = Handlers /\ handling' = [g \in Handlers |-> handling'[g]]
    BY <1>2 DEF TypeOK
  <2> QED BY <1>1, <1>2, <2>1 DEF store, FilesLockNobody
<1>3. ASSUME NEW n \in Accounts, NEW k \in Prints, PublicKeyAdd(n, k) PROVE Goal
  <2>1. \A g \in Handlers : handling'[g] =
          IF handling[g] # Idle /\ handling[g].proof = k /\ AccountOf(handling[g].name) = n
            THEN [handling[g] EXCEPT !.held = TRUE] ELSE handling[g]
    BY <1>3 DEF PublicKeyAdd
  <2>2. \A a, p : Registered(a, p)' => Registered(a, p) \/ (a = n /\ p = k)
    BY <1>3 DEF PublicKeyAdd, Registered
  <2>3. ASSUME NEW g \in Handlers, handling[g] # Idle, handling[g].proof = k, AccountOf(handling[g].name) = n
        PROVE  handling'[g].held
    <3>1. PICK t \in Tasks : t = handling[g]
      BY <2>3 DEF TypeOK
    <3>2. [t EXCEPT !.held = TRUE].held = TRUE
      BY DEF Tasks
    <3> QED BY <2>1, <2>3, <3>1, <3>2
  <2>4. DOMAIN handling' = Handlers /\ handling' = [g \in Handlers |-> handling'[g]]
    BY <1>3 DEF PublicKeyAdd
  <2>5. Noticed
    BY <2>1
  <2>6. UNCHANGED store
    BY <1>3 DEF PublicKeyAdd
  <2> QED BY <1>1, <2>2, <2>3, <2>4, <2>5, <2>6 DEF store, FilesLockNobody
<1>4. ASSUME NEW n \in Accounts, PublicKeyDeleteAll(n) \/ \E k \in Prints : PublicKeyDelete(n, k) PROVE Goal
  <2>1. keys' \subseteq keys /\ UNCHANGED <<handling, store>>
    BY <1>4 DEF PublicKeyDelete, PublicKeyDeleteAll
  <2> QED BY <1>2, <2>1 DEF Registered
<1>5. ASSUME NEW n \in Accounts, locked' = locked \ {n}, Reopened(n), UNCHANGED <<kind, keys>>, kind \notin {"fixed_otp", "fixed"} PROVE Goal
  <2>1. \A g \in Handlers : handling'[g] =
          IF handling[g] # Idle /\ AccountOf(handling[g].name) = n
            THEN [handling[g] EXCEPT !.open = TRUE] ELSE handling[g]
    BY <1>5 DEF Reopened
  <2>2. ASSUME NEW g \in Handlers, handling[g] # Idle, AccountOf(handling[g].name) = n
        PROVE  handling'[g].open
    <3>1. PICK t \in Tasks : t = handling[g]
      BY <2>2 DEF TypeOK
    <3>2. [t EXCEPT !.open = TRUE].open = TRUE
      BY DEF Tasks
    <3> QED BY <2>1, <2>2, <3>1, <3>2
  <2>3. DOMAIN handling' = Handlers /\ handling' = [g \in Handlers |-> handling'[g]]
    BY <1>5 DEF Reopened
  <2>4. Noticed
    BY <2>1
  <2>5. \A a, p : Registered(a, p)' => Registered(a, p)
    BY <1>5 DEF Registered
  <2> QED BY <1>1, <1>5, <2>2, <2>3, <2>4, <2>5 DEF FilesLockNobody
<1>6. ASSUME NEW n \in Accounts, locked' = locked \cup {n}, UNCHANGED <<handling, kind, keys>>, kind \notin {"fixed_otp", "fixed"} PROVE Goal
  <2>1. Noticed /\ DOMAIN handling' = Handlers /\ handling' = [g \in Handlers |-> handling'[g]]
    BY <1>6 DEF TypeOK
  <2>2. \A a, p : Registered(a, p)' => Registered(a, p)
    BY <1>6 DEF Registered
  <2> QED BY <1>1, <1>6, <2>1, <2>2 DEF FilesLockNobody
<1>7. ASSUME NEW n \in Accounts, StoreChanges(n) \/ \E lock \in BOOLEAN : LockAccount(n, lock) PROVE Goal
  BY <1>5, <1>6, <1>7 DEF StoreChanges, LockAccount
<1>8. ASSUME (\E t : OpenWebsocket(t) \/ Establish(t) \/ UpgradeFails(t) \/ CloseWebsocket(t)) \/ Tick \/ UNCHANGED vars PROVE Goal
  <2>1. UNCHANGED <<handling, store, keys>>
    BY <1>8 DEF OpenWebsocket, Establish, UpgradeFails, CloseWebsocket, Tick, vars
  <2> QED BY <1>2, <2>1 DEF Registered
<1>9. CASE Restart
  <2>1. handling' = [h \in Handlers |-> Idle] /\ UNCHANGED store
    BY <1>9 DEF Restart
  <2> QED BY <2>1 DEF TasksAreVetted, Busy, store, FilesLockNobody
<1> QED BY <1>3, <1>4, <1>7, <1>8, <1>9

LEMMA VettingStep ==
  ASSUME TypeOK, LoginsInv, [Next]_vars
  PROVE  handling' \in [Handlers -> Tasks \cup {Idle}] /\ TasksAreVetted' /\ FilesLockNobody'
<1>1. ASSUME UNCHANGED store PROVE FilesLockNobody'
  BY <1>1 DEF LoginsInv, FilesLockNobody, store
<1>2. ASSUME NEW h \in Handlers, 
         \/ Begins(h)
         \/ ValidatePassword(h) \/ NormalizeName(h) \/ GetKey(h) \/ FindClient(h) \/ SendToProvider(h)
         \/ RemoveRequest(h) \/ FindClientAgain(h) \/ Exchange(h) \/ FinishLogin(h)
         \/ Encode(h) \/ Fail(h)
      PROVE  handling' \in [Handlers -> Tasks \cup {Idle}] /\ TasksAreVetted' /\ FilesLockNobody'
  <2>1. UNCHANGED store
    BY <1>2 DEF Begins, AskPassword, AskKey, AskProvider, ReturnFromProvider, ValidatePassword, NormalizeName, GetKey,
      FindClient, SendToProvider, RemoveRequest, FindClientAgain, Exchange, FinishLogin, Encode, Fail
  <2> QED BY <1>1, <1>2, <2>1, HandlersStep
<1> QED BY <1>2, OthersStep DEF Next, Begins

-----------------------------------------------------------------------------
(* The rest of the state.                                                  *)

\* A login keeps its number; one that is taken out is used up.
LEMMA UsedUpStep ==
  ASSUME TypeOK, LoginsInv, [Next]_vars
  PROVE  UsedUp'
<1> USE DEF LoginsInv
<1>1. ASSUME UNCHANGED taken, asked' >= asked, asked' \in Nat,
             \A r \in requests' : r \in requests \/ r.id = asked + 1
      PROVE  UsedUp'
  <2>1. \A i \in 1..Len(taken) : /\ taken[i].id \in 0..MaxLogins /\ taken[i].id <= asked
                                 /\ \A r \in requests : r.id # taken[i].id
    <3>1. ASSUME NEW S, taken \in Seq(S) PROVE \A i \in 1..Len(taken) : taken[i] \in S
      BY <3>1
    <3>2. \A i \in 1..Len(taken) : taken[i] \in [id : 0..MaxLogins, at : 0..MaxTime, expires : Nat]
      BY <3>1 DEF UsedUp
    <3> QED BY <3>2 DEF UsedUp
  <2>2. asked \in Nat
    BY DEF TypeOK
  <2>3. \A i \in 1..Len(taken) : taken[i].id <= asked' /\ \A r \in requests' : r.id # taken[i].id
    BY <1>1, <2>1, <2>2
  <2> QED BY <1>1, <2>3 DEF UsedUp
<1>2. ASSUME NEW h \in Handlers, SendToProvider(h) PROVE UsedUp'
  <2>1. asked' = asked + 1 /\ UNCHANGED taken
    BY <1>2 DEF SendToProvider
  <2>2. \A r \in requests' : r \in requests \/ r.id = asked + 1
    BY <1>2 DEF SendToProvider, Kept
  <2> QED BY <1>1, <2>1, <2>2 DEF TypeOK
<1>3. ASSUME NEW h \in Handlers, RemoveRequest(h) PROVE UsedUp'
  <2>1. requests' \subseteq requests /\ UNCHANGED asked
    BY <1>3 DEF RemoveRequest, TakenOut, Kept
  <2>2. CASE UNCHANGED taken
    BY <1>1, <2>1, <2>2 DEF TypeOK
  <2>3. ASSUME NEW r \in requests, r.id = handling[h].csrf, taken' = Append(taken, [id |-> r.id, at |-> handling[h].at, expires |-> r.expires])
        PROVE  UsedUp'
    <3>1. handling[h].at \in 0..MaxTime
      BY <1>3, TasksInSteps DEF RemoveRequest, Steps, Tasks
    <3>2. r.id \in 1..asked /\ r.expires \in Nat /\ asked <= MaxLogins
      BY DEF TypeOK
    <3> DEFINE last == [id |-> r.id, at |-> handling[h].at, expires |-> r.expires]
    <3>3. last \in [id : 0..MaxLogins, at : 0..MaxTime, expires : Nat]
      BY <3>1, <3>2 DEF TypeOK
    <3>4. taken' \in Seq([id : 0..MaxLogins, at : 0..MaxTime, expires : Nat])
      BY <2>3, <3>3 DEF UsedUp
    <3>5. \A i \in 1..Len(taken') : taken'[i] = last \/ (i \in 1..Len(taken) /\ taken'[i] = taken[i])
      BY <2>3 DEF UsedUp
    <3>6. \A q \in requests' : q \in requests /\ q.id # r.id
      BY <1>3, <2>3 DEF RemoveRequest, TakenOut, Kept
    <3>7. last.id = r.id
      OBVIOUS
    <3>8. \A i \in 1..Len(taken) : taken[i].id <= asked /\ \A q \in requests : q.id # taken[i].id
      BY DEF UsedUp
    <3>9. ASSUME NEW i \in 1..Len(taken') PROVE taken'[i].id <= asked' /\ \A q \in requests' : q.id # taken'[i].id
      <4> HIDE DEF last
      <4>1. asked' = asked /\ r.id <= asked
        BY <2>1, <3>2
      <4>2. CASE taken'[i] = last
        BY <3>6, <3>7, <4>1, <4>2
      <4>3. CASE i \in 1..Len(taken) /\ taken'[i] = taken[i]
        BY <3>6, <3>8, <4>1, <4>3
      <4> QED BY <3>5, <3>9, <4>2, <4>3
    <3> QED BY <3>4, <3>9 DEF UsedUp
  <2>4. \/ UNCHANGED taken
        \/ \E r \in requests : r.id = handling[h].csrf /\ taken' = Append(taken, [id |-> r.id, at |-> handling[h].at, expires |-> r.expires])
    BY <1>3 DEF RemoveRequest, Kept
  <2> QED BY <2>2, <2>3, <2>4
<1>4. ASSUME UNCHANGED <<asked, taken>>, requests' \subseteq requests PROVE UsedUp'
  BY <1>1, <1>4 DEF TypeOK
<1>5. ASSUME NEW h \in Handlers, 
        \/ Begins(h)
        \/ ValidatePassword(h) \/ NormalizeName(h) \/ GetKey(h) \/ FindClient(h)
        \/ FindClientAgain(h) \/ Exchange(h) \/ FinishLogin(h) \/ Encode(h) \/ Fail(h)
      PROVE  UsedUp'
  BY <1>4, <1>5 DEF Begins, AskPassword, AskKey, AskProvider, ReturnFromProvider, ValidatePassword, NormalizeName,
    GetKey, FindClient, FindClientAgain, Exchange, FinishLogin, Encode, Fail, server
<1>6. ASSUME NEW n \in Accounts, \/ \E k \in Prints : PublicKeyAdd(n, k) \/ PublicKeyDelete(n, k)
                                 \/ PublicKeyDeleteAll(n) \/ StoreChanges(n)
                                 \/ \E lock \in BOOLEAN : LockAccount(n, lock)
      PROVE  UsedUp'
  BY <1>4, <1>6 DEF PublicKeyAdd, PublicKeyDelete, PublicKeyDeleteAll, StoreChanges, LockAccount, server
<1>7. ASSUME (\E t : OpenWebsocket(t) \/ Establish(t) \/ UpgradeFails(t) \/ CloseWebsocket(t)) \/ Tick \/ UNCHANGED vars PROVE UsedUp'
  BY <1>4, <1>7 DEF OpenWebsocket, Establish, UpgradeFails, CloseWebsocket, Tick, vars, server
<1>8. CASE Restart
  BY <1>4, <1>8 DEF Restart
<1> QED BY <1>2, <1>3, <1>5, <1>6, <1>7, <1>8 DEF Next, Begins

LEMMA TypeStep ==
  ASSUME TypeOK, LoginsInv, [Next]_vars
  PROVE  TypeOK'
<1> USE DEF LoginsInv
<1> DEFINE Others == /\ requests' \subseteq [id : 1..asked', name : Configured, expires : 0..(MaxTime + RequestLife)]
                     /\ asked' \in 0..MaxLogins
                     /\ now' \in 0..MaxTime /\ run' \in 1..MaxRuns /\ since' \in 0..now'
                     /\ kind' \in Kinds /\ locked' \subseteq Accounts
                     /\ keys' \subseteq Rows /\ changes' \in 0..MaxChanges
           Given == /\ tokens' \subseteq Tokens
                    /\ \A t \in tokens' : t.name \in Accounts /\ t.exp <= now' + TokenLife
                    /\ \A c \in upgrades' \cup online' : c.token \in tokens' /\ c.at \in 0..now'
<1>1. handling' \in [Handlers -> Tasks \cup {Idle}]
  BY VettingStep
<1>2. ASSUME Others, Given PROVE TypeOK'
  BY <1>1, <1>2 DEF TypeOK
<1> HIDE DEF Others, Given
<1>3. ASSUME UNCHANGED <<store, now, server, keys, changes>> PROVE Others
  BY <1>3 DEF Others, store, server, TypeOK
<1>4. ASSUME UNCHANGED <<now, tokens, sockets>> PROVE Given
  BY <1>4 DEF Given, TypeOK, sockets
<1>5. ASSUME NEW h \in Handlers, 
        \/ Begins(h)
        \/ ValidatePassword(h) \/ NormalizeName(h) \/ FindClient(h)
        \/ FindClientAgain(h) \/ Exchange(h) \/ FinishLogin(h) \/ Fail(h)
      PROVE  TypeOK'
  BY <1>2, <1>3, <1>4, <1>5 DEF Begins, AskPassword, AskKey, AskProvider, ReturnFromProvider, ValidatePassword, NormalizeName,
    FindClient, FindClientAgain, Exchange, FinishLogin, Fail
<1>6. ASSUME NEW h \in Handlers, GetKey(h) PROVE TypeOK'
  <2> DEFINE rows == KeyRows(handling[h].name, handling[h].proof)
  <2>1. \A r \in Rows : [r EXCEPT !.used = TRUE] \in Rows
    BY DEF Rows
  <2>2. rows \subseteq Rows /\ keys' = (keys \ rows) \cup {[r EXCEPT !.used = TRUE] : r \in rows}
    BY <1>6 DEF GetKey, KeyRows, TypeOK
  <2>3. keys' \subseteq Rows
    <3> HIDE DEF rows
    <3> QED BY <2>1, <2>2 DEF TypeOK
  <2> QED BY <1>2, <1>4, <1>6, <2>3 DEF GetKey, Others, TypeOK, store, server
<1>7. ASSUME NEW h \in Handlers, SendToProvider(h) PROVE TypeOK'
  <2>1. handling[h] \in Tasks /\ handling[h].name \in Configured
    BY <1>7, TasksInSteps DEF SendToProvider, Steps, TasksAreVetted, Vetted
  <2>2. asked' = asked + 1 /\ asked' \in 0..MaxLogins
    BY <1>7 DEF SendToProvider, TypeOK
  <2>3. handling[h].at \in 0..MaxTime
    BY <2>1 DEF Tasks
  <2>4. [id |-> asked + 1, name |-> handling[h].name, expires |-> handling[h].at + RequestLife]
          \in [id : 1..asked', name : Configured, expires : 0..(MaxTime + RequestLife)]
    <3>1. asked + 1 \in 1..asked' /\ handling[h].at + RequestLife \in 0..(MaxTime + RequestLife)
      BY <2>2, <2>3 DEF TypeOK
    <3> QED BY <2>1, <3>1
  <2>5. \A r \in requests : r \in [id : 1..asked', name : Configured, expires : 0..(MaxTime + RequestLife)]
    BY <2>2 DEF TypeOK
  <2>6. requests' \subseteq [id : 1..asked', name : Configured, expires : 0..(MaxTime + RequestLife)]
    BY <1>7, <2>4, <2>5 DEF SendToProvider, Kept
  <2> QED BY <1>2, <1>4, <1>7, <2>2, <2>6 DEF SendToProvider, Others, TypeOK, store
<1>8. ASSUME NEW h \in Handlers, RemoveRequest(h) PROVE TypeOK'
  BY <1>2, <1>4, <1>8 DEF RemoveRequest, TakenOut, Kept, Others, TypeOK, store
<1>9. ASSUME NEW h \in Handlers, Encode(h) PROVE TypeOK'
  <2>1. handling[h].name \in Accounts
    BY <1>9, TasksInSteps DEF Encode, Steps, TasksAreVetted, Vetted
  <2>2. Signed(handling[h].name) \in Tokens
    BY <2>1 DEF Signed, ExpiryTime, Tokens, TypeOK
  <2>3. Given
    BY <1>9, <2>1, <2>2 DEF Encode, Signed, ExpiryTime, Given, TypeOK, sockets
  <2> QED BY <1>2, <1>3, <1>9, <2>3 DEF Encode
<1>10. ASSUME NEW t \in tokens, OpenWebsocket(t) PROVE TypeOK'
  <2>1. Given
    <3>1. \A c \in upgrades' \cup online' : c \in upgrades \cup online \/ c = [token |-> t, at |-> now]
      BY <1>10 DEF OpenWebsocket
    <3>2. UNCHANGED <<now, tokens>> /\ now \in 0..now
      BY <1>10 DEF OpenWebsocket, TypeOK
    <3> QED BY <1>10, <3>1, <3>2 DEF Given, TypeOK
  <2> QED BY <1>2, <1>3, <1>10, <2>1 DEF OpenWebsocket
<1>11. ASSUME (\E u \in upgrades : Establish(u) \/ UpgradeFails(u)) \/ \E c \in online : CloseWebsocket(c)
       PROVE  TypeOK'
  <2>1. upgrades' \cup online' \subseteq upgrades \cup online
    BY <1>11 DEF Establish, UpgradeFails, CloseWebsocket
  <2>2. UNCHANGED <<store, now, server, handling, keys, tokens, changes>>
    BY <1>11 DEF Establish, UpgradeFails, CloseWebsocket
  <2>3. Given
    BY <2>1, <2>2 DEF Given, TypeOK
  <2> QED BY <1>2, <1>3, <2>2, <2>3
<1>12. ASSUME NEW n \in Accounts, \/ \E k \in Prints : PublicKeyAdd(n, k) \/ PublicKeyDelete(n, k)
                                  \/ PublicKeyDeleteAll(n)
       PROVE  TypeOK'
  <2>1. \A k \in Prints : [name |-> n, print |-> k, used |-> FALSE] \in Rows
    BY <1>12 DEF Rows
  <2>2. keys' \subseteq Rows
    BY <1>12, <2>1 DEF PublicKeyAdd, PublicKeyDelete, PublicKeyDeleteAll, TypeOK
  <2> QED BY <1>2, <1>4, <1>12, <2>2 DEF PublicKeyAdd, PublicKeyDelete, PublicKeyDeleteAll, Change, Others, TypeOK, store, server
<1>13. ASSUME NEW n \in Accounts, StoreChanges(n) \/ \E lock \in BOOLEAN : LockAccount(n, lock) PROVE TypeOK'
  <2>1. locked' \subseteq Accounts /\ kind' = kind
    BY <1>13 DEF StoreChanges, LockAccount, TypeOK
  <2> QED BY <1>2, <1>4, <1>13, <2>1 DEF StoreChanges, LockAccount, Change, Others, TypeOK, server
<1>14. CASE Tick
  <2>1. now' = now + 1 /\ now' \in 0..MaxTime
    BY <1>14 DEF Tick, TypeOK
  <2>2. Given
    <3>1. \A t \in tokens : t.exp \in Nat
      BY DEF TypeOK, Tokens
    <3> QED BY <1>14, <2>1, <3>1 DEF Tick, Given, TypeOK, sockets
  <2>3. since' \in 0..now'
    BY <1>14, <2>1 DEF Tick, TypeOK, server
  <2> QED BY <1>2, <1>14, <2>1, <2>2, <2>3 DEF Tick, Others, TypeOK, store, server
<1>15. CASE Restart
  BY <1>2, <1>15 DEF Restart, Others, Given, TypeOK, store
<1>16. CASE UNCHANGED vars
  BY <1>2, <1>3, <1>4, <1>16 DEF vars
<1> QED BY <1>5, <1>6, <1>7, <1>8, <1>9, <1>10, <1>11, <1>12, <1>13, <1>14, <1>15, <1>16 DEF Next, Begins

LEMMA InitLogins == Init => TypeOK /\ LoginsInv
<1> SUFFICES ASSUME Init PROVE TypeOK /\ LoginsInv
  OBVIOUS
<1>1. TypeOK
  <2>1. locked \subseteq Accounts
    BY DEF Init
  <2>2. keys \subseteq Rows
    BY DEF Init, Rows
  <2>3. handling \in [Handlers -> Tasks \cup {Idle}]
    BY DEF Init
  <2>4. now \in 0..MaxTime /\ run \in 1..MaxRuns /\ since \in 0..now /\ asked \in 0..MaxLogins /\ changes \in 0..MaxChanges
    BY DEF Init
  <2>5. kind \in Kinds /\ requests = {} /\ tokens = {} /\ upgrades = {} /\ online = {}
    BY DEF Init
  <2> QED BY <2>1, <2>2, <2>3, <2>4, <2>5 DEF TypeOK
<1>2. LoginsInv
  BY DEF Init, LoginsInv, FilesLockNobody, TasksAreVetted, Busy, UsedUp
<1> QED BY <1>1, <1>2

\* Every request has noted what it needs, whatever else happens meanwhile.
LEMMA RequestsAreVetted == Spec => [](TypeOK /\ LoginsInv)
<1>1. TypeOK /\ LoginsInv /\ [Next]_vars => TypeOK' /\ LoginsInv'
  BY TypeStep, VettingStep, UsedUpStep DEF LoginsInv
<1> QED BY <1>1, InitLogins, PTL DEF Spec

\* Whatever store the server uses, phpBB's excepted, however the login is done and
\* whatever happens to accounts meanwhile, no token is given to one who was locked
\* from the first to the last moment of his request (normalize_username,
\* check_and_normalize and validate of the accounts' stores).
THEOREM NoLockedLogin == Spec => []LockHolds
<1>1. TypeOK /\ LoginsInv => LockHolds
  BY DEF LoginsInv, TasksAreVetted, Vetted, LockHolds
<1> QED BY <1>1, RequestsAreVetted, PTL

\* Nor to one whose public key was not registered for him at any moment of his
\* request (public_key_get, PublicKeyDelete, PublicKeyDeleteAll).
THEOREM NoRemovedKey == Spec => []RemovedKeysAreUseless
<1>1. TypeOK /\ LoginsInv => RemovedKeysAreUseless
  BY DEF LoginsInv, TasksAreVetted, Vetted, RemovedKeysAreUseless
<1> QED BY <1>1, RequestsAreVetted, PTL

\* What is taken out is taken out of active_requests, where it was still valid.
LEMMA TakenStep ==
  ASSUME TypeOK, LoginsInv, [Next]_vars
  PROVE  \/ UNCHANGED taken
         \/ \E r \in requests, at \in Nat :
              r.expires >= at /\ taken' = Append(taken, [id |-> r.id, at |-> at, expires |-> r.expires])
<1>1. ASSUME NEW h \in Handlers, RemoveRequest(h)
      PROVE  \/ UNCHANGED taken
             \/ \E r \in requests, at \in Nat :
                  r.expires >= at /\ taken' = Append(taken, [id |-> r.id, at |-> at, expires |-> r.expires])
  <2>1. handling[h].at \in Nat
    BY <1>1, TasksInSteps DEF RemoveRequest, Steps, Tasks
  <2> QED BY <1>1, <2>1 DEF RemoveRequest, Kept
<1>2. ASSUME NEW h \in Handlers, 
        \/ Begins(h)
        \/ ValidatePassword(h) \/ NormalizeName(h) \/ GetKey(h) \/ FindClient(h) \/ SendToProvider(h)
        \/ FindClientAgain(h) \/ Exchange(h) \/ FinishLogin(h) \/ Encode(h) \/ Fail(h)
      PROVE  UNCHANGED taken
  BY <1>2 DEF Begins, AskPassword, AskKey, AskProvider, ReturnFromProvider, ValidatePassword, NormalizeName,
    GetKey, FindClient, SendToProvider, FindClientAgain, Exchange, FinishLogin, Encode, Fail, server
<1>3. ASSUME NEW n \in Accounts, \/ \E k \in Prints : PublicKeyAdd(n, k) \/ PublicKeyDelete(n, k)
                                 \/ PublicKeyDeleteAll(n) \/ StoreChanges(n)
                                 \/ \E lock \in BOOLEAN : LockAccount(n, lock)
      PROVE  UNCHANGED taken
  BY <1>3 DEF PublicKeyAdd, PublicKeyDelete, PublicKeyDeleteAll, StoreChanges, LockAccount, server
<1>4. ASSUME (\E t : OpenWebsocket(t) \/ Establish(t) \/ UpgradeFails(t) \/ CloseWebsocket(t)) \/ Tick \/ Restart \/ UNCHANGED vars
      PROVE  UNCHANGED taken
  BY <1>4 DEF OpenWebsocket, Establish, UpgradeFails, CloseWebsocket, Tick, Restart, vars, server
<1> QED BY <1>1, <1>2, <1>3, <1>4 DEF Next, Begins

\* A login with the provider is completed once, and while it is valid, by
\* whichever of the requests that bring its state back, also when the server
\* is restarted in between (OpenIdConnect::active_requests).
THEOREM LoginsAreUsedOnce == Spec => []UsedOnceInTime
<1>1. Init => UsedOnceInTime
  BY DEF Init, UsedOnceInTime
<1>2. TypeOK /\ LoginsInv /\ UsedOnceInTime /\ [Next]_vars => UsedOnceInTime'
  <2> SUFFICES ASSUME TypeOK, LoginsInv, UsedOnceInTime, [Next]_vars PROVE UsedOnceInTime'
    OBVIOUS
  <2>1. ASSUME NEW r \in requests, NEW at \in Nat, r.expires >= at,
               taken' = Append(taken, [id |-> r.id, at |-> at, expires |-> r.expires])
        PROVE  UsedOnceInTime'
    <3> DEFINE last == [id |-> r.id, at |-> at, expires |-> r.expires]
    <3>1. r.expires \in Nat
      BY DEF TypeOK
    <3>2. last.id = r.id /\ last.at <= last.expires
      BY <2>1, <3>1
    <3>3. \A i \in 1..Len(taken') :
             (i \in 1..Len(taken) /\ taken'[i] = taken[i]) \/ (i = Len(taken) + 1 /\ taken'[i] = last)
      BY <2>1 DEF LoginsInv, UsedUp
    <3>4. \A i \in 1..Len(taken) : r.id # taken[i].id
      BY DEF LoginsInv, UsedUp
    <3> HIDE DEF last
    <3> QED BY <3>2, <3>3, <3>4 DEF UsedOnceInTime
  <2>2. CASE UNCHANGED taken
    BY <2>2 DEF UsedOnceInTime
  <2> QED BY <2>1, <2>2, TakenStep
<1> QED BY <1>1, <1>2, RequestsAreVetted, PTL DEF Spec

\* Whoever is connected has logged in since the server last started, whatever
\* tokens are still about and however long the upgrade of his connection took;
\* and his token was not too old when it was checked (decode_jwt, encode_jwt,
\* KeyPair::default, open_websocket).
THEOREM NobodyIsUnvouched == Spec => []ConnectionsAreVouched
<1> DEFINE Vouched ==
             /\ \A t \in tokens : t.run <= run /\ (t.run = run => LoggedInAt(t) >= since)
             /\ \A c \in upgrades \cup online :
                  c.token.run = run /\ c.at - LoggedInAt(c.token) \in 0..(TokenLife + Leeway)
<1>1. Init => Vouched
  BY DEF Init
<1>2. TypeOK /\ Vouched /\ [Next]_vars => Vouched'
  <2> SUFFICES ASSUME TypeOK, Vouched, [Next]_vars PROVE Vouched'
    OBVIOUS
  <2>1. ASSUME NEW t \in tokens, OpenWebsocket(t) PROVE Vouched'
    <3>1. \A c \in upgrades' \cup online' : c \in upgrades \cup online \/ c = [token |-> t, at |-> now]
      BY <2>1 DEF OpenWebsocket
    <3>2. /\ UNCHANGED <<run, since, tokens>>
          /\ t.run = run /\ t.exp + Leeway >= now /\ t.exp <= now + TokenLife
      BY <2>1 DEF OpenWebsocket, Decoded, server, TypeOK
    <3>3. t.exp \in Nat /\ now \in Nat
      BY DEF TypeOK, Tokens
    <3>4. now - LoggedInAt(t) \in 0..(TokenLife + Leeway)
      BY <3>2, <3>3 DEF LoggedInAt
    <3> QED BY <3>1, <3>2, <3>4
  <2>2. ASSUME UNCHANGED <<run, since, tokens>>, upgrades' \cup online' \subseteq upgrades \cup online
        PROVE  Vouched'
    BY <2>2
  <2>3. CASE Restart
    <3>1. \A t \in tokens : t.run \in 1..MaxRuns /\ t.run <= run
      BY DEF TypeOK, Tokens
    <3>2. run' = run + 1 /\ tokens' = tokens /\ upgrades' = {} /\ online' = {} /\ run \in Nat
      BY <2>3 DEF Restart, TypeOK
    <3>3. \A t \in tokens : t.run <= run' /\ t.run # run'
      BY <3>1, <3>2
    <3> QED BY <3>2, <3>3
  <2>4. ASSUME NEW h \in Handlers, Encode(h) PROVE Vouched'
    <3>1. \A t \in tokens' : t \in tokens \/ t = Signed(handling[h].name)
      BY <2>4 DEF Encode
    <3>2. Signed(handling[h].name).run = run /\ LoggedInAt(Signed(handling[h].name)) = now
      BY DEF Signed, ExpiryTime, LoggedInAt, TypeOK
    <3>3. UNCHANGED <<run, since, upgrades, online>> /\ run \in Nat /\ now >= since
      BY <2>4 DEF Encode, server, sockets, TypeOK
    <3> QED BY <3>1, <3>2, <3>3
  <2>5. ASSUME NEW h \in Handlers,
          \/ Begins(h)
          \/ ValidatePassword(h) \/ NormalizeName(h) \/ GetKey(h) \/ FindClient(h) \/ SendToProvider(h)
          \/ RemoveRequest(h) \/ FindClientAgain(h) \/ Exchange(h) \/ FinishLogin(h) \/ Fail(h)
        PROVE  UNCHANGED <<run, since, tokens, upgrades, online>>
    BY <2>5 DEF Begins, AskPassword, AskKey, AskProvider, ReturnFromProvider, ValidatePassword, NormalizeName,
      GetKey, FindClient, SendToProvider, RemoveRequest, FindClientAgain, Exchange, FinishLogin, Fail, server, sockets
  <2>6. ASSUME NEW n \in Accounts, \/ \E k \in Prints : PublicKeyAdd(n, k) \/ PublicKeyDelete(n, k)
                                   \/ PublicKeyDeleteAll(n) \/ StoreChanges(n)
                                   \/ \E lock \in BOOLEAN : LockAccount(n, lock)
        PROVE  UNCHANGED <<run, since, tokens, upgrades, online>>
    BY <2>6 DEF PublicKeyAdd, PublicKeyDelete, PublicKeyDeleteAll, StoreChanges, LockAccount, server, sockets
  <2>7. ASSUME \/ \E u \in upgrades : Establish(u) \/ UpgradeFails(u)
               \/ \E c \in online : CloseWebsocket(c)
               \/ Tick \/ UNCHANGED vars
        PROVE  UNCHANGED <<run, since, tokens>> /\ upgrades' \cup online' \subseteq upgrades \cup online
    BY <2>7 DEF Establish, UpgradeFails, CloseWebsocket, Tick, vars, server, sockets
  <2> HIDE DEF Vouched
  <2>8. CASE UNCHANGED <<run, since, tokens, upgrades, online>>
    BY <2>2, <2>8
  <2> QED BY <2>1, <2>2, <2>3, <2>4, <2>5, <2>6, <2>7, <2>8 DEF Next, Begins
<1>3. TypeOK /\ Vouched => ConnectionsAreVouched
  BY DEF ConnectionsAreVouched, TypeOK
<1> QED BY <1>1, <1>2, <1>3, RequestsAreVetted, PTL DEF Spec
=============================================================================
