------------------------------- MODULE Logins -------------------------------
(***************************************************************************)
(* How a player comes to hold a token and what it is good for: the stores  *)
(* of accounts, logins by password, by public key and through an OpenID    *)
(* Connect provider, the tokens the server signs with a key it draws when  *)
(* it starts, and the connections opened with them.                        *)
(*                                                                         *)
(* A handler of the web server is a task: what it does between two reads   *)
(* of a store or two locks is a step of its own, so that accounts, keys    *)
(* and the server may change between them.                                 *)
(***************************************************************************)
EXTENDS Integers, Sequences, FiniteSets

CONSTANTS
    Names,        \* what can be written where a player's name is asked for
    Accounts,     \* the names of the accounts
    SpelledFor,   \* the account a directory finds for a name
    Configured,   \* the accounts whose issuer the server is configured for
    Prints,       \* fingerprints of public keys
    Kinds,        \* the sorts of store a behaviour may start with
    Handlers,     \* requests handled at the same time
    RequestLife,  \* how long a login may stay with the provider
    TokenLife,    \* how long a token is valid
    Leeway,       \* and how much longer the decoder takes it
    NoOne,        \* no proof, no fingerprint, no login
    MaxTime, MaxRuns, MaxLogins, MaxTokens, MaxSockets, MaxChanges  \* bounds

ASSUME NamesAssumption ==
    /\ Accounts \subseteq Names /\ Configured \subseteq Accounts
    /\ SpelledFor \in [Names -> Names]
    /\ \A n \in Accounts : SpelledFor[n] = n
    /\ Names \cap Prints = {}
ASSUME LivesAssumption ==
    /\ RequestLife \in Nat /\ TokenLife \in Nat /\ Leeway \in Nat
    /\ MaxTime \in Nat /\ MaxRuns \in Nat \ {0} /\ MaxLogins \in Nat
    /\ MaxTokens \in Nat /\ MaxSockets \in Nat /\ MaxChanges \in Nat
    /\ NoOne \notin Names \cup Prints

VARIABLES
    kind,      \* the sort of store
    locked,    \* the accounts that are not to log in: locked, banned, inactive or
               \* outside the query
    now,
    run,       \* which start of the server this is, and so which key it signs with
    since,     \* when it started
    requests,  \* active_requests
    asked,     \* how many logins were sent to the provider
    handling,  \* handler -> the request it is busy with
    keys,      \* the table of public keys
    tokens,    \* what players were given
    upgrades,  \* the tasks that wait for a request to become a web socket, with the
               \* token and the moment it was checked
    online,    \* the connections, likewise
    taken,     \* the logins taken out of active_requests, in order
    changes    \* bounds the changes of accounts and keys

store == <<kind, locked>>
server == <<run, since, requests, asked, taken>>
sockets == <<upgrades, online>>
vars == <<store, now, server, handling, keys, tokens, sockets, changes>>

-----------------------------------------------------------------------------
(* The stores of accounts.                                                 *)

\* mutant: the rows are selected by name only
OtpSecretOfAll(n) == n \in Accounts
OtpSecret(n) == n \in Accounts \ locked
FixedSecret(n) == n \in Accounts
FixedPassword(n) == n \in Accounts
UruLogin(n) == n \in Accounts \ locked
(* Of its types of user this query leaves out those that may log in.       *)
PhpBBLogin(n) == n \in Accounts \cap locked
ClientFor(n) == n \in Configured \ locked
QueryUsername(n) == SpelledFor[n] \in Accounts \ locked

(* check_and_normalize and normalize_username: whether a name is that of   *)
(* an account, and which.                                                  *)
CheckAndNormalize(n) ==
    \/ kind = "otp" /\ OtpSecret(n)
    \/ kind = "fixed_otp" /\ FixedSecret(n)
    \/ kind = "fixed" /\ FixedPassword(n)
    \/ kind = "phpbb" /\ PhpBBLogin(n)
    \/ kind = "uru" /\ UruLogin(n)
NormalizeUsername(n) ==
    \/ CheckAndNormalize(n)
    \/ kind = "oidc" /\ ClientFor(n)
    \/ kind = "ldap" /\ QueryUsername(n)
Normalized(n) == IF kind = "ldap" THEN SpelledFor[n] ELSE n

(* The query of the Uru store compares with ==, which its database does    *)
(* not know, so that no password is ever right.                            *)
UruValidates == FALSE
Validate(n) == CheckAndNormalize(n) /\ (kind = "uru" => UruValidates)

Scheme == IF kind = "oidc" THEN "OpenIdConnect" ELSE "Password"
(* The directory waits for passwords on the path where the server itself   *)
(* tells its scheme, so that they never reach it.                          *)
TakesPasswords == Scheme = "Password" /\ kind # "ldap"

-----------------------------------------------------------------------------
(* Requests, tokens and connections.                                       *)

Steps == {"validate", "normalize", "get_key", "client_for", "insert", "remove",
          "client_for_active", "exchange", "finish", "encode"}
\* `open' and `held' remember whether the account was visible, and the key
\* registered, at some moment of the request.
Tasks == [step : Steps, name : Names, proof : Names \cup Prints \cup {NoOne},
          csrf : 0..MaxLogins, at : 0..MaxTime, open : BOOLEAN, held : BOOLEAN]
Idle == [step |-> "idle"]
Tokens == [name : Names, exp : Nat, run : 1..MaxRuns]
Rows == [name : Names, print : Prints, used : BOOLEAN]

Busy == {h \in Handlers : handling[h] # Idle}
Becomes(h, task) == handling' = [handling EXCEPT ![h] = task]
Goes(h, step) == Becomes(h, [handling[h] EXCEPT !.step = step])
Ends(h) == Becomes(h, Idle)
AccountOf(n) == Normalized(n)
\* mutant: a fingerprint is looked up among everyone's
KeyRowsOfAll(n, k) == {r \in keys : r.print = k}
KeyRows(n, k) == {r \in keys : r.name = n /\ r.print = k}
Registered(n, k) == \E r \in keys : r.name = n /\ r.print = k

Fresh(s, n, k) ==
    [step |-> s, name |-> n, proof |-> k, csrf |-> 0, at |-> 0,
     open |-> AccountOf(n) \notin locked, held |-> Registered(AccountOf(n), k)]

ExpiryTime == now + TokenLife
Signed(n) == [name |-> n, exp |-> ExpiryTime, run |-> run]
\* mutant: the key outlives the server
DecodedOfAnyRun(t) == t.exp + Leeway >= now
Decoded(t) == t.run = run /\ t.exp + Leeway >= now

Kept(when) == {r \in requests : r.expires >= when}

-----------------------------------------------------------------------------
(* The tables are from earlier runs, perhaps with another store.           *)
Init ==
    /\ kind \in Kinds
    /\ locked \in IF kind \in {"fixed_otp", "fixed"} THEN {{}} ELSE {{}, Accounts}
    /\ \E some \in SUBSET Prints :
           keys = [name : Accounts, print : some, used : {FALSE}]
    /\ now = 0
    /\ run = 1 /\ since = 0 /\ requests = {} /\ asked = 0 /\ taken = <<>>
    /\ handling = [h \in Handlers |-> Idle]
    /\ tokens = {} /\ upgrades = {} /\ online = {} /\ changes = 0

(* POST of a name and a password, right or not.                            *)
AskPassword(h, n, right) ==
    /\ handling[h] = Idle /\ TakesPasswords
    /\ Becomes(h, Fresh("validate", n, IF right THEN n ELSE NoOne))
    /\ UNCHANGED <<store, now, server, keys, tokens, sockets, changes>>

ValidatePassword(h) ==
    /\ handling[h].step = "validate"
    /\ IF Validate(handling[h].name) /\ handling[h].proof # NoOne
       THEN Goes(h, "encode") ELSE Ends(h)
    /\ UNCHANGED <<store, now, server, keys, tokens, sockets, changes>>

(* POST of a name and the fingerprint of a key.                            *)
AskKey(h, n, k) ==
    /\ handling[h] = Idle
    /\ Becomes(h, Fresh("normalize", n, k))
    /\ UNCHANGED <<store, now, server, keys, tokens, sockets, changes>>

NormalizeName(h) ==
    /\ handling[h].step = "normalize"
    /\ IF NormalizeUsername(handling[h].name)
       THEN Becomes(h, [handling[h] EXCEPT !.step = "get_key",
                                           !.name = Normalized(@)])
       ELSE Ends(h)
    /\ UNCHANGED <<store, now, server, keys, tokens, sockets, changes>>

(* public_key_get notes that the key was used, also when nothing comes of  *)
(* it.                                                                     *)
GetKey(h) ==
    /\ handling[h].step = "get_key"
    /\ LET rows == KeyRows(handling[h].name, handling[h].proof)
       IN  /\ keys' = (keys \ rows) \cup {[r EXCEPT !.used = TRUE] : r \in rows}
           /\ IF rows # {} THEN Goes(h, "encode") ELSE Ends(h)
    /\ UNCHANGED <<store, now, server, tokens, sockets, changes>>

(* GET of the page that starts a login with the provider.                  *)
AskProvider(h, n) ==
    /\ handling[h] = Idle /\ Scheme = "OpenIdConnect"
    /\ Becomes(h, Fresh("client_for", n, NoOne))
    /\ UNCHANGED <<store, now, server, keys, tokens, sockets, changes>>

FindClient(h) ==
    /\ handling[h].step = "client_for"
    /\ IF ClientFor(handling[h].name)
       THEN Becomes(h, [handling[h] EXCEPT !.step = "insert", !.at = now])
       ELSE Ends(h)
    /\ UNCHANGED <<store, now, server, keys, tokens, sockets, changes>>

SendToProvider(h) ==
    /\ handling[h].step = "insert" /\ asked < MaxLogins
    /\ asked' = asked + 1
    /\ requests' = Kept(handling[h].at) \cup
           {[id |-> asked + 1, name |-> handling[h].name,
             expires |-> handling[h].at + RequestLife]}
    /\ Ends(h)
    /\ UNCHANGED <<store, now, run, since, taken, keys, tokens, sockets, changes>>

(* GET of the page the provider sends the player back to, with the state   *)
(* of a login; the code stands for the one who logged in there.            *)
ReturnFromProvider(h, c, s) ==
    /\ handling[h] = Idle /\ Scheme = "OpenIdConnect" /\ c <= asked
    /\ Becomes(h, [Fresh("remove", s, s) EXCEPT !.csrf = c, !.at = now])
    /\ UNCHANGED <<store, now, server, keys, tokens, sockets, changes>>

\* mutant: the login is looked up and stays
LookedUp(h) == Kept(handling[h].at)
TakenOut(h) == {r \in Kept(handling[h].at) : r.id # handling[h].csrf}
RemoveRequest(h) ==
    /\ handling[h].step = "remove"
    /\ requests' = TakenOut(h)
    /\ LET found == {r \in Kept(handling[h].at) : r.id = handling[h].csrf}
       IN  IF found = {} THEN Ends(h) /\ UNCHANGED taken
           ELSE LET r == CHOOSE r \in found : TRUE
                IN  /\ Becomes(h, Fresh("client_for_active", r.name, handling[h].proof))
                    /\ taken' = Append(taken, [id |-> r.id, at |-> handling[h].at,
                                               expires |-> r.expires])
    /\ UNCHANGED <<store, now, run, since, asked, keys, tokens, sockets, changes>>

FindClientAgain(h) ==
    /\ handling[h].step = "client_for_active"
    /\ IF ClientFor(handling[h].name) THEN Goes(h, "exchange") ELSE Ends(h)
    /\ UNCHANGED <<store, now, server, keys, tokens, sockets, changes>>

(* The provider answers for the one who logged in, without claims that can *)
(* be checked, or not at all.                                              *)
Exchange(h) ==
    /\ handling[h].step = "exchange"
    /\ Goes(h, "finish") \/ Ends(h)
    /\ UNCHANGED <<store, now, server, keys, tokens, sockets, changes>>

FinishLogin(h) ==
    /\ handling[h].step = "finish"
    /\ IF handling[h].name \in Accounts \ locked /\ handling[h].proof = handling[h].name
       THEN Goes(h, "encode") ELSE Ends(h)
    /\ UNCHANGED <<store, now, server, keys, tokens, sockets, changes>>

(* SendToken, RedirectToken and the answer to a key.                       *)
Encode(h) ==
    /\ handling[h].step = "encode" /\ Cardinality(tokens) < MaxTokens
    /\ tokens' = tokens \cup {Signed(handling[h].name)}
    /\ Ends(h)
    /\ UNCHANGED <<store, now, server, keys, sockets, changes>>

(* A store or a cipher fails, or the player goes away: nothing more is     *)
(* done for the request.                                                   *)
Fail(h) ==
    /\ h \in Busy /\ Ends(h)
    /\ UNCHANGED <<store, now, server, keys, tokens, sockets, changes>>

-----------------------------------------------------------------------------
(* open_websocket checks the token and answers that the protocol is        *)
(* switched; the task that it starts waits until it is.                    *)
OpenWebsocket(t) ==
    /\ Decoded(t) /\ Cardinality(upgrades) + Cardinality(online) < MaxSockets
    /\ upgrades' = upgrades \cup {[token |-> t, at |-> now]}
    /\ UNCHANGED <<store, now, server, handling, keys, tokens, online, changes>>

(* Nothing is checked again.                                               *)
Establish(u) ==
    /\ upgrades' = upgrades \ {u}
    /\ online' = online \cup {u}
    /\ UNCHANGED <<store, now, server, handling, keys, tokens, changes>>

UpgradeFails(u) ==
    /\ upgrades' = upgrades \ {u}
    /\ UNCHANGED <<store, now, server, handling, keys, tokens, online, changes>>

CloseWebsocket(c) ==
    /\ online' = online \ {c}
    /\ UNCHANGED <<store, now, server, handling, keys, tokens, upgrades, changes>>

Change == changes < MaxChanges /\ changes' = changes + 1

(* A connected player adds a key, removes one, or all.                     *)
PublicKeyAdd(n, k) ==
    /\ Change /\ \E c \in online : c.token.name = n
    /\ keys' = IF Registered(n, k) THEN keys
               ELSE keys \cup {[name |-> n, print |-> k, used |-> FALSE]}
    /\ handling' = [h \in Handlers |->
           IF /\ handling[h] # Idle /\ handling[h].proof = k
              /\ AccountOf(handling[h].name) = n
           THEN [handling[h] EXCEPT !.held = TRUE] ELSE handling[h]]
    /\ UNCHANGED <<store, now, server, tokens, sockets>>

PublicKeyDelete(n, k) ==
    /\ Change /\ \E c \in online : c.token.name = n
    /\ keys' = keys \ KeyRows(n, k)
    /\ UNCHANGED <<store, now, server, handling, tokens, sockets>>

PublicKeyDeleteAll(n) ==
    /\ Change /\ \E c \in online : c.token.name = n
    /\ keys' = {r \in keys : r.name # n}
    /\ UNCHANGED <<store, now, server, handling, tokens, sockets>>

Reopened(n) ==
    handling' = [h \in Handlers |->
        IF handling[h] # Idle /\ AccountOf(handling[h].name) = n
        THEN [handling[h] EXCEPT !.open = TRUE] ELSE handling[h]]

(* Only the store of one-time passwords can lock accounts itself; who      *)
(* administers it calls lock_account.                                      *)
LockAccount(n, lock) ==
    /\ Change /\ kind = "otp"
    /\ locked' = IF lock THEN locked \cup {n} ELSE locked \ {n}
    /\ IF lock THEN UNCHANGED handling ELSE Reopened(n)
    /\ UNCHANGED <<kind, now, server, keys, tokens, sockets>>

(* The other stores belong to other programs.                              *)
StoreChanges(n) ==
    /\ Change /\ kind \in {"uru", "phpbb", "oidc", "ldap"}
    /\ \/ n \notin locked /\ locked' = locked \cup {n} /\ UNCHANGED handling
       \/ n \in locked /\ locked' = locked \ {n} /\ Reopened(n)
    /\ UNCHANGED <<kind, now, server, keys, tokens, sockets>>

Tick ==
    /\ now < MaxTime /\ now' = now + 1
    /\ UNCHANGED <<store, server, handling, keys, tokens, sockets, changes>>

Restart ==
    /\ run < MaxRuns /\ run' = run + 1 /\ since' = now
    /\ requests' = {} /\ upgrades' = {} /\ online' = {}
    /\ handling' = [h \in Handlers |-> Idle]
    /\ UNCHANGED <<store, now, asked, taken, keys, tokens, changes>>

Next ==
    \/ \E h \in Handlers :
        \/ \E n \in Names :
            \/ \E right \in BOOLEAN : AskPassword(h, n, right)
            \/ \E k \in Prints : AskKey(h, n, k)
            \/ AskProvider(h, n)
            \/ \E c \in 1..MaxLogins : n \in Accounts /\ ReturnFromProvider(h, c, n)
        \/ ValidatePassword(h) \/ NormalizeName(h) \/ GetKey(h)
        \/ FindClient(h) \/ SendToProvider(h) \/ RemoveRequest(h)
        \/ FindClientAgain(h) \/ Exchange(h) \/ FinishLogin(h)
        \/ Encode(h) \/ Fail(h)
    \/ \E t \in tokens : OpenWebsocket(t)
    \/ \E u \in upgrades : Establish(u) \/ UpgradeFails(u)
    \/ \E c \in online : CloseWebsocket(c)
    \/ \E n \in Accounts :
        \/ \E k \in Prints : PublicKeyAdd(n, k) \/ PublicKeyDelete(n, k)
        \/ PublicKeyDeleteAll(n) \/ StoreChanges(n)
        \/ \E lock \in BOOLEAN : LockAccount(n, lock)
    \/ Tick \/ Restart

Spec == Init /\ [][Next]_vars

-----------------------------------------------------------------------------
(* Every variable has its type, and no token is valid for longer than the  *)
(* life of a token.                                                        *)
TypeOK ==
    /\ kind \in Kinds /\ locked \subseteq Accounts
    /\ now \in 0..MaxTime /\ run \in 1..MaxRuns /\ since \in 0..now /\ asked \in 0..MaxLogins
    /\ requests \subseteq [id : 1..asked, name : Configured, expires : 0..(MaxTime + RequestLife)]
    /\ handling \in [Handlers -> Tasks \cup {Idle}]
    /\ keys \subseteq Rows /\ tokens \subseteq Tokens
    /\ \A t \in tokens : t.name \in Accounts /\ t.exp <= now + TokenLife
    /\ \A c \in upgrades \cup online : c.token \in tokens /\ c.at \in 0..now
    /\ changes \in 0..MaxChanges

(* No login succeeds with an account that was locked all the time the      *)
(* request was handled, in six of the seven stores and however the login   *)
(* is done: the sources check the lock each time. The exception is phpBB,  *)
(* whose query admits none but the types that are locked.                  *)
LockHolds ==
    kind # "phpbb" => \A h \in Busy : handling[h].step = "encode" => handling[h].open

(* No login succeeds with a public key that was not registered for the     *)
(* player at any moment of the request: once PublicKeyDelete or            *)
(* PublicKeyDeleteAll is answered the key opens nothing, nor does the same *)
(* key registered by another player.                                       *)
RemovedKeysAreUseless ==
    \A h \in Busy :
        handling[h].step = "encode" /\ handling[h].proof \in Prints => handling[h].held

(* A login sent to the provider is used once, by one of the requests that  *)
(* come back with its state, and in its time; also after a restart.        *)
UsedOnceInTime ==
    \A i, j \in 1..Len(taken) :
        /\ taken[i].id = taken[j].id => i = j
        /\ taken[i].at <= taken[i].expires

(* Every token is signed when its player logs in.                          *)
LoggedInAt(t) == t.exp - TokenLife

(* Whoever is connected, or soon will be, has logged in since the server   *)
(* last started: a restart ends every session, though tokens outlive it.   *)
(* His token was no older than tokens get when it was checked; how long    *)
(* the upgrade of the connection took after that does not matter. And      *)
(* everything has its type.                                                *)
ConnectionsAreVouched ==
    /\ TypeOK
    /\ \A c \in upgrades \cup online :
        /\ LoggedInAt(c.token) >= since
        /\ c.at - LoggedInAt(c.token) \in 0..(TokenLife + Leeway)
=============================================================================
