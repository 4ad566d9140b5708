------------------------------ MODULE Accounts ------------------------------
(***************************************************************************)
(* Accounts, their sessions and their Darkreel delegations: auth/index.ts, *)
(* auth/sessions.ts, the tables of db/index.ts, the deletion of users      *)
(* (server/routes/admin.ts) and the connection (server/routes/settings.ts).*)
(*                                                                         *)
(* A handler runs alone between two awaits (key derivation, a call to      *)
(* Darkreel): an action is such a stretch, and a request keeps what its    *)
(* handler read before the await and will use.  A password or recovery     *)
(* code has the number of the request that set it; a presented secret is   *)
(* right or wrong by choice, except that a code nobody was shown is not    *)
(* presented.                                                              *)
(***************************************************************************)
EXTENDS Integers, FiniteSets

CONSTANTS Id, Name, Sid, Req, None,
          MaxFailures,     \* AccountLimiter.maxFailures
          MaxVersion       \* bound: no credentials are written after so many

ASSUME AccountsAssumption ==
  /\ IsFiniteSet(Req) /\ Req # {} /\ None \notin Id \cup Sid
  /\ MaxFailures \in Nat \ {0} /\ MaxVersion \in Nat

Version == 0 .. MaxVersion

\* A row of users.  key: the master key, named after the account it was made
\* for; code: the recovery code, 0 in a legacy account, of before Argon2id;
\* gen: the latest credentials that the owner set, and was shown the code of;
\* pass: those that the password is of.  A login knows the pass that it read
\* and checks; its session has it too, and the gen at its opening.
Row     == [name : Name, key : Id, code : Version, gen : Version, pass : Version]
Session == [uid : Id, key : Id, pass : Version, opened : Version]
Request == [op : {"register", "login", "recover", "change", "delete", "connect"},
            at : {"failing", "verifying", "deriving", "upgrading"},
            name : Name, uid : Id \cup {None}, key : Id \cup {None},
            code : Version, pass : Version, sid : Sid \cup {None}]

ASSUME NoneAssumption == None \notin Row \cup Session \cup Request

VARIABLES
  users,           \* the table, by id
  used,            \* the ids ever taken: randomUUID repeats none
  delegations,     \* per user the key that its refresh token is encrypted with
  version,         \* the number of the latest credentials written
  sessions,        \* the SessionStore
  requests,        \* the requests at an await
  loginFailures, recoverFailures   \* the two limiters: failures in the window

dbVars  == <<users, used, delegations, version>>
limVars == <<loginFailures, recoverFailures>>
vars    == <<dbVars, sessions, requests, limVars>>

\* An install upgraded from before Argon2id may hold legacy accounts.
Init ==
  /\ \E legacy \in SUBSET Id, name \in [Id -> Name] :
       /\ \A u, v \in legacy : name[u] = name[v] => u = v
       /\ users = [u \in Id |-> IF u \in legacy
                                THEN [name |-> name[u], key |-> u, code |-> 0, gen |-> 0, pass |-> 0]
                                ELSE None]
       /\ used = legacy
  /\ delegations = [u \in Id |-> None] /\ version = 0
  /\ sessions = [s \in Sid |-> None] /\ requests = [r \in Req |-> None]
  /\ loginFailures = [n \in Name |-> 0] /\ recoverFailures = [n \in Name |-> 0]

Accounts == {u \in Id : users[u] # None}
Live     == {s \in Sid : sessions[s] # None}
Named(n) == {u \in Accounts : users[u].name = n}

----------------------------------------------------------------------------
(* Requests and the stores. *)

\* Mutant: the master key is zeroed before the handler is done with it.
Await_Zeroed(r, op, at, n, u, s) ==
  requests' = [requests EXCEPT ![r] =
    [op |-> op, at |-> at, name |-> n, uid |-> u, sid |-> s, key |-> None,
     code |-> IF op = "recover" THEN users[u].code ELSE 0,
     pass |-> IF op = "login" /\ u # None THEN users[u].pass ELSE 0]]

Await(r, op, at, n, u, s) ==
  requests' = [requests EXCEPT ![r] =
    [op |-> op, at |-> at, name |-> n, uid |-> u, sid |-> IF op = "connect" THEN s ELSE None,
     key  |-> IF u \in Accounts THEN users[u].key ELSE None,
     code |-> IF op = "recover" THEN users[u].code ELSE 0,
     pass |-> IF op = "login" /\ u # None THEN users[u].pass ELSE 0]]

At(r, op, at) == requests[r] # None /\ requests[r].op = op /\ requests[r].at = at
Done(r)       == requests' = [requests EXCEPT ![r] = None]

\* authenticate: the session lives and its account exists.
Authenticated(s) == s \in Live /\ sessions[s].uid \in Accounts

\* sessions.deleteAllForUser
Without(u) == [s \in Sid |-> IF s \in Live /\ sessions[s].uid = u THEN None ELSE sessions[s]]

\* A random session id, which no request under way knows.
FreeSid(store) == {s \in Sid : store[s] = None /\ \A r \in Req : requests[r] # None => requests[r].sid # s}

\* createSessionAndToken, on the stores as the handler left them: it does not
\* look whether the account still exists, or has other credentials than the
\* ones p that the handler checked or set.
Opened(store, rows, u, k, p) ==
  \E s \in FreeSid(store) :
    sessions' = [store EXCEPT ![s] =
      [uid |-> u, key |-> k, pass |-> p,
       opened |-> IF rows[u] # None THEN rows[u].gen ELSE 0]]

Fresh == version < MaxVersion /\ version' = version + 1

\* Mutant: UPDATE without its WHERE.
Updated_All(u, k, c, g, p) ==
  [v \in Id |-> IF users[v] = None THEN None
                ELSE [name |-> users[v].name, key |-> k, code |-> c, gen |-> g, pass |-> p]]

\* updateUserAuth: UPDATE ... WHERE id, which changes nothing if the row is gone.
Updated(u, k, c, g, p) ==
  IF users[u] = None THEN users
  ELSE [users EXCEPT ![u] = [name |-> @.name, key |-> k, code |-> c, gen |-> g, pass |-> p]]

\* Mutant: one failure too many.
Limited_Late(failures, n) == failures[n] > MaxFailures

\* AccountLimiter: isLimited, recordFailure and reset.
Limited(failures, n) == failures[n] >= MaxFailures
Recorded(failures, n) == [failures EXCEPT ![n] = @ + 1]
Reset(failures, n)    == [failures EXCEPT ![n] = 0]

----------------------------------------------------------------------------
(* Registration: POST /auth/register and POST /admin/users. *)

RegisterStart(r, n) ==
  /\ requests[r] = None /\ Named(n) = {}
  /\ Await(r, "register", "deriving", n, None, None)
  /\ UNCHANGED <<dbVars, sessions, limVars>>

\* Mutant: a column without UNIQUE.
Inserts_Twice(n) == TRUE

\* INSERT: the column username is UNIQUE.
Inserts(n) == Named(n) = {}

Registered(r) ==
  /\ At(r, "register", "deriving") /\ Inserts(requests[r].name)
  /\ Fresh
  /\ \E u \in Id \ used :
       /\ users' = [users EXCEPT ![u] = [name |-> requests[r].name, key |-> u,
                                         code |-> version', gen |-> version', pass |-> version']]
       /\ used' = used \cup {u}
  /\ Done(r) /\ UNCHANGED <<delegations, sessions, limVars>>

\* The INSERT of a name taken meanwhile throws.
RegisterFails(r) ==
  /\ At(r, "register", "deriving") /\ ~Inserts(requests[r].name)
  /\ Done(r) /\ UNCHANGED <<dbVars, sessions, limVars>>

----------------------------------------------------------------------------
(* POST /auth/login *)

\* An unknown name, or the wrong password of a legacy account.
LoginHopeless(r, n) ==
  /\ requests[r] = None /\ ~Limited(loginFailures, n)
  /\ \A u \in Named(n) : users[u].code = 0
  /\ Await(r, "login", "failing", n, None, None)
  /\ UNCHANGED <<dbVars, sessions, limVars>>

\* A legacy password is checked without an await.
LoginLegacy(r, n) ==
  /\ requests[r] = None /\ ~Limited(loginFailures, n)
  /\ \E u \in Named(n) : users[u].code = 0 /\ Await(r, "login", "upgrading", n, u, None)
  /\ loginFailures' = Reset(loginFailures, n)
  /\ UNCHANGED <<dbVars, sessions, recoverFailures>>

LoginStart(r, n) ==
  /\ requests[r] = None /\ ~Limited(loginFailures, n)
  /\ \E u \in Named(n) : users[u].code # 0 /\ Await(r, "login", "verifying", n, u, None)
  /\ UNCHANGED <<dbVars, sessions, limVars>>

LoginRefused(r) ==
  /\ At(r, "login", "failing") \/ At(r, "login", "verifying")
  /\ loginFailures' = Recorded(loginFailures, requests[r].name)
  /\ Done(r) /\ UNCHANGED <<dbVars, sessions, recoverFailures>>

LoginVerified(r) ==
  /\ At(r, "login", "verifying")
  /\ loginFailures' = Reset(loginFailures, requests[r].name)
  /\ requests' = [requests EXCEPT ![r].at = "deriving"]
  /\ UNCHANGED <<dbVars, sessions, recoverFailures>>

LoginDone(r) ==
  /\ At(r, "login", "deriving")
  /\ Opened(sessions, users, requests[r].uid, requests[r].key, requests[r].pass)
  /\ Done(r) /\ UNCHANGED <<dbVars, limVars>>

\* The upgrade stores the password that it checked and the key that it read,
\* and a new recovery code that it shows to nobody; it ends no session.
LoginUpgraded(r) ==
  /\ At(r, "login", "upgrading") /\ Fresh
  /\ LET u == requests[r].uid
     IN users' = Updated(u, requests[r].key, version',
                         IF users[u] # None THEN users[u].gen ELSE 0, requests[r].pass)
  /\ Opened(sessions, users', requests[r].uid, requests[r].key, requests[r].pass)
  /\ Done(r) /\ UNCHANGED <<used, delegations, limVars>>

----------------------------------------------------------------------------
(* POST /auth/recover *)

RecoverRefused(n) ==
  /\ ~Limited(recoverFailures, n)
  /\ recoverFailures' = Recorded(recoverFailures, n)
  /\ UNCHANGED <<dbVars, sessions, requests, loginFailures>>

RecoverStart(r, n) ==
  /\ requests[r] = None /\ ~Limited(recoverFailures, n)
  /\ \E u \in Named(n) : /\ users[u].code # 0 /\ users[u].code = users[u].gen
                         /\ Await(r, "recover", "deriving", n, u, None)
  /\ recoverFailures' = Reset(recoverFailures, n)
  /\ UNCHANGED <<dbVars, sessions, loginFailures>>

Recovered(r) ==
  /\ At(r, "recover", "deriving") /\ Fresh
  /\ users' = Updated(requests[r].uid, requests[r].key, version', version', version')
  /\ sessions' = Without(requests[r].uid)
  /\ Done(r) /\ UNCHANGED <<used, delegations, limVars>>

----------------------------------------------------------------------------
(* POST /auth/change-password and DELETE /auth/account *)

Begin(r, op, at, s) ==
  /\ requests[r] = None /\ Authenticated(s)
  /\ Await(r, op, at, users[sessions[s].uid].name, sessions[s].uid, s)
  /\ UNCHANGED <<dbVars, sessions, limVars>>

ChangeStart(r, s) == Begin(r, "change", "deriving", s)
DeleteStart(r, s) == Begin(r, "delete", "verifying", s)

\* A wrong password.
Refused(r) ==
  /\ At(r, "change", "deriving") \/ At(r, "delete", "verifying")
  /\ Done(r) /\ UNCHANGED <<dbVars, sessions, limVars>>

\* Mutant: a change leaves the sessions as they are.
Changed_KeepsSessions(r) ==
  /\ At(r, "change", "deriving") /\ Fresh
  /\ users' = Updated(requests[r].uid, requests[r].key, version', version', version')
  /\ Opened(sessions, users', requests[r].uid, requests[r].key, version')
  /\ Done(r) /\ UNCHANGED <<used, delegations, limVars>>

Changed(r) ==
  /\ At(r, "change", "deriving") /\ Fresh
  /\ users' = Updated(requests[r].uid, requests[r].key, version', version', version')
  /\ Opened(Without(requests[r].uid), users', requests[r].uid, requests[r].key, version')
  /\ Done(r) /\ UNCHANGED <<used, delegations, limVars>>

\* Mutant: the sessions of a deleted account are left.
Erase_KeepsSessions(u) ==
  /\ users' = [users EXCEPT ![u] = None]
  /\ delegations' = [delegations EXCEPT ![u] = None]
  /\ UNCHANGED <<sessions, used, version, limVars>>

\* The end of an account: the foreign key's cascade takes the delegation along.
Erase(u) ==
  /\ sessions' = Without(u)
  /\ users' = [users EXCEPT ![u] = None]
  /\ delegations' = [delegations EXCEPT ![u] = None]
  /\ UNCHANGED <<used, version, limVars>>

Deleted(r) == At(r, "delete", "verifying") /\ Erase(requests[r].uid) /\ Done(r)

\* DELETE /admin/users/:id, also of a user that is gone.
AdminDelete(u) == Erase(u) /\ UNCHANGED requests

----------------------------------------------------------------------------
(* Darkreel: connecting and disconnecting. *)

ConnectStart(r, s) == Begin(r, "connect", "deriving", s)

\* The session of the request is read again after the exchange.
ConnectKey(r) ==
  LET s == requests[r].sid
  IN IF s \in Live /\ sessions[s].uid = requests[r].uid THEN sessions[s].key ELSE None

\* saveDarkreelDelegation: the foreign key wants the account.
Connected(r) ==
  /\ At(r, "connect", "deriving") /\ ConnectKey(r) # None /\ requests[r].uid \in Accounts
  /\ delegations' = [delegations EXCEPT ![requests[r].uid] = ConnectKey(r)]
  /\ Done(r) /\ UNCHANGED <<users, used, version, sessions, limVars>>

\* The exchange failed, the session is gone, or the foreign key refused.
ConnectFails(r) ==
  /\ At(r, "connect", "deriving")
  /\ Done(r) /\ UNCHANGED <<dbVars, sessions, limVars>>

Disconnect(s) ==
  /\ Authenticated(s)
  /\ delegations' = [delegations EXCEPT ![sessions[s].uid] = None]
  /\ UNCHANGED <<users, used, version, sessions, requests, limVars>>

----------------------------------------------------------------------------
(* Sessions, windows and the process. *)

\* A logout, or the age of a day.
SessionEnds(s) ==
  /\ s \in Live
  /\ sessions' = [sessions EXCEPT ![s] = None]
  /\ UNCHANGED <<dbVars, requests, limVars>>

\* The window of a name closed, or its entry made room for another.
WindowEnds(n) ==
  /\ \/ loginFailures' = Reset(loginFailures, n) /\ UNCHANGED recoverFailures
     \/ recoverFailures' = Reset(recoverFailures, n) /\ UNCHANGED loginFailures
  /\ UNCHANGED <<dbVars, sessions, requests>>

\* Only the database outlives the process.
Restart ==
  /\ sessions' = [s \in Sid |-> None] /\ requests' = [r \in Req |-> None]
  /\ loginFailures' = [n \in Name |-> 0] /\ recoverFailures' = [n \in Name |-> 0]
  /\ UNCHANGED dbVars

Finish(r) ==
  \/ Registered(r) \/ RegisterFails(r)
  \/ LoginRefused(r) \/ LoginVerified(r) \/ LoginDone(r) \/ LoginUpgraded(r)
  \/ Recovered(r) \/ Refused(r) \/ Changed(r) \/ Deleted(r)
  \/ Connected(r) \/ ConnectFails(r)

Next ==
  \/ \E r \in Req, n \in Name : RegisterStart(r, n) \/ LoginHopeless(r, n) \/ LoginLegacy(r, n)
                                \/ LoginStart(r, n) \/ RecoverStart(r, n)
  \/ \E r \in Req, s \in Sid : ChangeStart(r, s) \/ DeleteStart(r, s) \/ ConnectStart(r, s)
  \/ \E r \in Req : Finish(r)
  \/ \E n \in Name : RecoverRefused(n) \/ WindowEnds(n)
  \/ \E s \in Sid : SessionEnds(s) \/ Disconnect(s)
  \/ \E u \in Id : AdminDelete(u)
  \/ Restart

Spec == Init /\ [][Next]_vars
----------------------------------------------------------------------------
(* Properties *)

(* The types; an id once taken is not taken again.                           *)
TypeOK ==
  /\ users \in [Id -> Row \cup {None}] /\ Accounts \subseteq used /\ used \subseteq Id
  /\ delegations \in [Id -> Id \cup {None}] /\ version \in Version
  /\ sessions \in [Sid -> Session \cup {None}]
  /\ requests \in [Req -> Request \cup {None}]
  /\ loginFailures \in [Name -> Nat] /\ recoverFailures \in [Name -> Nat]

(* No request ever loses an account's master key or gives it another's: the  *)
(* row, every session (of a deleted account too) and the delegation hold the *)
(* one key made with the account, and every handler that stores a key across *)
(* its awaits stores that one.  So no change or recovery of the password     *)
(* makes the refresh token undecryptable: settings.ts:206-209, which names a *)
(* change "without re-connecting" as the usual cause of decrypt-failed, does *)
(* not describe the code (auth/index.ts:664-686 keeps the master key).       *)
KeysSurvive ==
  /\ \A u \in Accounts : users[u].key = u
  /\ \A s \in Live : sessions[s].key = sessions[s].uid
  /\ \A u \in Id : delegations[u] \in {u, None}

\* The sessions and the logins under way of past credentials of the account.
LateSessions(u) == {s \in Live : sessions[s].uid = u /\ sessions[s].pass # users[u].gen}
LateLogins(u)   == {r \in Req : /\ requests[r] # None /\ requests[r].op = "login"
                                /\ requests[r].uid = u /\ requests[r].pass # users[u].gen}

(* A change of the credentials ends every session opened before it (README,  *)
(* Session isolation), wherever the logins and changes of the account stand. *)
(* It does not stop the logins that checked the old password and were still  *)
(* deriving when it came: they open a session each, and no later login does, *)
(* unless one of them upgraded a legacy account and so put the old password  *)
(* back (gen # pass).  So there are never as many of those sessions, with    *)
(* those still to come, as there are requests at a time: the change was one. *)
SessionsFollowCredentials ==
  \A u \in Accounts :
    /\ \A s \in Live : sessions[s].uid = u => sessions[s].opened = users[u].gen
    /\ users[u].pass = users[u].gen =>
         Cardinality(LateSessions(u)) + Cardinality(LateLogins(u)) < Cardinality(Req)

(* Two registrations of a name that both found it free make one account.     *)
NamesUnique ==
  \A u, v \in Accounts : users[u].name = users[v].name => u = v

(* Connecting never meets a foreign key without its account: while a session *)
(* that a request was authenticated with lives, the account does too, and a  *)
(* delegation has its account.                                               *)
ConnectsToAccounts ==
  /\ \A r \in Req : requests[r] # None /\ requests[r].op = "connect" /\ ConnectKey(r) # None
       => requests[r].uid \in Accounts
  /\ \A u \in Id : delegations[u] # None => u \in Accounts

(* The limiters: recovery, which counts before it awaits, never exceeds the  *)
(* limit; a login counts after its await, so the attempts under way when the *)
(* limit is reached still count, and no others.                              *)
GuessesBounded ==
  \A n \in Name : /\ recoverFailures[n] <= MaxFailures
                  /\ loginFailures[n] <= MaxFailures - 1 + Cardinality(Req)

(* Violated.  README, Account recovery: every recovery invalidates the old   *)
(* code.  Two recoveries with one code that overlap both succeed, and the    *)
(* code that the first one showed is replaced by the second's.               *)
OldCodesFail ==
  [][\A r \in Req : Recovered(r) /\ requests[r].uid \in Accounts
                    => requests[r].code = users[requests[r].uid].code]_vars
=============================================================================
