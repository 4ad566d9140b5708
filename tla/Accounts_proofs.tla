-------------------------- MODULE Accounts_proofs --------------------------
(***************************************************************************)
(* Proofs about the accounts, for every number of accounts, names,         *)
(* sessions, requests and writes of credentials.                           *)
(*                                                                         *)
(* The invariant says of each store, and of what each request under way    *)
(* remembers, that it is well formed and holds the key of its own account; *)
(* a lemma per helper (Await, Done, Opened, Without, Updated) says what it *)
(* keeps of that, and each action is a combination of them.  On this rest  *)
(* the invariants that relate the stores.                                  *)
(***************************************************************************)
EXTENDS Accounts, FiniteSetTheorems, TLAPS

UsersOK ==
  /\ users \in [Id -> Row \cup {None}] /\ version \in Version
  /\ Accounts \subseteq used /\ used \subseteq Id
  /\ \A u \in Accounts : users[u].key = u

DelegationsOK ==
  /\ delegations \in [Id -> Id \cup {None}]
  /\ \A u \in Id : delegations[u] \in {u, None}

\* A store of sessions, before or after a handler's step.
StoreOK(store) ==
  /\ store \in [Sid -> Session \cup {None}]
  /\ \A s \in Sid : store[s] # None => store[s].uid \in used /\ store[s].key = store[s].uid

SessionsOK == StoreOK(sessions)

\* What a request remembers.
RequestOK(q) ==
  /\ q \in Request /\ q.key = q.uid
  /\ IF q.op = "register" \/ q.at = "failing" THEN q.uid = None ELSE q.uid \in used
  /\ q.op = "connect" => q.sid \in Sid

RequestsOK ==
  /\ requests \in [Req -> Request \cup {None}]
  /\ \A r \in Req : requests[r] # None => RequestOK(requests[r])

LimitsOK == loginFailures \in [Name -> Nat] /\ recoverFailures \in [Name -> Nat]

KeyInv == UsersOK /\ DelegationsOK /\ SessionsOK /\ RequestsOK /\ LimitsOK

----------------------------------------------------------------------------
(* The helpers. *)

(* A request that starts remembers its account's key.                        *)
LEMMA AwaitKeeps ==
  ASSUME KeyInv, NEW r \in Req, NEW n \in Name, NEW u \in Accounts \cup {None},
         NEW s \in Sid \cup {None},
         NEW op \in {"register", "login", "recover", "change", "delete", "connect"},
         NEW at \in {"failing", "verifying", "deriving", "upgrading"},
         IF op = "register" \/ at = "failing" THEN u = None ELSE u # None,
         op = "recover" => u # None, op = "connect" => s # None,
         Await(r, op, at, n, u, s), used' = used
  PROVE  RequestsOK'
<1> DEFINE q == [op |-> op, at |-> at, name |-> n, uid |-> u,
                 sid |-> IF op = "connect" THEN s ELSE None,
                 key |-> IF u \in Accounts THEN users[u].key ELSE None,
                 code |-> IF op = "recover" THEN users[u].code ELSE 0,
                 pass |-> IF op = "login" /\ u # None THEN users[u].pass ELSE 0]
<1>1. requests' = [requests EXCEPT ![r] = q]
  BY DEF Await
<1>2. /\ None \notin Accounts /\ Accounts \subseteq Id
      /\ \A v \in Accounts : v \in used /\ users[v] \in Row /\ users[v].key = v
  BY AccountsAssumption DEF KeyInv, UsersOK, Accounts
<1>3. q.code \in Version /\ q.pass \in Version
  <2>1. 0 \in Version
    BY AccountsAssumption DEF Version
  <2> QED BY <1>2, <2>1 DEF Row
<1>4. q.key = u /\ u \in Id \cup {None}
  BY <1>2
<1>5. q \in Request
  BY <1>3, <1>4 DEF Request
<1>6. /\ q.key = q.uid /\ (q.op = "connect" => q.sid \in Sid)
      /\ IF q.op = "register" \/ q.at = "failing" THEN q.uid = None ELSE q.uid \in used
  BY <1>2, <1>4
<1> HIDE DEF q
<1>7. RequestOK(q)
  BY <1>5, <1>6 DEF RequestOK
<1>8. requests' \in [Req -> Request \cup {None}]
  BY <1>1, <1>5 DEF KeyInv, RequestsOK
<1>9. \A p \in Req : requests'[p] = q \/ requests'[p] = requests[p]
  BY <1>1 DEF KeyInv, RequestsOK
<1>10. \A p \in Req : requests'[p] # None => RequestOK(requests'[p])
  BY <1>7, <1>9 DEF KeyInv, RequestsOK
<1> QED BY <1>8, <1>10 DEF RequestsOK, RequestOK

(* A request that ends leaves the others as they were.                       *)
LEMMA DoneKeeps ==
  ASSUME KeyInv, NEW r \in Req, Done(r), used \subseteq used'
  PROVE  RequestsOK'
<1>1. requests' \in [Req -> Request \cup {None}]
  BY DEF KeyInv, RequestsOK, Done
<1>2. \A p \in Req : requests'[p] = None \/ requests'[p] = requests[p]
  BY DEF KeyInv, RequestsOK, Done
<1> QED BY <1>1, <1>2 DEF KeyInv, RequestsOK, RequestOK

LEMMA RequestsStay ==
  ASSUME KeyInv, UNCHANGED requests, used \subseteq used'
  PROVE  RequestsOK'
BY DEF KeyInv, RequestsOK, RequestOK

LEMMA SessionsStay ==
  ASSUME KeyInv, UNCHANGED sessions, used \subseteq used'
  PROVE  SessionsOK'
BY DEF KeyInv, SessionsOK, StoreOK

LEMMA WithoutKeeps ==
  ASSUME KeyInv, NEW u
  PROVE  StoreOK(Without(u))
BY DEF KeyInv, SessionsOK, StoreOK, Without

(* A session is opened with the key of its account.                          *)
LEMMA OpenedKeeps ==
  ASSUME NEW store, StoreOK(store), NEW rows \in [Id -> Row \cup {None}], NEW u \in used, NEW k,
         NEW p \in Version, used \subseteq Id, k = u, Opened(store, rows, u, k, p), used' = used
  PROVE  SessionsOK'
<1>1. PICK s \in FreeSid(store) : sessions' = [store EXCEPT ![s] =
        [uid |-> u, key |-> k, pass |-> p, opened |-> IF rows[u] # None THEN rows[u].gen ELSE 0]]
  BY DEF Opened
<1> DEFINE e == [uid |-> u, key |-> k, pass |-> p,
                 opened |-> IF rows[u] # None THEN rows[u].gen ELSE 0]
<1>2. e.opened \in Version
  <2>1. 0 \in Version
    BY AccountsAssumption DEF Version
  <2>2. u \in Id /\ rows[u] \in Row \cup {None}
    OBVIOUS
  <2> QED BY <2>1, <2>2 DEF Row
<1>3. e \in Session /\ e.uid \in used /\ e.key = e.uid
  BY <1>2 DEF Session
<1>4. s \in Sid
  BY DEF FreeSid
<1> HIDE DEF e
<1>5. sessions' = [store EXCEPT ![s] = e]
  BY <1>1 DEF e
<1>6. sessions' \in [Sid -> Session \cup {None}]
  BY <1>3, <1>4, <1>5 DEF StoreOK
<1>7. \A t \in Sid : sessions'[t] = e \/ sessions'[t] = store[t]
  BY <1>4, <1>5 DEF StoreOK
<1> QED BY <1>3, <1>6, <1>7 DEF SessionsOK, StoreOK

(* An update by id keeps names and keys, and makes no row.                   *)
LEMMA UpdatedKeeps ==
  ASSUME KeyInv, NEW u \in Id, NEW c \in Version, NEW g \in Version, NEW p \in Version,
         version' \in Version, users' = Updated(u, u, c, g, p), used' = used
  PROVE  UsersOK' /\ Accounts' = Accounts
         /\ \A v \in Accounts : users'[v].name = users[v].name
                                /\ (v # u => users'[v] = users[v])
                                /\ (v = u => /\ users'[v].gen = g /\ users'[v].code = c
                                             /\ users'[v].pass = p)
<1>1. CASE users[u] = None
  BY <1>1 DEF KeyInv, UsersOK, Updated, Accounts
<1>2. CASE users[u] # None
  <2> DEFINE row == [name |-> users[u].name, key |-> u, code |-> c, gen |-> g, pass |-> p]
  <2>1. users' = [users EXCEPT ![u] = row]
    BY <1>2 DEF Updated
  <2>2. row \in Row
    BY <1>2 DEF KeyInv, UsersOK, Row
  <2>3. row # None
    BY <2>2, NoneAssumption
  <2>4. row.name = users[u].name /\ row.key = u /\ row.gen = g /\ row.code = c /\ row.pass = p
    OBVIOUS
  <2> HIDE DEF row
  <2>5. users' \in [Id -> Row \cup {None}]
    BY <2>1, <2>2 DEF KeyInv, UsersOK
  <2>6. \A v \in Id : users'[v] = IF v = u THEN row ELSE users[v]
    BY <2>1 DEF KeyInv, UsersOK
  <2>7. Accounts' = Accounts
    BY <1>2, <2>3, <2>6 DEF Accounts
  <2> QED BY <2>4, <2>5, <2>6, <2>7 DEF KeyInv, UsersOK, Accounts
<1> QED BY <1>1, <1>2

LEMMA UsersStay ==
  ASSUME KeyInv, UNCHANGED <<users, used, version>>
  PROVE  UsersOK' /\ Accounts' = Accounts
BY DEF KeyInv, UsersOK, Accounts

LEMMA DelegationsStay ==
  ASSUME KeyInv, UNCHANGED delegations
  PROVE  DelegationsOK'
BY DEF KeyInv, DelegationsOK

(* The counters of the limiters.                                             *)
LEMMA LimitersKeep ==
  ASSUME KeyInv, NEW n \in Name,
         \/ UNCHANGED limVars
         \/ loginFailures' = Recorded(loginFailures, n) /\ UNCHANGED recoverFailures
         \/ loginFailures' = Reset(loginFailures, n) /\ UNCHANGED recoverFailures
         \/ recoverFailures' = Recorded(recoverFailures, n) /\ UNCHANGED loginFailures
         \/ recoverFailures' = Reset(recoverFailures, n) /\ UNCHANGED loginFailures
  PROVE  LimitsOK'
BY DEF KeyInv, LimitsOK, limVars, Recorded, Reset

LEMMA LimitsStay ==
  ASSUME KeyInv, UNCHANGED limVars
  PROVE  LimitsOK'
BY DEF KeyInv, LimitsOK, limVars

(* The uid of a request that has read its row is an account that was.        *)
LEMMA RequestReads ==
  ASSUME KeyInv, NEW r \in Req, requests[r] # None,
         requests[r].op # "register", requests[r].at # "failing"
  PROVE  /\ requests[r].uid \in Id /\ requests[r].uid \in used
         /\ requests[r].key = requests[r].uid /\ requests[r].name \in Name
         /\ requests[r].pass \in Version
         /\ requests[r].op = "connect" => requests[r].sid \in Sid
BY DEF KeyInv, RequestsOK, RequestOK, UsersOK, Request

LEMMA NextVersion ==
  ASSUME KeyInv, Fresh
  PROVE  version' \in Version /\ version \in Nat /\ version' = version + 1
BY AccountsAssumption DEF KeyInv, UsersOK, Fresh, Version

----------------------------------------------------------------------------
(* Each action keeps KeyInv. *)

LEMMA StartKeeps ==
  ASSUME KeyInv, NEW r \in Req, NEW n \in Name,
         \/ RegisterStart(r, n) \/ LoginHopeless(r, n) \/ LoginLegacy(r, n)
         \/ LoginStart(r, n) \/ RecoverStart(r, n)
  PROVE  KeyInv'
<1>1. UNCHANGED dbVars /\ UNCHANGED sessions
  BY DEF RegisterStart, LoginHopeless, LoginLegacy, LoginStart, RecoverStart
<1>2. UsersOK' /\ SessionsOK' /\ DelegationsOK'
  BY <1>1, UsersStay, SessionsStay, DelegationsStay DEF dbVars
<1>3. LimitsOK'
  BY LimitersKeep DEF RegisterStart, LoginHopeless, LoginLegacy, LoginStart, RecoverStart, limVars
<1>4. Named(n) \subseteq Accounts /\ None \notin Accounts
  BY AccountsAssumption DEF Named, Accounts
<1>5. RequestsOK'
  <2>1. CASE RegisterStart(r, n)
    BY <1>1, <2>1, AwaitKeeps DEF RegisterStart, dbVars
  <2>2. CASE LoginHopeless(r, n)
    BY <1>1, <2>2, AwaitKeeps DEF LoginHopeless, dbVars
  <2>3. CASE LoginLegacy(r, n)
    <3>1. PICK u \in Named(n) : Await(r, "login", "upgrading", n, u, None)
      BY <2>3 DEF LoginLegacy
    <3> QED BY <1>1, <1>4, <3>1, AwaitKeeps DEF dbVars
  <2>4. CASE LoginStart(r, n)
    <3>1. PICK u \in Named(n) : Await(r, "login", "verifying", n, u, None)
      BY <2>4 DEF LoginStart
    <3> QED BY <1>1, <1>4, <3>1, AwaitKeeps DEF dbVars
  <2>5. CASE RecoverStart(r, n)
    <3>1. PICK u \in Named(n) : Await(r, "recover", "deriving", n, u, None)
      BY <2>5 DEF RecoverStart
    <3> QED BY <1>1, <1>4, <3>1, AwaitKeeps DEF dbVars
  <2> QED BY <2>1, <2>2, <2>3, <2>4, <2>5
<1> QED BY <1>2, <1>3, <1>5 DEF KeyInv

LEMMA BeginKeeps ==
  ASSUME KeyInv, NEW r \in Req, NEW s \in Sid,
         ChangeStart(r, s) \/ DeleteStart(r, s) \/ ConnectStart(r, s)
  PROVE  KeyInv'
<1>1. PICK op \in {"change", "delete", "connect"}, at \in {"verifying", "deriving"} : Begin(r, op, at, s)
  BY DEF ChangeStart, DeleteStart, ConnectStart
<1> DEFINE u == sessions[s].uid
<1>2. /\ Authenticated(s) /\ Await(r, op, at, users[u].name, u, s)
      /\ UNCHANGED <<dbVars, sessions, limVars>>
  BY <1>1 DEF Begin
<1>3. u \in Accounts /\ None \notin Accounts /\ None # s /\ s \in Sid
  BY <1>2, AccountsAssumption DEF Authenticated, Accounts
<1>4. users[u].name \in Name
  BY <1>3 DEF KeyInv, UsersOK, Accounts, Row
<1>5. RequestsOK'
  <2> HIDE DEF u
  <2> QED BY <1>2, <1>3, <1>4, AwaitKeeps DEF dbVars
<1> QED BY <1>2, <1>5, UsersStay, SessionsStay, DelegationsStay, LimitsStay DEF dbVars, KeyInv

LEMMA OpenKeeps ==
  ASSUME KeyInv, NEW r \in Req, LoginDone(r) \/ LoginUpgraded(r) \/ Changed(r)
  PROVE  KeyInv'
<1> DEFINE u == requests[r].uid
<1>1. /\ requests[r] # None /\ requests[r].op # "register" /\ requests[r].at # "failing"
      /\ Done(r) /\ UNCHANGED <<used, delegations>> /\ UNCHANGED limVars
  BY DEF LoginDone, LoginUpgraded, Changed, At, dbVars
<1>2. u \in Id /\ u \in used /\ requests[r].key = u /\ requests[r].pass \in Version
  BY <1>1, RequestReads
<1>3. UsersOK'
  <2>1. CASE LoginDone(r)
    BY <2>1, UsersStay DEF LoginDone, dbVars
  <2>2. CASE LoginUpgraded(r)
    <3> DEFINE g == IF users[u] # None THEN users[u].gen ELSE 0
    <3>1. g \in Version
      <4>1. 0 \in Version
        BY AccountsAssumption DEF Version
      <4> QED BY <1>2, <4>1 DEF KeyInv, UsersOK, Row
    <3>2. users' = Updated(u, u, version', g, requests[r].pass) /\ version' \in Version
      BY <1>2, <2>2, NextVersion DEF LoginUpgraded
    <3> HIDE DEF g, u
    <3> QED BY <1>1, <1>2, <3>1, <3>2, UpdatedKeeps
  <2>3. CASE Changed(r)
    BY <1>1, <1>2, <2>3, NextVersion, UpdatedKeeps DEF Changed
  <2> QED BY <2>1, <2>2, <2>3
<1>4. SessionsOK'
  <2>1. StoreOK(sessions) /\ StoreOK(Without(u)) /\ used \subseteq Id
    BY WithoutKeeps DEF KeyInv, SessionsOK, UsersOK
  <2>2. PICK store \in {sessions, Without(u)}, rows \in {users, users'},
                p \in Version : Opened(store, rows, u, requests[r].key, p)
    BY <1>2, NextVersion DEF LoginDone, LoginUpgraded, Changed
  <2>3. rows \in [Id -> Row \cup {None}] /\ StoreOK(store)
    BY <1>3, <2>1 DEF KeyInv, UsersOK
  <2> HIDE DEF u
  <2> QED BY <1>1, <1>2, <2>1, <2>2, <2>3, OpenedKeeps
<1>5. RequestsOK'
  BY <1>1, DoneKeeps
<1> QED BY <1>1, <1>3, <1>4, <1>5, DelegationsStay, LimitsStay DEF KeyInv

LEMMA RecoveredKeeps ==
  ASSUME KeyInv, NEW r \in Req, Recovered(r)
  PROVE  KeyInv'
<1> DEFINE u == requests[r].uid
<1>1. /\ requests[r] # None /\ requests[r].op = "recover" /\ requests[r].at = "deriving"
      /\ Done(r) /\ UNCHANGED <<used, delegations>> /\ UNCHANGED limVars
  BY DEF Recovered, At
<1>2. u \in Id /\ u \in used /\ requests[r].key = u /\ requests[r].pass \in Version
  BY <1>1, RequestReads
<1>3. UsersOK'
  BY <1>1, <1>2, NextVersion, UpdatedKeeps DEF Recovered
<1>4. SessionsOK'
  <2>1. StoreOK(sessions')
    BY WithoutKeeps DEF Recovered
  <2> QED BY <1>1, <2>1 DEF SessionsOK, StoreOK
<1> QED BY <1>1, <1>3, <1>4, DoneKeeps, DelegationsStay, LimitsStay DEF KeyInv

LEMMA RegisteredKeeps ==
  ASSUME KeyInv, NEW r \in Req, Registered(r)
  PROVE  KeyInv'
<1>1. /\ requests[r] # None /\ Done(r) /\ Fresh
      /\ UNCHANGED delegations /\ UNCHANGED sessions /\ UNCHANGED limVars
  BY DEF Registered, At
<1>2. PICK u \in Id \ used :
        /\ users' = [users EXCEPT ![u] = [name |-> requests[r].name, key |-> u,
                                          code |-> version', gen |-> version', pass |-> version']]
        /\ used' = used \cup {u}
  BY DEF Registered
<1> DEFINE row == [name |-> requests[r].name, key |-> u, code |-> version', gen |-> version',
                   pass |-> version']
<1>3. row \in Row /\ row # None
  BY <1>1, NextVersion, NoneAssumption DEF KeyInv, RequestsOK, Request, Row
<1>4. row.key = u
  OBVIOUS
<1> HIDE DEF row
<1>5. users' = [users EXCEPT ![u] = row]
  BY <1>2 DEF row
<1>6. users' \in [Id -> Row \cup {None}] /\ \A v \in Id : users'[v] = IF v = u THEN row ELSE users[v]
  BY <1>3, <1>5 DEF KeyInv, UsersOK
<1>7. UsersOK'
  BY <1>1, <1>2, <1>3, <1>4, <1>6, NextVersion DEF KeyInv, UsersOK, Accounts
<1>8. used \subseteq used'
  BY <1>2
<1> QED BY <1>1, <1>7, <1>8, SessionsStay, DoneKeeps, DelegationsStay, LimitsStay DEF KeyInv

LEMMA EraseKeeps ==
  ASSUME KeyInv, NEW u \in Id, Erase(u), RequestsOK'
  PROVE  KeyInv'
<1>1. UsersOK' /\ DelegationsOK'
  BY DEF KeyInv, UsersOK, DelegationsOK, Erase, Accounts
<1>2. SessionsOK'
  <2>1. StoreOK(sessions')
    BY WithoutKeeps DEF Erase
  <2> QED BY <2>1 DEF SessionsOK, StoreOK, Erase
<1> QED BY <1>1, <1>2, LimitsStay DEF KeyInv, Erase

(* The key that a connection finds is its account's.                         *)
LEMMA ConnectKeyIsOwn ==
  ASSUME KeyInv, NEW r \in Req, requests[r] # None, requests[r].op = "connect",
         requests[r].at # "failing", ConnectKey(r) # None
  PROVE  /\ ConnectKey(r) = requests[r].uid /\ requests[r].uid \in Id /\ requests[r].sid \in Sid
         /\ sessions[requests[r].sid] # None /\ sessions[requests[r].sid].uid = requests[r].uid
BY RequestReads DEF ConnectKey, KeyInv, SessionsOK, StoreOK, Live

LEMMA ConnectedKeeps ==
  ASSUME KeyInv, NEW r \in Req, Connected(r)
  PROVE  KeyInv'
<1>1. DelegationsOK'
  <2> DEFINE u == requests[r].uid
  <2>1. u \in Id /\ delegations' = [delegations EXCEPT ![u] = u]
    BY ConnectKeyIsOwn DEF Connected, At
  <2> QED BY <2>1 DEF KeyInv, DelegationsOK
<1> QED BY <1>1, UsersStay, SessionsStay, DoneKeeps, LimitsStay DEF KeyInv, Connected

(* The rest changes one store, or none.                                      *)
LEMMA OthersKeep ==
  ASSUME KeyInv,
         \/ \E r \in Req : RegisterFails(r) \/ LoginRefused(r) \/ Refused(r) \/ ConnectFails(r)
         \/ \E n \in Name : RecoverRefused(n) \/ WindowEnds(n)
         \/ \E s \in Sid : SessionEnds(s) \/ Disconnect(s)
         \/ Restart
  PROVE  KeyInv'
<1>1. ASSUME NEW r \in Req, RegisterFails(r) \/ Refused(r) \/ ConnectFails(r)
      PROVE  KeyInv'
  BY <1>1, UsersStay, SessionsStay, DoneKeeps, DelegationsStay, LimitsStay
     DEF KeyInv, RegisterFails, Refused, ConnectFails, dbVars
<1>2. ASSUME NEW r \in Req, LoginRefused(r)
      PROVE  KeyInv'
  <2>1. requests[r].name \in Name
    BY <1>2 DEF LoginRefused, At, KeyInv, RequestsOK, Request
  <2> QED BY <1>2, <2>1, UsersStay, SessionsStay, DoneKeeps, DelegationsStay, LimitersKeep
     DEF KeyInv, LoginRefused, dbVars
<1>3. ASSUME NEW n \in Name, RecoverRefused(n) \/ WindowEnds(n)
      PROVE  KeyInv'
  BY <1>3, UsersStay, SessionsStay, RequestsStay, DelegationsStay, LimitersKeep
     DEF KeyInv, RecoverRefused, WindowEnds, dbVars
<1>4. ASSUME NEW s \in Sid, SessionEnds(s)
      PROVE  KeyInv'
  <2>1. SessionsOK'
    BY <1>4 DEF KeyInv, SessionsOK, StoreOK, SessionEnds, dbVars
  <2> QED BY <1>4, <2>1, UsersStay, RequestsStay, DelegationsStay, LimitsStay
     DEF KeyInv, SessionEnds, dbVars
<1>5. ASSUME NEW s \in Sid, Disconnect(s)
      PROVE  KeyInv'
  <2>1. DelegationsOK'
    BY <1>5 DEF KeyInv, DelegationsOK, Disconnect
  <2> QED BY <1>5, <2>1, UsersStay, SessionsStay, RequestsStay, LimitsStay
     DEF KeyInv, Disconnect
<1>6. ASSUME Restart
      PROVE  KeyInv'
  <2>1. SessionsOK' /\ RequestsOK' /\ LimitsOK'
    BY <1>6 DEF Restart, SessionsOK, StoreOK, RequestsOK, LimitsOK
  <2> QED BY <1>6, <2>1, UsersStay, DelegationsStay DEF KeyInv, Restart, dbVars
<1> QED BY <1>1, <1>2, <1>3, <1>4, <1>5, <1>6

LEMMA VerifiedKeeps ==
  ASSUME KeyInv, NEW r \in Req, LoginVerified(r)
  PROVE  KeyInv'
<1>1. /\ requests[r] # None /\ requests[r].op = "login" /\ requests[r].at = "verifying"
      /\ requests[r] \in Request /\ RequestOK(requests[r])
  BY DEF LoginVerified, At, KeyInv, RequestsOK, RequestOK
<1> DEFINE q == [requests[r] EXCEPT !.at = "deriving"]
<1>2. RequestOK(q)
  BY <1>1 DEF RequestOK, Request
<1> HIDE DEF q
<1>3. requests' = [requests EXCEPT ![r] = q]
  BY DEF LoginVerified, q
<1>4. requests' \in [Req -> Request \cup {None}]
  BY <1>2, <1>3 DEF KeyInv, RequestsOK, RequestOK
<1>5. \A p \in Req : requests'[p] = q \/ requests'[p] = requests[p]
  BY <1>3 DEF KeyInv, RequestsOK
<1>6. RequestsOK'
  <2>1. \A p \in Req : requests'[p] # None => RequestOK(requests'[p])
    BY <1>2, <1>5 DEF KeyInv, RequestsOK
  <2>2. used' = used
    BY DEF LoginVerified, dbVars
  <2> QED BY <1>4, <2>1, <2>2 DEF RequestsOK, RequestOK
<1>7. requests[r].name \in Name
  BY <1>1 DEF Request
<1> QED BY <1>6, <1>7, UsersStay, SessionsStay, DelegationsStay, LimitersKeep
   DEF KeyInv, LoginVerified, dbVars

LEMMA KeyInvInit == Init => KeyInv
<1> SUFFICES ASSUME Init PROVE KeyInv
  OBVIOUS
<1>1. 0 \in Version
  BY AccountsAssumption DEF Version
<1>2. PICK legacy \in SUBSET Id, name \in [Id -> Name] :
        /\ users = [u \in Id |-> IF u \in legacy
                                 THEN [name |-> name[u], key |-> u, code |-> 0, gen |-> 0, pass |-> 0]
                                 ELSE None]
        /\ used = legacy
  BY DEF Init
<1>3. \A u \in Id : u \in legacy =>
        /\ users[u] = [name |-> name[u], key |-> u, code |-> 0, gen |-> 0, pass |-> 0]
        /\ users[u] \in Row
  BY <1>1, <1>2 DEF Row
<1>4. \A u \in Id : u \notin legacy => users[u] = None
  BY <1>2
<1>5. UsersOK
  BY <1>1, <1>2, <1>3, <1>4 DEF Init, UsersOK, Accounts
<1>6. DelegationsOK /\ SessionsOK /\ RequestsOK /\ LimitsOK
  BY DEF Init, DelegationsOK, SessionsOK, StoreOK, RequestsOK, LimitsOK
<1> QED BY <1>5, <1>6 DEF KeyInv

(* The steps that change neither rows nor open a session, and the others.    *)
QuietStep ==
  \/ \E r \in Req, n \in Name : RegisterStart(r, n) \/ LoginHopeless(r, n) \/ LoginLegacy(r, n)
                                \/ LoginStart(r, n) \/ RecoverStart(r, n)
  \/ \E r \in Req, s \in Sid : ChangeStart(r, s) \/ DeleteStart(r, s) \/ ConnectStart(r, s)
  \/ \E r \in Req : RegisterFails(r) \/ LoginRefused(r) \/ LoginVerified(r) \/ Refused(r)
                   \/ Connected(r) \/ ConnectFails(r)
  \/ \E n \in Name : RecoverRefused(n) \/ WindowEnds(n)
  \/ \E s \in Sid : SessionEnds(s) \/ Disconnect(s)
  \/ Restart

OpeningStep(r) == LoginDone(r) \/ LoginUpgraded(r) \/ Changed(r)
ErasingStep(u) == Erase(u) /\ (UNCHANGED requests \/ \E r \in Req : Done(r))

LEMMA DeletedErases ==
  ASSUME KeyInv, NEW r \in Req, Deleted(r)
  PROVE  requests[r].uid \in Id /\ Erase(requests[r].uid) /\ Done(r)
BY RequestReads DEF Deleted, At

LEMMA StepKinds ==
  ASSUME KeyInv, [Next]_vars
  PROVE  \/ QuietStep \/ UNCHANGED vars
         \/ \E r \in Req : Registered(r) \/ OpeningStep(r) \/ Recovered(r)
         \/ \E u \in Id : ErasingStep(u)
<1>1. ASSUME NEW r \in Req, Deleted(r)
      PROVE  \E u \in Id : ErasingStep(u)
  BY <1>1, DeletedErases DEF ErasingStep
<1>2. ASSUME NEW u \in Id, AdminDelete(u)
      PROVE  ErasingStep(u)
  BY <1>2 DEF AdminDelete, ErasingStep
<1> QED BY <1>1, <1>2 DEF Next, Finish, QuietStep, OpeningStep

LEMMA KeyInvNext == KeyInv /\ [Next]_vars => KeyInv'
<1> SUFFICES ASSUME KeyInv, [Next]_vars PROVE KeyInv'
  OBVIOUS
<1>1. CASE QuietStep
  BY <1>1, StartKeeps, BeginKeeps, VerifiedKeeps, ConnectedKeeps, OthersKeep DEF QuietStep
<1>2. CASE UNCHANGED vars
  BY <1>2, UsersStay, SessionsStay, RequestsStay, DelegationsStay, LimitsStay
     DEF KeyInv, vars, dbVars, limVars
<1>3. CASE \E r \in Req : Registered(r) \/ OpeningStep(r) \/ Recovered(r)
  BY <1>3, RegisteredKeeps, OpenKeeps, RecoveredKeeps DEF OpeningStep
<1>4. CASE \E u \in Id : ErasingStep(u)
  <2>1. PICK u \in Id : ErasingStep(u)
    BY <1>4
  <2>2. RequestsOK'
    BY <2>1, RequestsStay, DoneKeeps DEF ErasingStep, Erase
  <2> QED BY <2>1, <2>2, EraseKeeps DEF ErasingStep
<1> QED BY <1>1, <1>2, <1>3, <1>4, StepKinds

THEOREM KeyInvAlways == Spec => []KeyInv
BY KeyInvInit, KeyInvNext, PTL DEF Spec

(* TypeOK: what the tables, the session store, the requests and the limiters *)
(* may hold.                                                                 *)
THEOREM TypeCorrect == Spec => []TypeOK
<1>1. KeyInv => TypeOK
  BY DEF KeyInv, TypeOK, UsersOK, DelegationsOK, SessionsOK, StoreOK, RequestsOK, LimitsOK
<1> QED BY <1>1, KeyInvAlways, PTL

(* KeysSurvive: the row, the sessions and the delegation of an account hold  *)
(* its own master key.                                                       *)
THEOREM KeysAreKept == Spec => []KeysSurvive
<1>1. KeyInv => KeysSurvive
  BY DEF KeyInv, KeysSurvive, UsersOK, DelegationsOK, SessionsOK, StoreOK, Live
<1> QED BY <1>1, KeyInvAlways, PTL

----------------------------------------------------------------------------
(* How the stores relate. *)

LEMMA QuietEffect ==
  ASSUME KeyInv, QuietStep \/ UNCHANGED vars
  PROVE  users' = users /\ \A s \in Sid : sessions'[s] = sessions[s] \/ sessions'[s] = None
<1>1. CASE \E s \in Sid : SessionEnds(s)
  BY <1>1 DEF SessionEnds, dbVars, KeyInv, SessionsOK, StoreOK
<1>2. CASE Restart
  BY <1>2 DEF Restart, dbVars
<1>3. CASE UNCHANGED vars
  BY <1>3 DEF vars, dbVars
<1>4. ASSUME QuietStep, ~(\E s \in Sid : SessionEnds(s)), ~Restart
      PROVE  users' = users /\ sessions' = sessions
  BY <1>4 DEF QuietStep, RegisterStart, LoginHopeless, LoginLegacy, LoginStart, RecoverStart,
     ChangeStart, DeleteStart, ConnectStart, Begin, RegisterFails, LoginRefused, LoginVerified,
     Refused, Connected, ConnectFails, RecoverRefused, WindowEnds, Disconnect, dbVars
<1> QED BY <1>1, <1>2, <1>3, <1>4

(* The effect of a step that opens a session.                                *)
LEMMA OpeningEffect ==
  ASSUME KeyInv, NEW r \in Req, OpeningStep(r)
  PROVE  /\ requests[r].uid \in Id /\ Done(r) /\ UNCHANGED delegations
         /\ Accounts' = Accounts /\ \A v \in Accounts : users'[v].name = users[v].name
         /\ users' \in [Id -> Row \cup {None}]
         /\ \E store, p : /\ Opened(store, users', requests[r].uid, requests[r].key, p)
                          /\ StoreOK(store)
                          /\ \A s \in Sid : store[s] = sessions[s] \/ store[s] = None
                          /\ \A s \in Sid : store[s] # None /\ store[s].uid \in Accounts
                               => users'[store[s].uid].gen = users[store[s].uid].gen
<1> DEFINE u == requests[r].uid
<1>1. /\ requests[r] # None /\ requests[r].op # "register" /\ requests[r].at # "failing"
      /\ Done(r) /\ UNCHANGED <<used, delegations>>
  BY DEF OpeningStep, LoginDone, LoginUpgraded, Changed, At, dbVars
<1>2. u \in Id /\ u \in used /\ requests[r].key = u /\ requests[r].pass \in Version
  BY <1>1, RequestReads
<1>3. StoreOK(sessions) /\ StoreOK(Without(u))
  BY WithoutKeeps DEF KeyInv, SessionsOK
<1>4. \A s \in Sid : Without(u)[s] = sessions[s] \/ Without(u)[s] = None
  BY DEF Without
<1>5. \A s \in Sid : Without(u)[s] # None => Without(u)[s].uid # u
  BY DEF Without, Live
<1>6. users' \in [Id -> Row \cup {None}]
  BY KeyInvNext DEF KeyInv, UsersOK, OpeningStep, Next, Finish
<1>7. CASE LoginDone(r)
  BY <1>1, <1>2, <1>3, <1>6, <1>7, UsersStay DEF LoginDone, dbVars
<1>8. CASE LoginUpgraded(r)
  <2> DEFINE g == IF users[u] # None THEN users[u].gen ELSE 0
  <2>1. g \in Version
    <3>1. 0 \in Version
      BY AccountsAssumption DEF Version
    <3> QED BY <1>2, <3>1 DEF KeyInv, UsersOK, Row
  <2>2. users' = Updated(u, u, version', g, requests[r].pass) /\ version' \in Version
    BY <1>2, <1>8, NextVersion DEF LoginUpgraded
  <2>3. Opened(sessions, users', u, requests[r].key, requests[r].pass)
    BY <1>8 DEF LoginUpgraded
  <2>4. u \in Accounts => users[u].gen = g
    BY DEF Accounts
  <2> HIDE DEF g
  <2>5. /\ Accounts' = Accounts /\ \A v \in Accounts : users'[v].name = users[v].name
        /\ \A v \in Accounts : users'[v].gen = users[v].gen
    <3> HIDE DEF u
    <3> QED BY <1>1, <1>2, <2>1, <2>2, <2>4, UpdatedKeeps
  <2> QED BY <1>1, <1>2, <1>3, <1>6, <2>3, <2>5
<1>9. CASE Changed(r)
  <2>1. users' = Updated(u, u, version', version', version') /\ version' \in Version
    BY <1>2, <1>9, NextVersion DEF Changed
  <2>2. Opened(Without(u), users', u, requests[r].key, version')
    BY <1>9 DEF Changed
  <2>3. /\ Accounts' = Accounts /\ \A v \in Accounts : users'[v].name = users[v].name
        /\ \A v \in Accounts : v # u => users'[v] = users[v]
    <3> HIDE DEF u
    <3> QED BY <1>1, <1>2, <2>1, UpdatedKeeps
  <2> HIDE DEF u
  <2>4. \A s \in Sid : Without(u)[s] # None /\ Without(u)[s].uid \in Accounts
                       => users'[Without(u)[s].uid].gen = users[Without(u)[s].uid].gen
    BY <1>5, <2>3
  <2> QED BY <1>1, <1>2, <1>3, <1>4, <1>6, <2>2, <2>3, <2>4 DEF u
<1> QED BY <1>7, <1>8, <1>9 DEF OpeningStep

LEMMA RecoveredEffect ==
  ASSUME KeyInv, NEW r \in Req, Recovered(r)
  PROVE  /\ requests[r].uid \in Id /\ Done(r) /\ UNCHANGED delegations
         /\ Accounts' = Accounts /\ \A v \in Accounts : users'[v].name = users[v].name
         /\ \A v \in Accounts : v # requests[r].uid => users'[v] = users[v]
         /\ sessions' = Without(requests[r].uid)
<1> DEFINE u == requests[r].uid
<1>1. /\ requests[r] # None /\ requests[r].op = "recover" /\ requests[r].at = "deriving"
      /\ Done(r) /\ UNCHANGED <<used, delegations>> /\ sessions' = Without(u)
  BY DEF Recovered, At
<1>2. u \in Id /\ requests[r].key = u
  BY <1>1, RequestReads
<1>3. users' = Updated(u, u, version', version', version') /\ version' \in Version
  BY <1>2, NextVersion DEF Recovered
<1> HIDE DEF u
<1>4. /\ Accounts' = Accounts /\ \A v \in Accounts : users'[v].name = users[v].name
      /\ \A v \in Accounts : v # u => users'[v] = users[v]
  BY <1>1, <1>2, <1>3, UpdatedKeeps
<1> QED BY <1>1, <1>2, <1>4 DEF u

LEMMA RegisteredEffect ==
  ASSUME KeyInv, NEW r \in Req, Registered(r)
  PROVE  /\ Done(r) /\ UNCHANGED sessions /\ UNCHANGED delegations
         /\ \E u \in Id \ used : /\ \A v \in Id : v # u => users'[v] = users[v]
                               /\ users'[u].name = requests[r].name
                               /\ Accounts' = Accounts \cup {u}
                               /\ \A v \in Accounts : users[v].name # requests[r].name
<1>1. Inserts(requests[r].name) /\ Done(r) /\ UNCHANGED sessions /\ UNCHANGED delegations
  BY DEF Registered
<1>2. PICK u \in Id \ used :
        users' = [users EXCEPT ![u] = [name |-> requests[r].name, key |-> u,
                                       code |-> version', gen |-> version', pass |-> version']]
  BY DEF Registered
<1>3. users'[u].name = requests[r].name /\ \A v \in Id : v # u => users'[v] = users[v]
  BY <1>2 DEF KeyInv, UsersOK
<1> DEFINE row == [name |-> requests[r].name, key |-> u, code |-> version', gen |-> version',
                   pass |-> version']
<1>4. row # None
  <2>1. requests[r].name \in Name /\ version' \in Version
    BY NextVersion DEF Registered, At, KeyInv, RequestsOK, Request
  <2>2. row \in Row
    BY <2>1 DEF Row
  <2> QED BY <2>2, NoneAssumption
<1>5. Accounts' = Accounts \cup {u}
  BY <1>2, <1>4 DEF KeyInv, UsersOK, Accounts
<1>6. \A v \in Accounts : users[v].name # requests[r].name
  BY <1>1 DEF Inserts, Named
<1> QED BY <1>1, <1>3, <1>5, <1>6

(* No session is left that was opened before the current credentials.        *)
OpenedCurrent ==
  \A s \in Live : sessions[s].uid \in Accounts =>
    sessions[s].opened = users[sessions[s].uid].gen

LEMMA OpenedStep ==
  ASSUME KeyInv, [Next]_vars, OpenedCurrent
  PROVE  OpenedCurrent'
<1>1. CASE QuietStep \/ UNCHANGED vars
  BY <1>1, QuietEffect DEF OpenedCurrent, Live, Accounts
<1>2. ASSUME NEW r \in Req, Registered(r)
      PROVE  OpenedCurrent'
  <2>1. PICK u \in Id \ used : /\ \A v \in Id : v # u => users'[v] = users[v]
                              /\ Accounts' = Accounts \cup {u} /\ UNCHANGED sessions
    BY <1>2, RegisteredEffect
  <2>2. \A s \in Live : sessions[s].uid # u
    BY DEF KeyInv, SessionsOK, StoreOK, Live
  <2> QED BY <2>1, <2>2 DEF OpenedCurrent, Live, Accounts
<1>3. ASSUME NEW r \in Req, OpeningStep(r)
      PROVE  OpenedCurrent'
  <2> DEFINE u == requests[r].uid
  <2>1. PICK store, p :
          /\ Opened(store, users', u, requests[r].key, p) /\ StoreOK(store)
          /\ \A s \in Sid : store[s] = sessions[s] \/ store[s] = None
          /\ \A s \in Sid : store[s] # None /\ store[s].uid \in Accounts
               => users'[store[s].uid].gen = users[store[s].uid].gen
    BY <1>3, OpeningEffect
  <2>2. Accounts' = Accounts
    BY <1>3, OpeningEffect
  <2>3. PICK s \in FreeSid(store) : sessions' = [store EXCEPT ![s] =
          [uid |-> u, key |-> requests[r].key, pass |-> p,
           opened |-> IF users'[u] # None THEN users'[u].gen ELSE 0]]
    BY <2>1 DEF Opened
  <2>4. sessions'[s].uid = u /\ (users'[u] # None => sessions'[s].opened = users'[u].gen)
    BY <2>1, <2>3 DEF StoreOK, FreeSid
  <2>5. \A v \in Sid : v # s => sessions'[v] = store[v]
    BY <2>1, <2>3 DEF StoreOK, FreeSid
  <2> HIDE DEF u
  <2>6. \A v \in Live' : v # s /\ sessions'[v].uid \in Accounts'
          => sessions'[v].opened = users'[sessions'[v].uid].gen
    BY <2>1, <2>2, <2>5 DEF OpenedCurrent, Live
  <2>7. sessions'[s].uid \in Accounts' => sessions'[s].opened = users'[sessions'[s].uid].gen
    BY <2>4 DEF Accounts
  <2> QED BY <2>6, <2>7 DEF OpenedCurrent
<1>4. ASSUME NEW r \in Req, Recovered(r)
      PROVE  OpenedCurrent'
  <2> DEFINE u == requests[r].uid
  <2>1. /\ sessions' = Without(u) /\ Accounts' = Accounts
        /\ \A v \in Accounts : v # u => users'[v] = users[v]
    BY <1>4, RecoveredEffect
  <2> HIDE DEF u
  <2>2. \A s \in Live' : s \in Live /\ sessions'[s] = sessions[s] /\ sessions[s].uid # u
    BY <2>1 DEF Without, Live
  <2> QED BY <2>1, <2>2 DEF OpenedCurrent
<1>5. ASSUME NEW u \in Id, ErasingStep(u)
      PROVE  OpenedCurrent'
  <2>1. sessions' = Without(u) /\ users' = [users EXCEPT ![u] = None]
    BY <1>5 DEF ErasingStep, Erase
  <2>2. \A s \in Live' : s \in Live /\ sessions'[s] = sessions[s] /\ sessions[s].uid # u
    BY <2>1 DEF Without, Live
  <2>3. \A v \in Accounts' : v \in Accounts /\ users'[v] = users[v]
    BY <2>1 DEF KeyInv, UsersOK, Accounts
  <2> QED BY <2>2, <2>3 DEF OpenedCurrent
<1> QED BY <1>1, <1>2, <1>3, <1>4, <1>5, StepKinds

----------------------------------------------------------------------------
(* The logins of past credentials.  A password is of the credentials that    *)
(* the owner set last, or of those of a legacy account, which only an        *)
(* upgrade still knows.                                                      *)

PassInv ==
  /\ \A u \in Accounts : /\ users[u].pass \in {0, users[u].gen}
                         /\ users[u].code = 0 => users[u].pass = 0
  /\ \A r \in Req : requests[r] # None /\ requests[r].at = "upgrading" => requests[r].pass = 0

LateBound ==
  \A u \in Accounts : users[u].pass = users[u].gen =>
    /\ IsFiniteSet(LateSessions(u))
    /\ Cardinality(LateSessions(u)) + Cardinality(LateLogins(u)) < Cardinality(Req)

\* A request after a step: the one before it or a login that reads its row.
Kept(p) == /\ requests[p] # None /\ requests'[p].op = requests[p].op
           /\ requests'[p].uid = requests[p].uid /\ requests'[p].pass = requests[p].pass
           /\ requests'[p].at = "upgrading" => requests[p].at = "upgrading"

Read(p) == /\ requests'[p].op = "login" => requests'[p].uid \in Accounts \cup {None}
           /\ requests'[p].op = "login" /\ requests'[p].uid \in Accounts
                => requests'[p].pass = users[requests'[p].uid].pass
           /\ requests'[p].at = "upgrading"
                => requests'[p].uid \in Accounts /\ users[requests'[p].uid].code = 0
                   /\ requests'[p].op = "login"

LEMMA AwaitReads ==
  ASSUME KeyInv, NEW r \in Req, NEW op, NEW at, NEW n, NEW u \in Accounts \cup {None}, NEW s,
         Await(r, op, at, n, u, s),
         at = "upgrading" => op = "login" /\ u \in Accounts /\ users[u].code = 0
  PROVE  \A p \in Req : requests'[p] # None => Kept(p) \/ Read(p)
<1> DEFINE q == [op |-> op, at |-> at, name |-> n, uid |-> u,
                 sid |-> IF op = "connect" THEN s ELSE None,
                 key |-> IF u \in Accounts THEN users[u].key ELSE None,
                 code |-> IF op = "recover" THEN users[u].code ELSE 0,
                 pass |-> IF op = "login" /\ u # None THEN users[u].pass ELSE 0]
<1>1. requests' = [requests EXCEPT ![r] = q]
  BY DEF Await
<1>2. /\ q.op = op /\ q.at = at /\ q.uid = u
      /\ op = "login" /\ u # None => q.pass = users[u].pass
  OBVIOUS
<1> HIDE DEF q
<1>3. \A p \in Req : requests'[p] = IF p = r THEN q ELSE requests[p]
  BY <1>1 DEF KeyInv, RequestsOK
<1>4. None \notin Accounts
  BY AccountsAssumption DEF Accounts
<1> QED BY <1>2, <1>3, <1>4 DEF Kept, Read

LEMMA QuietRequests ==
  ASSUME KeyInv, QuietStep \/ UNCHANGED vars
  PROVE  \A p \in Req : requests'[p] # None => Kept(p) \/ Read(p)
<1>1. \A n : Named(n) \subseteq Accounts
  BY DEF Named
<1>2. ASSUME NEW r \in Req, NEW n \in Name,
             \/ RegisterStart(r, n) \/ LoginHopeless(r, n) \/ LoginLegacy(r, n)
             \/ LoginStart(r, n) \/ RecoverStart(r, n)
      PROVE  \A p \in Req : requests'[p] # None => Kept(p) \/ Read(p)
  <2>1. CASE RegisterStart(r, n)
    BY <2>1, AwaitReads DEF RegisterStart
  <2>2. CASE LoginHopeless(r, n)
    BY <2>2, AwaitReads DEF LoginHopeless
  <2>3. CASE LoginLegacy(r, n)
    <3>1. PICK u \in Named(n) : users[u].code = 0 /\ Await(r, "login", "upgrading", n, u, None)
      BY <2>3 DEF LoginLegacy
    <3> QED BY <1>1, <3>1, AwaitReads
  <2>4. CASE LoginStart(r, n)
    <3>1. PICK u \in Named(n) : Await(r, "login", "verifying", n, u, None)
      BY <2>4 DEF LoginStart
    <3> QED BY <1>1, <3>1, AwaitReads
  <2>5. CASE RecoverStart(r, n)
    <3>1. PICK u \in Named(n) : Await(r, "recover", "deriving", n, u, None)
      BY <2>5 DEF RecoverStart
    <3> QED BY <1>1, <3>1, AwaitReads
  <2> QED BY <1>2, <2>1, <2>2, <2>3, <2>4, <2>5
<1>3. ASSUME NEW r \in Req, NEW s \in Sid, ChangeStart(r, s) \/ DeleteStart(r, s) \/ ConnectStart(r, s)
      PROVE  \A p \in Req : requests'[p] # None => Kept(p) \/ Read(p)
  <2>1. PICK op \in {"change", "delete", "connect"}, at \in {"verifying", "deriving"} : Begin(r, op, at, s)
    BY <1>3 DEF ChangeStart, DeleteStart, ConnectStart
  <2>2. sessions[s].uid \in Accounts /\ Await(r, op, at, users[sessions[s].uid].name, sessions[s].uid, s)
    BY <2>1 DEF Begin, Authenticated
  <2> QED BY <2>2, AwaitReads
<1>4. ASSUME NEW r \in Req, LoginVerified(r)
      PROVE  \A p \in Req : requests'[p] # None => Kept(p) \/ Read(p)
  <2>1. /\ requests[r] # None /\ requests[r] \in Request
        /\ requests' = [requests EXCEPT ![r] = [requests[r] EXCEPT !.at = "deriving"]]
    BY <1>4 DEF LoginVerified, At, KeyInv, RequestsOK
  <2>2. \A p \in Req : p # r => requests'[p] = requests[p]
    BY <2>1 DEF KeyInv, RequestsOK
  <2>3. requests'[r] = [requests[r] EXCEPT !.at = "deriving"]
    BY <2>1 DEF KeyInv, RequestsOK
  <2>4. /\ requests'[r].op = requests[r].op /\ requests'[r].uid = requests[r].uid
        /\ requests'[r].pass = requests[r].pass /\ requests'[r].at = "deriving"
    BY <2>1, <2>3 DEF Request
  <2> QED BY <2>1, <2>2, <2>4 DEF Kept
<1>5. ASSUME NEW r \in Req, Done(r)
      PROVE  \A p \in Req : requests'[p] # None => Kept(p) \/ Read(p)
  BY <1>5 DEF Done, Kept, KeyInv, RequestsOK
<1>6. CASE UNCHANGED requests \/ requests' = [r \in Req |-> None]
  BY <1>6 DEF Kept
<1>7. ASSUME NEW r \in Req, \/ RegisterFails(r) \/ LoginRefused(r) \/ Refused(r)
                            \/ Connected(r) \/ ConnectFails(r)
      PROVE  Done(r)
  BY <1>7 DEF RegisterFails, LoginRefused, Refused, Connected, ConnectFails
<1>8. ASSUME \/ Restart \/ UNCHANGED vars \/ (\E n \in Name : RecoverRefused(n) \/ WindowEnds(n))
             \/ (\E s \in Sid : SessionEnds(s) \/ Disconnect(s))
      PROVE  UNCHANGED requests \/ requests' = [r \in Req |-> None]
  BY <1>8 DEF Restart, vars, RecoverRefused, WindowEnds, SessionEnds, Disconnect
<1> QED BY <1>2, <1>3, <1>4, <1>5, <1>6, <1>7, <1>8 DEF QuietStep

LEMMA PassStep ==
  ASSUME KeyInv, [Next]_vars, PassInv
  PROVE  PassInv'
<1>1. ASSUME \A p \in Req : requests'[p] # None => Kept(p) \/ Read(p)
      PROVE  \A p \in Req : requests'[p] # None /\ requests'[p].at = "upgrading" => requests'[p].pass = 0
  BY <1>1 DEF PassInv, Kept, Read
<1>2. ASSUME NEW r \in Req, Done(r)
      PROVE  \A p \in Req : requests'[p] # None /\ requests'[p].at = "upgrading" => requests'[p].pass = 0
  BY <1>2 DEF PassInv, Done, KeyInv, RequestsOK
<1>3. CASE QuietStep \/ UNCHANGED vars
  BY <1>1, <1>3, QuietEffect, QuietRequests DEF PassInv, Accounts
<1>4. ASSUME NEW r \in Req, Registered(r)
      PROVE  PassInv'
  <2>1. PICK u \in Id \ used :
          users' = [users EXCEPT ![u] = [name |-> requests[r].name, key |-> u, code |-> version',
                                         gen |-> version', pass |-> version']]
    BY <1>4 DEF Registered
  <2>2. Done(r) /\ version' # 0
    BY <1>4, NextVersion DEF Registered
  <2>3. \A v \in Accounts' : v = u \/ (v \in Accounts /\ users'[v] = users[v])
    BY <2>1 DEF KeyInv, UsersOK, Accounts
  <2>4. users'[u].pass = version' /\ users'[u].gen = version' /\ users'[u].code = version'
    BY <2>1 DEF KeyInv, UsersOK
  <2> QED BY <1>2, <2>2, <2>3, <2>4 DEF PassInv
<1>5. ASSUME NEW r \in Req, OpeningStep(r) \/ Recovered(r)
      PROVE  PassInv'
  <2> DEFINE u == requests[r].uid
  <2>1. /\ requests[r] # None /\ requests[r].op # "register" /\ requests[r].at # "failing" /\ Done(r)
        /\ used' = used
    BY <1>5 DEF OpeningStep, LoginDone, LoginUpgraded, Changed, Recovered, At, dbVars
  <2>2. u \in Id /\ requests[r].key = u /\ requests[r].pass \in Version
    BY <2>1, RequestReads
  <2>3. CASE LoginDone(r)
    BY <1>2, <2>1, <2>3 DEF LoginDone, dbVars, PassInv, Accounts
  <2>4. CASE LoginUpgraded(r)
    <3> DEFINE g == IF users[u] # None THEN users[u].gen ELSE 0
    <3>1. g \in Version /\ requests[r].pass = 0
      <4>1. 0 \in Version
        BY AccountsAssumption DEF Version
      <4> QED BY <2>1, <2>2, <2>4, <4>1 DEF KeyInv, UsersOK, Row, LoginUpgraded, At, PassInv
    <3>2. users' = Updated(u, u, version', g, 0) /\ version' \in Version /\ version' # 0
      BY <2>2, <2>4, <3>1, NextVersion DEF LoginUpgraded
    <3> HIDE DEF u, g
    <3>3. /\ Accounts' = Accounts /\ \A v \in Accounts : v # u => users'[v] = users[v]
          /\ u \in Accounts => users'[u].pass = 0 /\ users'[u].code # 0
      BY <2>1, <2>2, <3>1, <3>2, UpdatedKeeps
    <3> QED BY <1>2, <2>1, <3>3 DEF PassInv
  <2>5. CASE Changed(r) \/ Recovered(r)
    <3>1. users' = Updated(u, u, version', version', version') /\ version' \in Version /\ version' # 0
      BY <2>2, <2>5, NextVersion DEF Changed, Recovered
    <3> HIDE DEF u
    <3>2. /\ Accounts' = Accounts /\ \A v \in Accounts : v # u => users'[v] = users[v]
          /\ u \in Accounts => /\ users'[u].pass = version' /\ users'[u].gen = version'
                               /\ users'[u].code = version'
      BY <2>1, <2>2, <3>1, UpdatedKeeps
    <3> QED BY <1>2, <2>1, <3>1, <3>2 DEF PassInv
  <2> QED BY <1>5, <2>3, <2>4, <2>5 DEF OpeningStep
<1>6. ASSUME NEW u \in Id, ErasingStep(u)
      PROVE  PassInv'
  <2>1. \A v \in Accounts' : v \in Accounts /\ users'[v] = users[v]
    BY <1>6 DEF ErasingStep, Erase, KeyInv, UsersOK, Accounts
  <2>2. UNCHANGED requests \/ \E r \in Req : Done(r)
    BY <1>6 DEF ErasingStep
  <2>3. \A p \in Req : requests'[p] # None /\ requests'[p].at = "upgrading" => requests'[p].pass = 0
    BY <1>2, <2>2 DEF PassInv
  <2> QED BY <2>1, <2>3 DEF PassInv
<1> QED BY <1>3, <1>4, <1>5, <1>6, StepKinds

(* The count of a set S of sessions and a set P of requests after a step in  *)
(* which at most one request of P turned into a session of S.                *)
LEMMA CountKeeps ==
  ASSUME NEW S, NEW S1, NEW P, NEW P1, IsFiniteSet(S), P \in SUBSET Req,
         Cardinality(S) + Cardinality(P) < Cardinality(Req),
         \/ S1 \subseteq S /\ P1 \subseteq P
         \/ \E s, r : S1 \subseteq S \cup {s} /\ r \in P /\ P1 \subseteq P \ {r}
  PROVE  IsFiniteSet(S1) /\ Cardinality(S1) + Cardinality(P1) < Cardinality(Req)
<1>1. IsFiniteSet(Req) /\ IsFiniteSet(P)
  BY AccountsAssumption, FS_Subset
<1>2. CASE S1 \subseteq S /\ P1 \subseteq P
  <2>1. IsFiniteSet(S1) /\ Cardinality(S1) <= Cardinality(S) /\ IsFiniteSet(P1)
        /\ Cardinality(P1) <= Cardinality(P)
    BY <1>1, <1>2, FS_Subset
  <2> QED BY <1>1, <2>1, FS_CardinalityType
<1>3. CASE \E s, r : S1 \subseteq S \cup {s} /\ r \in P /\ P1 \subseteq P \ {r}
  <2>1. PICK s, r : S1 \subseteq S \cup {s} /\ r \in P /\ P1 \subseteq P \ {r}
    BY <1>3
  <2>2. IsFiniteSet(S \cup {s}) /\ Cardinality(S \cup {s}) <= Cardinality(S) + 1
    <3>1. Cardinality(S) \in Nat
      BY FS_CardinalityType
    <3>2. /\ IsFiniteSet(S \cup {s})
          /\ Cardinality(S \cup {s}) = IF s \in S THEN Cardinality(S) ELSE Cardinality(S) + 1
      BY FS_AddElement
    <3> QED BY <3>1, <3>2
  <2>3. IsFiniteSet(P \ {r}) /\ Cardinality(P \ {r}) = Cardinality(P) - 1
    BY <1>1, <2>1, FS_RemoveElement
  <2>4. IsFiniteSet(S1) /\ Cardinality(S1) <= Cardinality(S \cup {s})
    BY <2>1, <2>2, FS_Subset
  <2>5. IsFiniteSet(P1) /\ Cardinality(P1) <= Cardinality(P \ {r})
    BY <2>1, <2>3, FS_Subset
  <2>6. /\ Cardinality(S1) \in Nat /\ Cardinality(P1) \in Nat /\ Cardinality(S) \in Nat
        /\ Cardinality(P) \in Nat /\ Cardinality(S \cup {s}) \in Nat /\ Cardinality(Req) \in Nat
    BY <1>1, <2>2, <2>4, <2>5, FS_CardinalityType
  <2> QED BY <2>2, <2>3, <2>4, <2>5, <2>6
<1> QED BY <1>2, <1>3

(* A request that has ended is not among those under way.                    *)
LEMMA CountAfresh ==
  ASSUME NEW S, NEW P, NEW r \in Req, S = {}, P \subseteq Req \ {r}
  PROVE  IsFiniteSet(S) /\ Cardinality(S) + Cardinality(P) < Cardinality(Req)
<1>1. IsFiniteSet(Req)
  BY AccountsAssumption
<1>2. IsFiniteSet(Req \ {r}) /\ Cardinality(Req \ {r}) = Cardinality(Req) - 1
  BY <1>1, FS_RemoveElement
<1>3. IsFiniteSet(P) /\ Cardinality(P) <= Cardinality(Req \ {r})
  BY <1>2, FS_Subset
<1>4. Cardinality(P) \in Nat /\ Cardinality(Req) \in Nat /\ Cardinality(Req \ {r}) \in Nat
  BY <1>1, <1>2, <1>3, FS_CardinalityType
<1> QED BY <1>2, <1>3, <1>4, FS_EmptySet

(* A login turns into a session of the credentials that it checked.          *)
LEMMA LoginCounts ==
  ASSUME KeyInv, NEW r \in Req, requests[r] # None, requests[r].op = "login", Done(r),
         NEW rows, Opened(sessions, rows, requests[r].uid, requests[r].key, requests[r].pass),
         NEW v \in Accounts, users'[v].gen = users[v].gen
  PROVE  \/ LateSessions(v)' \subseteq LateSessions(v) /\ LateLogins(v)' \subseteq LateLogins(v)
         \/ \E s, q : /\ LateSessions(v)' \subseteq LateSessions(v) \cup {s}
                      /\ q \in LateLogins(v) /\ LateLogins(v)' \subseteq LateLogins(v) \ {q}
<1> DEFINE u == requests[r].uid
           p == requests[r].pass
<1>1. PICK s \in FreeSid(sessions) : sessions' = [sessions EXCEPT ![s] =
        [uid |-> u, key |-> requests[r].key, pass |-> p,
         opened |-> IF rows[u] # None THEN rows[u].gen ELSE 0]]
  BY DEF Opened
<1>2. sessions'[s].uid = u /\ sessions'[s].pass = p
  BY <1>1 DEF KeyInv, SessionsOK, StoreOK, FreeSid
<1>3. \A t \in Sid : t # s => sessions'[t] = sessions[t]
  BY <1>1 DEF KeyInv, SessionsOK, StoreOK, FreeSid
<1>4. requests'[r] = None /\ \A q \in Req : q # r => requests'[q] = requests[q]
  BY DEF Done, KeyInv, RequestsOK
<1>5. LateLogins(v)' \subseteq LateLogins(v) \ {r}
  BY <1>4 DEF LateLogins
<1>6. CASE r \in LateLogins(v)
  <2>1. LateSessions(v)' \subseteq LateSessions(v) \cup {s}
    BY <1>3 DEF LateSessions, Live
  <2> QED BY <1>5, <1>6, <2>1
<1>7. CASE r \notin LateLogins(v)
  <2>1. u = v => p = users[v].gen
    BY <1>7 DEF LateLogins
  <2>2. LateSessions(v)' \subseteq LateSessions(v)
    BY <1>2, <1>3, <2>1 DEF LateSessions, Live
  <2> QED BY <1>5, <2>2
<1> QED BY <1>6, <1>7

LEMMA LateStep ==
  ASSUME KeyInv, KeyInv', [Next]_vars, PassInv, LateBound
  PROVE  LateBound'
<1> SUFFICES ASSUME NEW v \in Accounts', users'[v].pass = users'[v].gen
             PROVE  /\ IsFiniteSet(LateSessions(v)')
                    /\ Cardinality(LateSessions(v)') + Cardinality(LateLogins(v)') < Cardinality(Req)
  BY DEF LateBound
<1> DEFINE Goal == /\ IsFiniteSet(LateSessions(v)')
                   /\ Cardinality(LateSessions(v)') + Cardinality(LateLogins(v)') < Cardinality(Req)
<1>1. LateLogins(v) \in SUBSET Req
  BY DEF LateLogins
<1>2. ASSUME v \in Accounts, users[v].pass = users[v].gen,
             \/ LateSessions(v)' \subseteq LateSessions(v) /\ LateLogins(v)' \subseteq LateLogins(v)
             \/ \E s, q : /\ LateSessions(v)' \subseteq LateSessions(v) \cup {s}
                          /\ q \in LateLogins(v) /\ LateLogins(v)' \subseteq LateLogins(v) \ {q}
      PROVE  Goal
  <2> DEFINE S == LateSessions(v)
             S1 == LateSessions(v)'
             P == LateLogins(v)
             P1 == LateLogins(v)'
  <2>1. IsFiniteSet(S) /\ P \in SUBSET Req /\ Cardinality(S) + Cardinality(P) < Cardinality(Req)
    BY <1>1, <1>2 DEF LateBound
  <2>2. \/ S1 \subseteq S /\ P1 \subseteq P
        \/ \E s, q : S1 \subseteq S \cup {s} /\ q \in P /\ P1 \subseteq P \ {q}
    BY <1>2
  <2> HIDE DEF S, S1, P, P1
  <2>3. IsFiniteSet(S1) /\ Cardinality(S1) + Cardinality(P1) < Cardinality(Req)
    BY <2>1, <2>2, CountKeeps
  <2> QED BY <2>3 DEF S1, P1
<1>3. ASSUME NEW r \in Req, Done(r)
      PROVE  /\ LateLogins(v)' \subseteq Req \ {r}
             /\ \A p \in Req : requests'[p] # None => requests'[p] = requests[p]
  <2>1. \A p \in Req : requests'[p] = IF p = r THEN None ELSE requests[p]
    BY <1>3 DEF Done, KeyInv, RequestsOK
  <2> QED BY <2>1 DEF LateLogins
<1>4. ASSUME QuietStep \/ UNCHANGED vars
      PROVE  Goal
  <2>1. users' = users /\ Accounts' = Accounts /\ v \in Accounts
        /\ \A s \in Sid : sessions'[s] = sessions[s] \/ sessions'[s] = None
    BY <1>4, QuietEffect DEF Accounts
  <2>2. \A p \in Req : requests'[p] # None => Kept(p) \/ Read(p)
    BY <1>4, QuietRequests
  <2>3. LateSessions(v)' \subseteq LateSessions(v)
    BY <2>1 DEF LateSessions, Live
  <2>4. LateLogins(v)' \subseteq LateLogins(v)
    BY <2>1, <2>2 DEF LateLogins, Kept, Read
  <2> QED BY <1>2, <2>1, <2>3, <2>4
<1>5. ASSUME NEW r \in Req, Registered(r)
      PROVE  Goal
  <2>1. PICK u \in Id \ used : /\ \A w \in Id : w # u => users'[w] = users[w]
                              /\ Accounts' = Accounts \cup {u} /\ UNCHANGED sessions /\ Done(r)
    BY <1>5, RegisteredEffect
  <2>2. CASE v = u
    <3>1. \A s \in Live : sessions[s].uid # u
      BY DEF KeyInv, SessionsOK, StoreOK, Live
    <3>2. LateSessions(v)' = {}
      BY <2>1, <2>2, <3>1 DEF LateSessions, Live
    <3>3. LateLogins(v)' \subseteq Req \ {r}
      BY <1>3, <2>1
    <3> HIDE DEF Goal
    <3> QED BY <3>2, <3>3, CountAfresh DEF Goal
  <2>3. CASE v # u
    <3>1. v \in Accounts /\ users'[v] = users[v]
      BY <2>1, <2>3 DEF Accounts
    <3>2. LateSessions(v)' \subseteq LateSessions(v) /\ LateLogins(v)' \subseteq LateLogins(v)
      BY <1>3, <2>1, <3>1 DEF LateSessions, LateLogins, Live
    <3> QED BY <1>2, <3>1, <3>2
  <2> QED BY <2>2, <2>3
<1>6. ASSUME NEW r \in Req, LoginDone(r) \/ LoginUpgraded(r)
      PROVE  Goal
  <2> DEFINE u == requests[r].uid
  <2>1. /\ requests[r] # None /\ requests[r].op = "login" /\ requests[r].at # "failing" /\ Done(r)
        /\ Accounts' = Accounts /\ used' = used
    BY <1>6, OpeningEffect DEF LoginDone, LoginUpgraded, At, OpeningStep, dbVars
  <2>2. PICK rows : Opened(sessions, rows, u, requests[r].key, requests[r].pass)
    BY <1>6 DEF LoginDone, LoginUpgraded
  <2>3. v \in Accounts /\ users'[v].gen = users[v].gen /\ users[v].pass = users[v].gen
    <3>1. CASE LoginDone(r)
      BY <2>1, <3>1 DEF LoginDone, dbVars
    <3>2. CASE LoginUpgraded(r)
      <4> DEFINE g == IF users[u] # None THEN users[u].gen ELSE 0
      <4>1. u \in Id /\ requests[r].key = u /\ requests[r].pass = 0
        BY <2>1, <3>2, RequestReads DEF LoginUpgraded, At, PassInv
      <4>2. g \in Version /\ 0 \in Version
        BY <4>1, AccountsAssumption DEF KeyInv, UsersOK, Row, Version
      <4>3. users' = Updated(u, u, version', g, 0) /\ version' \in Version
        BY <3>2, <4>1, NextVersion DEF LoginUpgraded
      <4>4. u \in Accounts => g = users[u].gen
        BY DEF Accounts
      <4> HIDE DEF u, g
      <4>5. /\ \A w \in Accounts : w # u => users'[w] = users[w]
            /\ u \in Accounts => users'[u].gen = g /\ users'[u].pass = 0
        BY <2>1, <4>1, <4>2, <4>3, UpdatedKeeps
      <4> QED BY <2>1, <4>4, <4>5 DEF PassInv
    <3> QED BY <1>6, <3>1, <3>2
  <2> QED BY <1>2, <2>1, <2>2, <2>3, LoginCounts
<1>7. ASSUME NEW r \in Req, Changed(r) \/ Recovered(r)
      PROVE  Goal
  <2> DEFINE u == requests[r].uid
  <2>1. /\ requests[r] # None /\ requests[r].op # "register" /\ requests[r].at # "failing" /\ Done(r)
        /\ used' = used
    BY <1>7 DEF Changed, Recovered, At
  <2>2. u \in Id /\ requests[r].key = u
    BY <2>1, RequestReads
  <2>3. users' = Updated(u, u, version', version', version') /\ version' \in Version
    BY <1>7, <2>2, NextVersion DEF Changed, Recovered
  <2>4. /\ Accounts' = Accounts /\ \A w \in Accounts : w # u => users'[w] = users[w]
        /\ u \in Accounts => users'[u].gen = version'
    <3> HIDE DEF u
    <3> QED BY <2>1, <2>2, <2>3, UpdatedKeeps
  <2>5. \A s \in Sid : \/ sessions'[s] = None
                       \/ sessions'[s] = sessions[s] /\ sessions[s].uid # u
                       \/ sessions'[s].uid = u /\ sessions'[s].pass = version'
    <3>1. CASE Recovered(r)
      BY <3>1 DEF Recovered, Without, Live
    <3>2. CASE Changed(r)
      <4>1. PICK s \in FreeSid(Without(u)) : sessions' = [Without(u) EXCEPT ![s] =
              [uid |-> u, key |-> requests[r].key, pass |-> version',
               opened |-> IF users'[u] # None THEN users'[u].gen ELSE 0]]
        BY <3>2 DEF Changed, Opened
      <4>2. sessions'[s].uid = u /\ sessions'[s].pass = version'
        BY <4>1 DEF Without, FreeSid
      <4>3. \A t \in Sid : t # s => sessions'[t] = Without(u)[t]
        BY <4>1 DEF Without, FreeSid
      <4> QED BY <4>2, <4>3 DEF Without, Live
    <3> QED BY <1>7, <3>1, <3>2
  <2> HIDE DEF u
  <2>6. CASE v = u
    <3>1. LateSessions(v)' = {}
      BY <2>4, <2>5, <2>6 DEF LateSessions, Live
    <3>2. LateLogins(v)' \subseteq Req \ {r}
      BY <1>3, <2>1
    <3> HIDE DEF Goal
    <3> QED BY <3>1, <3>2, CountAfresh DEF Goal
  <2>7. CASE v # u
    <3>1. v \in Accounts /\ users'[v] = users[v]
      BY <2>4, <2>7
    <3>2. LateSessions(v)' \subseteq LateSessions(v) /\ LateLogins(v)' \subseteq LateLogins(v)
      BY <1>3, <2>1, <2>5, <2>7, <3>1 DEF LateSessions, LateLogins, Live
    <3> QED BY <1>2, <3>1, <3>2
  <2> QED BY <2>6, <2>7
<1>8. ASSUME NEW u \in Id, ErasingStep(u)
      PROVE  Goal
  <2>1. sessions' = Without(u) /\ users' = [users EXCEPT ![u] = None]
        /\ (UNCHANGED requests \/ \E r \in Req : Done(r))
    BY <1>8 DEF ErasingStep, Erase
  <2>2. v \in Accounts /\ users'[v] = users[v]
    BY <2>1 DEF KeyInv, UsersOK, Accounts
  <2>3. LateSessions(v)' \subseteq LateSessions(v)
    BY <2>1, <2>2 DEF LateSessions, Live, Without
  <2>4. LateLogins(v)' \subseteq LateLogins(v)
    BY <1>3, <2>1, <2>2 DEF LateLogins
  <2> QED BY <1>2, <2>2, <2>3, <2>4
<1> HIDE DEF Goal
<1>9. Goal
  <2>1. ASSUME NEW r \in Req, OpeningStep(r)
        PROVE  Goal
    BY <1>6, <1>7, <2>1 DEF OpeningStep
  <2>2. \/ QuietStep \/ UNCHANGED vars
        \/ \E r \in Req : Registered(r) \/ OpeningStep(r) \/ Recovered(r)
        \/ \E u \in Id : ErasingStep(u)
    BY StepKinds
  <2>3. CASE \E r \in Req : Registered(r) \/ OpeningStep(r) \/ Recovered(r)
    BY <1>5, <1>7, <2>1, <2>3
  <2>4. CASE \E u \in Id : ErasingStep(u)
    BY <1>8, <2>4
  <2> QED BY <1>4, <2>2, <2>3, <2>4
<1> QED BY <1>9 DEF Goal

LEMMA PassInit == Init => PassInv /\ LateBound /\ OpenedCurrent
<1> SUFFICES ASSUME Init PROVE PassInv /\ LateBound /\ OpenedCurrent
  OBVIOUS
<1>1. PICK legacy \in SUBSET Id, name \in [Id -> Name] :
        users = [u \in Id |-> IF u \in legacy
                              THEN [name |-> name[u], key |-> u, code |-> 0, gen |-> 0, pass |-> 0]
                              ELSE None]
  BY DEF Init
<1>2. \A u \in Accounts : users[u].pass = 0
  BY <1>1 DEF Accounts
<1>3. PassInv /\ OpenedCurrent
  BY <1>2 DEF Init, PassInv, OpenedCurrent, Live
<1>4. PICK r : r \in Req
  BY AccountsAssumption
<1>5. \A u : LateSessions(u) = {} /\ LateLogins(u) = {}
  BY DEF Init, LateSessions, LateLogins, Live
<1>6. LateBound
  BY <1>4, <1>5, CountAfresh DEF LateBound
<1> QED BY <1>3, <1>6

LEMMA NamesStep ==
  ASSUME KeyInv, [Next]_vars, NamesUnique
  PROVE  NamesUnique'
<1>1. CASE QuietStep \/ UNCHANGED vars
  BY <1>1, QuietEffect DEF NamesUnique, Accounts
<1>2. ASSUME NEW r \in Req, Registered(r)
      PROVE  NamesUnique'
  <2>1. PICK u \in Id \ used : /\ \A v \in Id : v # u => users'[v] = users[v]
                              /\ users'[u].name = requests[r].name
                              /\ Accounts' = Accounts \cup {u}
                              /\ \A v \in Accounts : users[v].name # requests[r].name
    BY <1>2, RegisteredEffect
  <2>2. \A v \in Accounts : v # u /\ v \in Id /\ users'[v] = users[v]
    BY <2>1 DEF KeyInv, UsersOK, Accounts
  <2> QED BY <2>1, <2>2 DEF NamesUnique
<1>3. ASSUME NEW r \in Req, OpeningStep(r) \/ Recovered(r)
      PROVE  NamesUnique'
  BY <1>3, OpeningEffect, RecoveredEffect DEF NamesUnique
<1>4. ASSUME NEW u \in Id, ErasingStep(u)
      PROVE  NamesUnique'
  BY <1>4 DEF ErasingStep, Erase, NamesUnique, KeyInv, UsersOK, Accounts
<1> QED BY <1>1, <1>2, <1>3, <1>4, StepKinds

\* The requests to connect that are under way.
Connecting == {r \in Req : requests[r] # None /\ requests[r].op = "connect"}

LEMMA AwaitElse ==
  ASSUME KeyInv, NEW r \in Req, NEW op, op # "connect", NEW at, NEW n, NEW u, NEW s,
         Await(r, op, at, n, u, s)
  PROVE  \A p \in Connecting' : p \in Connecting /\ requests'[p] = requests[p]
<1>1. \A p \in Req : p # r => requests'[p] = requests[p]
  BY DEF Await, KeyInv, RequestsOK
<1>2. requests'[r].op = op
  BY DEF Await, KeyInv, RequestsOK
<1> QED BY <1>1, <1>2 DEF Connecting

(* A quiet step other than the start and the success of a connection.        *)
LEMMA QuietConnects ==
  ASSUME KeyInv, QuietStep \/ UNCHANGED vars,
         \A r \in Req : ~Connected(r) /\ \A s \in Sid : ~ConnectStart(r, s)
  PROVE  /\ \A r \in Connecting' : r \in Connecting /\ requests'[r] = requests[r]
         /\ \A u \in Id : delegations'[u] = delegations[u] \/ delegations'[u] = None
<1>1. CASE UNCHANGED vars
  BY <1>1 DEF vars, dbVars, Connecting
<1>2. ASSUME NEW r \in Req, NEW n \in Name,
             \/ RegisterStart(r, n) \/ LoginHopeless(r, n) \/ LoginLegacy(r, n)
             \/ LoginStart(r, n) \/ RecoverStart(r, n)
      PROVE  UNCHANGED delegations
             /\ \A p \in Connecting' : p \in Connecting /\ requests'[p] = requests[p]
  <2>1. CASE RegisterStart(r, n)
    BY <2>1, AwaitElse DEF RegisterStart, dbVars
  <2>2. CASE LoginHopeless(r, n)
    BY <2>2, AwaitElse DEF LoginHopeless, dbVars
  <2>3. CASE LoginLegacy(r, n)
    BY <2>3, AwaitElse DEF LoginLegacy, dbVars
  <2>4. CASE LoginStart(r, n)
    BY <2>4, AwaitElse DEF LoginStart, dbVars
  <2>5. CASE RecoverStart(r, n)
    BY <2>5, AwaitElse DEF RecoverStart, dbVars
  <2> QED BY <1>2, <2>1, <2>2, <2>3, <2>4, <2>5
<1>3. ASSUME NEW r \in Req, NEW s \in Sid, ChangeStart(r, s) \/ DeleteStart(r, s)
      PROVE  UNCHANGED delegations
             /\ \A p \in Connecting' : p \in Connecting /\ requests'[p] = requests[p]
  <2>1. PICK op \in {"change", "delete"}, at \in {"verifying", "deriving"} : Begin(r, op, at, s)
    BY <1>3 DEF ChangeStart, DeleteStart
  <2> QED BY <2>1 DEF Begin, Await, Connecting, KeyInv, RequestsOK, dbVars
<1>4. ASSUME NEW r \in Req, RegisterFails(r) \/ LoginRefused(r) \/ Refused(r) \/ ConnectFails(r)
      PROVE  UNCHANGED delegations
             /\ \A p \in Connecting' : p \in Connecting /\ requests'[p] = requests[p]
  BY <1>4 DEF RegisterFails, LoginRefused, Refused, ConnectFails, Done, Connecting, KeyInv, RequestsOK, dbVars
<1>5. ASSUME NEW r \in Req, LoginVerified(r)
      PROVE  UNCHANGED delegations
             /\ \A p \in Connecting' : p \in Connecting /\ requests'[p] = requests[p]
  <2>1. requests[r] \in Request /\ requests[r].op = "login"
    BY <1>5 DEF LoginVerified, At, KeyInv, RequestsOK
  <2>2. [requests[r] EXCEPT !.at = "deriving"].op = "login"
    BY <2>1 DEF Request
  <2>3. \A p \in Req : requests'[p] = IF p = r THEN [requests[r] EXCEPT !.at = "deriving"] ELSE requests[p]
    BY <1>5 DEF LoginVerified, KeyInv, RequestsOK
  <2> QED BY <1>5, <2>2, <2>3 DEF LoginVerified, Connecting, dbVars
<1>6. ASSUME NEW s \in Sid, Disconnect(s)
      PROVE  /\ \A u \in Id : delegations'[u] = delegations[u] \/ delegations'[u] = None
             /\ \A p \in Connecting' : p \in Connecting /\ requests'[p] = requests[p]
  BY <1>6 DEF Disconnect, Connecting, KeyInv, DelegationsOK
<1>7. ASSUME Restart \/ (\E s \in Sid : SessionEnds(s)) \/ (\E n \in Name : RecoverRefused(n) \/ WindowEnds(n))
      PROVE  UNCHANGED delegations
             /\ \A p \in Connecting' : p \in Connecting /\ requests'[p] = requests[p]
  BY <1>7 DEF Restart, SessionEnds, RecoverRefused, WindowEnds, Connecting, dbVars
<1> QED BY <1>1, <1>2, <1>3, <1>4, <1>5, <1>6, <1>7 DEF QuietStep

(* What a connection found before it finds after, if its session stays.      *)
LEMMA ConnectKeyWas ==
  ASSUME KeyInv, NEW r \in Connecting, requests'[r] = requests[r], ConnectKey(r)' # None,
         LET s == requests[r].sid IN sessions'[s] = sessions[s] \/ sessions'[s] = None
  PROVE  ConnectKey(r) # None
<1>1. requests[r].sid \in Sid
  BY DEF Connecting, KeyInv, RequestsOK, RequestOK
<1>2. /\ sessions'[requests[r].sid] # None
      /\ sessions'[requests[r].sid].uid = requests[r].uid
      /\ sessions'[requests[r].sid].key # None
  BY DEF ConnectKey, Live
<1> QED BY <1>1, <1>2 DEF ConnectKey, Live

LEMMA ConnectStep ==
  ASSUME KeyInv, [Next]_vars, ConnectsToAccounts
  PROVE  ConnectsToAccounts'
<1> DEFINE Found(r)  == ConnectKey(r) # None => requests[r].uid \in Accounts
           Owned == \A u \in Id : delegations[u] # None => u \in Accounts
<1>1. Owned /\ \A r \in Connecting : Found(r)
  BY DEF ConnectsToAccounts, Connecting
<1>2. SUFFICES Owned' /\ \A r \in Connecting' : Found(r)'
  BY DEF ConnectsToAccounts, Connecting
<1>3. CASE /\ QuietStep \/ UNCHANGED vars
           /\ \A r \in Req : ~Connected(r) /\ \A s \in Sid : ~ConnectStart(r, s)
  <2>1. Accounts' = Accounts /\ \A s \in Sid : sessions'[s] = sessions[s] \/ sessions'[s] = None
    BY <1>3, QuietEffect DEF Accounts
  <2>2. /\ \A r \in Connecting' : r \in Connecting /\ requests'[r] = requests[r]
        /\ \A u \in Id : delegations'[u] = delegations[u] \/ delegations'[u] = None
    BY <1>3, QuietConnects
  <2>3. ASSUME NEW r \in Connecting'
        PROVE  Found(r)'
    <3>1. r \in Connecting /\ requests'[r] = requests[r] /\ requests[r].sid \in Sid
      BY <2>2 DEF Connecting, KeyInv, RequestsOK, RequestOK
    <3> QED BY <1>1, <2>1, <3>1, ConnectKeyWas
  <2> QED BY <1>1, <2>1, <2>2, <2>3
<1>4. ASSUME NEW r \in Req, NEW s \in Sid, ConnectStart(r, s)
      PROVE  Owned' /\ \A p \in Connecting' : Found(p)'
  <2>1. /\ Await(r, "connect", "deriving", users[sessions[s].uid].name, sessions[s].uid, s)
        /\ sessions[s].uid \in Accounts
        /\ UNCHANGED <<users, delegations, sessions>>
    BY <1>4 DEF ConnectStart, Begin, Authenticated, dbVars
  <2>2. requests'[r].uid \in Accounts /\ Accounts' = Accounts
    BY <2>1 DEF Await, Accounts, KeyInv, RequestsOK
  <2>3. \A p \in Connecting' : p # r => p \in Connecting /\ requests'[p] = requests[p]
    BY <2>1 DEF Await, Connecting, KeyInv, RequestsOK
  <2>4. \A p \in Connecting' : Found(p)'
    BY <1>1, <2>1, <2>2, <2>3, ConnectKeyWas
  <2> QED BY <1>1, <2>1, <2>2, <2>4
<1>5. ASSUME NEW r \in Req, Connected(r)
      PROVE  Owned' /\ \A p \in Connecting' : Found(p)'
  <2>1. /\ UNCHANGED <<users, sessions>> /\ Done(r) /\ requests[r].uid \in Accounts
        /\ delegations' = [delegations EXCEPT ![requests[r].uid] = ConnectKey(r)]
    BY <1>5 DEF Connected
  <2>2. Owned' /\ Accounts' = Accounts
    BY <1>1, <2>1 DEF Accounts, KeyInv, DelegationsOK
  <2>3. \A p \in Connecting' : p \in Connecting /\ requests'[p] = requests[p]
    BY <2>1 DEF Done, Connecting, KeyInv, RequestsOK
  <2>4. \A p \in Connecting' : Found(p)'
    BY <1>1, <2>1, <2>2, <2>3, ConnectKeyWas
  <2> QED BY <2>2, <2>4
<1>6. ASSUME NEW r \in Req, Registered(r)
      PROVE  Owned' /\ \A p \in Connecting' : Found(p)'
  <2>1. Done(r) /\ UNCHANGED <<sessions, delegations>> /\ Accounts \subseteq Accounts'
    BY <1>6, RegisteredEffect
  <2>2. \A p \in Connecting' : p \in Connecting /\ requests'[p] = requests[p]
    BY <2>1 DEF Done, Connecting, KeyInv, RequestsOK
  <2>3. \A p \in Connecting' : Found(p)'
    BY <1>1, <2>1, <2>2, ConnectKeyWas
  <2> QED BY <1>1, <2>1, <2>3
<1>7. ASSUME NEW r \in Req, OpeningStep(r)
      PROVE  Owned' /\ \A p \in Connecting' : Found(p)'
  <2>1. Done(r) /\ UNCHANGED delegations /\ Accounts' = Accounts
    BY <1>7, OpeningEffect
  <2>2. PICK store, pass : /\ Opened(store, users', requests[r].uid, requests[r].key, pass)
                           /\ StoreOK(store)
                           /\ \A s \in Sid : store[s] = sessions[s] \/ store[s] = None
    BY <1>7, OpeningEffect
  <2>3. PICK s \in FreeSid(store) : \A v \in Sid : v # s => sessions'[v] = store[v]
    BY <2>2 DEF Opened, StoreOK, FreeSid
  <2>4. \A p \in Connecting' : p \in Connecting /\ requests'[p] = requests[p]
    BY <2>1 DEF Done, Connecting, KeyInv, RequestsOK
  <2>5. ASSUME NEW p \in Connecting'
        PROVE  Found(p)'
    <3>1. requests[p].sid \in Sid /\ requests[p].sid # s
      BY <2>3, <2>4 DEF FreeSid, Connecting, KeyInv, RequestsOK, RequestOK
    <3>2. LET v == requests[p].sid IN sessions'[v] = sessions[v] \/ sessions'[v] = None
      BY <2>2, <2>3, <3>1
    <3> QED BY <1>1, <2>1, <2>4, <3>2, ConnectKeyWas
  <2> QED BY <1>1, <2>1, <2>5
<1>8. ASSUME NEW r \in Req, Recovered(r)
      PROVE  Owned' /\ \A p \in Connecting' : Found(p)'
  <2>1. Done(r) /\ UNCHANGED delegations /\ Accounts' = Accounts /\ sessions' = Without(requests[r].uid)
    BY <1>8, RecoveredEffect
  <2>2. \A p \in Connecting' : p \in Connecting /\ requests'[p] = requests[p]
    BY <2>1 DEF Done, Connecting, KeyInv, RequestsOK
  <2>3. \A s \in Sid : sessions'[s] = sessions[s] \/ sessions'[s] = None
    BY <2>1 DEF Without
  <2>4. ASSUME NEW p \in Connecting'
        PROVE  Found(p)'
    <3>1. requests[p].sid \in Sid
      BY <2>2 DEF Connecting, KeyInv, RequestsOK, RequestOK
    <3> QED BY <1>1, <2>1, <2>2, <2>3, <3>1, ConnectKeyWas
  <2> QED BY <1>1, <2>1, <2>4
<1>9. ASSUME NEW u \in Id, ErasingStep(u)
      PROVE  Owned' /\ \A p \in Connecting' : Found(p)'
  <2>1. /\ sessions' = Without(u) /\ users' = [users EXCEPT ![u] = None]
        /\ delegations' = [delegations EXCEPT ![u] = None]
    BY <1>9 DEF ErasingStep, Erase
  <2>2. Accounts' = Accounts \ {u}
    BY <2>1 DEF Accounts, KeyInv, UsersOK
  <2>3. \A p \in Connecting' : p \in Connecting /\ requests'[p] = requests[p]
    BY <1>9 DEF ErasingStep, Done, Connecting, KeyInv, RequestsOK
  <2>4. \A s \in Sid : sessions'[s] = None \/ (sessions'[s] = sessions[s] /\ sessions[s].uid # u)
    BY <2>1 DEF Without, Live
  <2>5. ASSUME NEW p \in Connecting', ConnectKey(p)' # None
        PROVE  requests'[p].uid \in Accounts'
    <3>1. requests[p].sid \in Sid /\ ConnectKey(p) # None
      BY <2>3, <2>4, <2>5, ConnectKeyWas DEF Connecting, KeyInv, RequestsOK, RequestOK
    <3>2. requests[p].uid # u
      BY <2>3, <2>4, <2>5, <3>1 DEF ConnectKey, Live
    <3> QED BY <1>1, <2>2, <2>3, <3>1, <3>2
  <2>6. Owned'
    BY <1>1, <2>1, <2>2 DEF KeyInv, DelegationsOK
  <2> QED BY <2>5, <2>6
<1> QED BY <1>3, <1>4, <1>5, <1>6, <1>7, <1>8, <1>9, StepKinds

LEMMA RelationsInit ==
  Init => NamesUnique /\ ConnectsToAccounts
<1> SUFFICES ASSUME Init PROVE NamesUnique /\ ConnectsToAccounts
  OBVIOUS
<1>1. ConnectsToAccounts
  BY DEF Init, ConnectsToAccounts
<1>2. PICK legacy \in SUBSET Id, name \in [Id -> Name] :
        /\ \A u, v \in legacy : name[u] = name[v] => u = v
        /\ users = [u \in Id |-> IF u \in legacy
                                 THEN [name |-> name[u], key |-> u, code |-> 0, gen |-> 0, pass |-> 0]
                                 ELSE None]
  BY DEF Init
<1>3. \A u \in Accounts : u \in legacy /\ users[u].name = name[u]
  BY <1>2 DEF Accounts
<1> QED BY <1>1, <1>2, <1>3 DEF NamesUnique

(* SessionsFollowCredentials: whatever overlaps, a change of the credentials *)
(* leaves no session that was opened before it, and the logins that still    *)
(* follow with the old password are fewer than the requests at a time.       *)
THEOREM SessionsAreCurrent == Spec => []SessionsFollowCredentials
<1> DEFINE Inv == KeyInv /\ PassInv /\ OpenedCurrent /\ LateBound
<1>1. Init => Inv
  BY KeyInvInit, PassInit
<1>2. Inv /\ [Next]_vars => Inv'
  BY KeyInvNext, PassStep, OpenedStep, LateStep
<1>3. Inv => SessionsFollowCredentials
  BY DEF OpenedCurrent, LateBound, SessionsFollowCredentials
<1> QED BY <1>1, <1>2, <1>3, PTL DEF Spec

(* NamesUnique: overlapping registrations of a name make one account.        *)
THEOREM NamesStayUnique == Spec => []NamesUnique
BY KeyInvAlways, RelationsInit, NamesStep, PTL DEF Spec

(* ConnectsToAccounts: a connection whose session lives has its account, and *)
(* so has every delegation.                                                  *)
THEOREM DelegationsHaveAccounts == Spec => []ConnectsToAccounts
BY KeyInvAlways, RelationsInit, ConnectStep, PTL DEF Spec

----------------------------------------------------------------------------
(* The limiters.  Each login under way that may still fail has its place in  *)
(* the bound: the failures counted and those to come never exceed it.        *)

Pending(n) == {r \in Req : /\ requests[r] # None /\ requests[r].op = "login"
                          /\ requests[r].at \in {"failing", "verifying"} /\ requests[r].name = n}

GuessInv ==
  \A n \in Name : /\ recoverFailures[n] <= MaxFailures
                  /\ loginFailures[n] + Cardinality(Pending(n)) <= MaxFailures - 1 + Cardinality(Req)

LEMMA PendingFinite ==
  /\ Cardinality(Req) \in Nat
  /\ \A n : /\ IsFiniteSet(Pending(n)) /\ Cardinality(Pending(n)) \in Nat
           /\ Cardinality(Pending(n)) <= Cardinality(Req)
  /\ \A n : /\ IsFiniteSet(Pending(n)') /\ Cardinality(Pending(n)') \in Nat
           /\ Cardinality(Pending(n)') <= Cardinality(Req)
<1>1. IsFiniteSet(Req)
  BY AccountsAssumption
<1>2. \A S \in SUBSET Req : IsFiniteSet(S) /\ Cardinality(S) \in Nat /\ Cardinality(S) <= Cardinality(Req)
  BY <1>1, FS_Subset, FS_CardinalityType
<1>3. \A n : Pending(n) \in SUBSET Req /\ Pending(n)' \in SUBSET Req
  BY DEF Pending
<1> QED BY <1>1, <1>2, <1>3, FS_CardinalityType

(* No new login, no new failure: the bound holds.                            *)
LEMMA FewerGuesses ==
  ASSUME KeyInv, KeyInv', NEW n \in Name, GuessInv,
         loginFailures'[n] <= loginFailures[n], Pending(n)' \subseteq Pending(n)
  PROVE  loginFailures'[n] + Cardinality(Pending(n)') <= MaxFailures - 1 + Cardinality(Req)
<1>1. Cardinality(Pending(n)') <= Cardinality(Pending(n))
  BY PendingFinite, FS_Subset
<1>2. loginFailures[n] \in Nat /\ loginFailures'[n] \in Nat /\ MaxFailures \in Nat
  BY AccountsAssumption DEF KeyInv, LimitsOK
<1> QED BY <1>1, <1>2, PendingFinite DEF GuessInv

(* A login that starts below the limit has its place.                        *)
LEMMA NewGuess ==
  ASSUME KeyInv', NEW n \in Name, loginFailures'[n] < MaxFailures
  PROVE  loginFailures'[n] + Cardinality(Pending(n)') <= MaxFailures - 1 + Cardinality(Req)
<1>1. loginFailures'[n] \in Nat /\ MaxFailures \in Nat
  BY AccountsAssumption DEF KeyInv, LimitsOK
<1> QED BY <1>1, PendingFinite

(* A failure leaves its place to the count.                                  *)
LEMMA GuessFails ==
  ASSUME KeyInv, KeyInv', NEW r \in Req, LoginRefused(r), NEW n \in Name, GuessInv
  PROVE  loginFailures'[n] + Cardinality(Pending(n)') <= MaxFailures - 1 + Cardinality(Req)
<1> DEFINE m == requests[r].name
<1>1. m \in Name /\ Done(r) /\ requests[r] # None /\ requests[r].op = "login"
      /\ requests[r].at \in {"failing", "verifying"}
  BY DEF LoginRefused, At, KeyInv, RequestsOK, Request
<1>2. loginFailures' = [loginFailures EXCEPT ![m] = @ + 1] /\ loginFailures \in [Name -> Nat]
  BY DEF LoginRefused, Recorded, KeyInv, LimitsOK
<1>3. \A p \in Req : requests'[p] = IF p = r THEN None ELSE requests[p]
  BY <1>1 DEF Done, KeyInv, RequestsOK
<1>4. Pending(n)' = Pending(n) \ {r}
  BY <1>3 DEF Pending
<1>5. CASE n # m
  <2>1. loginFailures'[n] = loginFailures[n]
    BY <1>2, <1>5
  <2>2. loginFailures[n] \in Nat
    BY <1>2
  <2>3. loginFailures'[n] <= loginFailures[n]
    BY <2>1, <2>2
  <2>4. Pending(n)' \subseteq Pending(n)
    BY <1>4
  <2> QED BY <2>3, <2>4, FewerGuesses
<1>6. CASE n = m
  <2>1. r \in Pending(n)
    BY <1>1, <1>6 DEF Pending
  <2>2. Cardinality(Pending(n)') = Cardinality(Pending(n)) - 1
    BY <1>4, <2>1, PendingFinite, FS_RemoveElement
  <2>3. loginFailures'[n] = loginFailures[n] + 1 /\ loginFailures[n] \in Nat /\ MaxFailures \in Nat
    BY <1>2, <1>6, AccountsAssumption
  <2> QED BY <2>2, <2>3, PendingFinite DEF GuessInv
<1> QED BY <1>5, <1>6

\* The steps that start a login; the rest neither start one nor record its failure.
LoginStarts == \E r \in Req, n \in Name : LoginHopeless(r, n) \/ LoginStart(r, n)

LEMMA OtherGuesses ==
  ASSUME KeyInv, KeyInv', [Next]_vars, ~LoginStarts, \A r \in Req : ~LoginRefused(r), NEW n \in Name
  PROVE  loginFailures'[n] <= loginFailures[n] /\ Pending(n)' \subseteq Pending(n)
<1>1. loginFailures \in [Name -> Nat] /\ requests \in [Req -> Request \cup {None}]
  BY DEF KeyInv, LimitsOK, RequestsOK
<1>2. ASSUME NEW r \in Req, NEW op, NEW at, NEW m, NEW u, NEW s, Await(r, op, at, m, u, s),
             op # "login" \/ at = "upgrading"
      PROVE  Pending(n)' \subseteq Pending(n)
  <2>1. \A p \in Req : p # r => requests'[p] = requests[p]
    BY <1>1, <1>2 DEF Await
  <2>2. requests'[r].op = op /\ requests'[r].at = at
    BY <1>1, <1>2 DEF Await
  <2> QED BY <1>2, <2>1, <2>2 DEF Pending
<1>3. ASSUME NEW r \in Req, Done(r)
      PROVE  Pending(n)' \subseteq Pending(n)
  BY <1>1, <1>3 DEF Done, Pending
<1>4. ASSUME UNCHANGED requests
      PROVE  Pending(n)' \subseteq Pending(n)
  BY <1>4 DEF Pending
<1>5. UNCHANGED loginFailures => loginFailures'[n] <= loginFailures[n]
  BY <1>1
<1>6. \A m \in Name : loginFailures' = Reset(loginFailures, m) => loginFailures'[n] <= loginFailures[n]
  BY <1>1 DEF Reset
<1>7. ASSUME NEW r \in Req, NEW m \in Name,
             RegisterStart(r, m) \/ LoginLegacy(r, m) \/ RecoverStart(r, m)
      PROVE  loginFailures'[n] <= loginFailures[n] /\ Pending(n)' \subseteq Pending(n)
  BY <1>2, <1>5, <1>6, <1>7 DEF RegisterStart, LoginLegacy, RecoverStart, limVars
<1>8. ASSUME NEW r \in Req, NEW s \in Sid, ChangeStart(r, s) \/ DeleteStart(r, s) \/ ConnectStart(r, s)
      PROVE  loginFailures'[n] <= loginFailures[n] /\ Pending(n)' \subseteq Pending(n)
  BY <1>2, <1>5, <1>8 DEF ChangeStart, DeleteStart, ConnectStart, Begin, limVars
<1>9. ASSUME NEW r \in Req, LoginVerified(r)
      PROVE  loginFailures'[n] <= loginFailures[n] /\ Pending(n)' \subseteq Pending(n)
  <2>1. requests[r] \in Request
    BY <1>1, <1>9 DEF LoginVerified, At
  <2>2. requests[r].name \in Name /\ [requests[r] EXCEPT !.at = "deriving"].at = "deriving"
    BY <2>1 DEF Request
  <2>3. \A p \in Req : requests'[p] = IF p = r THEN [requests[r] EXCEPT !.at = "deriving"] ELSE requests[p]
    BY <1>1, <1>9 DEF LoginVerified
  <2> QED BY <1>6, <1>9, <2>2, <2>3 DEF LoginVerified, Pending
<1>10. ASSUME NEW r \in Req, Finish(r), ~LoginVerified(r), ~LoginRefused(r)
       PROVE  loginFailures'[n] <= loginFailures[n] /\ Pending(n)' \subseteq Pending(n)
  BY <1>3, <1>5, <1>10 DEF Finish, Registered, RegisterFails, LoginDone, LoginUpgraded, Recovered,
     Refused, Changed, Deleted, Erase, Connected, ConnectFails, limVars
<1>11. ASSUME NEW m \in Name, RecoverRefused(m) \/ WindowEnds(m)
       PROVE  loginFailures'[n] <= loginFailures[n] /\ Pending(n)' \subseteq Pending(n)
  BY <1>4, <1>5, <1>6, <1>11 DEF RecoverRefused, WindowEnds
<1>12. ASSUME \/ \E s \in Sid : SessionEnds(s) \/ Disconnect(s)
              \/ \E u \in Id : AdminDelete(u)
              \/ UNCHANGED vars
       PROVE  loginFailures'[n] <= loginFailures[n] /\ Pending(n)' \subseteq Pending(n)
  BY <1>4, <1>5, <1>12 DEF SessionEnds, Disconnect, AdminDelete, Erase, vars, limVars
<1>13. ASSUME Restart
       PROVE  loginFailures'[n] <= loginFailures[n] /\ Pending(n)' \subseteq Pending(n)
  BY <1>1, <1>13 DEF Restart, Pending
<1> QED BY <1>7, <1>8, <1>9, <1>10, <1>11, <1>12, <1>13 DEF Next, LoginStarts

LEMMA RecoverGuesses ==
  ASSUME KeyInv, [Next]_vars, NEW n \in Name, recoverFailures[n] <= MaxFailures
  PROVE  recoverFailures'[n] <= MaxFailures
<1>1. recoverFailures \in [Name -> Nat] /\ MaxFailures \in Nat
  BY AccountsAssumption DEF KeyInv, LimitsOK
<1>2. ASSUME NEW m \in Name, RecoverRefused(m)
      PROVE  recoverFailures'[n] <= MaxFailures
  BY <1>1, <1>2 DEF RecoverRefused, Limited, Recorded
<1>3. ASSUME NEW m \in Name, recoverFailures' = Reset(recoverFailures, m)
      PROVE  recoverFailures'[n] <= MaxFailures
  BY <1>1, <1>3 DEF Reset
<1>4. CASE Restart
  BY <1>1, <1>4 DEF Restart
<1>5. \/ UNCHANGED recoverFailures \/ Restart
      \/ \E m \in Name : RecoverRefused(m) \/ recoverFailures' = Reset(recoverFailures, m)
  <2>1. ASSUME NEW r \in Req, NEW m \in Name,
               \/ RegisterStart(r, m) \/ LoginHopeless(r, m) \/ LoginLegacy(r, m) \/ LoginStart(r, m)
        PROVE  UNCHANGED recoverFailures
    BY <2>1 DEF RegisterStart, LoginHopeless, LoginLegacy, LoginStart, limVars
  <2>2. ASSUME NEW r \in Req, NEW m \in Name, RecoverStart(r, m)
        PROVE  recoverFailures' = Reset(recoverFailures, m)
    BY <2>2 DEF RecoverStart
  <2>3. ASSUME NEW r \in Req, NEW s \in Sid, ChangeStart(r, s) \/ DeleteStart(r, s) \/ ConnectStart(r, s)
        PROVE  UNCHANGED recoverFailures
    BY <2>3 DEF ChangeStart, DeleteStart, ConnectStart, Begin, limVars
  <2>4. ASSUME NEW r \in Req, Finish(r)
        PROVE  UNCHANGED recoverFailures
    BY <2>4 DEF Finish, Registered, RegisterFails, LoginRefused, LoginVerified, LoginDone, LoginUpgraded,
       Recovered, Refused, Changed, Deleted, Erase, Connected, ConnectFails, limVars
  <2>5. ASSUME NEW m \in Name, WindowEnds(m)
        PROVE  UNCHANGED recoverFailures \/ recoverFailures' = Reset(recoverFailures, m)
    BY <2>5 DEF WindowEnds
  <2>6. ASSUME (\E s \in Sid : SessionEnds(s) \/ Disconnect(s)) \/ (\E u \in Id : AdminDelete(u))
               \/ UNCHANGED vars
        PROVE  UNCHANGED recoverFailures
    BY <2>6 DEF SessionEnds, Disconnect, AdminDelete, Erase, limVars, vars
  <2> QED BY <2>1, <2>2, <2>3, <2>4, <2>5, <2>6 DEF Next
<1> QED BY <1>1, <1>2, <1>3, <1>4, <1>5

LEMMA GuessNext ==
  ASSUME KeyInv, KeyInv', [Next]_vars, GuessInv
  PROVE  GuessInv'
<1> SUFFICES ASSUME NEW n \in Name
             PROVE  loginFailures'[n] + Cardinality(Pending(n)') <= MaxFailures - 1 + Cardinality(Req)
  BY RecoverGuesses DEF GuessInv
<1>1. CASE LoginStarts
  <2>1. PICK r \in Req, m \in Name : LoginHopeless(r, m) \/ LoginStart(r, m)
    BY <1>1 DEF LoginStarts
  <2>2. loginFailures' = loginFailures /\ loginFailures[m] < MaxFailures
    <3>1. loginFailures[m] \in Nat /\ MaxFailures \in Nat
      BY AccountsAssumption DEF KeyInv, LimitsOK
    <3> QED BY <2>1, <3>1 DEF LoginHopeless, LoginStart, Limited, limVars
  <2>3. CASE n = m
    BY <2>2, <2>3, NewGuess
  <2>4. CASE n # m
    <3>1. \A p \in Req : p # r => requests'[p] = requests[p]
      BY <2>1 DEF LoginHopeless, LoginStart, Await, KeyInv, RequestsOK
    <3>2. requests'[r].name = m
      BY <2>1 DEF LoginHopeless, LoginStart, Await, KeyInv, RequestsOK
    <3>3. Pending(n)' \subseteq Pending(n)
      BY <2>4, <3>1, <3>2 DEF Pending
    <3>4. loginFailures'[n] <= loginFailures[n]
      BY <2>2 DEF KeyInv, LimitsOK
    <3> QED BY <3>3, <3>4, FewerGuesses
  <2> QED BY <2>3, <2>4
<1>2. CASE \E r \in Req : LoginRefused(r)
  BY <1>2, GuessFails
<1>3. CASE ~LoginStarts /\ \A r \in Req : ~LoginRefused(r)
  BY <1>3, OtherGuesses, FewerGuesses
<1> QED BY <1>1, <1>2, <1>3

LEMMA GuessInit == Init => GuessInv
<1> SUFFICES ASSUME Init, NEW n \in Name
             PROVE  /\ recoverFailures[n] <= MaxFailures
                    /\ loginFailures[n] + Cardinality(Pending(n)) <= MaxFailures - 1 + Cardinality(Req)
  BY DEF GuessInv
<1>1. loginFailures[n] = 0 /\ recoverFailures[n] = 0
  BY DEF Init
<1>2. MaxFailures \in Nat /\ MaxFailures # 0
  BY AccountsAssumption
<1> QED BY <1>1, <1>2, PendingFinite

(* GuessesBounded: however many attempts overlap, the failures counted       *)
(* exceed the limit by fewer than the requests that run at once, and those   *)
(* of recovery do not exceed it.                                             *)
THEOREM OvershootIsBounded == Spec => []GuessesBounded
<1>1. Spec => []GuessInv
  BY KeyInvAlways, GuessInit, GuessNext, PTL DEF Spec
<1>2. KeyInv /\ GuessInv => GuessesBounded
  <2> SUFFICES ASSUME KeyInv, GuessInv, NEW n \in Name
               PROVE  /\ recoverFailures[n] <= MaxFailures
                      /\ loginFailures[n] <= MaxFailures - 1 + Cardinality(Req)
    BY DEF GuessesBounded
  <2>1. loginFailures[n] \in Nat /\ MaxFailures \in Nat
    BY AccountsAssumption DEF KeyInv, LimitsOK
  <2> QED BY <2>1, PendingFinite DEF GuessInv
<1> QED BY <1>1, <1>2, KeyInvAlways, PTL
=============================================================================
