---------------------------- MODULE IdentityProofs ----------------------------
(***************************************************************************)
(* Proof that the authority of accounts and credentials is always current, *)
(* for any number of users, tenants, requests, sessions and tokens.        *)
(***************************************************************************)
EXTENDS Identity, TLAPS

-----------------------------------------------------------------------------
(* The inductive invariant *)

States == {"LIVE", "REVOKED", "EXPIRED"}
UserRow == [ver: Nat, on: BOOLEAN, pw: Nat, grant: {"NONE", "ACTIVE", "REVOKED"}]
OrgRow == [ver: Nat, on: BOOLEAN, members: Nat, role: [Users -> {"NONE", "MEMBER"}]]
CredRow == [kind: {"BROWSER", "CLI"}, user: Users, scopes: SUBSET Scopes, state: States,
            pw: Nat, admin: BOOLEAN]
ControlRow == [installed: BOOLEAN, closed: BOOLEAN, admin: BOOLEAN, worker: BOOLEAN]

AccountOps ==
  [name: {"create_user"}, user: Users, role: {"ADMIN", "NONE"}]
  \cup [name: {"update_user"}, user: Users, ver: Nat, change: Changes]

TenantOps ==
  [name: {"create_tenant"}, user: {"NONE"}, tenant: Tenants]
  \cup [name: {"update_tenant"}, user: {"NONE"}, tenant: Tenants, ver: Nat]
  \cup [name: {"upsert_membership", "delete_membership"}, user: Users, tenant: Tenants,
        ver: Nat]

Ops == AccountOps \cup TenantOps

AuthRow == [phase: {"AUTH"}, cred: Nat, tries: Nat]
ChangeRow == [phase: {"ACTOR", "CONTROL", "RETRY"}, cred: Nat, tries: Nat, op: Ops]
ReqRow == {Idle} \cup AuthRow \cup ChangeRow

Types ==
  /\ users \in [Users -> UserRow] /\ orgs \in [Tenants -> OrgRow]
  /\ creds \in Seq(CredRow) /\ worker \in Seq([state: States])
  /\ control \in ControlRow
  /\ logins \in [Users -> [on: BOOLEAN, pw: Nat]]
  /\ reqs \in [Slots -> ReqRow]

\* A request that is being served names a credential that was issued.
RequestsNameCreds ==
  \A s \in Slots : reqs[s].phase # "IDLE" => reqs[s].cred \in DOMAIN creds

\* An account that does not exist is not enabled.
NoAccountIsOff == \A u \in Users : users[u].ver = 0 => ~users[u].on

AdminLeft == control.closed => EnabledAdmins # {}

CredentialCurrent(row, account) ==
  row.state = "LIVE" =>
    account.on /\ row.pw = account.pw /\ row.admin = (account.grant = "ACTIVE")

CredentialsCurrent ==
  \A c \in DOMAIN creds : CredentialCurrent(creds[c], users[creds[c].user])

OneWorkerCredential ==
  \A i, k \in DOMAIN worker : worker[i].state = "LIVE" /\ worker[k].state = "LIVE" => i = k

CallersAdmin ==
  \A s \in Slots : reqs[s].phase \in {"ACTOR", "CONTROL"} => Actor(s) \in EnabledAdmins

AuthInv ==
  /\ Types /\ RequestsNameCreds /\ NoAccountIsOff
  /\ AdminLeft /\ CredentialsCurrent /\ OneWorkerCredential /\ CallersAdmin

-----------------------------------------------------------------------------
(* Rows *)

\* The fields of a request.
LEMMA ChangeFields ==
  ASSUME NEW r \in ReqRow, r.phase \in {"ACTOR", "CONTROL", "RETRY"}
  PROVE  r \in ChangeRow
<1> QED BY DEF ReqRow, Idle, AuthRow

LEMMA AuthFields ==
  ASSUME NEW r \in ReqRow, r.phase = "AUTH"
  PROVE  r \in AuthRow
<1> QED BY DEF ReqRow, Idle, ChangeRow

\* The operations that take the auth_control row are changes of an account.
LEMMA AccountOp ==
  ASSUME NEW op \in Ops
  PROVE  /\ op.name = "create_user" => op.user \in Users /\ op.role \in {"ADMIN", "NONE"}
         /\ op.name = "update_user" => op.user \in Users /\ op.change \in AccountChange
         /\ op.name \in {"upsert_membership", "delete_membership"} =>
              op.user \in Users /\ op.tenant \in Tenants /\ op.ver \in Nat
         /\ op.name \in {"create_tenant", "update_tenant"} => op.tenant \in Tenants
<1> QED BY IdentityAssumption DEF Ops, AccountOps, TenantOps

\* A request asks for an operation on rows that exist.
LEMMA OperationsAreOps == Types => Operations \subseteq Ops
<1> SUFFICES ASSUME Types, NEW op \in Operations PROVE op \in Ops
  OBVIOUS
<1>u. \A u \in Users : users[u].ver \in Nat
  BY DEF Types, UserRow
<1>t. \A t \in Tenants : orgs[t].ver \in Nat /\ orgs[t].members \in Nat
  BY DEF Types, OrgRow
<1> QED BY <1>u, <1>t DEF Operations, Ops, AccountOps, TenantOps

\* Revoking a row keeps everything else.
LEMMA RevokedRow ==
  ASSUME NEW row \in CredRow
  PROVE  /\ Revoked(row) \in CredRow
         /\ Revoked(row).state # "LIVE" /\ Revoked(row).user = row.user
<1> QED BY DEF Revoked, CredRow, States

LEMMA RevokedWorker ==
  ASSUME NEW row \in [state: States]
  PROVE  Revoked(row) \in [state: States] /\ Revoked(row).state # "LIVE"
<1> QED BY DEF Revoked, States

\* A sequence of rows is a function on an interval.
LEMMA ElementOfSeq ==
  ASSUME NEW S, NEW seq \in Seq(S), NEW i \in DOMAIN seq
  PROVE  seq[i] \in S
<1> QED OBVIOUS

LEMMA CredsAsFunction ==
  ASSUME NEW S, NEW seq \in Seq(S), NEW f, DOMAIN f = DOMAIN seq, \A i \in DOMAIN f : f[i] \in S,
         f = [i \in DOMAIN seq |-> f[i]]
  PROVE  f \in Seq(S) /\ Len(f) = Len(seq)
<1> QED OBVIOUS

\* The rows of the credentials.
LEMMA CredFields ==
  ASSUME Types
  PROVE  \A c \in DOMAIN creds : creds[c] \in CredRow /\ creds[c].user \in Users
<1>1. \A c \in DOMAIN creds : creds[c] \in CredRow
  BY DEF Types
<1> QED BY <1>1 DEF CredRow

-----------------------------------------------------------------------------
(* Steps by what they change *)

\* No request changes, or one of them ends.
RequestsEnd == UNCHANGED reqs \/ \E s \in Slots : Finish(s)

LEMMA RequestsKeptOrIdle ==
  ASSUME Types, RequestsEnd
  PROVE  /\ reqs' \in [Slots -> ReqRow]
         /\ \A q \in Slots : reqs'[q] = reqs[q] \/ reqs'[q] = Idle
<1> QED BY DEF RequestsEnd, Finish, Types, ReqRow

\* Only the request of slot s changes: a change it starts is that of an administrator.
LEMMA RequestStep ==
  ASSUME AuthInv, NEW s \in Slots, NEW r \in ReqRow,
         reqs' = [reqs EXCEPT ![s] = r],
         UNCHANGED <<users, orgs, creds, worker, control, logins>>,
         r.phase # "IDLE" => r.cred \in DOMAIN creds,
         r.phase \in {"ACTOR", "CONTROL"} => creds[r.cred].user \in EnabledAdmins
  PROVE  AuthInv'
<1>1. Types'
  BY DEF AuthInv, Types
<1>2. \A q \in Slots : reqs'[q] = IF q = s THEN r ELSE reqs[q]
  BY DEF AuthInv, Types
<1>3. RequestsNameCreds' /\ NoAccountIsOff' /\ OneWorkerCredential'
  BY <1>2 DEF AuthInv, RequestsNameCreds, NoAccountIsOff, OneWorkerCredential
<1>4. AdminLeft' /\ CredentialsCurrent'
  BY DEF AuthInv, AdminLeft, CredentialsCurrent, CredentialCurrent, EnabledAdmins, SystemAdmin
<1>5. CallersAdmin'
  BY <1>2 DEF AuthInv, CallersAdmin, Actor, EnabledAdmins, SystemAdmin
<1> QED BY <1>1, <1>3, <1>4, <1>5 DEF AuthInv

\* The request of slot s may end; credentials are revoked, expire or stay.
LEMMA CredentialStep ==
  ASSUME AuthInv, RequestsEnd,
         creds' \in Seq(CredRow), DOMAIN creds' = DOMAIN creds,
         \A c \in DOMAIN creds :
           \/ creds'[c] = creds[c]
           \/ creds'[c].user = creds[c].user /\ creds'[c].state # "LIVE",
         UNCHANGED <<users, worker, control, logins>>, orgs' \in [Tenants -> OrgRow]
  PROVE  AuthInv'
<1>1. Types'
  BY RequestsKeptOrIdle DEF AuthInv, Types
<1>2. \A q \in Slots : reqs'[q] = reqs[q] \/ reqs'[q] = Idle
  BY RequestsKeptOrIdle DEF AuthInv
<1>3. RequestsNameCreds' /\ NoAccountIsOff' /\ OneWorkerCredential'
  BY <1>2 DEF AuthInv, RequestsNameCreds, NoAccountIsOff, OneWorkerCredential, Idle
<1>4. AdminLeft' /\ CredentialsCurrent'
  BY DEF AuthInv, AdminLeft, CredentialsCurrent, CredentialCurrent, EnabledAdmins, SystemAdmin
<1>5. CallersAdmin'
  BY <1>2 DEF AuthInv, CallersAdmin, RequestsNameCreds, Actor, EnabledAdmins, SystemAdmin, Idle
<1> QED BY <1>1, <1>3, <1>4, <1>5 DEF AuthInv

\* The request of slot s may end; a credential is issued to the user in its present role.
LEMMA IssueStep ==
  ASSUME AuthInv, RequestsEnd,
         NEW kind \in {"BROWSER", "CLI"}, NEW u \in Users, NEW scopes \in SUBSET Scopes,
         users[u].on, Issue(kind, u, scopes, users[u].pw),
         UNCHANGED <<users, orgs, worker, control>>,
         logins' \in [Users -> [on: BOOLEAN, pw: Nat]]
  PROVE  AuthInv'
<1> DEFINE new == [kind |-> kind, user |-> u, scopes |-> scopes, state |-> "LIVE",
                   pw |-> users[u].pw, admin |-> SystemAdmin(u)]
<1>1. new \in CredRow
  BY DEF AuthInv, Types, UserRow, CredRow, States, SystemAdmin
<1>2. creds' \in Seq(CredRow) /\ Len(creds') = Len(creds) + 1
      /\ creds'[Len(creds) + 1] = new /\ \A c \in DOMAIN creds : creds'[c] = creds[c]
  BY <1>1 DEF AuthInv, Types, Issue
<1>3. Types'
  BY <1>2, RequestsKeptOrIdle DEF AuthInv, Types
<1>4. DOMAIN creds' = DOMAIN creds \cup {Len(creds) + 1}
  BY <1>2 DEF AuthInv, Types
<1>5. \A q \in Slots : reqs'[q] = reqs[q] \/ reqs'[q] = Idle
  BY RequestsKeptOrIdle DEF AuthInv
<1>6. RequestsNameCreds' /\ NoAccountIsOff' /\ OneWorkerCredential'
  <2>1. RequestsNameCreds'
    BY <1>4, <1>5 DEF AuthInv, RequestsNameCreds, Idle
  <2> QED BY <2>1 DEF AuthInv, NoAccountIsOff, OneWorkerCredential
<1>7. AdminLeft'
  BY DEF AuthInv, AdminLeft, EnabledAdmins, SystemAdmin
<1>8. CredentialsCurrent'
  <2>1. CredentialCurrent(new, users'[u])
    BY DEF CredentialCurrent, SystemAdmin
  <2>2. \A c \in DOMAIN creds : CredentialCurrent(creds'[c], users'[creds'[c].user])
    BY <1>2 DEF AuthInv, CredentialsCurrent
  <2> QED BY <1>2, <1>4, <2>1, <2>2 DEF CredentialsCurrent
<1>9. CallersAdmin'
  BY <1>2, <1>5 DEF AuthInv, CallersAdmin, RequestsNameCreds, Actor, EnabledAdmins,
     SystemAdmin, Idle
<1> QED BY <1>3, <1>6, <1>7, <1>8, <1>9 DEF AuthInv

\* The account of user v changes, and nobody else has locked its rows; its credentials
\* end, or they are still right.  An administrator is left.
LEMMA AccountStep ==
  ASSUME AuthInv, RequestsEnd,
         NEW v \in Users, NEW row \in UserRow, row.ver > 0,
         users' = [users EXCEPT ![v] = row],
         UNCHANGED <<orgs, worker, logins>>, control' \in ControlRow,
         control'.closed => EnabledAdmins' # {},
         \A q \in Slots : reqs'[q].phase \in {"ACTOR", "CONTROL"} => Actor(q) # v,
         creds' \in Seq(CredRow), DOMAIN creds' = DOMAIN creds,
         \A c \in DOMAIN creds :
           /\ creds'[c].user = creds[c].user
           /\ creds'[c] = creds[c] \/ creds'[c].state # "LIVE"
           /\ creds[c].user = v => CredentialCurrent(creds'[c], row)
  PROVE  AuthInv'
<1>1. Types'
  BY RequestsKeptOrIdle DEF AuthInv, Types
<1>2. \A q \in Slots : reqs'[q] = reqs[q] \/ reqs'[q] = Idle
  BY RequestsKeptOrIdle DEF AuthInv
<1>u. \A w \in Users : users'[w] = IF w = v THEN row ELSE users[w]
  BY DEF AuthInv, Types
<1>3. RequestsNameCreds' /\ NoAccountIsOff' /\ OneWorkerCredential'
  BY <1>2, <1>u DEF AuthInv, RequestsNameCreds, NoAccountIsOff, OneWorkerCredential, Idle
<1>4. CredentialsCurrent'
  <2> SUFFICES ASSUME NEW c \in DOMAIN creds
               PROVE  CredentialCurrent(creds'[c], users'[creds'[c].user])
    BY DEF CredentialsCurrent
  <2>1. creds[c].user \in Users
    BY CredFields DEF AuthInv
  <2>2. CASE creds[c].user = v
    BY <1>u, <2>2
  <2>3. CASE creds[c].user # v
    <3>1. users'[creds'[c].user] = users[creds[c].user]
      BY <1>u, <2>1, <2>3
    <3>2. CredentialCurrent(creds[c], users[creds[c].user])
      BY DEF AuthInv, CredentialsCurrent
    <3> QED BY <3>1, <3>2 DEF CredentialCurrent
  <2> QED BY <2>2, <2>3
<1>5. CallersAdmin'
  <2> SUFFICES ASSUME NEW q \in Slots, reqs'[q].phase \in {"ACTOR", "CONTROL"}
               PROVE  Actor(q)' \in EnabledAdmins'
    BY DEF CallersAdmin
  <2>1. reqs'[q] = reqs[q] /\ reqs[q].cred \in DOMAIN creds
    BY <1>2 DEF AuthInv, RequestsNameCreds, Idle
  <2>2. Actor(q)' = Actor(q) /\ Actor(q) # v /\ Actor(q) \in EnabledAdmins
    BY <2>1 DEF AuthInv, CallersAdmin, Actor
  <2> QED BY <1>u, <2>2 DEF EnabledAdmins, SystemAdmin
<1> QED BY <1>1, <1>3, <1>4, <1>5 DEF AuthInv, AdminLeft

-----------------------------------------------------------------------------
(* One lemma per action *)

LEMMA InitAuth == Init => AuthInv
<1> SUFFICES ASSUME Init PROVE AuthInv
  OBVIOUS
<1>1. Types
  BY DEF Init, Types, UserRow, OrgRow, ControlRow, ReqRow, NoLogin
<1>2. RequestsNameCreds /\ CallersAdmin
  BY DEF Init, RequestsNameCreds, CallersAdmin, Idle
<1>3. NoAccountIsOff /\ AdminLeft
  BY DEF Init, NoAccountIsOff, AdminLeft
<1>4. CredentialsCurrent /\ OneWorkerCredential
  BY DEF Init, CredentialsCurrent, OneWorkerCredential
<1> QED BY <1>1, <1>2, <1>3, <1>4 DEF AuthInv

\* Steps that touch neither accounts, credentials nor requests.
LEMMA OutsideAuth ==
  ASSUME AuthInv, UNCHANGED <<users, orgs, creds, reqs>>,
         control' \in ControlRow, control'.closed = control.closed,
         logins' \in [Users -> [on: BOOLEAN, pw: Nat]],
         worker' \in Seq([state: States]), OneWorkerCredential'
  PROVE  AuthInv'
<1>1. Types'
  BY DEF AuthInv, Types
<1>2. RequestsNameCreds' /\ NoAccountIsOff' /\ CredentialsCurrent'
  BY DEF AuthInv, RequestsNameCreds, NoAccountIsOff, CredentialsCurrent
<1>3. AdminLeft' /\ CallersAdmin'
  BY DEF AuthInv, AdminLeft, CallersAdmin, EnabledAdmins, SystemAdmin, Actor
<1> QED BY <1>1, <1>2, <1>3 DEF AuthInv

\* The same, without the worker's credential.
LEMMA OutsideBoth ==
  ASSUME AuthInv, UNCHANGED <<users, orgs, creds, reqs, worker>>,
         control' \in ControlRow, control'.closed = control.closed,
         logins' \in [Users -> [on: BOOLEAN, pw: Nat]]
  PROVE  AuthInv'
<1>1. worker' \in Seq([state: States]) /\ OneWorkerCredential'
  BY DEF AuthInv, Types, OneWorkerCredential
<1> QED BY <1>1, OutsideAuth

LEMMA InitializeAuth == ASSUME AuthInv, Initialize PROVE AuthInv'
<1>1. control' \in ControlRow /\ control'.closed = control.closed
  BY Zenon DEF Initialize, AuthInv, Types, ControlRow
<1> QED BY <1>1, OutsideBoth DEF Initialize, AuthInv, Types

LEMMA ReopenAuth == ASSUME AuthInv, ReopenWorkerWindow PROVE AuthInv'
<1>1. control' \in ControlRow /\ control'.closed = control.closed
  BY Zenon DEF ReopenWorkerWindow, AuthInv, Types, ControlRow
<1> QED BY <1>1, OutsideBoth DEF ReopenWorkerWindow, AuthInv, Types

LEMMA ChangeModeAuth == ASSUME AuthInv, ChangeMode PROVE AuthInv'
<1> QED BY OutsideBoth DEF ChangeMode, AuthInv, Types

LEMMA RecordLoginAuth ==
  ASSUME AuthInv, NEW u \in Users, RecordLoginAttempt(u) PROVE AuthInv'
<1>1. logins' \in [Users -> [on: BOOLEAN, pw: Nat]]
  BY DEF RecordLoginAttempt, AuthInv, Types, UserRow
<1> QED BY <1>1, OutsideBoth DEF RecordLoginAttempt, AuthInv, Types

LEMMA LoginRefusedAuth ==
  ASSUME AuthInv, NEW u \in Users, LoginRefused(u) PROVE AuthInv'
<1>1. logins' \in [Users -> [on: BOOLEAN, pw: Nat]]
  BY DEF LoginRefused, AuthInv, Types, NoLogin
<1> QED BY <1>1, OutsideBoth DEF LoginRefused, AuthInv, Types

\* The worker's credentials before the new one are revoked.
LEMMA BootstrapWorkerAuth == ASSUME AuthInv, BootstrapWorker PROVE AuthInv'
<1> DEFINE old == [i \in DOMAIN worker |-> Revoked(worker[i])]
<1>0. worker \in Seq([state: States])
  BY DEF AuthInv, Types
<1>1. \A i \in DOMAIN worker : old[i] \in [state: States] /\ old[i].state # "LIVE"
  <2>1. \A i \in DOMAIN worker : worker[i] \in [state: States]
    BY <1>0, ElementOfSeq, Zenon
  <2> QED BY <2>1, RevokedWorker
<1>2. old \in Seq([state: States]) /\ Len(old) = Len(worker)
  BY <1>1 DEF AuthInv, Types
<1>3. worker' = Append(old, [state |-> "LIVE"])
  BY DEF BootstrapWorker
<1> HIDE DEF old
<1>4. worker' \in Seq([state: States])
  BY <1>2, <1>3 DEF States
<1>5. \A i \in DOMAIN worker' : worker'[i].state = "LIVE" => i = Len(old) + 1
  BY <1>1, <1>2, <1>3 DEF old
<1>6. OneWorkerCredential'
  BY <1>5 DEF OneWorkerCredential
<1> QED BY <1>4, <1>6, OutsideAuth DEF BootstrapWorker, AuthInv, Types

LEMMA CreateSessionAuth ==
  ASSUME AuthInv, NEW u \in Users, CreateSession(u) PROVE AuthInv'
<1>1. users[u].on /\ Issue("BROWSER", u, {}, users[u].pw)
  BY DEF CreateSession, StillTheUser
<1>2. logins' \in [Users -> [on: BOOLEAN, pw: Nat]]
  BY DEF CreateSession, AuthInv, Types, NoLogin
<1>3. UNCHANGED <<users, orgs, worker, control, reqs>>
  BY DEF CreateSession
<1> QED BY <1>1, <1>2, <1>3, IssueStep DEF RequestsEnd, Finish

\* Revoking one credential.
LEMMA RevokeKeeps ==
  ASSUME AuthInv, NEW c \in DOMAIN creds, Revoke(c)
  PROVE  /\ creds' \in Seq(CredRow) /\ DOMAIN creds' = DOMAIN creds
         /\ \A d \in DOMAIN creds :
              \/ creds'[d] = creds[d]
              \/ creds'[d].user = creds[d].user /\ creds'[d].state # "LIVE"
<1>1. Revoked(creds[c]) \in CredRow /\ Revoked(creds[c]).state # "LIVE"
      /\ Revoked(creds[c]).user = creds[c].user
  BY CredFields, RevokedRow DEF AuthInv
<1>2. creds' = [creds EXCEPT ![c] = Revoked(creds[c])]
  BY DEF Revoke
<1> QED BY <1>1, <1>2 DEF AuthInv, Types

\* Revoking all credentials of a user.
LEMMA RevokedOfKeeps ==
  ASSUME AuthInv, NEW u
  PROVE  /\ RevokedOf(u) \in Seq(CredRow) /\ DOMAIN RevokedOf(u) = DOMAIN creds
         /\ \A d \in DOMAIN creds :
              /\ RevokedOf(u)[d].user = creds[d].user
              /\ RevokedOf(u)[d] = creds[d] \/ RevokedOf(u)[d].state # "LIVE"
              /\ creds[d].user = u => RevokedOf(u)[d].state # "LIVE"
<1>1. \A d \in DOMAIN creds :
        /\ RevokedOf(u)[d] = IF creds[d].user = u THEN Revoked(creds[d]) ELSE creds[d]
        /\ creds[d] \in CredRow
  BY CredFields DEF AuthInv, RevokedOf
<1>2. \A d \in DOMAIN creds :
        /\ RevokedOf(u)[d] \in CredRow
        /\ RevokedOf(u)[d].user = creds[d].user
        /\ RevokedOf(u)[d] = creds[d] \/ RevokedOf(u)[d].state # "LIVE"
        /\ creds[d].user = u => RevokedOf(u)[d].state # "LIVE"
  BY <1>1, RevokedRow
<1>3. DOMAIN RevokedOf(u) = DOMAIN creds
      /\ RevokedOf(u) = [d \in DOMAIN creds |-> RevokedOf(u)[d]]
  BY DEF RevokedOf
<1>4. RevokedOf(u) \in Seq(CredRow)
  BY <1>2, <1>3, CredsAsFunction DEF AuthInv, Types
<1> QED BY <1>2, <1>3, <1>4

LEMMA LogoutAuth ==
  ASSUME AuthInv, NEW c \in DOMAIN creds, Logout(c) PROVE AuthInv'
<1>1. Revoke(c) /\ UNCHANGED <<users, orgs, worker, control, logins, reqs>>
  BY DEF Logout
<1> QED BY <1>1, RevokeKeeps, CredentialStep DEF RequestsEnd, Finish, AuthInv, Types

LEMMA ResolveAuth ==
  ASSUME AuthInv, NEW s \in Slots, NEW c \in DOMAIN creds, Resolved(s, c) PROVE AuthInv'
<1> DEFINE r == [phase |-> "AUTH", cred |-> c, tries |-> 1]
<1>1. r \in ReqRow /\ r.cred = c /\ r.phase = "AUTH"
  BY DEF AuthInv, Types, ReqRow, AuthRow
<1>2. reqs' = [reqs EXCEPT ![s] = r] /\ UNCHANGED <<users, orgs, creds, worker, control, logins>>
  BY DEF Resolved
<1> HIDE DEF r
<1> QED BY <1>1, <1>2, RequestStep, Zenon

\* A request that ends without a change.
LEMMA FinishAuth ==
  ASSUME AuthInv, NEW s \in Slots, Finish(s),
         UNCHANGED <<users, orgs, creds, worker, control, logins>>
  PROVE  AuthInv'
<1>1. Idle \in ReqRow /\ Idle.phase = "IDLE"
  BY DEF ReqRow, Idle
<1> HIDE DEF Idle
<1> QED BY <1>1, RequestStep, Zenon DEF Finish

LEMMA CreateCliTokenAuth ==
  ASSUME AuthInv, NEW s \in Slots, CreateCliToken(s) PROVE AuthInv'
<1>1. reqs[s].cred \in DOMAIN creds
  BY DEF CreateCliToken, AuthInv, RequestsNameCreds
<1>2. Actor(s) \in Users /\ users[Actor(s)].on
  BY <1>1, CredFields DEF CreateCliToken, Revalidated, Live, Actor, AuthInv
<1>3. creds[reqs[s].cred].pw = users[Actor(s)].pw
  BY <1>1 DEF AuthInv, CredentialsCurrent, CredentialCurrent, CreateCliToken, Revalidated,
     Live, Actor
<1>4. PICK scopes \in ScopeSets : Issue("CLI", Actor(s), scopes, users[Actor(s)].pw)
  BY <1>3 DEF CreateCliToken
<1>5. scopes \in SUBSET Scopes
  BY IdentityAssumption
<1>6. reqs' = [reqs EXCEPT ![s] = Idle] /\ UNCHANGED <<users, orgs, worker, control, logins>>
  BY DEF CreateCliToken, Finish
<1> QED BY <1>2, <1>4, <1>5, <1>6, IssueStep, Zenon DEF RequestsEnd, Finish, AuthInv, Types

LEMMA RevokeCliTokenAuth ==
  ASSUME AuthInv, NEW s \in Slots, RevokeCliToken(s) PROVE AuthInv'
<1>1. PICK c \in DOMAIN creds : Revoke(c)
  BY DEF RevokeCliToken
<1>2. reqs' = [reqs EXCEPT ![s] = Idle] /\ UNCHANGED <<users, orgs, worker, control, logins>>
  BY DEF RevokeCliToken, Finish
<1> QED BY <1>1, <1>2, RevokeKeeps, CredentialStep, Zenon DEF RequestsEnd, Finish, AuthInv, Types

\* _authorize has just read that the caller is an enabled administrator.
LEMMA BeginAuth ==
  ASSUME AuthInv, NEW s \in Slots, NEW op \in Ops, Begin(s, op), reqs[s].phase # "IDLE"
  PROVE  AuthInv'
<1> DEFINE r == [phase |-> "ACTOR", cred |-> reqs[s].cred, tries |-> reqs[s].tries, op |-> op]
<1>1. reqs[s] \in ReqRow
  BY DEF AuthInv, Types
<1>2. reqs[s].cred \in Nat /\ reqs[s].tries \in Nat
  BY <1>1 DEF ReqRow, AuthRow, ChangeRow, Idle
<1>3. r \in ReqRow
  BY <1>2 DEF ReqRow, ChangeRow
<1>4. reqs[s].cred \in DOMAIN creds
  BY DEF AuthInv, RequestsNameCreds
<1>5. creds[reqs[s].cred].user \in EnabledAdmins
  BY <1>4, CredFields DEF AuthInv, Begin, Revalidated, Live, RequireAdmin, Principal, EnabledAdmins
<1>6. reqs' = [reqs EXCEPT ![s] = r] /\ UNCHANGED <<users, orgs, creds, worker, control, logins>>
  BY DEF Begin
<1>7. r.cred = reqs[s].cred
  OBVIOUS
<1> HIDE DEF r
<1> QED BY <1>3, <1>4, <1>5, <1>6, <1>7, RequestStep, Zenon

LEMMA LockControlAuth ==
  ASSUME AuthInv, NEW s \in Slots, LockControl(s) PROVE AuthInv'
<1> DEFINE r == [reqs[s] EXCEPT !.phase = "CONTROL"]
<1>1. reqs[s] \in ChangeRow
  BY ChangeFields DEF AuthInv, Types, LockControl
<1>2. r \in ChangeRow /\ r.cred = reqs[s].cred
  BY <1>1 DEF ChangeRow
<1>3. reqs[s].cred \in DOMAIN creds /\ creds[reqs[s].cred].user \in EnabledAdmins
  BY DEF AuthInv, RequestsNameCreds, CallersAdmin, Actor, LockControl
<1>4. reqs' = [reqs EXCEPT ![s] = r] /\ UNCHANGED <<users, orgs, creds, worker, control, logins>>
  BY DEF LockControl
<1> HIDE DEF r
<1> QED BY <1>2, <1>3, <1>4, RequestStep, Zenon DEF ReqRow

LEMMA DeadlockVictimAuth ==
  ASSUME AuthInv, NEW s \in Slots, DeadlockVictim(s) PROVE AuthInv'
<1> DEFINE r == IF reqs[s].tries = MaxTries THEN Idle
                ELSE [reqs[s] EXCEPT !.phase = "RETRY", !.tries = reqs[s].tries + 1]
<1>0. reqs[s].phase \in {"ACTOR", "CONTROL"}
  BY DEF DeadlockVictim, WaitsFor
<1>1. reqs[s] \in ChangeRow
  BY <1>0, ChangeFields DEF AuthInv, Types
<1>2. r \in ReqRow /\ (r = Idle \/ (r.phase = "RETRY" /\ r.cred = reqs[s].cred))
  <2>1. CASE reqs[s].tries = MaxTries
    BY <2>1 DEF ReqRow
  <2>2. CASE reqs[s].tries # MaxTries
    <3> DEFINE q == [reqs[s] EXCEPT !.phase = "RETRY", !.tries = reqs[s].tries + 1]
    <3>1. reqs[s].tries + 1 \in Nat
      BY <1>1 DEF ChangeRow
    <3>2. q \in ChangeRow /\ q.phase = "RETRY" /\ q.cred = reqs[s].cred
      BY <1>1, <3>1, Zenon DEF ChangeRow
    <3> QED BY <2>2, <3>2 DEF ReqRow
  <2> QED BY <2>1, <2>2
<1>3. reqs[s].cred \in DOMAIN creds
  BY <1>0 DEF AuthInv, RequestsNameCreds
<1>4. reqs' = [reqs EXCEPT ![s] = r] /\ UNCHANGED <<users, orgs, creds, worker, control, logins>>
  BY DEF DeadlockVictim
<1>5. r.phase \notin {"ACTOR", "CONTROL"} /\ (r.phase # "IDLE" => r.cred \in DOMAIN creds)
  BY <1>2, <1>3 DEF Idle
<1> HIDE DEF r
<1> QED BY <1>2, <1>4, <1>5, RequestStep, Zenon

\* The operation of a change that commits.
LEMMA CommittedOp ==
  ASSUME AuthInv, NEW s \in Slots, HasLocks(s)
  PROVE  reqs[s].op \in Ops /\ reqs[s].phase \in {"ACTOR", "CONTROL"}
<1>1. reqs[s].phase \in {"ACTOR", "CONTROL"} /\ reqs[s] \in ReqRow
  BY DEF HasLocks, AuthInv, Types
<1> QED BY <1>1, ChangeFields DEF ChangeRow

\* An account that does not exist yet is not the caller of a change.
LEMMA NewAccount ==
  ASSUME AuthInv, NEW u \in Users, users[u].ver = 0
  PROVE  /\ u \notin EnabledAdmins
         /\ \A q \in Slots : reqs[q].phase \in {"ACTOR", "CONTROL"} => Actor(q) # u
         /\ \A c \in DOMAIN creds : creds[c].user = u => creds[c].state # "LIVE"
<1>1. ~users[u].on
  BY DEF AuthInv, NoAccountIsOff
<1>2. u \notin EnabledAdmins
  BY <1>1 DEF EnabledAdmins
<1>3. \A q \in Slots : reqs[q].phase \in {"ACTOR", "CONTROL"} => Actor(q) # u
  BY <1>2 DEF AuthInv, CallersAdmin
<1>4. \A c \in DOMAIN creds : creds[c].user = u => creds[c].state # "LIVE"
  BY <1>1 DEF AuthInv, CredentialsCurrent, CredentialCurrent
<1> QED BY <1>2, <1>3, <1>4

LEMMA BootstrapAdminAuth ==
  ASSUME AuthInv, NEW u \in Users, BootstrapAdmin(u) PROVE AuthInv'
<1> DEFINE row == [ver |-> 1, on |-> TRUE, pw |-> 1, grant |-> "ACTIVE"]
<1>1. row \in UserRow /\ row.ver > 0
  BY DEF UserRow
<1>2. control' \in ControlRow
  BY Zenon DEF AuthInv, Types, ControlRow, BootstrapAdmin
<1>3. users' = [users EXCEPT ![u] = row] /\ UNCHANGED <<orgs, creds, worker, logins, reqs>>
  BY DEF BootstrapAdmin
<1>4. u \in EnabledAdmins'
  BY <1>3 DEF AuthInv, Types, EnabledAdmins, SystemAdmin
<1>5. users[u].ver = 0
  BY DEF BootstrapAdmin
<1>6. \A c \in DOMAIN creds : creds[c].user = u => CredentialCurrent(creds'[c], row)
  BY <1>3, <1>5, NewAccount DEF CredentialCurrent
<1> HIDE DEF row
<1>7. creds' \in Seq(CredRow)
  BY <1>3 DEF AuthInv, Types
<1>8. \A q \in Slots : reqs'[q].phase \in {"ACTOR", "CONTROL"} => Actor(q) # u
  BY <1>3, <1>5, NewAccount
<1> QED BY <1>1, <1>2, <1>3, <1>4, <1>6, <1>7, <1>8, AccountStep, Zenon DEF RequestsEnd, Finish

LEMMA CreateUserAuth ==
  ASSUME AuthInv, NEW s \in Slots, CreateUser(s) PROVE AuthInv'
<1> DEFINE op == reqs[s].op
           u == op.user
           row == [ver |-> 1, on |-> TRUE, pw |-> 1,
                   grant |-> IF op.role = "ADMIN" THEN "ACTIVE" ELSE "NONE"]
<1>0. u \in Users /\ users[u].ver = 0
  BY CommittedOp, AccountOp DEF CreateUser, Commits, Accepted
<1>1. row \in UserRow /\ row.ver > 0
  BY DEF UserRow
<1>3. users' = [users EXCEPT ![u] = row] /\ UNCHANGED <<orgs, creds, worker, control, logins>>
      /\ reqs' = [reqs EXCEPT ![s] = Idle]
  BY DEF CreateUser, Finish
<1>5. \A c \in DOMAIN creds : creds[c].user = u => CredentialCurrent(creds'[c], row)
  BY <1>0, <1>3, NewAccount DEF CredentialCurrent
<1>6. EnabledAdmins \subseteq EnabledAdmins'
  <2>1. \A v \in Users \ {u} : users'[v] = users[v]
    BY <1>3 DEF AuthInv, Types
  <2>2. u \notin EnabledAdmins
    BY <1>0, NewAccount
  <2> QED BY <2>1, <2>2 DEF EnabledAdmins, SystemAdmin
<1> HIDE DEF row
<1>7. creds' \in Seq(CredRow) /\ control' \in ControlRow /\ (control'.closed => EnabledAdmins' # {})
  BY <1>3, <1>6 DEF AuthInv, Types, AdminLeft
<1>8. \A q \in Slots : reqs'[q].phase \in {"ACTOR", "CONTROL"} => Actor(q) # u
  <2>1. \A q \in Slots : reqs'[q] = reqs[q] \/ reqs'[q] = Idle
    BY <1>3 DEF AuthInv, Types
  <2> QED BY <1>0, <2>1, NewAccount DEF Idle
<1> QED BY <1>0, <1>1, <1>3, <1>5, <1>7, <1>8, AccountStep, Zenon DEF RequestsEnd, Finish

\* update_user: what the change leaves of the account and of its credentials, and an
\* administrator who stays.
LEMMA UpdateUserAuth ==
  ASSUME AuthInv, NEW s \in Slots, UpdateUser(s) PROVE AuthInv'
<1> DEFINE op == reqs[s].op
           u == op.user
           row == [ver |-> users[u].ver + 1, on |-> DesiredEnabled(op),
                   pw |-> IF op.change.pw THEN users[u].pw + 1 ELSE users[u].pw,
                   grant |-> CASE DesiredAdmin(op) -> "ACTIVE"
                               [] SystemAdmin(u) /\ ~DesiredAdmin(op) -> "REVOKED"
                               [] OTHER -> users[u].grant]
<1>0. u \in Users /\ op.change \in AccountChange /\ HasLocks(s) /\ AdminStays(op)
  BY CommittedOp, AccountOp DEF UpdateUser, Commits, Accepted
<1>1. users[u] \in UserRow
  BY <1>0 DEF AuthInv, Types
<1>2. DesiredEnabled(op) \in BOOLEAN /\ DesiredAdmin(op) \in BOOLEAN
  BY <1>0, <1>1, Zenon DEF DesiredEnabled, DesiredAdmin, SystemAdmin, UserRow, AccountChange
<1>3. row \in UserRow /\ row.ver > 0
  BY <1>0, <1>1, <1>2 DEF UserRow, AccountChange
<1>g. row.on = DesiredEnabled(op) /\ (row.grant = "ACTIVE") = DesiredAdmin(op)
  BY <1>2 DEF SystemAdmin
<1>p. ~op.change.pw => row.pw = users[u].pw
  OBVIOUS
<1>4. users' = [users EXCEPT ![u] = row] /\ UNCHANGED <<orgs, worker, control, logins>>
      /\ reqs' = [reqs EXCEPT ![s] = Idle]
      /\ creds' = IF EndsCredentials(op) THEN RevokedOf(u) ELSE creds
  BY DEF UpdateUser, Finish
<1> HIDE DEF row
<1>5. \A v \in Users : users'[v] = IF v = u THEN row ELSE users[v]
  BY <1>4 DEF AuthInv, Types
<1>6. control'.closed => EnabledAdmins' # {}
  <2> SUFFICES ASSUME EnabledAdmins # {} PROVE EnabledAdmins' # {}
    BY <1>4 DEF AuthInv, AdminLeft
  <2>1. \A v \in EnabledAdmins \ {u} : v \in EnabledAdmins'
    BY <1>5 DEF EnabledAdmins, SystemAdmin
  <2>2. DesiredAdmin(op) /\ DesiredEnabled(op) => u \in EnabledAdmins'
    BY <1>0, <1>5, <1>g, Zenon DEF EnabledAdmins, SystemAdmin
  <2>3. u \in EnabledAdmins /\ ~(DesiredAdmin(op) /\ DesiredEnabled(op)) => EnabledAdmins \ {u} # {}
    BY <1>0 DEF AdminStays
  <2> QED BY <2>1, <2>2, <2>3
<1>7. \A q \in Slots : reqs'[q].phase \in {"ACTOR", "CONTROL"} => Actor(q) # u
  <2> SUFFICES ASSUME NEW q \in Slots, reqs'[q].phase \in {"ACTOR", "CONTROL"}, Actor(q) = u
               PROVE  FALSE
    OBVIOUS
  <2>1. q # s /\ reqs'[q] = reqs[q]
    BY <1>4 DEF AuthInv, Types, Idle
  <2>2. reqs[s].phase = "CONTROL"
    BY <1>0, CommittedOp DEF HasLocks, TakesControl, UpdateUser, Commits
  <2>3. RowHolders(u) \ {s} = {}
    BY <1>0, <2>2 DEF HasLocks, WaitsFor
  <2> QED BY <2>1, <2>3 DEF RowHolders
<1>8. /\ creds' \in Seq(CredRow) /\ DOMAIN creds' = DOMAIN creds
      /\ \A c \in DOMAIN creds :
           /\ creds'[c].user = creds[c].user
           /\ creds'[c] = creds[c] \/ creds'[c].state # "LIVE"
  BY <1>4, RevokedOfKeeps DEF AuthInv, Types
<1>9. ASSUME NEW c \in DOMAIN creds, creds[c].user = u PROVE CredentialCurrent(creds'[c], row)
  <2>1. CASE EndsCredentials(op)
    BY <1>4, <1>9, <2>1, RevokedOfKeeps DEF CredentialCurrent
  <2>2. CASE ~EndsCredentials(op)
    <3>1. creds'[c] = creds[c] /\ CredentialCurrent(creds[c], users[u])
      BY <1>4, <1>9, <2>2 DEF AuthInv, CredentialsCurrent
    <3>2. row.pw = users[u].pw /\ op.change.on # "OFF" /\ DesiredAdmin(op) = SystemAdmin(u)
      BY <1>p, <2>2 DEF EndsCredentials
    <3>3. users[u].on => row.on
      BY <1>0, <1>g, <3>2, Zenon DEF DesiredEnabled, AccountChange
    <3> QED BY <1>g, <3>1, <3>2, <3>3 DEF CredentialCurrent, SystemAdmin
  <2> QED BY <2>1, <2>2
<1>t. control' \in ControlRow
  BY <1>4 DEF AuthInv, Types
<1> QED BY <1>0, <1>3, <1>4, <1>6, <1>7, <1>8, <1>9, <1>t, AccountStep, Zenon DEF RequestsEnd, Finish

\* Steps that change the tenants' rows only, and end the request.
LEMMA TenantAuth ==
  ASSUME AuthInv, NEW s \in Slots, Finish(s), orgs' \in [Tenants -> OrgRow],
         UNCHANGED <<users, creds, worker, control, logins>>
  PROVE  AuthInv'
<1>1. creds' \in Seq(CredRow)
  BY DEF AuthInv, Types
<1> QED BY <1>1, CredentialStep, Zenon DEF RequestsEnd, Finish

LEMMA CreateTenantAuth ==
  ASSUME AuthInv, NEW s \in Slots, CreateTenant(s) PROVE AuthInv'
<1> DEFINE t == reqs[s].op.tenant
           row == [orgs[t] EXCEPT !.ver = 1, !.on = TRUE, !.members = 1]
<1>0. t \in Tenants
  BY CommittedOp, AccountOp, Zenon DEF CreateTenant, Commits
<1>1. orgs[t] \in OrgRow
  BY <1>0 DEF AuthInv, Types
<1>2. row \in OrgRow
  BY <1>1, Zenon DEF OrgRow
<1>3. orgs' = [orgs EXCEPT ![t] = row]
  BY <1>0, Zenon DEF CreateTenant, AuthInv, Types
<1>4. orgs' \in [Tenants -> OrgRow]
  BY <1>0, <1>2, <1>3 DEF AuthInv, Types
<1> QED BY <1>4, TenantAuth, Zenon DEF CreateTenant

LEMMA UpdateTenantAuth ==
  ASSUME AuthInv, NEW s \in Slots, UpdateTenant(s) PROVE AuthInv'
<1> DEFINE t == reqs[s].op.tenant
<1>0. t \in Tenants
  BY CommittedOp, AccountOp DEF UpdateTenant, Commits
<1>1. orgs[t] \in OrgRow
  BY <1>0 DEF AuthInv, Types
<1>2. PICK on \in BOOLEAN :
        orgs' = [orgs EXCEPT ![t] = [orgs[t] EXCEPT !.ver = orgs[t].ver + 1, !.on = on]]
  BY <1>0, Zenon DEF UpdateTenant, AuthInv, Types
<1>3. orgs[t].ver + 1 \in Nat
  BY <1>1 DEF OrgRow
<1>4. [orgs[t] EXCEPT !.ver = orgs[t].ver + 1, !.on = on] \in OrgRow
  BY <1>1, <1>3, Zenon DEF OrgRow
<1>5. orgs' \in [Tenants -> OrgRow]
  BY <1>0, <1>2, <1>4 DEF AuthInv, Types
<1> QED BY <1>5, TenantAuth, Zenon DEF UpdateTenant

\* A change of a membership ends the member's credentials.
LEMMA SetMembershipAuth ==
  ASSUME AuthInv, NEW s \in Slots, NEW role \in {"NONE", "MEMBER"}, SetMembership(s, role),
         HasLocks(s), reqs[s].op.name \in {"upsert_membership", "delete_membership"}
  PROVE  AuthInv'
<1> DEFINE op == reqs[s].op
           t == op.tenant
           roles == [orgs[t].role EXCEPT ![op.user] = role]
           row == [orgs[t] EXCEPT !.members = orgs[t].members + 1, !.role = roles]
<1>0. t \in Tenants /\ op.user \in Users
  BY CommittedOp, AccountOp
<1>1. orgs[t] \in OrgRow
  BY <1>0 DEF AuthInv, Types
<1>2. roles \in [Users -> {"NONE", "MEMBER"}] /\ orgs[t].members + 1 \in Nat
  BY <1>0, <1>1 DEF OrgRow
<1>3. row \in OrgRow
  BY <1>1, <1>2, Zenon DEF OrgRow
<1>4. orgs' = [orgs EXCEPT ![t] = row]
  BY <1>0, <1>1, Zenon DEF SetMembership, AuthInv, Types, OrgRow
<1>5. orgs' \in [Tenants -> OrgRow]
  BY <1>0, <1>3, <1>4 DEF AuthInv, Types
<1>6. creds' = RevokedOf(op.user) /\ reqs' = [reqs EXCEPT ![s] = Idle]
      /\ UNCHANGED <<users, worker, control, logins>>
  BY DEF SetMembership, Finish
<1>7. /\ creds' \in Seq(CredRow) /\ DOMAIN creds' = DOMAIN creds
      /\ \A c \in DOMAIN creds :
           \/ creds'[c] = creds[c]
           \/ creds'[c].user = creds[c].user /\ creds'[c].state # "LIVE"
  BY <1>6, RevokedOfKeeps
<1> QED BY <1>5, <1>6, <1>7, CredentialStep, Zenon DEF RequestsEnd, Finish

\* Time ends credentials and windows; it starts none.
LEMMA ExpireAuth == ASSUME AuthInv, Expire PROVE AuthInv'
<1>u. UNCHANGED <<users, orgs, logins, reqs>>
  BY DEF Expire
<1>1. ASSUME NEW c \in DOMAIN creds, creds' = [creds EXCEPT ![c].state = "EXPIRED"],
             UNCHANGED <<worker, control>>
      PROVE  AuthInv'
  <2> DEFINE row == [creds[c] EXCEPT !.state = "EXPIRED"]
  <2>1. creds[c] \in CredRow
    BY CredFields DEF AuthInv
  <2>2. row \in CredRow /\ row.user = creds[c].user /\ row.state = "EXPIRED"
    BY <2>1 DEF CredRow, States
  <2>3. creds' = [creds EXCEPT ![c] = row]
    BY <1>1 DEF AuthInv, Types
  <2> HIDE DEF row
  <2>4. /\ creds' \in Seq(CredRow) /\ DOMAIN creds' = DOMAIN creds
        /\ \A d \in DOMAIN creds :
             \/ creds'[d] = creds[d]
             \/ creds'[d].user = creds[d].user /\ creds'[d].state # "LIVE"
    BY <2>2, <2>3 DEF AuthInv, Types
  <2> QED BY <1>1, <1>u, <2>4, CredentialStep DEF RequestsEnd, Finish, AuthInv, Types
<1>2. ASSUME NEW i \in DOMAIN worker, worker' = [worker EXCEPT ![i].state = "EXPIRED"],
             UNCHANGED <<creds, control>>
      PROVE  AuthInv'
  <2>0. worker \in Seq([state: States])
    BY DEF AuthInv, Types
  <2>1. worker[i] \in [state: States]
    BY <2>0, ElementOfSeq, Zenon
  <2> DEFINE row == [worker[i] EXCEPT !.state = "EXPIRED"]
  <2>2. row \in [state: States] /\ row.state = "EXPIRED"
    BY <2>1 DEF States
  <2>3. worker' = [worker EXCEPT ![i] = row]
    BY <1>2, <2>0
  <2> HIDE DEF row
  <2>4. /\ worker' \in Seq([state: States]) /\ DOMAIN worker' = DOMAIN worker
        /\ \A k \in DOMAIN worker : worker'[k].state = "LIVE" => worker[k].state = "LIVE"
    BY <2>0, <2>2, <2>3
  <2>5. OneWorkerCredential'
    BY <2>4 DEF AuthInv, OneWorkerCredential
  <2> QED BY <1>2, <1>u, <2>4, <2>5, OutsideAuth DEF AuthInv, Types
<1>3. ASSUME NEW w \in {"admin", "worker"}, control' = [control EXCEPT ![w] = FALSE],
             UNCHANGED <<creds, worker>>
      PROVE  AuthInv'
  <2>1. control' \in ControlRow /\ control'.closed = control.closed
    BY <1>3, Zenon DEF AuthInv, Types, ControlRow
  <2> QED BY <1>3, <1>u, <2>1, OutsideBoth DEF AuthInv, Types
<1>4. ASSUME UNCHANGED <<creds, worker, control>> PROVE AuthInv'
  BY <1>4, <1>u, OutsideBoth DEF AuthInv, Types
<1> QED BY <1>1, <1>2, <1>3, <1>4, Zenon DEF Expire

\* Everything a request being served does.
LEMMA ServeAuth == ASSUME AuthInv, NEW s \in Slots, Serve(s) PROVE AuthInv'
<1>1. ASSUME EndRequest(s) \/ ChangeRefused(s) PROVE AuthInv'
  BY <1>1, FinishAuth DEF EndRequest, ChangeRefused
<1>2. ASSUME BeginChange(s) PROVE AuthInv'
  BY <1>2, BeginAuth, OperationsAreOps DEF BeginChange, AuthInv
<1>3. ASSUME Retry(s) PROVE AuthInv'
  <2>1. reqs[s] \in ChangeRow
    BY <1>3, ChangeFields DEF Retry, AuthInv, Types
  <2> QED BY <1>3, <2>1, BeginAuth DEF Retry, ChangeRow
<1>4. ASSUME UpsertMembership(s) \/ DeleteMembership(s) PROVE AuthInv'
  BY <1>4, SetMembershipAuth DEF UpsertMembership, DeleteMembership, Commits
<1> QED BY <1>1, <1>2, <1>3, <1>4, CreateCliTokenAuth, RevokeCliTokenAuth, LockControlAuth,
           CreateUserAuth, UpdateUserAuth, CreateTenantAuth, UpdateTenantAuth,
           DeadlockVictimAuth DEF Serve

\* Every step preserves the invariant.
LEMMA NextAuth == AuthInv /\ [Next]_vars => AuthInv'
<1> SUFFICES ASSUME AuthInv, [Next]_vars PROVE AuthInv'
  OBVIOUS
<1>1. ASSUME UNCHANGED vars PROVE AuthInv'
  BY <1>1, OutsideBoth DEF vars, AuthInv, Types
<1>2. ASSUME NEW s \in Slots, NEW c \in DOMAIN creds,
             ResolveBrowserSession(s, c) \/ ResolveCliToken(s, c)
      PROVE  AuthInv'
  BY <1>2, ResolveAuth DEF ResolveBrowserSession, ResolveCliToken
<1> QED BY <1>1, <1>2, InitializeAuth, BootstrapWorkerAuth, ReopenAuth, BootstrapAdminAuth,
           RecordLoginAuth, CreateSessionAuth, LoginRefusedAuth, LogoutAuth, ServeAuth,
           ExpireAuth, ChangeModeAuth DEF Next

INSTANCE FiniteSetTheorems

\* A set without two elements.
LEMMA AtMostOne ==
  ASSUME NEW S, \A x, y \in S : x = y
  PROVE  Cardinality(S) <= 1
<1>1. CASE S = {}
  BY <1>1, FS_EmptySet
<1>2. ASSUME NEW x \in S PROVE Cardinality(S) <= 1
  <2>1. S = {x}
    BY <1>2
  <2> QED BY <2>1, FS_Singleton
<1> QED BY <1>1, <1>2

\* Authority is always current, whatever logins, changes of accounts, roles and
\* memberships, retries, expiries and bootstraps interleave: an administrator is left,
\* every live session or token was obtained with today's password and role, the worker
\* has one credential, and an administrative change is made by an enabled administrator
\* (login, create_cli_token, update_user, bootstrap_worker, _revalidate_principal).
THEOREM AuthorityIsCurrent == Spec => []AuthorityCurrent
<1>1. AuthInv => AuthorityCurrent
  <2> SUFFICES ASSUME AuthInv PROVE AuthorityCurrent
    OBVIOUS
  <2>1. Cardinality({i \in DOMAIN worker : WorkerCredentialLive(i)}) <= 1
    BY AtMostOne DEF AuthInv, OneWorkerCredential, WorkerCredentialLive
  <2>2. \A c \in DOMAIN creds :
          creds[c].state = "LIVE" =>
            /\ users[creds[c].user].on /\ creds[c].pw = users[creds[c].user].pw
            /\ creds[c].admin = SystemAdmin(creds[c].user)
    BY DEF AuthInv, CredentialsCurrent, CredentialCurrent, SystemAdmin
  <2> QED BY <2>1, <2>2 DEF AuthInv, AuthorityCurrent, AdminLeft, CallersAdmin
<1> QED BY <1>1, InitAuth, NextAuth, PTL DEF Spec
=============================================================================
