------------------------------- MODULE Identity -------------------------------
(***************************************************************************)
(* Accounts, roles, tenants, browser sessions, CLI tokens and the worker's *)
(* credential: IdentityService (application/identity_service.py) and       *)
(* AdminService (application/admin_service.py).                            *)
(*                                                                         *)
(* A request is authenticated in one transaction and acts in a second one, *)
(* which reads the credential, the user and the roles again.  An           *)
(* administrative change is one transaction, but it takes its row locks    *)
(* one after the other, and two of them may wait for each other:           *)
(*   the rows of the acting credential and user (_revalidate_principal),   *)
(*   the auth_control row (create_user and update_user only),              *)
(*   the target user's row, or the rows of its credentials.                *)
(* PostgreSQL aborts one of them, and run_transaction tries it again.      *)
(* A login verifies the password between its two transactions.             *)
(*                                                                         *)
(* A request that is refused changes nothing, and neither does a replay of *)
(* an idempotency key (module Submission) or a read.                       *)
(***************************************************************************)
EXTENDS Naturals, Sequences, FiniteSets

CONSTANTS
  Users,       \* user names
  Tenants,     \* tenant slugs
  Slots,       \* requests served at the same time
  Changes,     \* what an update_user request may change, a subset of AccountChange
  ScopeSets,   \* the scope sets a token may be requested with
  LoginRate,   \* login_rate_per_minute
  MaxBuckets,  \* _LOGIN_RATE_MAX_BUCKETS
  MaxTries,    \* max_attempts of run_transaction
  MaxVersion,  \* bound of the row versions
  MaxCreds,    \* bound of the sessions and tokens
  MaxEvents    \* bound of the expiries, mode changes and worker bootstraps

Scopes == {"tokens", "tenant", "admin:read", "admin:write"}

AccountChange ==
  [pw: BOOLEAN, on: {"SAME", "ON", "OFF"}, role: {"SAME", "ADMIN", "NONE"}]

ASSUME IdentityAssumption ==
  /\ Changes \subseteq AccountChange
  /\ ScopeSets \subseteq (SUBSET Scopes \ {{}})
  /\ LoginRate \in Nat \ {0} /\ MaxBuckets \in Nat \ {0} /\ MaxTries \in Nat \ {0}
  /\ MaxVersion \in Nat /\ MaxCreds \in Nat /\ MaxEvents \in Nat

VARIABLES
  users,    \* users and system_role_grants rows; ver = 0: no row
  orgs,     \* tenants, membership_sets and memberships rows; ver = 0: no row
  creds,    \* browser_sessions and cli_tokens, in the order of their creation
  worker,   \* worker_credentials of the local worker
  control,  \* the auth_control row
  mode,     \* operational_mode of the current policy
  rate,     \* login_rate_limits: attempts of the window, and whether it is open
  logins,   \* the user row a login has observed, before its session is created
  reqs,     \* the requests being served
  left      \* what the environment may still do

vars == <<users, orgs, creds, worker, control, mode, rate, logins, reqs, left>>

Idle == [phase |-> "IDLE"]
NoLogin == [on |-> FALSE, pw |-> 0]

Init ==
  /\ users = [u \in Users |-> [ver |-> 0, on |-> FALSE, pw |-> 0, grant |-> "NONE"]]
  /\ orgs = [t \in Tenants |-> [ver |-> 0, on |-> FALSE, members |-> 0,
                                role |-> [u \in Users |-> "NONE"]]]
  /\ creds = <<>> /\ worker = <<>>
  /\ control = [installed |-> FALSE, closed |-> FALSE, admin |-> FALSE, worker |-> FALSE]
  /\ mode = "NORMAL"
  /\ rate = [u \in Users |-> [n |-> 0, open |-> FALSE]]
  /\ logins = [u \in Users |-> NoLogin]
  /\ reqs = [s \in Slots |-> Idle]
  /\ left = MaxEvents

-----------------------------------------------------------------------------
(* Principals *)

SystemAdmin(u) == users[u].grant = "ACTIVE"

EnabledAdmins == {u \in Users : users[u].on /\ SystemAdmin(u)}

Member(u) == \E t \in Tenants : orgs[t].on /\ orgs[t].role[u] # "NONE"

\* A session or token that is neither revoked nor expired, of an enabled user.
Live(c) == creds[c].state = "LIVE" /\ users[creds[c].user].on

\* _revalidate_principal: everything is read again, whatever the request was
\* authenticated with.
Principal(c) ==
  LET u == creds[c].user IN
  [user |-> u, kind |-> creds[c].kind, scopes |-> creds[c].scopes,
   member |-> Member(u), admin |-> SystemAdmin(u)]

RequireAdmin(p) == p.admin /\ (p.kind = "BROWSER" \/ "admin:write" \in p.scopes)

\* A token needs the scope tokens:write to list or revoke tokens.
MayWriteTokens(p) == p.kind = "BROWSER" \/ "tokens" \in p.scopes

\* validate_requested_token_scopes
AllowedScopes(p) ==
  IF p.kind = "CLI" THEN IF "tokens" \in p.scopes THEN p.scopes ELSE {}
  ELSE {"tokens"} \cup (IF p.member THEN {"tenant"} ELSE {})
                  \cup (IF p.admin THEN {"admin:read", "admin:write"} ELSE {})

-----------------------------------------------------------------------------
(* Row locks of the administrative transactions in progress *)

Actor(s) == creds[reqs[s].cred].user

\* Who has locked the rows of user u and of its credentials.
RowHolders(u) ==
  {r \in Slots : reqs[r].phase \in {"ACTOR", "CONTROL"} /\ Actor(r) = u}

\* Who has locked the auth_control row.
ControlHolders == {r \in Slots : reqs[r].phase = "CONTROL"}

TakesControl(op) == op.name \in {"create_user", "update_user"}

\* Who the transaction of s waits for: the holder of the auth_control row, then the
\* holders of the target user's rows.
WaitsFor(s) ==
  CASE reqs[s].phase = "ACTOR" /\ TakesControl(reqs[s].op) -> ControlHolders \ {s}
    [] reqs[s].phase = "ACTOR" /\ ~TakesControl(reqs[s].op) -> RowHolders(reqs[s].op.user) \ {s}
    [] reqs[s].phase = "CONTROL" -> RowHolders(reqs[s].op.user) \ {s}
    [] OTHER -> {}

Finish(s) == reqs' = [reqs EXCEPT ![s] = Idle]

-----------------------------------------------------------------------------
(* Installation and bootstrap *)

\* initialize: the first start opens the two bootstrap windows; a later start only
\* compares the configured identity.
Initialize ==
  /\ ~control.installed /\ mode # "WRITE_FROZEN"
  /\ control' = [control EXCEPT !.installed = TRUE, !.admin = TRUE, !.worker = TRUE]
  /\ UNCHANGED <<users, orgs, creds, worker, mode, rate, logins, reqs, left>>

\* bootstrap_admin: once, while the window is open and no administrator is enabled.
BootstrapAdmin(u) ==
  /\ mode # "WRITE_FROZEN" /\ ControlHolders = {}
  /\ ~control.closed /\ control.admin
  /\ EnabledAdmins = {}
  /\ users[u].ver = 0
  /\ users' = [users EXCEPT ![u] = [ver |-> 1, on |-> TRUE, pw |-> 1, grant |-> "ACTIVE"]]
  /\ control' = [control EXCEPT !.closed = TRUE]
  /\ UNCHANGED <<orgs, creds, worker, mode, rate, logins, reqs, left>>

Revoked(row) == [row EXCEPT !.state = IF @ = "EXPIRED" THEN @ ELSE "REVOKED"]

\* bootstrap_worker: a new credential for the local worker; the one before is revoked.
BootstrapWorker ==
  /\ mode # "WRITE_FROZEN" /\ ControlHolders = {}
  /\ control.installed /\ control.worker
  /\ left > 0 /\ left' = left - 1
  /\ worker' = Append([i \in DOMAIN worker |-> Revoked(worker[i])], [state |-> "LIVE"])
  /\ UNCHANGED <<users, orgs, creds, control, mode, rate, logins, reqs>>

\* reopen_worker_bootstrap_window
ReopenWorkerWindow ==
  /\ mode # "WRITE_FROZEN" /\ ControlHolders = {}
  /\ control.installed /\ ~control.worker
  /\ control' = [control EXCEPT !.worker = TRUE]
  /\ UNCHANGED <<users, orgs, creds, worker, mode, rate, logins, reqs, left>>

-----------------------------------------------------------------------------
(* Sessions and tokens *)

\* The rate limit of _record_login_attempt: a bucket per user name (and source).
Attempted(u) ==
  LET b == rate[u]
      full == Cardinality({v \in Users : rate[v].n > 0}) >= MaxBuckets
  IN CASE b.n = 0 /\ ~full -> {[n |-> 1, open |-> TRUE]}
       [] b.n > 0 /\ ~b.open -> {[n |-> 1, open |-> TRUE]}
       [] b.n > 0 /\ b.open /\ b.n < LoginRate -> {[b EXCEPT !.n = @ + 1]}
       [] OTHER -> {}

\* _record_login_attempt: the attempt is counted and the user's row observed.  While
\* writes are frozen only an enabled administrator gets that far.  The password is
\* then verified against the observed row: a login that goes on has the right one.
RecordLoginAttempt(u) ==
  /\ logins[u] = NoLogin
  /\ mode = "WRITE_FROZEN" => u \in EnabledAdmins /\ RowHolders(u) = {}
  /\ \E b \in Attempted(u) : rate' = [rate EXCEPT ![u] = b]
  /\ logins' = [logins EXCEPT ![u] = [on |-> users[u].on, pw |-> users[u].pw]]
  /\ UNCHANGED <<users, orgs, creds, worker, control, mode, reqs, left>>

\* A new row records, for the properties, the password its holder proved to know
\* and the role the user had.
Issue(kind, u, scopes, pw) ==
  creds' = Append(creds, [kind |-> kind, user |-> u, scopes |-> scopes, state |-> "LIVE",
                          pw |-> pw, admin |-> SystemAdmin(u)])

\* Mutant: the password is not compared again when the session is created.
StillEnabled(u) == users[u].on

\* login's second transaction: the row is the one whose password was verified.
StillTheUser(u) == users[u].on /\ users[u].pw = logins[u].pw

\* login
CreateSession(u) ==
  /\ logins[u].on /\ RowHolders(u) = {}
  /\ StillTheUser(u)
  /\ mode = "WRITE_FROZEN" => SystemAdmin(u)
  /\ Len(creds) < MaxCreds
  /\ Issue("BROWSER", u, {}, logins[u].pw)
  /\ logins' = [logins EXCEPT ![u] = NoLogin]
  /\ UNCHANGED <<users, orgs, worker, control, mode, rate, reqs, left>>

\* The wrong password, an unknown or disabled user, or a row that has changed.
LoginRefused(u) ==
  /\ logins[u] # NoLogin
  /\ logins' = [logins EXCEPT ![u] = NoLogin]
  /\ UNCHANGED <<users, orgs, creds, worker, control, mode, rate, reqs, left>>

Revoke(c) == creds' = [creds EXCEPT ![c] = Revoked(@)]

\* logout
Logout(c) ==
  /\ creds[c].kind = "BROWSER" /\ Live(c) /\ RowHolders(creds[c].user) = {}
  /\ mode = "WRITE_FROZEN" => SystemAdmin(creds[c].user)
  /\ Revoke(c)
  /\ UNCHANGED <<users, orgs, worker, control, mode, rate, logins, reqs, left>>

\* The first transaction of a request, on a row that nobody has locked.
Resolved(s, c) ==
  /\ reqs[s].phase = "IDLE" /\ Live(c) /\ RowHolders(creds[c].user) = {}
  /\ reqs' = [reqs EXCEPT ![s] = [phase |-> "AUTH", cred |-> c, tries |-> 1]]
  /\ UNCHANGED <<users, orgs, creds, worker, control, mode, rate, logins, left>>

\* resolve_browser_session
ResolveBrowserSession(s, c) ==
  /\ creds[c].kind = "BROWSER"
  /\ mode = "WRITE_FROZEN" => SystemAdmin(creds[c].user)
  /\ Resolved(s, c)

\* resolve_cli_token
ResolveCliToken(s, c) == creds[c].kind = "CLI" /\ Resolved(s, c)

\* The second transaction of the request in slot s reads its credential again.
Revalidated(s) == Live(reqs[s].cred) /\ RowHolders(Actor(s)) \subseteq {s}

\* create_cli_token
CreateCliToken(s) ==
  /\ reqs[s].phase = "AUTH" /\ Revalidated(s) /\ mode # "WRITE_FROZEN"
  /\ Len(creds) < MaxCreds
  /\ \E scopes \in ScopeSets :
       /\ scopes \subseteq AllowedScopes(Principal(reqs[s].cred))
       /\ Issue("CLI", Actor(s), scopes, creds[reqs[s].cred].pw)
  /\ Finish(s)
  /\ UNCHANGED <<users, orgs, worker, control, mode, rate, logins, left>>

\* revoke_cli_token: of the caller's own tokens.
RevokeCliToken(s) ==
  /\ reqs[s].phase = "AUTH" /\ Revalidated(s) /\ mode # "WRITE_FROZEN"
  /\ MayWriteTokens(Principal(reqs[s].cred))
  /\ \E c \in DOMAIN creds :
       /\ creds[c].kind = "CLI" /\ creds[c].user = Actor(s)
       /\ Revoke(c)
  /\ Finish(s)
  /\ UNCHANGED <<users, orgs, worker, control, mode, rate, logins, left>>

\* A read, or any request that is refused before it has taken a lock.
EndRequest(s) ==
  /\ reqs[s].phase = "AUTH"
  /\ Finish(s)
  /\ UNCHANGED <<users, orgs, creds, worker, control, mode, rate, logins, left>>

-----------------------------------------------------------------------------
(* Administration *)

\* The changes a request may ask for; If-Match names the version the caller has read.
Operations ==
  [name: {"create_user"}, user: {u \in Users : users[u].ver = 0}, role: {"ADMIN", "NONE"}]
  \cup {[name |-> "update_user", user |-> u, ver |-> users[u].ver, change |-> ch] :
          u \in {v \in Users : users[v].ver \in 1 .. MaxVersion - 1}, ch \in Changes}
  \cup {[name |-> "create_tenant", user |-> "NONE", tenant |-> t] :
          t \in {r \in Tenants : orgs[r].ver = 0}}
  \cup {[name |-> "update_tenant", user |-> "NONE", tenant |-> t, ver |-> orgs[t].ver] :
          t \in {r \in Tenants : orgs[r].ver \in 1 .. MaxVersion - 1}}
  \cup {[name |-> name, user |-> u, tenant |-> t, ver |-> orgs[t].members] :
          name \in {"upsert_membership", "delete_membership"},
          u \in {v \in Users : users[v].ver > 0},
          t \in {r \in Tenants : orgs[r].members \in 1 .. MaxVersion - 1}}

\* _authorize, begin_idempotency and _ensure_mutable of every administrative change:
\* the rows of the acting credential and user stay locked.
Begin(s, op) ==
  /\ Revalidated(s) /\ mode # "WRITE_FROZEN"
  /\ RequireAdmin(Principal(reqs[s].cred))
  /\ reqs' = [reqs EXCEPT ![s] = [phase |-> "ACTOR", cred |-> @.cred, tries |-> @.tries,
                                  op |-> op]]
  /\ UNCHANGED <<users, orgs, creds, worker, control, mode, rate, logins, left>>

BeginChange(s) == reqs[s].phase = "AUTH" /\ \E op \in Operations : Begin(s, op)

\* run_transaction runs the operation again from its start.
Retry(s) == reqs[s].phase = "RETRY" /\ Begin(s, reqs[s].op)

\* create_user and update_user lock the auth_control row.
LockControl(s) ==
  /\ reqs[s].phase = "ACTOR" /\ TakesControl(reqs[s].op)
  /\ ControlHolders = {}
  /\ reqs' = [reqs EXCEPT ![s].phase = "CONTROL"]
  /\ UNCHANGED <<users, orgs, creds, worker, control, mode, rate, logins, left>>

\* The transaction of s has all its locks.
HasLocks(s) ==
  /\ reqs[s].phase \in {"ACTOR", "CONTROL"}
  /\ (reqs[s].phase = "CONTROL") = TakesControl(reqs[s].op)
  /\ WaitsFor(s) = {}

\* revoke_user_credentials
RevokedOf(u) ==
  [c \in DOMAIN creds |-> IF creds[c].user = u THEN Revoked(creds[c]) ELSE creds[c]]

\* The role and the state an update asks for.
DesiredAdmin(op) ==
  IF op.change.role = "SAME" THEN SystemAdmin(op.user) ELSE op.change.role = "ADMIN"

DesiredEnabled(op) ==
  IF op.change.on = "SAME" THEN users[op.user].on ELSE op.change.on = "ON"

\* The last enabled administrator is neither disabled nor demoted.
AdminStays(op) ==
  op.user \in EnabledAdmins /\ ~(DesiredAdmin(op) /\ DesiredEnabled(op))
    => EnabledAdmins \ {op.user} # {}

\* A new password, a disabled account or another role ends the user's credentials.
EndsCredentials(op) ==
  op.change.pw \/ op.change.on = "OFF" \/ DesiredAdmin(op) # SystemAdmin(op.user)

\* What a change checks once it has its locks: a name that is taken is an
\* IntegrityError, If-Match is compared with the version of the row, and only an
\* existing membership is deleted.
Accepted(op) ==
  CASE op.name = "create_user" -> users[op.user].ver = 0
    [] op.name = "update_user" -> users[op.user].ver = op.ver /\ AdminStays(op)
    [] op.name = "create_tenant" -> orgs[op.tenant].ver = 0
    [] op.name = "update_tenant" -> orgs[op.tenant].ver = op.ver
    [] op.name = "upsert_membership" -> orgs[op.tenant].members = op.ver
    [] op.name = "delete_membership" ->
         orgs[op.tenant].members = op.ver /\ orgs[op.tenant].role[op.user] # "NONE"

Commits(s, name) == HasLocks(s) /\ reqs[s].op.name = name /\ Accepted(reqs[s].op)

\* create_user
CreateUser(s) ==
  LET op == reqs[s].op IN
  /\ Commits(s, "create_user")
  /\ users' = [users EXCEPT ![op.user] =
                 [ver |-> 1, on |-> TRUE, pw |-> 1,
                  grant |-> IF op.role = "ADMIN" THEN "ACTIVE" ELSE "NONE"]]
  /\ Finish(s)
  /\ UNCHANGED <<orgs, creds, worker, control, mode, rate, logins, left>>

\* update_user
UpdateUser(s) ==
  LET op == reqs[s].op
      row == users[op.user]
  IN
  /\ Commits(s, "update_user")
  /\ users' = [users EXCEPT ![op.user] =
                 [ver |-> row.ver + 1, on |-> DesiredEnabled(op),
                  pw |-> IF op.change.pw THEN row.pw + 1 ELSE row.pw,
                  grant |-> CASE DesiredAdmin(op) -> "ACTIVE"
                              [] SystemAdmin(op.user) /\ ~DesiredAdmin(op) -> "REVOKED"
                              [] OTHER -> row.grant]]
  /\ creds' = IF EndsCredentials(op) THEN RevokedOf(op.user) ELSE creds
  /\ Finish(s)
  /\ UNCHANGED <<orgs, worker, control, mode, rate, logins, left>>

\* create_tenant: with its membership set and a policy without capacity.
CreateTenant(s) ==
  LET t == reqs[s].op.tenant IN
  /\ Commits(s, "create_tenant")
  /\ orgs' = [orgs EXCEPT ![t].ver = 1, ![t].on = TRUE, ![t].members = 1]
  /\ Finish(s)
  /\ UNCHANGED <<users, creds, worker, control, mode, rate, logins, left>>

\* update_tenant: a disabled tenant keeps its members, who lose their authority in it.
UpdateTenant(s) ==
  LET op == reqs[s].op IN
  /\ Commits(s, "update_tenant")
  /\ \E on \in BOOLEAN :
       orgs' = [orgs EXCEPT ![op.tenant].ver = @ + 1, ![op.tenant].on = on]
  /\ Finish(s)
  /\ UNCHANGED <<users, creds, worker, control, mode, rate, logins, left>>

\* The membership and its set's version change, and the member's credentials end.
SetMembership(s, role) ==
  LET op == reqs[s].op IN
  /\ orgs' = [orgs EXCEPT ![op.tenant].members = @ + 1,
                          ![op.tenant].role[op.user] = role]
  /\ creds' = RevokedOf(op.user)
  /\ Finish(s)
  /\ UNCHANGED <<users, worker, control, mode, rate, logins, left>>

\* upsert_membership
UpsertMembership(s) == Commits(s, "upsert_membership") /\ SetMembership(s, "MEMBER")

\* delete_membership
DeleteMembership(s) == Commits(s, "delete_membership") /\ SetMembership(s, "NONE")

\* A change is refused: the row has changed since it was read, the name is taken, the
\* last administrator would go, or the credential or role of the caller has gone
\* between two tries.
ChangeRefused(s) ==
  /\ \/ HasLocks(s) /\ ~Accepted(reqs[s].op)
     \/ /\ reqs[s].phase = "RETRY" /\ RowHolders(Actor(s)) = {}
        /\ \/ ~Live(reqs[s].cred) \/ mode = "WRITE_FROZEN"
           \/ ~RequireAdmin(Principal(reqs[s].cred))
  /\ Finish(s)
  /\ UNCHANGED <<users, orgs, creds, worker, control, mode, rate, logins, left>>

\* Mutant: the victim is tried again without being rolled back.
VictimKeepsLocks(s) ==
  /\ \E r \in WaitsFor(s) : s \in WaitsFor(r)
  /\ reqs' = [reqs EXCEPT ![s].tries = (@ % MaxTries) + 1]
  /\ UNCHANGED <<users, orgs, creds, worker, control, mode, rate, logins, left>>

\* PostgreSQL aborts one of two transactions that wait for each other (40P01), and
\* run_transaction gives up after max_attempts.
DeadlockVictim(s) ==
  /\ \E r \in WaitsFor(s) : s \in WaitsFor(r)
  /\ reqs' = [reqs EXCEPT ![s] =
       IF reqs[s].tries = MaxTries THEN Idle
       ELSE [reqs[s] EXCEPT !.phase = "RETRY", !.tries = reqs[s].tries + 1]]
  /\ UNCHANGED <<users, orgs, creds, worker, control, mode, rate, logins, left>>

-----------------------------------------------------------------------------
(* Time, and the operational mode, which module JobLifecycle sets *)

\* A session or token passes its expiry, or a session its idle limit.
Expire ==
  /\ left > 0 /\ left' = left - 1
  /\ \/ \E c \in DOMAIN creds :
          /\ creds[c].state = "LIVE"
          /\ creds' = [creds EXCEPT ![c].state = "EXPIRED"]
          /\ UNCHANGED <<worker, control, rate>>
     \/ \E i \in DOMAIN worker :
          /\ worker[i].state = "LIVE"
          /\ worker' = [worker EXCEPT ![i].state = "EXPIRED"]
          /\ UNCHANGED <<creds, control, rate>>
     \/ \E w \in {"admin", "worker"} :
          /\ control[w]
          /\ control' = [control EXCEPT ![w] = FALSE]
          /\ UNCHANGED <<creds, worker, rate>>
     \/ \E u \in Users :
          /\ rate[u].n > 0
          /\ rate' = [rate EXCEPT ![u] = IF rate[u].open THEN [@ EXCEPT !.open = FALSE]
                                         ELSE [n |-> 0, open |-> FALSE]]
          /\ UNCHANGED <<creds, worker, control>>
  /\ UNCHANGED <<users, orgs, mode, logins, reqs>>

\* Changing the mode locks the policy row the administrative changes share.
ChangeMode ==
  /\ left > 0 /\ left' = left - 1
  /\ \A s \in Slots : reqs[s].phase \notin {"ACTOR", "CONTROL"}
  /\ mode' = IF mode = "WRITE_FROZEN" THEN "NORMAL" ELSE "WRITE_FROZEN"
  /\ UNCHANGED <<users, orgs, creds, worker, control, rate, logins, reqs>>

Serve(s) ==
  \/ CreateCliToken(s) \/ RevokeCliToken(s) \/ EndRequest(s)
  \/ BeginChange(s) \/ Retry(s) \/ LockControl(s)
  \/ CreateUser(s) \/ UpdateUser(s) \/ CreateTenant(s) \/ UpdateTenant(s)
  \/ UpsertMembership(s) \/ DeleteMembership(s) \/ ChangeRefused(s) \/ DeadlockVictim(s)

Next ==
  \/ Initialize \/ BootstrapWorker \/ ReopenWorkerWindow
  \/ \E u \in Users : BootstrapAdmin(u) \/ RecordLoginAttempt(u) \/ CreateSession(u)
                      \/ LoginRefused(u)
  \/ \E c \in DOMAIN creds : Logout(c)
  \/ \E s \in Slots : Serve(s) \/ \E c \in DOMAIN creds :
                                ResolveBrowserSession(s, c) \/ ResolveCliToken(s, c)
  \/ Expire \/ ChangeMode

Spec == Init /\ [][Next]_vars

\* A lock queue of PostgreSQL serves those who wait in turn, and its deadlock detector
\* runs after deadlock_timeout.
Fairness == \A s \in Slots : SF_vars(Serve(s))

FairSpec == Spec /\ Fairness

-----------------------------------------------------------------------------
(* Properties *)

\* revalidate_worker_credential: the worker's requests carry a credential in force.
WorkerCredentialLive(i) == worker[i].state = "LIVE"

\* Once the administrator bootstrap is closed there is an enabled administrator, so
\* that the installation can still be administered: two administrators who demote each
\* other at the same time do not both succeed (update_user, under the auth_control
\* row).  A session or token that still works was obtained with the password the user
\* has now, by the user in the role it has now: a login whose password was verified
\* before a change, or a token made from another one, does not outlive that change.
\* A single credential of the worker is in force.  And the caller of a change is an
\* enabled administrator from its first lock to its commit (_revalidate_principal).
AuthorityCurrent ==
  /\ control.closed => EnabledAdmins # {}
  /\ \A c \in DOMAIN creds :
       LET row == users[creds[c].user] IN
       creds[c].state = "LIVE" =>
         row.on /\ creds[c].pw = row.pw /\ creds[c].admin = SystemAdmin(creds[c].user)
  /\ Cardinality({i \in DOMAIN worker : WorkerCredentialLive(i)}) <= 1
  /\ \A s \in Slots : reqs[s].phase \in {"ACTOR", "CONTROL"} => Actor(s) \in EnabledAdmins

\* A request that has taken its first lock ends: administrators who change each
\* other's accounts wait for each other, and one of them is tried again
\* (run_transaction) or gives up.
ChangesEnd == \A s \in Slots : reqs[s].phase = "ACTOR" ~> reqs[s].phase = "IDLE"

=============================================================================
