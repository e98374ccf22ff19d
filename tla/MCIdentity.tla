------------------------------ MODULE MCIdentity ------------------------------
(***************************************************************************)
(* A small instance of Identity: two accounts, two requests at a time, one   *)
(* tenant.                                                                   *)
(***************************************************************************)
EXTENDS Identity

CONSTANTS ann, bob, org

Same == [pw |-> FALSE, on |-> "SAME", role |-> "SAME"]

\* One field at a time.
SingleChanges ==
  {[Same EXCEPT !.pw = TRUE], [Same EXCEPT !.on = "OFF"],
   [Same EXCEPT !.role = "ADMIN"], [Same EXCEPT !.role = "NONE"]}

TokenScopes == {{"tokens"}}

Admin == [ver |-> MaxVersion - 1, on |-> TRUE, pw |-> 1, grant |-> "ACTIVE"]
OldAdmin == [Admin EXCEPT !.ver = MaxVersion]
NoUser == [ver |-> 0, on |-> FALSE, pw |-> 0, grant |-> "NONE"]
NoOrg == [ver |-> 0, on |-> FALSE, members |-> 0, role |-> [u \in Users |-> "NONE"]]
OldOrg == [NoOrg EXCEPT !.ver = MaxVersion, !.members = MaxVersion, !.on = TRUE]
Closed == [installed |-> TRUE, closed |-> TRUE, admin |-> TRUE, worker |-> TRUE]
Session(u) ==
  [kind |-> "BROWSER", user |-> u, scopes |-> {}, state |-> "LIVE", pw |-> 1, admin |-> TRUE]

\* The users have logged in, or failed to, as often as the open window lets them.
Tried(names) ==
  rate = [u \in Users |-> IF u \in names THEN [n |-> LoginRate, open |-> TRUE]
                                         ELSE [n |-> 0, open |-> FALSE]]

\* A new installation.
Install ==
  /\ users = [u \in Users |-> NoUser] /\ orgs = [r \in Tenants |-> NoOrg] /\ creds = <<>>
  /\ control = [installed |-> FALSE, closed |-> FALSE, admin |-> FALSE, worker |-> FALSE]
  /\ Tried(Users) /\ left = 0

\* Settled accounts, and a worker that is to be bootstrapped anew.
NewWorker ==
  /\ users = [u \in Users |-> OldAdmin] /\ orgs = [r \in Tenants |-> OldOrg]
  /\ creds = <<>> /\ control = [Closed EXCEPT !.worker = FALSE]
  /\ Tried(Users) /\ left = MaxEvents

\* An administrator who is logged in, and the account of another one.
Accounts(row, events) ==
  /\ users = [u \in Users |-> IF u = ann THEN OldAdmin ELSE row]
  /\ orgs = [r \in Tenants |-> OldOrg]
  /\ creds = <<Session(ann)>> /\ Tried({ann}) /\ left = events

\* Two administrators, both logged in, who change each other's accounts.
Mutual ==
  /\ users = [u \in Users |-> Admin] /\ orgs = [r \in Tenants |-> OldOrg]
  /\ creds = <<Session(ann), Session(bob)>> /\ Tried(Users) /\ left = 0

\* Two administrators, both logged in, who set up a tenant and its members.
Organization ==
  /\ users = [u \in Users |-> OldAdmin] /\ orgs = [r \in Tenants |-> NoOrg]
  /\ creds = <<Session(ann), Session(bob)>> /\ Tried(Users) /\ left = 0

MCInit ==
  /\ \/ Install \/ NewWorker
     \/ control = Closed /\ (Accounts(Admin, 1) \/ Accounts(NoUser, 0) \/ Mutual \/ Organization)
  /\ worker = <<>> /\ mode = "NORMAL"
  /\ logins = [u \in Users |-> NoLogin]
  /\ reqs = [s \in Slots |-> Idle]

MCSpec == MCInit /\ [][Next]_vars /\ Fairness
=============================================================================
