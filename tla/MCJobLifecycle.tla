---------------------------- MODULE MCJobLifecycle ----------------------------
(***************************************************************************)
(* A small instance of JobLifecycle: the jobs of one user.  j1 and j2 can    *)
(* replay their input and take checkpoints, j3 and j4 can do neither.        *)
(***************************************************************************)
EXTENDS JobLifecycle

CONSTANTS j1, j2, j3, j4

\* A counter row for the platform and one for the owner of the jobs.
MCScopes == {"GLOBAL", "USER"}
MCScopesOf == [j \in Jobs |-> MCScopes]
MCLimit == [s \in MCScopes |-> 2]
MCDemand == [j \in Jobs |-> 1]

\* Where a behaviour starts, all states that Init reaches: one job on a worker
\* that may still restart; a job that failed after its first attempt committed
\* a checkpoint, and one that may be its retry; two jobs competing for the
\* worker.  The other jobs were cancelled while they were queued.
Starts == {[new |-> {j1}, failed |-> {}, inc |-> 0],
           [new |-> {j2}, failed |-> {j1}, inc |-> MaxIncarnation],
           [new |-> {j3, j4}, failed |-> {}, inc |-> MaxIncarnation]}

CancelledJob(j) ==
  [NoJobRow EXCEPT !.state = "CANCELLED", !.desired = "CANCELLED", !.lineage = {j}]
FailedJob(j) == [NoJobRow EXCEPT !.state = "FAILED", !.fence = 2, !.lineage = {j}]
FailedAttempt(j) ==
  [NoRow EXCEPT !.job = j, !.first = TRUE, !.state = "FAILED", !.intent = "RUN",
                !.fence = 1, !.class = "OTHER", !.claimed = TRUE, !.lease = "REVOKED",
                !.alloc = "RELEASED", !.bound = TRUE]

MCInit ==
  \E s \in Starts :
    /\ jobs = [j \in Jobs |-> CASE j \in s.new -> NoJobRow
                                [] j \in s.failed -> FailedJob(j)
                                [] OTHER -> CancelledJob(j)]
    /\ attempts = [a \in Attempts |->
                     IF a = 1 /\ s.failed # {} THEN FailedAttempt(j1) ELSE NoRow]
    /\ exec = [a \in Attempts |-> IF a = 1 /\ s.failed # {} THEN "GONE" ELSE "NONE"]
    /\ good = {a \in {1} : s.failed # {}}
    /\ results = {}
    /\ outstanding = [t \in Scopes |-> 0]
    /\ active = [t \in Scopes |-> 0]
    /\ worker = [inc |-> s.inc, admin |-> "ENABLED", ready |-> FALSE, passed |-> FALSE]
    /\ mode = "NORMAL"

MCSpec == MCInit /\ [][Next]_vars /\ Fairness
=============================================================================
