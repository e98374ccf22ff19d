----------------------------- MODULE JobLifecycle -----------------------------
(***************************************************************************)
(* The life of a batch job in nexa: the rows of PostgreSQL that describe    *)
(* jobs, attempts, leases, allocations, authority grants, reservations and  *)
(* admission counters, and every API, coordinator and worker operation that *)
(* changes them.                                                            *)
(*                                                                          *)
(* One database transaction is one action: each of them locks the policy,   *)
(* the counters, the job and the attempt before it decides.  A worker       *)
(* callback may be delayed or repeated by the network, so it is enabled     *)
(* whenever the server would accept it; a callback the server refuses, and  *)
(* the replay of one it has answered, change nothing.                       *)
(*                                                                          *)
(* The variable exec is not in the database.  It is what the worker's       *)
(* journal and Docker really hold for an attempt; the server only learns of *)
(* it through callbacks and cleanup proofs.                                 *)
(***************************************************************************)
EXTENDS Integers, FiniteSets

CONSTANTS
  Jobs, NoJob,            \* job identities, and "no job"
  MaxAttempts,            \* bound: attempts ever created, over all jobs
  Scopes, ScopesOf,       \* counter rows, and the GLOBAL, TENANT, USER rows of a job
  OutstandingLimit,       \* policy: admitted and not terminal, per counter row
  ActiveLimit,            \* policy: unreleased attempts, per counter row
  Demand, Capacity,       \* resources of a job, allocatable resources of the worker
  RestartSafe,            \* jobs whose template may replay its input
  Checkpointable,         \* jobs whose template takes checkpoints
  MaxRetries,             \* jobs.max_retries
  MaxIncarnation          \* bound: worker process starts

ASSUME IdentityAssumption == NoJob \notin Jobs
ASSUME ScopeAssumption == ScopesOf \in [Jobs -> SUBSET Scopes]
ASSUME LimitAssumption ==
  /\ OutstandingLimit \in [Scopes -> Nat]
  /\ ActiveLimit \in [Scopes -> Nat]
ASSUME DemandAssumption == Demand \in [Jobs -> Nat] /\ Capacity \in Nat
ASSUME BoundAssumption ==
  MaxRetries \in Nat /\ MaxIncarnation \in Nat /\ MaxAttempts \in Nat
ASSUME FinitePool == IsFiniteSet(Jobs)

VARIABLES
  jobs,         \* the jobs table
  attempts,     \* attempt, lease, allocation, live grant and reservations of an attempt
  good,         \* attempts that own a COMMITTED checkpoint not marked corrupt
  results,      \* attempts that own a row of the results table
  outstanding, active,    \* admission_counters
  worker,       \* the single worker row and its current incarnation
  mode,         \* operational mode
  exec          \* NONE, ALIVE or GONE: the worker-side fact

vars == <<jobs, attempts, good, results, outstanding, active, worker, mode, exec>>
counters == <<outstanding, active>>

-----------------------------------------------------------------------------
\* Attempts are numbered in the order of their creation; 0 is "none".
Attempts == 1..MaxAttempts
NoAttempt == 0

Terminal == {"SUCCEEDED", "FAILED", "CANCELLED"}
Running == {"DISPATCHING", "RUNNING", "PAUSING"}
JobStates == Terminal \cup Running \cup
             {"NONE", "QUEUED", "RETRY_WAIT", "PAUSED", "RECOVERING", "CANCELLING"}

\* The rows of attempts, attempt_leases, allocations, attempt_authority_grants,
\* container_identities, checkpoint_reservations and result_reservations that
\* belong to one attempt.  A grant is named by its worker incarnation; 0 is "no
\* un-ended grant", "no RESERVED checkpoint" and "no ACTIVE result reservation".
NoRow == [job |-> NoJob, first |-> FALSE, state |-> "NONE", intent |-> "NONE",
          fence |-> 0, class |-> "NONE", claimed |-> FALSE, restored |-> FALSE,
          lease |-> "NONE", alloc |-> "NONE", grant |-> 0, bound |-> FALSE,
          ckpt |-> 0, result |-> 0]

NoJobRow == [state |-> "NONE", desired |-> "RUNNING", intent |-> "NONE", fence |-> 0,
             retries |-> 0, lineage |-> {}, ref |-> NoAttempt]

Init ==
  /\ jobs = [j \in Jobs |-> NoJobRow]
  /\ attempts = [a \in Attempts |-> NoRow]
  /\ good = {}
  /\ results = {}
  /\ outstanding = [s \in Scopes |-> 0]
  /\ active = [s \in Scopes |-> 0]
  /\ worker = [inc |-> 0, admin |-> "ENABLED", ready |-> FALSE, passed |-> FALSE]
  /\ mode = "NORMAL"
  /\ exec = [a \in Attempts |-> "NONE"]

AttemptsOf(j) == {a \in Attempts : attempts[a].job = j}
Unreleased(a) == attempts[a].alloc \in {"HELD", "QUARANTINED"}
Held == {a \in Attempts : Unreleased(a)}

\* _held_capacity sums the allocations.  A sum is counted here unit by unit: an
\* attempt contributes as many elements as its job demands.
Units(held) == UNION {{a} \X (1..Demand[attempts[a].job]) : a \in held}
Used == Cardinality(Units(Held))

\* restorable_scope: the job's own checkpoints and the one a manual retry referenced.
Restorable(j) == \E a \in good : attempts[a].job = j \/ jobs[j].ref = a

\* _adjust_counters and the update in apply_decision: all scopes of the job.
Adjust(counter, j, d) ==
  [s \in Scopes |-> IF s \in ScopesOf[j] THEN counter[s] + d ELSE counter[s]]

-----------------------------------------------------------------------------
(* Users: submit, retry, pause, resume, cancel. *)

Admissible(j) ==
  /\ mode = "NORMAL"
  /\ \A s \in ScopesOf[j] : outstanding[s] < OutstandingLimit[s]

CreateJob(j, lineage, ref) ==
  /\ jobs[j].state = "NONE"
  /\ Admissible(j)
  /\ jobs' = [jobs EXCEPT ![j] =
                [NoJobRow EXCEPT !.state = "QUEUED", !.lineage = lineage, !.ref = ref]]
  /\ outstanding' = Adjust(outstanding, j, 1)
  /\ UNCHANGED <<attempts, good, results, active, worker, mode, exec>>

Submit(j) == CreateJob(j, {j}, NoAttempt)

\* A new job from a FAILED one of the same owner and spec, which keeps its rows.
\* It may name one intact checkpoint of the source or of a job that was retried
\* into the source (retry_lineage).
RetryFailedJob(j, src) ==
  /\ jobs[src].state = "FAILED"
  /\ ScopesOf[j] = ScopesOf[src] /\ Demand[j] = Demand[src]
  /\ j \in RestartSafe <=> src \in RestartSafe
  /\ j \in Checkpointable <=> src \in Checkpointable
  /\ \E ref \in {NoAttempt} \cup {a \in good : attempts[a].job \in jobs[src].lineage} :
       CreateJob(j, {j} \cup jobs[src].lineage, ref)

PauseJob(j) ==
  /\ j \in Checkpointable
  /\ jobs[j].state = "RUNNING" /\ jobs[j].desired = "RUNNING"
  /\ jobs' = [jobs EXCEPT ![j].state = "PAUSING", ![j].desired = "PAUSED"]
  /\ UNCHANGED <<attempts, good, results, counters, worker, mode, exec>>

ResumeJob(j) ==
  /\ jobs[j].state = "PAUSED"
  /\ j \in RestartSafe \/ Restorable(j)
  /\ jobs' = [jobs EXCEPT ![j].state = "QUEUED", ![j].desired = "RUNNING",
                          ![j].intent = "NONE"]
  /\ UNCHANGED <<attempts, good, results, counters, worker, mode, exec>>

\* fence_attempt without the attempt's state: revoke the lease, end the grant,
\* quarantine a HELD allocation, abandon both reservations.
Revoked(row) ==
  [row EXCEPT !.lease = "REVOKED", !.grant = 0, !.ckpt = 0, !.result = 0,
              !.alloc = IF @ = "HELD" THEN "QUARANTINED" ELSE @]

\* Mutant: the failure class of a fenced attempt is not stored.
FencedUnclassified(row, state, class) == [Revoked(row) EXCEPT !.state = state]

Fenced(row, state, class) == [Revoked(row) EXCEPT !.state = state, !.class = class]

LeaseHeld(a) == attempts[a].lease \in {"LIVE", "EXPIRED"}

CancelWaiting(j) ==
  /\ jobs[j].state \in {"QUEUED", "RETRY_WAIT", "PAUSED"}
  /\ jobs' = [jobs EXCEPT ![j].state = "CANCELLED", ![j].desired = "CANCELLED",
                          ![j].intent = "NONE"]
  /\ outstanding' = Adjust(outstanding, j, -1)
  /\ UNCHANGED <<attempts, good, results, active, worker, mode, exec>>

\* _lock_live_attempt: the attempt that still holds a lease is fenced with the cancel.
CancelRunning(j) ==
  LET held == {a \in AttemptsOf(j) : LeaseHeld(a)} IN
  /\ jobs[j].state \in Running
  /\ attempts' = [a \in Attempts |-> IF a \in held
                     THEN Fenced(attempts[a], "STOPPING", "USER_CANCEL") ELSE attempts[a]]
  /\ jobs' = [jobs EXCEPT ![j].state = "CANCELLING", ![j].desired = "CANCELLED",
                          ![j].fence = IF held = {} THEN @ ELSE @ + 1]
  /\ UNCHANGED <<good, results, counters, worker, mode, exec>>

\* Mutant: a cancel during recovery is recorded but the job stays RECOVERING.
CancelOnlyRecorded(j) ==
  /\ jobs[j].state = "RECOVERING" /\ jobs[j].desired # "CANCELLED"
  /\ jobs' = [jobs EXCEPT ![j].desired = "CANCELLED"]
  /\ UNCHANGED <<attempts, good, results, counters, worker, mode, exec>>

CancelRecovering(j) ==
  /\ jobs[j].state = "RECOVERING"
  /\ jobs' = [jobs EXCEPT ![j].state = "CANCELLING", ![j].desired = "CANCELLED"]
  /\ UNCHANGED <<attempts, good, results, counters, worker, mode, exec>>

CancelJob(j) == CancelWaiting(j) \/ CancelRunning(j) \/ CancelRecovering(j)

-----------------------------------------------------------------------------
(* The coordinator: promote a due retry, dispatch, reap an expired lease. *)

Dispatchable(j) ==
  \/ jobs[j].desired = "RUNNING" /\ jobs[j].intent = "NONE"
  \/ jobs[j].desired = "PAUSED" /\ jobs[j].intent = "CHECKPOINT_FOR_PAUSE"

PromoteRetry(j) ==
  /\ jobs[j].state = "RETRY_WAIT"
  /\ Dispatchable(j)
  /\ jobs' = [jobs EXCEPT ![j].state = "QUEUED"]
  /\ UNCHANGED <<attempts, good, results, counters, worker, mode, exec>>

\* Mutant: the resources of a quarantined attempt are given away.
FitsBesideHeld(j) ==
  Cardinality(Units({a \in Attempts : attempts[a].alloc = "HELD"})) + Demand[j] <= Capacity

Fits(j) == Used + Demand[j] <= Capacity

Dispatch(j, a) ==
  /\ attempts[a].job = NoJob /\ \A b \in 1..(a - 1) : attempts[b].job # NoJob
  /\ mode = "NORMAL" /\ worker.ready /\ worker.admin = "ENABLED"
  /\ jobs[j].state = "QUEUED" /\ Dispatchable(j)
  /\ \A b \in AttemptsOf(j) : attempts[b].grant = 0
  /\ Fits(j)
  /\ \A s \in ScopesOf[j] : active[s] < ActiveLimit[s]
  /\ attempts' = [attempts EXCEPT ![a] =
       [NoRow EXCEPT !.job = j, !.first = (AttemptsOf(j) = {}),
                     !.state = "CREATED", !.fence = jobs[j].fence + 1,
                     !.intent = IF jobs[j].intent = "NONE" THEN "RUN" ELSE jobs[j].intent,
                     !.lease = "LIVE", !.alloc = "HELD", !.grant = worker.inc]]
  /\ jobs' = [jobs EXCEPT ![j].state = "DISPATCHING", ![j].fence = @ + 1]
  /\ active' = Adjust(active, j, 1)
  /\ UNCHANGED <<good, results, outstanding, worker, mode, exec>>

\* Mutant: the loss of any attempt moves its job.
CurrentAlways(a) == attempts[a].job # NoJob

\* The attempts whose loss moves their job: the job is running and still has the
\* fence the attempt was given.
Current(a) == LET j == attempts[a].job IN
  jobs[j].state \in Running /\ attempts[a].fence = jobs[j].fence

LostAttempt(job) == [job EXCEPT !.state = "RECOVERING", !.fence = @ + 1]

ReapLease(a) ==
  /\ attempts[a].lease = "EXPIRED"
  /\ IF Current(a)
     THEN /\ attempts' = [attempts EXCEPT ![a] = Fenced(@, "LOST", "INFRASTRUCTURE")]
          /\ jobs' = [jobs EXCEPT ![attempts[a].job] = LostAttempt(@)]
     ELSE /\ attempts' = [attempts EXCEPT ![a] = Revoked(@)]
          /\ UNCHANGED jobs
  /\ UNCHANGED <<good, results, counters, worker, mode, exec>>

-----------------------------------------------------------------------------
(* Worker callbacks under an attempt's authority. *)

\* _authority_rows: incarnation i holds the un-ended grant at the job's fence.
Authority(a, i) ==
  /\ attempts[a].job # NoJob
  /\ jobs[attempts[a].job].desired # "CANCELLED"
  /\ attempts[a].fence = jobs[attempts[a].job].fence
  /\ i > 0 /\ attempts[a].grant = i

LivePhase(job, intent) ==
  \/ job.desired = "RUNNING" /\ job.state \in {"DISPATCHING", "RUNNING"} /\ intent = "RUN"
  \/ job.desired = "PAUSED" /\ job.state = "PAUSING"
  \/ /\ job.desired = "PAUSED" /\ job.state = "DISPATCHING"
     /\ intent = "CHECKPOINT_FOR_PAUSE"

\* _live_authority.
Live(a, i) ==
  LET job == jobs[attempts[a].job] IN
  /\ Authority(a, i)
  /\ LivePhase(job, attempts[a].intent)
  /\ \/ attempts[a].state \in {"CREATED", "CLAIMED", "RUNNING", "CHECKPOINTING"}
     \/ attempts[a].state = "STOPPING" /\ job.desired = "PAUSED"
  /\ attempts[a].alloc = "HELD" /\ attempts[a].lease = "LIVE"

\* _callback: only the worker's current incarnation is heard.
LiveNow(a) == Live(a, worker.inc)

\* _restore_decision freezes the newest usable checkpoint; an intact one may
\* still be incompatible with the worker's environment.
ClaimAttempt(a) ==
  /\ LiveNow(a)
  /\ attempts[a].state = "CREATED" /\ jobs[attempts[a].job].state = "DISPATCHING"
  /\ \E restored \in BOOLEAN :
       /\ restored => Restorable(attempts[a].job)
       /\ attempts' = [attempts EXCEPT ![a] =
            [@ EXCEPT !.state = "CLAIMED", !.claimed = TRUE, !.restored = restored]]
  /\ UNCHANGED <<jobs, good, results, counters, worker, mode, exec>>

\* The restore scan of a claim found checkpoints of b unreadable; its own
\* attempt had none when the scan began.
MarkCorrupt(a, b) ==
  /\ LiveNow(a)
  /\ b \in good /\ b # a
  /\ attempts[b].job = attempts[a].job \/ jobs[attempts[a].job].ref = b
  /\ good' = good \ {b}
  /\ UNCHANGED <<jobs, attempts, results, counters, worker, mode, exec>>

MustRestore(a) ==
  /\ ~attempts[a].first \/ jobs[attempts[a].job].ref # NoAttempt
  /\ attempts[a].job \notin RestartSafe

\* The startup budget of 30 s only refuses a start, which then changes nothing.
StartAttempt(a) ==
  /\ exec[a] # "NONE"
  /\ LiveNow(a)
  /\ attempts[a].state = "CLAIMED"
  /\ MustRestore(a) => attempts[a].restored
  /\ attempts' = [attempts EXCEPT ![a] = [@ EXCEPT !.state = "RUNNING", !.bound = TRUE]]
  /\ jobs' = [jobs EXCEPT ![attempts[a].job].state =
                IF attempts[a].intent = "RUN" THEN "RUNNING" ELSE "PAUSING"]
  /\ UNCHANGED <<good, results, counters, worker, mode, exec>>

Regranted(row, i) ==
  LET rebind(held) == IF held = 0 THEN 0 ELSE i IN
  [row EXCEPT !.grant = i, !.ckpt = rebind(@), !.result = rebind(@)]

\* The next incarnation takes over a running container: new grant, new lease
\* expiry, reservations rebound to the new grant.
AdoptAttempt(a) ==
  /\ Live(a, worker.inc - 1)
  /\ attempts[a].bound
  /\ attempts[a].ckpt \in {0, attempts[a].grant}
  /\ attempts[a].result \in {0, attempts[a].grant}
  /\ attempts' = [attempts EXCEPT ![a] = Regranted(@, worker.inc)]
  /\ UNCHANGED <<jobs, good, results, counters, worker, mode, exec>>

\* _result_authority.
MayProduceResult(a) ==
  jobs[attempts[a].job].desired = "RUNNING" /\ attempts[a].intent = "RUN"

ReserveResult(a) ==
  /\ LiveNow(a) /\ MayProduceResult(a)
  /\ attempts[a].state = "RUNNING"
  /\ \A b \in AttemptsOf(attempts[a].job) : attempts[b].result = 0
  /\ attempts' = [attempts EXCEPT ![a].result = attempts[a].grant]
  /\ UNCHANGED <<jobs, good, results, counters, worker, mode, exec>>

\* The result is recognized; allocation, lease and grant wait for the cleanup.
CompleteAttempt(a) ==
  /\ LiveNow(a) /\ MayProduceResult(a)
  /\ attempts[a].state = "RUNNING" /\ jobs[attempts[a].job].state = "RUNNING"
  /\ attempts[a].result = attempts[a].grant
  /\ results' = results \cup {a}
  /\ attempts' = [attempts EXCEPT ![a] = [@ EXCEPT !.state = "SUCCEEDED", !.result = 0]]
  /\ jobs' = [jobs EXCEPT ![attempts[a].job].state = "SUCCEEDED"]
  /\ outstanding' = Adjust(outstanding, attempts[a].job, -1)
  /\ UNCHANGED <<good, active, worker, mode, exec>>

CheckpointPhase(a) ==
  LET job == jobs[attempts[a].job] IN
  \/ /\ job.state = "RUNNING" /\ job.desired = "RUNNING"
     /\ job.intent = "NONE" /\ attempts[a].intent = "RUN"
  \/ /\ job.state = "PAUSING" /\ job.desired = "PAUSED"
     /\ job.intent = IF attempts[a].intent = "RUN" THEN "NONE" ELSE attempts[a].intent

ReserveCheckpoint(a) ==
  /\ LiveNow(a)
  /\ attempts[a].state = "RUNNING" /\ CheckpointPhase(a)
  /\ attempts[a].job \in Checkpointable
  /\ attempts[a].ckpt = 0
  /\ \A b \in AttemptsOf(attempts[a].job) : attempts[b].result = 0
  /\ attempts' = [attempts EXCEPT ![a] =
                     [@ EXCEPT !.state = "CHECKPOINTING", !.ckpt = attempts[a].grant]]
  /\ UNCHANGED <<jobs, good, results, counters, worker, mode, exec>>

MayPublish(a) ==
  /\ LiveNow(a)
  /\ attempts[a].state = "CHECKPOINTING" /\ CheckpointPhase(a)
  /\ attempts[a].ckpt = attempts[a].grant

PublishCheckpoint(a) ==
  /\ MayPublish(a)
  /\ good' = good \cup {a}
  /\ attempts' = [attempts EXCEPT ![a] =
       [@ EXCEPT !.ckpt = 0, !.state =
          IF jobs[attempts[a].job].state = "PAUSING" THEN "STOPPING" ELSE "RUNNING"]]
  /\ UNCHANGED <<jobs, results, counters, worker, mode, exec>>

\* A defective manifest ends the reservation; a user's pause is aborted, a
\* CHECKPOINT_FOR_PAUSE attempt stays PAUSING.
RejectCheckpoint(a) ==
  LET j == attempts[a].job
      aborted == jobs[j].state = "PAUSING" /\ attempts[a].intent = "RUN"
  IN
  /\ MayPublish(a)
  /\ attempts' = [attempts EXCEPT ![a] = [@ EXCEPT !.ckpt = 0, !.state = "RUNNING"]]
  /\ jobs' = IF aborted
             THEN [jobs EXCEPT ![j].state = "RUNNING", ![j].desired = "RUNNING"]
             ELSE jobs
  /\ UNCHANGED <<good, results, counters, worker, mode, exec>>

FailureClasses == {"INFRASTRUCTURE", "OTHER"}   \* retryable, and every other class

\* Mutant: a failure is refused once the job is PAUSING.
MayFailUnlessPausing(a) ==
  /\ Authority(a, worker.inc)
  /\ jobs[attempts[a].job].state \in {"DISPATCHING", "RUNNING"}
  /\ attempts[a].alloc = "HELD" /\ attempts[a].lease = "LIVE"

MayFail(a) ==
  /\ Authority(a, worker.inc)
  /\ jobs[attempts[a].job].state \in Running
  /\ attempts[a].alloc = "HELD" /\ attempts[a].lease = "LIVE"
  /\ attempts[a].state \in {"CLAIMED", "RUNNING", "CHECKPOINTING"}

\* The failure names a container, which an attempt the server never saw start
\* binds now, or carries the proof that there is none.
FailAttempt(a, class) ==
  /\ exec[a] # "NONE"
  /\ MayFail(a)
  /\ attempts' = [attempts EXCEPT ![a] =
       [Fenced(attempts[a], "STOPPING", class) EXCEPT
           !.bound = attempts[a].bound \/ exec[a] = "ALIVE"]]
  /\ jobs' = [jobs EXCEPT ![attempts[a].job] = LostAttempt(@)]
  /\ UNCHANGED <<good, results, counters, worker, mode, exec>>

-----------------------------------------------------------------------------
(* Verified cleanup: the only way to release an allocation. *)

\* Mutant: a job that fails or pauses while recovering loses its control intent.
RecoveredDropsIntent(j, a) ==
  IF attempts[a].class = "INFRASTRUCTURE" /\ jobs[j].retries < MaxRetries /\ j \in RestartSafe
  THEN [jobs[j] EXCEPT !.state = "RETRY_WAIT", !.retries = @ + 1]
  ELSE [jobs[j] EXCEPT !.state = "FAILED", !.intent = "NONE"]

\* The state a job takes when the failed attempt a is proved gone.
Recovered(j, a) ==
  LET job == jobs[j]
      infrastructure == attempts[a].class = "INFRASTRUCTURE"
      paused == job.desired = "PAUSED"
  IN
  IF infrastructure /\ paused /\ Restorable(j)
  THEN [job EXCEPT !.state = "PAUSED", !.intent = "NONE"]
  ELSE IF /\ infrastructure /\ job.retries < MaxRetries
          /\ j \in RestartSafe \/ (Restorable(j) /\ ~paused)
  THEN [job EXCEPT !.state = "RETRY_WAIT", !.retries = @ + 1,
                   !.intent = IF paused THEN "CHECKPOINT_FOR_PAUSE" ELSE @]
  ELSE [job EXCEPT !.state = "FAILED", !.intent = "NONE"]

Cleaned(j, a) ==
  CASE jobs[j].state = "CANCELLING" ->
         [jobs[j] EXCEPT !.state = "CANCELLED", !.intent = "NONE"]
    [] jobs[j].state = "PAUSING" -> [jobs[j] EXCEPT !.state = "PAUSED", !.intent = "NONE"]
    [] jobs[j].state = "RECOVERING" -> Recovered(j, a)
    [] OTHER -> jobs[j]

EndedState(j, a) ==
  CASE attempts[a].state = "LOST" -> "LOST"
    [] jobs[j].state \in {"CANCELLING", "PAUSING"} -> "CANCELLED"
    [] jobs[j].state = "RECOVERING" -> "FAILED"
    [] OTHER -> attempts[a].state

\* Mutants: an attempt the reaper declared LOST needs no proof; a cleanup is heard
\* only under an un-ended grant.
CleanupUnproved(a) == Unreleased(a) /\ attempts[a].state = "LOST"
CleanupUnderGrant(a) == Unreleased(a) /\ exec[a] = "GONE" /\ attempts[a].grant > 0

\* Any incarnation of the grant lineage may report; the proof needs exec = GONE.
MayCleanUp(a) ==
  LET job == jobs[attempts[a].job] IN
  /\ exec[a] = "GONE"
  /\ Unreleased(a)
  /\ \/ job.state \in Terminal \cup {"CANCELLING"}
     \/ job.state = "RECOVERING" /\ attempts[a].class # "NONE"
     \/ /\ job.state = "PAUSING" /\ job.desired = "PAUSED"
        /\ attempts[a].state = "STOPPING" /\ a \in good

\* Mutant: a job that fails keeps its admission slot.
EndsWhenCancelled(old, new) == new.state = "CANCELLED" /\ old.state # "CANCELLED"

Ends(old, new) == new.state \in Terminal /\ old.state \notin Terminal

ReportCleanup(a) ==
  LET j == attempts[a].job
      next == Cleaned(j, a)
  IN
  /\ MayCleanUp(a)
  /\ attempts' = [attempts EXCEPT ![a] =
       [@ EXCEPT !.state = EndedState(j, a), !.alloc = "RELEASED", !.lease = "REVOKED",
                 !.grant = 0,
                 !.result = IF jobs[j].state = "PAUSING" THEN 0 ELSE attempts[a].result]]
  /\ jobs' = [jobs EXCEPT ![j] = next]
  /\ active' = Adjust(active, j, -1)
  /\ outstanding' = IF Ends(jobs[j], next) THEN Adjust(outstanding, j, -1) ELSE outstanding
  /\ UNCHANGED <<good, results, worker, mode, exec>>

-----------------------------------------------------------------------------
(* The worker row: process starts, heartbeats, administration, and the mode. *)

CreateIncarnation ==
  /\ worker.inc < MaxIncarnation
  /\ worker' = [worker EXCEPT !.inc = @ + 1, !.ready = FALSE, !.passed = FALSE]
  /\ UNCHANGED <<jobs, attempts, good, results, counters, mode, exec>>

\* _can_be_ready.  The containers the worker observes are an input that must
\* match the bound ones; its storage, inventory and scan may always fail.
CanBeReady ==
  \A a \in Held :
    /\ attempts[a].alloc = "HELD"
    /\ jobs[attempts[a].job].desired \in {"RUNNING", "PAUSED"}
    /\ attempts[a].grant = worker.inc /\ attempts[a].lease = "LIVE"
    /\ attempts[a].bound \/ attempts[a].state = "CREATED"

Heartbeat ==
  /\ worker.inc > 0
  /\ \E passes \in BOOLEAN :
       /\ passes => CanBeReady
       /\ worker' = [worker EXCEPT !.passed = passes,
                                   !.ready = passes /\ worker.admin # "DISABLED"]
  /\ UNCHANGED <<jobs, attempts, good, results, counters, mode, exec>>

\* No heartbeat for 15 s: SUSPECT, then UNAVAILABLE.
SweepHealth ==
  /\ worker.ready
  /\ worker' = [worker EXCEPT !.ready = FALSE]
  /\ UNCHANGED <<jobs, attempts, good, results, counters, mode, exec>>

DrainWorker ==
  /\ worker.admin = "ENABLED"
  /\ worker' = [worker EXCEPT !.admin = "DRAINING"]
  /\ UNCHANGED <<jobs, attempts, good, results, counters, mode, exec>>

\* _fence_worker_attempts: every attempt with a lease, in one transaction.
DisableWorker ==
  LET lost == {a \in Attempts : LeaseHeld(a) /\ Current(a)} IN
  /\ worker.admin # "DISABLED"
  /\ worker' = [worker EXCEPT !.admin = "DISABLED", !.ready = FALSE]
  /\ attempts' = [a \in Attempts |->
       IF a \in lost THEN Fenced(attempts[a], "STOPPING", "INFRASTRUCTURE")
       ELSE IF LeaseHeld(a) THEN Revoked(attempts[a]) ELSE attempts[a]]
  /\ jobs' = [j \in Jobs |->
       IF \E a \in lost : attempts[a].job = j
       THEN LostAttempt(jobs[j]) ELSE jobs[j]]
  /\ UNCHANGED <<good, results, counters, mode, exec>>

EnableWorker ==
  /\ worker.admin # "ENABLED"
  /\ worker.admin = "DRAINING" => worker.ready
  /\ worker.passed
  /\ \A a \in Attempts : attempts[a].alloc # "QUARANTINED"
  /\ worker' = [worker EXCEPT !.admin = "ENABLED"]
  /\ UNCHANGED <<jobs, attempts, good, results, counters, mode, exec>>

\* validate_mode_transition; WRITE_FROZEN needs a freeze proof no provider gives.
SetMode ==
  /\ \/ mode = "NORMAL" /\ mode' = "ADMISSION_OFF"
     \/ /\ mode = "ADMISSION_OFF" /\ mode' = "NORMAL"
        /\ worker.admin = "ENABLED" /\ worker.ready /\ worker.passed
  /\ UNCHANGED <<jobs, attempts, good, results, counters, worker, exec>>

-----------------------------------------------------------------------------
(* Outside the database: database time, and the worker's journal and Docker. *)

LeaseExpires(a) ==
  /\ attempts[a].lease = "LIVE"
  /\ attempts' = [attempts EXCEPT ![a].lease = "EXPIRED"]
  /\ UNCHANGED <<jobs, good, results, counters, worker, mode, exec>>

\* A claimed attempt's container appears in Docker, at any time after the claim:
\* the worker may have been stalled long after its authority was revoked.
CreateContainer(a) ==
  /\ exec[a] = "NONE"
  /\ attempts[a].claimed
  /\ exec' = [exec EXCEPT ![a] = "ALIVE"]
  /\ UNCHANGED <<jobs, attempts, good, results, counters, worker, mode>>

\* The container is stopped and removed, or the attempt is tombstoned before it
\* had one; the journal refuses every later create or start of the attempt.
RetireExecution(a) ==
  /\ exec[a] # "GONE"
  /\ attempts[a].claimed \/ attempts[a].alloc = "QUARANTINED"
  /\ exec' = [exec EXCEPT ![a] = "GONE"]
  /\ UNCHANGED <<jobs, attempts, good, results, counters, worker, mode>>

-----------------------------------------------------------------------------
UserStep ==
  \E j \in Jobs :
    \/ Submit(j) \/ PauseJob(j) \/ ResumeJob(j) \/ CancelJob(j)
    \/ \E src \in Jobs : RetryFailedJob(j, src)

CoordinatorStep ==
  \/ \E j \in Jobs : PromoteRetry(j) \/ \E a \in Attempts : Dispatch(j, a)
  \/ \E a \in Attempts : ReapLease(a)

CallbackStep ==
  \E a \in Attempts :
    \/ ClaimAttempt(a) \/ StartAttempt(a) \/ AdoptAttempt(a)
    \/ ReserveResult(a) \/ CompleteAttempt(a)
    \/ ReserveCheckpoint(a) \/ PublishCheckpoint(a) \/ RejectCheckpoint(a)
    \/ \E b \in Attempts : MarkCorrupt(a, b)
    \/ \E class \in FailureClasses : FailAttempt(a, class)
    \/ ReportCleanup(a)

WorkerStep ==
  \/ CreateIncarnation \/ Heartbeat \/ SweepHealth
  \/ DrainWorker \/ DisableWorker \/ EnableWorker \/ SetMode

EnvironmentStep ==
  \E a \in Attempts : LeaseExpires(a) \/ CreateContainer(a) \/ RetireExecution(a)

Next == UserStep \/ CoordinatorStep \/ CallbackStep \/ WorkerStep \/ EnvironmentStep

Spec == Init /\ [][Next]_vars

-----------------------------------------------------------------------------
(* Properties. *)

JobType ==
  [state : JobStates, desired : {"RUNNING", "PAUSED", "CANCELLED"},
   intent : {"NONE", "CHECKPOINT_FOR_PAUSE"}, fence : Nat, retries : 0..MaxRetries,
   lineage : SUBSET Jobs, ref : Attempts \cup {NoAttempt}]

AttemptStates == {"NONE", "CREATED", "CLAIMED", "RUNNING", "CHECKPOINTING", "STOPPING",
                  "SUCCEEDED", "FAILED", "CANCELLED", "LOST"}
FailureClass == {"NONE", "USER_CANCEL"} \cup FailureClasses

AttemptType ==
  [job : Jobs \cup {NoJob}, first : BOOLEAN, state : AttemptStates,
   intent : {"NONE", "RUN", "CHECKPOINT_FOR_PAUSE"}, fence : Nat, class : FailureClass,
   claimed : BOOLEAN, restored : BOOLEAN,
   lease : {"NONE", "LIVE", "EXPIRED", "REVOKED"},
   alloc : {"NONE", "HELD", "QUARANTINED", "RELEASED"},
   grant : Nat, bound : BOOLEAN, ckpt : Nat, result : Nat]

WorkerType ==
  [inc : 0..MaxIncarnation, admin : {"ENABLED", "DRAINING", "DISABLED"},
   ready : BOOLEAN, passed : BOOLEAN]

\* The rows keep their types.  That no counter falls below zero, which the
\* database would refuse, is part of CountersExact.
TypeOK ==
  /\ jobs \in [Jobs -> JobType]
  /\ attempts \in [Attempts -> AttemptType]
  /\ good \subseteq Attempts /\ results \subseteq Attempts
  /\ outstanding \in [Scopes -> Int] /\ active \in [Scopes -> Int]
  /\ worker \in WorkerType
  /\ mode \in {"NORMAL", "ADMISSION_OFF"}
  /\ exec \in [Attempts -> {"NONE", "ALIVE", "GONE"}]

\* Two attempts of a job never have a container at the same time, however late
\* the worker acts on a claim: a job is dispatched again only after report_cleanup
\* released the previous attempt on a proof.
SingleContainer ==
  \A a, b \in Attempts :
    exec[a] = "ALIVE" /\ exec[b] = "ALIVE" /\ attempts[a].job = attempts[b].job => a = b

\* A container that may exist is still charged: its allocation is not RELEASED,
\* so dispatch cannot give its resources away.
ContainerIsCharged ==
  \A a \in Attempts : exec[a] = "ALIVE" => Unreleased(a)

\* Neither of the two happens, however late a worker, a callback or Docker acts.
HostSafe == SingleContainer /\ ContainerIsCharged

\* The unreleased allocations, quarantined ones included, fit the worker: of the
\* jobs that compete for it no more hold it than fit, though one of them may only
\* wait for its cleanup (_held_capacity, apply_decision).
CapacityRespected == Used <= Capacity

\* The admission counters agree with the tables in every scope: outstanding with
\* the jobs that are not terminal, active_attempts with unreleased allocations.
CountersExact ==
  \A s \in Scopes :
    /\ outstanding[s] = Cardinality({j \in Jobs :
         s \in ScopesOf[j] /\ jobs[j].state \notin Terminal \cup {"NONE"}})
    /\ active[s] = Cardinality({a \in Held : s \in ScopesOf[attempts[a].job]})

\* A job the platform believes is running has exactly one attempt that can lose
\* its lease, at the job's fence; the reaper, a cancel or a disable will find it.
RunningHasAuthority ==
  \A j \in Jobs : jobs[j].state \in Running =>
    \E a \in AttemptsOf(j) :
      /\ LeaseHeld(a) /\ attempts[a].alloc = "HELD" /\ attempts[a].grant > 0
      /\ attempts[a].fence = jobs[j].fence
      /\ \A b \in AttemptsOf(j) \ {a} : attempts[b].alloc = "RELEASED"

\* A job that waits for a cleanup has exactly one quarantined attempt, with a
\* recorded failure class, so the cleanup it waits for will be accepted.
RecoveryCanFinish ==
  \A j \in Jobs : jobs[j].state \in {"RECOVERING", "CANCELLING"} =>
    \E a \in AttemptsOf(j) :
      /\ attempts[a].alloc = "QUARANTINED" /\ attempts[a].class # "NONE"
      /\ \A b \in AttemptsOf(j) \ {a} : attempts[b].alloc = "RELEASED"

\* A waiting job holds nothing, and one in the queue can be dispatched:
\* apply_decision never meets a live grant or an undispatchable intent.
WaitingHoldsNothing ==
  \A j \in Jobs : jobs[j].state \in {"QUEUED", "RETRY_WAIT", "PAUSED", "FAILED", "CANCELLED"} =>
    /\ \A a \in AttemptsOf(j) : attempts[a].alloc = "RELEASED" /\ attempts[a].grant = 0
    /\ jobs[j].state \in {"QUEUED", "RETRY_WAIT"} => Dispatchable(j)

\* No job is left in a state that nothing can end: a running one can lose its
\* lease, a fenced one can be cleaned up, a waiting one can be dispatched.
NothingStranded == RunningHasAuthority /\ RecoveryCanFinish /\ WaitingHoldsNothing

\* Only a SUCCEEDED job has a result and it has exactly one.
ResultUnique ==
  \A j \in Jobs :
    Cardinality({a \in results : attempts[a].job = j}) =
      IF jobs[j].state = "SUCCEEDED" THEN 1 ELSE 0

\* A RESERVED checkpoint and an ACTIVE result belong to the un-ended grant: no
\* reservation outlives a revoke, and adoption carries both over.
ReservationsBound ==
  \A a \in Attempts :
    attempts[a].ckpt \in {0, attempts[a].grant} /\ attempts[a].result \in {0, attempts[a].grant}

\* A terminal job never changes again.
TerminalStable == \A j \in Jobs : jobs[j].state \in Terminal => jobs'[j] = jobs[j]

\* Every race has one winner.  Of completion, failure, reap and cancel the first
\* decides: one result, and a terminal job does not move (complete_attempt).
OneWinner == [][ResultUnique' /\ TerminalStable]_vars

\* The fence never falls, and each grant of new authority and each revocation of
\* a running job's authority raises it, so an older callback can never match it.
FenceAdvances ==
  \A j \in Jobs :
    /\ jobs'[j].fence >= jobs[j].fence
    /\ \A a \in Attempts : attempts[a].job = j /\ jobs[j].state \in Running
         /\ attempts[a].grant > 0 /\ attempts'[a].grant = 0
         /\ jobs'[j].state # "PAUSED" => jobs'[j].fence > attempts[a].fence

\* A job becomes PAUSED only with a checkpoint to resume from.
PausedIsResumable ==
  \A j \in Jobs : jobs[j].state # "PAUSED" /\ jobs'[j].state = "PAUSED" => Restorable(j)'

\* Once a cancel is committed the job can only end CANCELLED, unless it already ended.
CancelWins ==
  \A j \in Jobs : jobs[j].desired = "CANCELLED" =>
    jobs'[j].state \in {"CANCELLING", "CANCELLED"}

\* No step of reaper, worker, coordinator or user overrides a control that was
\* accepted: fences advance, a revoked or adopted grant leaves no reservation behind,
\* a pause is resumable, a cancel wins.
ControlRespected ==
  [][FenceAdvances /\ ReservationsBound' /\ PausedIsResumable /\ CancelWins]_vars

-----------------------------------------------------------------------------
(* The inductive invariant behind the properties above. *)

\* An attempt that was not created has the default row and nothing on the worker.
UnusedRows ==
  \A a \in Attempts : attempts[a].job = NoJob =>
    attempts[a] = NoRow /\ exec[a] = "NONE" /\ a \notin good /\ a \notin results

\* The lease, the grant and the allocation of an attempt tell the same story.
AuthorityRows ==
  \A a \in Attempts : attempts[a].job # NoJob =>
    /\ attempts[a].alloc # "NONE"
    /\ attempts[a].alloc = "HELD" <=> LeaseHeld(a)
    /\ attempts[a].alloc = "HELD" <=> attempts[a].grant > 0
    /\ attempts[a].alloc = "RELEASED" => exec[a] = "GONE"

\* What an unreleased attempt says about its job.
AttemptToJob ==
  \A a \in Attempts : attempts[a].job # NoJob =>
    LET job == jobs[attempts[a].job] IN
    /\ attempts[a].alloc = "HELD" => job.state \in Running \cup {"SUCCEEDED"}
    /\ attempts[a].alloc = "HELD" /\ job.state \in Running => attempts[a].fence = job.fence
    /\ attempts[a].alloc = "QUARANTINED" =>
         job.state \in {"RECOVERING", "CANCELLING", "SUCCEEDED"}
    /\ attempts[a].alloc = "QUARANTINED" /\ job.state # "SUCCEEDED" =>
         attempts[a].class # "NONE"

\* What the state of a job says about its attempts.
JobToAttempt ==
  \A j \in Jobs :
    /\ jobs[j].state \in Running =>
         \E a \in Attempts : attempts[a].job = j /\ attempts[a].alloc = "HELD"
    /\ jobs[j].state \in {"RECOVERING", "CANCELLING"} =>
         \E a \in Attempts : attempts[a].job = j /\ attempts[a].alloc = "QUARANTINED"

OneUnreleased ==
  \A a, b \in Attempts :
    /\ Unreleased(a) /\ Unreleased(b)
    /\ attempts[a].job = attempts[b].job
    => a = b

IntentRow(j) ==
  /\ jobs[j].desired = "CANCELLED" <=> jobs[j].state \in {"CANCELLING", "CANCELLED"}
  /\ jobs[j].desired = "RUNNING" => jobs[j].intent = "NONE"
  /\ jobs[j].state \in {"QUEUED", "RETRY_WAIT"} => Dispatchable(j)

IntentRows == \A j \in Jobs : IntentRow(j)

WorkerRow == worker.ready => worker.inc > 0

\* Every step of the system preserves the conjunction.
Inv ==
  /\ TypeOK /\ UnusedRows /\ AuthorityRows /\ AttemptToJob /\ JobToAttempt
  /\ OneUnreleased /\ IntentRows /\ WorkerRow

-----------------------------------------------------------------------------
(* What the running processes keep doing.  The coordinator's tick reaps every  *)
(* expired lease; the agent stops what it must stop and repeats a cleanup until *)
(* it is accepted; database time passes a lease nobody renews; a pause that is  *)
(* not served within the worker's deadline is failed.  Users, administrators    *)
(* and the workload owe nothing.                                                *)

\* The agent is obliged to remove the container: the attempt was fenced, ended
\* successfully, or stopped for a pause.
MustRetire(a) ==
  \/ attempts[a].alloc = "QUARANTINED"
  \/ attempts[a].state = "SUCCEEDED" /\ attempts[a].alloc = "HELD"
  \/ attempts[a].state = "STOPPING" /\ attempts[a].alloc = "HELD"

RetireStep(a) == MustRetire(a) /\ RetireExecution(a)

\* Only the current incarnation renews, so the lease of an older grant runs out.
Unrenewed(a) == attempts[a].grant # worker.inc /\ LeaseExpires(a)

PauseDeadline(a) ==
  jobs[attempts[a].job].state = "PAUSING" /\ FailAttempt(a, "INFRASTRUCTURE")

\* The coordinator and the agent go through the attempts in turn: it is enough
\* that each of their loops does not stop while it has an attempt to work on.
Fairness ==
  /\ WF_vars(\E a \in Attempts : ReapLease(a))
  /\ WF_vars(\E a \in Attempts : RetireStep(a))
  /\ WF_vars(\E a \in Attempts : ReportCleanup(a))
  /\ WF_vars(\E a \in Attempts : Unrenewed(a))
  /\ WF_vars(\E a \in Attempts : attempts[a].job # NoJob /\ PauseDeadline(a))

FairSpec == Spec /\ Fairness

\* What an attempt occupied comes back.  Time and again no allocation is in
\* quarantine, whichever of reaper, cancel, failure or disable revoked it, and
\* every allocation of a finished job is released, also when the worker restarted
\* between the commit of the result and the cleanup.
ResourcesReturn ==
  []<>(/\ \A a \in Attempts : attempts[a].alloc # "QUARANTINED"
       /\ \A j \in Jobs : jobs[j].state = "SUCCEEDED" =>
            \A a \in AttemptsOf(j) : attempts[a].alloc = "RELEASED")

\* An accepted pause or cancel comes to an end: a cancel in CANCELLED, the only
\* state CANCELLING leads to, and a pause by being served, aborted, overtaken or
\* failed, also when an ACTIVE result makes every checkpoint reservation a conflict.
ControlFinishes ==
  []<>(\A j \in Jobs : jobs[j].state \notin {"CANCELLING", "PAUSING"})
=============================================================================
