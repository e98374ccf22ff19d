------------------------- MODULE JobLifecycleOutcomes -------------------------
(***************************************************************************)
(* Proofs about JobLifecycle, continued: how a step may move the row of a   *)
(* job or of an attempt, and from that the admission counters, the one      *)
(* result of a job, the finality of its end and the respect for controls.   *)
(***************************************************************************)
EXTENDS JobLifecycleProofs

-----------------------------------------------------------------------------
(* What the invariant needs beside Inv. *)

\* A reservation belongs to the un-ended grant and to the phase that made it, and
\* an attempt that still holds its allocation when its job has SUCCEEDED is the one
\* that completed it.
Reserved(row, jobState) ==
  /\ row.ckpt \in {0, row.grant} /\ row.result \in {0, row.grant}
  /\ row.ckpt # 0 => row.state = "CHECKPOINTING"
  /\ row.result # 0 => row.state = "RUNNING"
  /\ row.alloc = "HELD" /\ jobState = "SUCCEEDED" => row.state = "SUCCEEDED"

ReservationRows ==
  \A a \in Attempts : Reserved(attempts[a], jobs[attempts[a].job].state)

\* A job that was not submitted has the default row.
FreshJobs == \A j \in Jobs : jobs[j].state = "NONE" => jobs[j] = NoJobRow

RowInv == Inv /\ ReservationRows /\ FreshJobs

-----------------------------------------------------------------------------
(* What a step may do to the row r of a job, which becomes k. *)

Open(r) == r.state \notin Terminal \cup {"NONE"}

Enters(r, k) == r = NoJobRow /\ k.state = "QUEUED" /\ k.fence = 0

Moves(r, k) ==
  /\ Open(r) /\ Open(k)
  /\ k.fence >= r.fence
  /\ r.state # "CANCELLING"

Finishes(r, k) ==
  /\ Open(r) /\ k.state \in Terminal
  /\ k.fence >= r.fence
  /\ r.state = "CANCELLING" => k.state = "CANCELLED"

OthersKept(j) == \A i \in Jobs \ {j} : jobs'[i] = jobs[i]

\* The counter of outstanding jobs and the results follow the jobs.
JobsMove ==
  /\ UNCHANGED <<outstanding, results>>
  /\ \A j \in Jobs : jobs'[j] = jobs[j] \/ Moves(jobs[j], jobs'[j])

JobEnters(j) ==
  /\ UNCHANGED results
  /\ outstanding' = Adjust(outstanding, j, 1)
  /\ Enters(jobs[j], jobs'[j]) /\ OthersKept(j)

JobFinishes(j) ==
  /\ outstanding' = Adjust(outstanding, j, -1)
  /\ Finishes(jobs[j], jobs'[j]) /\ OthersKept(j)
  /\ \/ jobs'[j].state # "SUCCEEDED" /\ UNCHANGED results
     \/ /\ jobs'[j].state = "SUCCEEDED"
        /\ \E a \in Attempts : attempts[a].job = j /\ results' = results \cup {a}

JobsStep == JobsMove \/ \E j \in Jobs : JobEnters(j) \/ JobFinishes(j)

\* The counter of active attempts follows the allocations.
AllocationsKept ==
  /\ UNCHANGED active
  /\ \A a \in Attempts :
       attempts'[a].job = attempts[a].job /\ (Unreleased(a)' <=> Unreleased(a))

AllocationTaken(a, j) ==
  /\ active' = Adjust(active, j, 1) /\ Fits(j)
  /\ attempts[a].job = NoJob /\ attempts'[a].job = j
  /\ ~Unreleased(a) /\ Unreleased(a)'
  /\ \A b \in Attempts \ {a} : attempts'[b] = attempts[b]

AllocationReturned(a, j) ==
  /\ active' = Adjust(active, j, -1)
  /\ attempts[a].job = j /\ attempts'[a].job = j
  /\ Unreleased(a) /\ ~Unreleased(a)'
  /\ \A b \in Attempts \ {a} : attempts'[b] = attempts[b]

AttemptsStep ==
  \/ AllocationsKept
  \/ \E a \in Attempts, j \in Jobs : AllocationTaken(a, j) \/ AllocationReturned(a, j)

\* A running job whose attempt loses its grant gets a new fence or is PAUSED.
RevokedByFence(a) ==
  LET j == attempts[a].job IN
  attempts[a].grant > 0 /\ attempts'[a].grant = 0 /\ jobs[j].state \in Running =>
    jobs'[j].fence > jobs[j].fence \/ jobs'[j].state = "PAUSED"

FenceStep == \A a \in Attempts : RevokedByFence(a)

\* All of it: what every step of Next is.
RowStep ==
  JobsStep /\ AttemptsStep /\ FenceStep /\ PausedIsResumable /\ ReservationRows' /\ FreshJobs'

LEMMA NoRowFields == NoRow.alloc = "NONE" /\ NoRow.grant = 0
  BY DEF NoRow

\* No step makes a job fresh again.
LEMMA FreshStep ==
  ASSUME FreshJobs, JobsStep
  PROVE  FreshJobs'
<1> SUFFICES ASSUME NEW i \in Jobs, jobs'[i].state = "NONE" PROVE jobs'[i] = NoJobRow
  BY DEF FreshJobs
<1>1. jobs'[i] = jobs[i] \/ Open(jobs'[i]) \/ jobs'[i].state \in {"QUEUED"} \cup Terminal
  BY Zenon DEF JobsStep, JobsMove, JobEnters, JobFinishes, OthersKept, Enters, Moves, Finishes
<1>2. jobs'[i] = jobs[i]
  BY <1>1 DEF Open, Terminal
<1> QED BY <1>2 DEF FreshJobs

\* A step that leaves the attempts alone and completes no job.
LEMMA JobsOnly ==
  ASSUME RowInv, JobsStep, PausedIsResumable, UNCHANGED <<attempts, active>>,
         \A j \in Jobs : jobs'[j].state = "SUCCEEDED" => jobs[j].state = "SUCCEEDED"
  PROVE  RowStep
<1>1. FreshJobs'
  BY FreshStep DEF RowInv
<1>2. AttemptsStep
  BY DEF AttemptsStep, AllocationsKept, Unreleased
<1>3. FenceStep
  BY DEF FenceStep, RevokedByFence
<1>4. ReservationRows'
  <2> SUFFICES ASSUME NEW a \in Attempts
               PROVE  Reserved(attempts[a], jobs'[attempts[a].job].state)
    BY DEF ReservationRows
  <2>1. Reserved(attempts[a], jobs[attempts[a].job].state)
    BY DEF RowInv, ReservationRows
  <2>2. attempts[a].alloc = "HELD" => attempts[a].job \in Jobs
    BY RowTypes DEF RowInv, Inv, UnusedRows, NoRow
  <2> QED BY <2>1, <2>2 DEF Reserved
<1> QED BY <1>1, <1>2, <1>3, <1>4 DEF RowStep

\* A step that touches one unreleased attempt, which stays unreleased, and its job.
LEMMA OneRow ==
  ASSUME RowInv, JobsStep, PausedIsResumable, UNCHANGED active,
         NEW a \in Attempts, NEW q, NEW j \in Jobs,
         attempts[a].job = j, Unreleased(a), OthersKept(j),
         attempts' = [attempts EXCEPT ![a] = q],
         q.job = j, q.alloc \in {"HELD", "QUARANTINED"},
         Reserved(q, jobs'[j].state),
         attempts[a].grant > 0 /\ q.grant = 0 /\ jobs[j].state \in Running =>
           jobs'[j].fence > jobs[j].fence \/ jobs'[j].state = "PAUSED"
  PROVE  RowStep
<1>1. FreshJobs'
  BY FreshStep DEF RowInv
<1>2. \A b \in Attempts : /\ b # a => attempts'[b] = attempts[b]
                          /\ b = a => attempts'[b] = q
  BY DEF RowInv, Inv, TypeOK
<1>3. AttemptsStep
  BY <1>2 DEF AttemptsStep, AllocationsKept, Unreleased
<1>4. FenceStep
  <2> SUFFICES ASSUME NEW b \in Attempts PROVE RevokedByFence(b)
    BY DEF FenceStep
  <2>1. CASE b = a
    BY <1>2, <2>1 DEF RevokedByFence
  <2>2. CASE b # a
    BY <1>2, <2>2 DEF RevokedByFence
  <2> QED BY <2>1, <2>2
<1>5. ReservationRows'
  <2> SUFFICES ASSUME NEW b \in Attempts
               PROVE  Reserved(attempts'[b], jobs'[attempts'[b].job].state)
    BY DEF ReservationRows
  <2>1. CASE b = a
    BY <1>2, <2>1
  <2>2. CASE b # a
    <3>1. Reserved(attempts[b], jobs[attempts[b].job].state) /\ attempts'[b] = attempts[b]
      BY <1>2, <2>2 DEF RowInv, ReservationRows
    <3>2. attempts[b].alloc = "HELD" => attempts[b].job \in Jobs
      BY RowTypes DEF RowInv, Inv, UnusedRows, NoRow
    <3>3. attempts[b].alloc = "HELD" => attempts[b].job # j
      BY <2>2 DEF RowInv, Inv, OneUnreleased, Unreleased
    <3>4. attempts[b].alloc = "HELD" => jobs'[attempts[b].job] = jobs[attempts[b].job]
      BY <3>2, <3>3 DEF OthersKept
    <3> QED BY <3>1, <3>4 DEF Reserved
  <2> QED BY <2>1, <2>2
<1> QED BY <1>1, <1>3, <1>4, <1>5 DEF RowStep

-----------------------------------------------------------------------------
(* The steps that only move a job. *)

\* One job moves and no counter changes.
LEMMA OneJobMoves ==
  ASSUME RowInv, NEW j \in Jobs, NEW k, jobs' = [jobs EXCEPT ![j] = k],
         k = jobs[j] \/ Moves(jobs[j], k), UNCHANGED <<outstanding, results>>
  PROVE  JobsStep /\ OthersKept(j) /\ jobs'[j] = k
<1>1. \A i \in Jobs : jobs'[i] = IF i = j THEN k ELSE jobs[i]
  BY DEF RowInv, Inv, TypeOK
<1> QED BY <1>1 DEF JobsStep, JobsMove, OthersKept

\* One job ends.
LEMMA OneJobFinishes ==
  ASSUME RowInv, NEW j \in Jobs, NEW k, jobs' = [jobs EXCEPT ![j] = k],
         Finishes(jobs[j], k), outstanding' = Adjust(outstanding, j, -1),
         \/ k.state # "SUCCEEDED" /\ UNCHANGED results
         \/ /\ k.state = "SUCCEEDED"
            /\ \E a \in Attempts : attempts[a].job = j /\ results' = results \cup {a}
  PROVE  JobsStep /\ OthersKept(j) /\ jobs'[j] = k
<1>1. \A i \in Jobs : jobs'[i] = IF i = j THEN k ELSE jobs[i]
  BY DEF RowInv, Inv, TypeOK
<1>2. OthersKept(j) /\ jobs'[j] = k
  BY <1>1 DEF OthersKept
<1> QED BY <1>2 DEF JobsStep, JobFinishes

\* A job that did not become PAUSED needs no checkpoint.
LEMMA NotPaused ==
  ASSUME NEW j \in Jobs, OthersKept(j), jobs'[j].state # "PAUSED"
  PROVE  PausedIsResumable
  BY DEF PausedIsResumable, OthersKept

\* _create_job.
LEMMA CreateJobRows ==
  ASSUME RowInv, NEW j \in Jobs, NEW lineage, NEW ref, CreateJob(j, lineage, ref)
  PROVE  RowStep
<1> DEFINE k == [NoJobRow EXCEPT !.state = "QUEUED", !.lineage = lineage, !.ref = ref]
<1>1. k.state = "QUEUED" /\ k.fence = 0
  BY DEF NoJobRow
<1>2. jobs' = [jobs EXCEPT ![j] = k] /\ jobs[j] = NoJobRow
  BY DEF CreateJob, RowInv, FreshJobs
<1> HIDE DEF k
<1>3. \A i \in Jobs : jobs'[i] = IF i = j THEN k ELSE jobs[i]
  BY <1>2 DEF RowInv, Inv, TypeOK
<1>4. JobsStep /\ OthersKept(j)
  BY <1>1, <1>2, <1>3, Zenon DEF JobsStep, JobEnters, Enters, OthersKept, CreateJob
<1>5. PausedIsResumable
  BY <1>1, <1>3, <1>4, NotPaused
<1> QED BY <1>1, <1>3, <1>4, <1>5, JobsOnly DEF CreateJob

\* A job that moves without its attempts and does not become PAUSED.
LEMMA JobMovesAlone ==
  ASSUME RowInv, NEW j \in Jobs, NEW k, jobs' = [jobs EXCEPT ![j] = k],
         Moves(jobs[j], k), k.state # "PAUSED",
         UNCHANGED <<attempts, results, outstanding, active>>
  PROVE  RowStep
<1>1. JobsStep /\ OthersKept(j) /\ jobs'[j] = k
  BY OneJobMoves, Zenon
<1>2. PausedIsResumable
  BY <1>1, NotPaused
<1> QED BY <1>1, <1>2, JobsOnly DEF OthersKept, Moves, Open, Terminal

\* The user's pause.
LEMMA PauseJobRows ==
  ASSUME RowInv, NEW j \in Jobs, PauseJob(j)
  PROVE  RowStep
<1> DEFINE k == [jobs[j] EXCEPT !.state = "PAUSING", !.desired = "PAUSED"]
<1>1. jobs[j] \in JobType /\ jobs' = [jobs EXCEPT ![j] = k]
  BY Zenon DEF RowInv, Inv, TypeOK, PauseJob
<1>2. k.state = "PAUSING" /\ k.fence = jobs[j].fence /\ jobs[j].fence \in Nat
  BY <1>1 DEF JobType
<1> HIDE DEF k
<1>3. Moves(jobs[j], k)
  BY <1>2 DEF PauseJob, Moves, Open, Terminal
<1> QED BY <1>1, <1>2, <1>3, JobMovesAlone, Zenon DEF PauseJob, counters

\* The user's resume.
LEMMA ResumeJobRows ==
  ASSUME RowInv, NEW j \in Jobs, ResumeJob(j)
  PROVE  RowStep
<1> DEFINE k == [jobs[j] EXCEPT !.state = "QUEUED", !.desired = "RUNNING", !.intent = "NONE"]
<1>1. jobs[j] \in JobType /\ jobs' = [jobs EXCEPT ![j] = k]
  BY Zenon DEF RowInv, Inv, TypeOK, ResumeJob
<1>2. k.state = "QUEUED" /\ k.fence = jobs[j].fence /\ jobs[j].fence \in Nat
  BY <1>1 DEF JobType
<1> HIDE DEF k
<1>3. Moves(jobs[j], k)
  BY <1>2 DEF ResumeJob, Moves, Open, Terminal
<1> QED BY <1>1, <1>2, <1>3, JobMovesAlone, Zenon DEF ResumeJob, counters

\* A cancel while the job recovers.
LEMMA CancelRecoveringRows ==
  ASSUME RowInv, NEW j \in Jobs, CancelRecovering(j)
  PROVE  RowStep
<1> DEFINE k == [jobs[j] EXCEPT !.state = "CANCELLING", !.desired = "CANCELLED"]
<1>1. jobs[j] \in JobType /\ jobs' = [jobs EXCEPT ![j] = k]
  BY Zenon DEF RowInv, Inv, TypeOK, CancelRecovering
<1>2. k.state = "CANCELLING" /\ k.fence = jobs[j].fence /\ jobs[j].fence \in Nat
  BY <1>1 DEF JobType
<1> HIDE DEF k
<1>3. Moves(jobs[j], k)
  BY <1>2 DEF CancelRecovering, Moves, Open, Terminal
<1> QED BY <1>1, <1>2, <1>3, JobMovesAlone, Zenon DEF CancelRecovering, counters

\* A retry that is due.
LEMMA PromoteRetryRows ==
  ASSUME RowInv, NEW j \in Jobs, PromoteRetry(j)
  PROVE  RowStep
<1> DEFINE k == [jobs[j] EXCEPT !.state = "QUEUED"]
<1>1. jobs[j] \in JobType /\ jobs' = [jobs EXCEPT ![j] = k]
  BY DEF RowInv, Inv, TypeOK, PromoteRetry
<1>2. k.state = "QUEUED" /\ k.fence = jobs[j].fence /\ jobs[j].fence \in Nat
  BY <1>1 DEF JobType
<1> HIDE DEF k
<1>3. Moves(jobs[j], k)
  BY <1>2 DEF PromoteRetry, Moves, Open, Terminal
<1> QED BY <1>1, <1>2, <1>3, JobMovesAlone, Zenon DEF PromoteRetry, counters

\* A cancel while the job waits.
LEMMA CancelWaitingRows ==
  ASSUME RowInv, NEW j \in Jobs, CancelWaiting(j)
  PROVE  RowStep
<1> DEFINE k == [jobs[j] EXCEPT !.state = "CANCELLED", !.desired = "CANCELLED",
                               !.intent = "NONE"]
<1>1. jobs[j] \in JobType /\ jobs' = [jobs EXCEPT ![j] = k]
  BY Zenon DEF RowInv, Inv, TypeOK, CancelWaiting
<1>2. k.state = "CANCELLED" /\ k.fence = jobs[j].fence /\ jobs[j].fence \in Nat
  BY <1>1 DEF JobType
<1> HIDE DEF k
<1>3. Finishes(jobs[j], k)
  BY <1>2 DEF CancelWaiting, Finishes, Open, Terminal
<1>4. JobsStep /\ OthersKept(j) /\ jobs'[j] = k
  BY <1>1, <1>2, <1>3, OneJobFinishes, Zenon DEF CancelWaiting
<1>5. PausedIsResumable
  BY <1>2, <1>4, NotPaused
<1> QED BY <1>2, <1>4, <1>5, JobsOnly, Zenon DEF CancelWaiting, OthersKept

-----------------------------------------------------------------------------
(* The steps that only change the row of an attempt. *)

\* An unreleased attempt keeps its grant, or its job was not running.
LEMMA RowAlone ==
  ASSUME RowInv, NEW a \in Attempts, NEW q, NEW j \in Jobs,
         attempts[a].job = j, Unreleased(a),
         attempts' = [attempts EXCEPT ![a] = q],
         q.job = j, q.alloc \in {"HELD", "QUARANTINED"}, Reserved(q, jobs[j].state),
         q.grant # 0 \/ jobs[j].state \notin Running,
         UNCHANGED <<jobs, results, outstanding, active>>
  PROVE  RowStep
<1>1. JobsStep /\ OthersKept(j) /\ PausedIsResumable
  BY DEF JobsStep, JobsMove, OthersKept, PausedIsResumable
<1> QED BY <1>1, OneRow, Zenon

\* What a callback under a live authority finds.
LEMMA LiveRow ==
  ASSUME RowInv, NEW a \in Attempts, NEW i \in Nat, Live(a, i)
  PROVE  /\ attempts[a].job \in Jobs /\ attempts[a] \in AttemptType
         /\ jobs[attempts[a].job] \in JobType
         /\ attempts[a].alloc = "HELD" /\ Unreleased(a)
         /\ attempts[a].grant = i /\ i # 0
         /\ jobs[attempts[a].job].state \in Running
         /\ Reserved(attempts[a], jobs[attempts[a].job].state)
<1>1. /\ attempts[a].job \in Jobs /\ attempts[a].alloc = "HELD"
      /\ attempts[a].grant = i /\ i > 0
      /\ attempts[a] \in AttemptType /\ jobs[attempts[a].job] \in JobType
  BY LiveFacts, RowTypes DEF RowInv, Inv
<1>2. jobs[attempts[a].job].state \in Running
  BY DEF Live, LivePhase, Running
<1> QED BY <1>1, <1>2 DEF Unreleased, RowInv, ReservationRows

\* claim_attempt.
LEMMA ClaimAttemptRows ==
  ASSUME RowInv, NEW a \in Attempts, ClaimAttempt(a)
  PROVE  RowStep
<1>1. PICK r \in BOOLEAN : attempts' = [attempts EXCEPT ![a] =
            [attempts[a] EXCEPT !.state = "CLAIMED", !.claimed = TRUE, !.restored = r]]
  BY Zenon DEF ClaimAttempt
<1> DEFINE row == attempts[a]
           q == [row EXCEPT !.state = "CLAIMED", !.claimed = TRUE, !.restored = r]
<1>2. /\ row.job \in Jobs /\ row \in AttemptType /\ Unreleased(a) /\ row.alloc = "HELD"
      /\ row.grant # 0 /\ jobs[row.job].state \in Running
      /\ Reserved(row, jobs[row.job].state) /\ row.state = "CREATED"
  BY LiveRow, WorkerFields DEF ClaimAttempt, LiveNow, RowInv, Inv
<1>3. /\ q.job = row.job /\ q.alloc = row.alloc /\ q.grant = row.grant
      /\ q.ckpt = row.ckpt /\ q.result = row.result /\ q.state = "CLAIMED"
  BY <1>2 DEF AttemptType
<1>4. attempts' = [attempts EXCEPT ![a] = q]
  BY <1>1
<1> HIDE DEF q
<1>5. Reserved(q, jobs[row.job].state)
  BY <1>2, <1>3 DEF Reserved, Running
<1>u. UNCHANGED <<jobs, results, outstanding, active>>
  BY DEF ClaimAttempt, counters
<1> QED BY <1>u, <1>2, <1>3, <1>4, <1>5, RowAlone, Zenon

\* adopt_attempt.
LEMMA AdoptAttemptRows ==
  ASSUME RowInv, NEW a \in Attempts, AdoptAttempt(a)
  PROVE  RowStep
<1> DEFINE row == attempts[a]
           i == worker.inc
           c == IF row.ckpt = 0 THEN 0 ELSE i
           d == IF row.result = 0 THEN 0 ELSE i
           q == [row EXCEPT !.grant = i, !.ckpt = c, !.result = d]
<1>1. i - 1 \in Nat /\ i # 0
  BY WorkerFields DEF AdoptAttempt, Live, Authority, RowInv, Inv
<1>2. /\ row.job \in Jobs /\ row \in AttemptType /\ Unreleased(a) /\ row.alloc = "HELD"
      /\ jobs[row.job].state \in Running /\ Reserved(row, jobs[row.job].state)
  BY <1>1, LiveRow DEF AdoptAttempt
<1>3. attempts' = [attempts EXCEPT ![a] = q]
  BY DEF AdoptAttempt, Regranted
<1>4. /\ c \in {0, i} /\ d \in {0, i} /\ (c # 0 => row.ckpt # 0) /\ (d # 0 => row.result # 0)
  OBVIOUS
<1> HIDE DEF i, c, d
<1>5. /\ q.job = row.job /\ q.alloc = row.alloc /\ q.grant = i
      /\ q.ckpt = c /\ q.result = d /\ q.state = row.state
  BY <1>2 DEF AttemptType
<1> HIDE DEF q
<1>6. Reserved(q, jobs[row.job].state)
  BY <1>2, <1>4, <1>5 DEF Reserved, Running
<1>u. UNCHANGED <<jobs, results, outstanding, active>>
  BY DEF AdoptAttempt, counters
<1> QED BY <1>u, <1>1, <1>2, <1>3, <1>5, <1>6, RowAlone, Zenon

\* reserve_result.
LEMMA ReserveResultRows ==
  ASSUME RowInv, NEW a \in Attempts, ReserveResult(a)
  PROVE  RowStep
<1> DEFINE row == attempts[a]
           q == [row EXCEPT !.result = row.grant]
<1>1. /\ row.job \in Jobs /\ row \in AttemptType /\ Unreleased(a) /\ row.alloc = "HELD"
      /\ row.grant # 0 /\ jobs[row.job].state \in Running
      /\ Reserved(row, jobs[row.job].state) /\ row.state = "RUNNING"
  BY LiveRow, WorkerFields DEF ReserveResult, LiveNow, RowInv, Inv
<1>2. attempts' = [attempts EXCEPT ![a] = q]
  BY DEF ReserveResult
<1>3. /\ q.job = row.job /\ q.alloc = row.alloc /\ q.grant = row.grant
      /\ q.ckpt = row.ckpt /\ q.result = row.grant /\ q.state = row.state
  BY <1>1 DEF AttemptType
<1> HIDE DEF q
<1>4. Reserved(q, jobs[row.job].state)
  BY <1>1, <1>3 DEF Reserved, Running
<1>u. UNCHANGED <<jobs, results, outstanding, active>>
  BY DEF ReserveResult, counters
<1> QED BY <1>u, <1>1, <1>2, <1>3, <1>4, RowAlone, Zenon

\* reserve_checkpoint.
LEMMA ReserveCheckpointRows ==
  ASSUME RowInv, NEW a \in Attempts, ReserveCheckpoint(a)
  PROVE  RowStep
<1> DEFINE row == attempts[a]
           q == [row EXCEPT !.state = "CHECKPOINTING", !.ckpt = row.grant]
<1>1. /\ row.job \in Jobs /\ row \in AttemptType /\ Unreleased(a) /\ row.alloc = "HELD"
      /\ row.grant # 0 /\ jobs[row.job].state \in Running
      /\ Reserved(row, jobs[row.job].state)
  BY LiveRow, WorkerFields DEF ReserveCheckpoint, LiveNow, RowInv, Inv
<1>2. attempts' = [attempts EXCEPT ![a] = q] /\ row.result = 0
  BY <1>1 DEF ReserveCheckpoint, AttemptsOf
<1>3. /\ q.job = row.job /\ q.alloc = row.alloc /\ q.grant = row.grant
      /\ q.ckpt = row.grant /\ q.result = row.result /\ q.state = "CHECKPOINTING"
  BY <1>1 DEF AttemptType
<1> HIDE DEF q
<1>4. Reserved(q, jobs[row.job].state)
  BY <1>1, <1>2, <1>3 DEF Reserved, Running
<1>u. UNCHANGED <<jobs, results, outstanding, active>>
  BY DEF ReserveCheckpoint, counters
<1> QED BY <1>u, <1>1, <1>2, <1>3, <1>4, RowAlone, Zenon

\* publish_checkpoint of an intact manifest.
LEMMA PublishCheckpointRows ==
  ASSUME RowInv, NEW a \in Attempts, PublishCheckpoint(a)
  PROVE  RowStep
<1> DEFINE row == attempts[a]
           s == IF jobs[row.job].state = "PAUSING" THEN "STOPPING" ELSE "RUNNING"
           q == [row EXCEPT !.ckpt = 0, !.state = s]
<1>1. /\ row.job \in Jobs /\ row \in AttemptType /\ Unreleased(a) /\ row.alloc = "HELD"
      /\ row.grant # 0 /\ jobs[row.job].state \in Running
      /\ Reserved(row, jobs[row.job].state) /\ row.state = "CHECKPOINTING"
  BY LiveRow, WorkerFields DEF PublishCheckpoint, MayPublish, LiveNow, RowInv, Inv
<1>2. attempts' = [attempts EXCEPT ![a] = q]
  BY DEF PublishCheckpoint
<1> HIDE DEF s
<1>3. /\ q.job = row.job /\ q.alloc = row.alloc /\ q.grant = row.grant
      /\ q.ckpt = 0 /\ q.result = row.result
  BY <1>1 DEF AttemptType
<1> HIDE DEF q
<1>4. Reserved(q, jobs[row.job].state)
  BY <1>1, <1>3 DEF Reserved, Running
<1>u. UNCHANGED <<jobs, results, outstanding, active>>
  BY DEF PublishCheckpoint, counters
<1> QED BY <1>u, <1>1, <1>2, <1>3, <1>4, RowAlone, Zenon

\* Database time passes the expiry of a lease.
LEMMA LeaseExpiresRows ==
  ASSUME RowInv, NEW a \in Attempts, LeaseExpires(a)
  PROVE  RowStep
<1> DEFINE row == attempts[a]
           q == [row EXCEPT !.lease = "EXPIRED"]
<1>1. LeaseHeld(a)
  BY DEF LeaseExpires, LeaseHeld
<1>2. /\ row.job \in Jobs /\ row \in AttemptType /\ row.alloc = "HELD" /\ row.job # NoJob
  BY <1>1, HeldFacts DEF RowInv
<1>3. Unreleased(a) /\ Reserved(row, jobs[row.job].state) /\ row.grant # 0
  BY <1>2 DEF Unreleased, RowInv, ReservationRows, Inv, AuthorityRows
<1>4. attempts' = [attempts EXCEPT ![a] = q]
  BY DEF LeaseExpires
<1>5. /\ q.job = row.job /\ q.alloc = row.alloc /\ q.grant = row.grant
      /\ q.ckpt = row.ckpt /\ q.result = row.result /\ q.state = row.state
  BY <1>2 DEF AttemptType
<1> HIDE DEF q
<1>6. Reserved(q, jobs[row.job].state)
  BY <1>3, <1>5 DEF Reserved
<1>u. UNCHANGED <<jobs, results, outstanding, active>>
  BY DEF LeaseExpires, counters
<1> QED BY <1>u, <1>2, <1>3, <1>4, <1>5, <1>6, RowAlone, Zenon

-----------------------------------------------------------------------------
(* The steps that move a job together with its attempt. *)

\* A revoke drops the reservations and quarantines the allocation.
LEMMA RevokedDrops ==
  ASSUME NEW row \in AttemptType, row.alloc = "HELD"
  PROVE  /\ Revoked(row).ckpt = 0 /\ Revoked(row).result = 0
         /\ Revoked(row).alloc = "QUARANTINED" /\ Revoked(row).job = row.job
  BY DEF Revoked, AttemptType

\* No reservation survives a revoke.
LEMMA RevokedReserved ==
  ASSUME NEW row \in AttemptType, row.alloc = "HELD", NEW s
  PROVE  Reserved(Revoked(row), s)
  BY RevokedDrops DEF Reserved

\* No reservation survives a fence.
LEMMA FencedReserved ==
  ASSUME NEW row \in AttemptType, row.alloc = "HELD", NEW s, NEW state, NEW class
  PROVE  Reserved(Fenced(row, state, class), s)
<1> DEFINE r == Revoked(row)
           f == [r EXCEPT !.state = state, !.class = class]
<1>1. r \in AttemptType /\ r.ckpt = 0 /\ r.result = 0 /\ r.alloc = "QUARANTINED"
  BY RevokedType, RevokedDrops
<1> HIDE DEF r
<1>2. f.ckpt = 0 /\ f.result = 0 /\ f.alloc = "QUARANTINED"
  BY <1>1 DEF AttemptType
<1>3. Fenced(row, state, class) = f
  BY DEF Fenced, r
<1> QED BY <1>2, <1>3 DEF Reserved

\* A running job that loses its attempt moves and gets a new fence.
LEMMA LostMoves ==
  ASSUME NEW job \in JobType, job.state \in Running
  PROVE  /\ Moves(job, LostAttempt(job)) /\ LostAttempt(job).fence > job.fence
         /\ LostAttempt(job).state = "RECOVERING"
<1>1. LostAttempt(job).state = "RECOVERING" /\ LostAttempt(job).fence = job.fence + 1
  BY LostFields
<1>2. job.fence \in Nat
  BY JobRowFields
<1> QED BY <1>1, <1>2 DEF Moves, Open, Running, Terminal

\* One attempt with a lease loses it, and its job goes on to recover if it ran.
LEMMA LoseOne ==
  ASSUME RowInv, NEW a \in Attempts, LeaseHeld(a), NEW q, NEW j \in Jobs,
         attempts[a].job = j, attempts' = [attempts EXCEPT ![a] = q],
         q.job = j, q.alloc = "QUARANTINED", \A s : Reserved(q, s),
         \/ jobs[j].state \notin Running /\ jobs' = jobs
         \/ /\ jobs[j].state \in Running
            /\ jobs' = [jobs EXCEPT ![j] = LostAttempt(jobs[j])],
         UNCHANGED <<results, outstanding, active>>
  PROVE  RowStep
<1>1. Unreleased(a) /\ jobs[j] \in JobType
  BY HeldFacts DEF RowInv, Unreleased
<1>2. CASE jobs[j].state \notin Running /\ jobs' = jobs
  BY <1>1, <1>2, RowAlone, Zenon
<1>3. CASE /\ jobs[j].state \in Running
           /\ jobs' = [jobs EXCEPT ![j] = LostAttempt(jobs[j])]
  <2>1. /\ Moves(jobs[j], LostAttempt(jobs[j])) /\ LostAttempt(jobs[j]).fence > jobs[j].fence
        /\ LostAttempt(jobs[j]).state = "RECOVERING"
    BY <1>1, <1>3, LostMoves
  <2>2. JobsStep /\ OthersKept(j) /\ jobs'[j] = LostAttempt(jobs[j])
    BY <1>3, <2>1, OneJobMoves, Zenon
  <2>3. PausedIsResumable
    BY <2>1, <2>2, NotPaused
  <2> QED BY <1>1, <2>1, <2>2, <2>3, OneRow, Zenon
<1> QED BY <1>2, <1>3

\* reap_lease_locked.
LEMMA ReapLeaseRows ==
  ASSUME RowInv, NEW a \in Attempts, ReapLease(a)
  PROVE  RowStep
<1>1. LeaseHeld(a)
  BY DEF ReapLease, LeaseHeld
<1>2. PICK j \in Jobs : attempts[a].job = j
  BY <1>1, HeldFacts DEF RowInv
<1>3. attempts[a] \in AttemptType /\ attempts[a].alloc = "HELD"
  BY <1>1, HeldFacts DEF RowInv
<1>u. UNCHANGED <<results, outstanding, active>>
  BY DEF ReapLease, counters
<1>4. CASE Current(a)
  <2> DEFINE q == Fenced(attempts[a], "LOST", "INFRASTRUCTURE")
  <2>1. q.job = j /\ q.alloc = "QUARANTINED" /\ \A s : Reserved(q, s)
    BY <1>2, <1>3, FencedFields, FencedReserved
  <2>2. /\ attempts' = [attempts EXCEPT ![a] = q] /\ jobs[j].state \in Running
        /\ jobs' = [jobs EXCEPT ![j] = LostAttempt(jobs[j])]
    BY <1>2, <1>4 DEF ReapLease, Current
  <2> HIDE DEF q
  <2> QED BY <1>1, <1>2, <1>u, <2>1, <2>2, LoseOne, Zenon
<1>5. CASE ~Current(a)
  <2> DEFINE q == Revoked(attempts[a])
  <2>1. q.job = j /\ q.alloc = "QUARANTINED" /\ \A s : Reserved(q, s)
    BY <1>2, <1>3, RevokedFields, RevokedReserved
  <2>2. attempts' = [attempts EXCEPT ![a] = q] /\ jobs' = jobs
    BY <1>5 DEF ReapLease
  <2>3. jobs[j].state \notin Running
    BY <1>1, <1>2, <1>5, HeldFacts DEF RowInv
  <2> HIDE DEF q
  <2> QED BY <1>1, <1>2, <1>u, <2>1, <2>2, <2>3, LoseOne, Zenon
<1> QED BY <1>4, <1>5

\* fail_attempt.
LEMMA FailAttemptRows ==
  ASSUME RowInv, NEW a \in Attempts, NEW class, FailAttempt(a, class)
  PROVE  RowStep
<1>1. LeaseHeld(a)
  BY DEF FailAttempt, MayFail, LeaseHeld
<1>2. PICK j \in Jobs : attempts[a].job = j
  BY <1>1, HeldFacts DEF RowInv
<1>3. attempts[a] \in AttemptType /\ attempts[a].alloc = "HELD"
  BY <1>1, HeldFacts DEF RowInv
<1> DEFINE r == Revoked(attempts[a])
           b == attempts[a].bound \/ exec[a] = "ALIVE"
           q == [[r EXCEPT !.state = "STOPPING", !.class = class] EXCEPT !.bound = b]
<1>4. /\ r \in AttemptType /\ r.ckpt = 0 /\ r.result = 0 /\ r.alloc = "QUARANTINED"
      /\ r.job = j
  BY <1>2, <1>3, RevokedType, RevokedDrops
<1>5. attempts' = [attempts EXCEPT ![a] = q]
  BY Zenon DEF FailAttempt, Fenced
<1>6. jobs[j].state \in Running /\ jobs' = [jobs EXCEPT ![j] = LostAttempt(jobs[j])]
  BY <1>2 DEF FailAttempt, MayFail
<1>u. UNCHANGED <<results, outstanding, active>>
  BY DEF FailAttempt, counters
<1> HIDE DEF r, b
<1>7. q.ckpt = 0 /\ q.result = 0 /\ q.alloc = "QUARANTINED" /\ q.job = j
  BY <1>4 DEF AttemptType
<1> HIDE DEF q
<1>8. \A s : Reserved(q, s)
  BY <1>7 DEF Reserved
<1> QED BY <1>1, <1>2, <1>5, <1>6, <1>7, <1>8, <1>u, LoseOne, Zenon

\* start_attempt.
LEMMA StartAttemptRows ==
  ASSUME RowInv, NEW a \in Attempts, StartAttempt(a)
  PROVE  RowStep
<1> DEFINE row == attempts[a]
           j == row.job
           q == [row EXCEPT !.state = "RUNNING", !.bound = TRUE]
           s == IF row.intent = "RUN" THEN "RUNNING" ELSE "PAUSING"
           k == [jobs[j] EXCEPT !.state = s]
<1>1. /\ j \in Jobs /\ row \in AttemptType /\ Unreleased(a) /\ row.alloc = "HELD"
      /\ row.grant # 0 /\ jobs[j].state \in Running /\ jobs[j] \in JobType
      /\ Reserved(row, jobs[j].state) /\ row.state = "CLAIMED"
  BY LiveRow, WorkerFields DEF StartAttempt, LiveNow, RowInv, Inv
<1>2. /\ attempts' = [attempts EXCEPT ![a] = q] /\ jobs' = [jobs EXCEPT ![j] = k]
      /\ UNCHANGED <<results, outstanding, active>>
  BY DEF StartAttempt, counters
<1>3. s \in {"RUNNING", "PAUSING"}
  OBVIOUS
<1> HIDE DEF s
<1>4. k.state = s /\ k.fence = jobs[j].fence /\ jobs[j].fence \in Nat
  BY <1>1 DEF JobType
<1>5. /\ q.job = row.job /\ q.alloc = row.alloc /\ q.grant = row.grant
      /\ q.ckpt = row.ckpt /\ q.result = row.result
  BY <1>1 DEF AttemptType
<1> HIDE DEF k, q
<1>6. Moves(jobs[j], k)
  BY <1>1, <1>3, <1>4 DEF Moves, Open, Running, Terminal
<1>7. JobsStep /\ OthersKept(j) /\ jobs'[j] = k
  BY <1>1, <1>2, <1>6, OneJobMoves, Zenon
<1>8. PausedIsResumable
  BY <1>1, <1>3, <1>4, <1>7, NotPaused
<1>9. Reserved(q, jobs'[j].state)
  BY <1>1, <1>3, <1>4, <1>5, <1>7 DEF Reserved
<1> QED BY <1>1, <1>2, <1>5, <1>7, <1>8, <1>9, OneRow, Zenon

\* complete_attempt.
LEMMA CompleteAttemptRows ==
  ASSUME RowInv, NEW a \in Attempts, CompleteAttempt(a)
  PROVE  RowStep
<1> DEFINE row == attempts[a]
           j == row.job
           q == [row EXCEPT !.state = "SUCCEEDED", !.result = 0]
           k == [jobs[j] EXCEPT !.state = "SUCCEEDED"]
<1>1. /\ j \in Jobs /\ row \in AttemptType /\ Unreleased(a) /\ row.alloc = "HELD"
      /\ row.grant # 0 /\ jobs[j] \in JobType
      /\ Reserved(row, jobs[j].state) /\ row.state = "RUNNING"
  BY LiveRow, WorkerFields DEF CompleteAttempt, LiveNow, RowInv, Inv
<1>2. /\ attempts' = [attempts EXCEPT ![a] = q] /\ jobs' = [jobs EXCEPT ![j] = k]
      /\ results' = results \cup {a} /\ outstanding' = Adjust(outstanding, j, -1)
      /\ UNCHANGED active /\ jobs[j].state = "RUNNING"
  BY DEF CompleteAttempt
<1>4. k.state = "SUCCEEDED" /\ k.fence = jobs[j].fence /\ jobs[j].fence \in Nat
  BY <1>1 DEF JobType
<1>5. /\ q.job = row.job /\ q.alloc = row.alloc /\ q.grant = row.grant
      /\ q.ckpt = row.ckpt /\ q.result = 0 /\ q.state = "SUCCEEDED"
  BY <1>1 DEF AttemptType
<1> HIDE DEF k, q
<1>6. Finishes(jobs[j], k)
  BY <1>2, <1>4 DEF Finishes, Open, Terminal
<1>7. JobsStep /\ OthersKept(j) /\ jobs'[j] = k
  BY <1>1, <1>2, <1>4, <1>6, OneJobFinishes, Zenon
<1>8. PausedIsResumable
  BY <1>1, <1>4, <1>7, NotPaused
<1>9. Reserved(q, jobs'[j].state)
  BY <1>1, <1>5 DEF Reserved
<1> QED BY <1>1, <1>2, <1>5, <1>7, <1>8, <1>9, OneRow, Zenon

\* publish_checkpoint of a defective manifest.
LEMMA RejectCheckpointRows ==
  ASSUME RowInv, NEW a \in Attempts, RejectCheckpoint(a)
  PROVE  RowStep
<1> DEFINE row == attempts[a]
           j == row.job
           q == [row EXCEPT !.ckpt = 0, !.state = "RUNNING"]
           k == [jobs[j] EXCEPT !.state = "RUNNING", !.desired = "RUNNING"]
<1>1. /\ j \in Jobs /\ row \in AttemptType /\ Unreleased(a) /\ row.alloc = "HELD"
      /\ row.grant # 0 /\ jobs[j].state \in Running /\ jobs[j] \in JobType
      /\ Reserved(row, jobs[j].state) /\ row.state = "CHECKPOINTING"
  BY LiveRow, WorkerFields DEF RejectCheckpoint, MayPublish, LiveNow, RowInv, Inv
<1>2. /\ attempts' = [attempts EXCEPT ![a] = q]
      /\ jobs' = jobs \/ jobs' = [jobs EXCEPT ![j] = k]
      /\ UNCHANGED <<results, outstanding, active>>
  BY Zenon DEF RejectCheckpoint, counters
<1>4. k.state = "RUNNING" /\ k.fence = jobs[j].fence /\ jobs[j].fence \in Nat
  BY <1>1 DEF JobType
<1>5. /\ q.job = row.job /\ q.alloc = row.alloc /\ q.grant = row.grant
      /\ q.ckpt = 0 /\ q.result = row.result /\ q.state = "RUNNING"
  BY <1>1 DEF AttemptType
<1> HIDE DEF k, q
<1>6. CASE jobs' = jobs
  <2>1. Reserved(q, jobs[j].state)
    BY <1>1, <1>5 DEF Reserved, Running
  <2> QED BY <1>1, <1>2, <1>5, <1>6, <2>1, RowAlone, Zenon
<1>7. CASE jobs' = [jobs EXCEPT ![j] = k]
  <2>1. Moves(jobs[j], k)
    BY <1>1, <1>4 DEF Moves, Open, Running, Terminal
  <2>2. JobsStep /\ OthersKept(j) /\ jobs'[j] = k
    BY <1>1, <1>2, <1>7, <2>1, OneJobMoves, Zenon
  <2>3. PausedIsResumable
    BY <1>1, <1>4, <2>2, NotPaused
  <2>4. Reserved(q, jobs'[j].state)
    BY <1>1, <1>4, <1>5, <2>2 DEF Reserved
  <2> QED BY <1>1, <1>2, <1>5, <2>2, <2>3, <2>4, OneRow, Zenon
<1> QED BY <1>2, <1>6, <1>7

\* cancel_job of a running job.
LEMMA CancelRunningRows ==
  ASSUME RowInv, NEW j \in Jobs, CancelRunning(j)
  PROVE  RowStep
<1>1. PICK a \in Attempts : attempts[a].job = j /\ attempts[a].alloc = "HELD" /\ LeaseHeld(a)
  BY IdentityAssumption DEF CancelRunning, RowInv, Inv, JobToAttempt, AuthorityRows
<1>2. /\ attempts[a] \in AttemptType /\ jobs[j] \in JobType /\ Unreleased(a)
      /\ jobs[j].state \in Running
  BY <1>1, RowTypes, HeldFacts DEF RowInv, Inv, Unreleased, CancelRunning
<1>3. {b \in AttemptsOf(j) : LeaseHeld(b)} = {a}
  <2>1. \A b \in AttemptsOf(j) : LeaseHeld(b) => b = a
    <3> SUFFICES ASSUME NEW b \in Attempts, attempts[b].job = j, LeaseHeld(b) PROVE b = a
      BY DEF AttemptsOf
    <3>1. Unreleased(b)
      BY HeldFacts DEF RowInv, Unreleased
    <3> QED BY <1>1, <1>2, <3>1 DEF RowInv, Inv, OneUnreleased
  <2> QED BY <1>1, <2>1 DEF AttemptsOf
<1> DEFINE q == Fenced(attempts[a], "STOPPING", "USER_CANCEL")
           f == jobs[j].fence + 1
           k == [jobs[j] EXCEPT !.state = "CANCELLING", !.desired = "CANCELLED", !.fence = f]
<1>4. /\ attempts' = [b \in Attempts |-> IF b \in {a}
                        THEN Fenced(attempts[b], "STOPPING", "USER_CANCEL") ELSE attempts[b]]
      /\ jobs' = [jobs EXCEPT ![j] = k]
      /\ UNCHANGED <<results, outstanding, active>>
  <2>1. {a} # {}
    OBVIOUS
  <2> QED BY <1>3, <2>1, Zenon DEF CancelRunning, counters
<1>5. q.job = j /\ q.alloc = "QUARANTINED" /\ \A s : Reserved(q, s)
  BY <1>1, <1>2, FencedFields, FencedReserved
<1>6. attempts' = [attempts EXCEPT ![a] = q]
  <2>1. attempts \in [Attempts -> AttemptType]
    BY DEF RowInv, Inv, TypeOK
  <2> HIDE DEF q
  <2>2. \A b \in Attempts : attempts'[b] = IF b = a THEN q ELSE attempts[b]
    BY <1>4 DEF q
  <2> QED BY <1>4, <2>1, <2>2, Zenon
<1>7. jobs[j].fence \in Nat
  BY <1>2, JobRowFields
<1> HIDE DEF f
<1>8. k.state = "CANCELLING" /\ k.fence = f
  BY <1>2 DEF JobType
<1> HIDE DEF k, q
<1>9. f > jobs[j].fence
  BY <1>7 DEF f
<1>10. Moves(jobs[j], k)
  BY <1>2, <1>7, <1>8, <1>9 DEF Moves, Open, Running, Terminal, f
<1>11. JobsStep /\ OthersKept(j) /\ jobs'[j] = k
  BY <1>4, <1>10, OneJobMoves, Zenon
<1>12. PausedIsResumable
  BY <1>8, <1>11, NotPaused
<1> QED BY <1>1, <1>2, <1>4, <1>5, <1>6, <1>8, <1>9, <1>11, <1>12, OneRow

\* apply_decision.
LEMMA DispatchRows ==
  ASSUME RowInv, NEW j \in Jobs, NEW a \in Attempts, Dispatch(j, a)
  PROVE  RowStep
<1> DEFINE n == AttemptsOf(j) = {}
           i == IF jobs[j].intent = "NONE" THEN "RUN" ELSE jobs[j].intent
           f == jobs[j].fence + 1
           q == [NoRow EXCEPT !.job = j, !.first = n, !.state = "CREATED", !.fence = f,
                              !.intent = i, !.lease = "LIVE", !.alloc = "HELD",
                              !.grant = worker.inc]
           k == [jobs[j] EXCEPT !.state = "DISPATCHING", !.fence = f]
<1>t. /\ jobs[j] \in JobType /\ attempts \in [Attempts -> AttemptType] /\ j # NoJob
      /\ jobs[j].fence \in Nat
  BY IdentityAssumption, JobRowFields DEF RowInv, Inv, TypeOK
<1>1. /\ attempts[a].job = NoJob /\ jobs[j].state = "QUEUED"
      /\ attempts' = [attempts EXCEPT ![a] = q]
      /\ jobs' = [jobs EXCEPT ![j] = k]
      /\ active' = Adjust(active, j, 1) /\ Fits(j)
      /\ UNCHANGED <<results, outstanding>>
  BY Zenon DEF Dispatch
<1>2. k.state = "DISPATCHING" /\ k.fence = f /\ f >= jobs[j].fence
  BY <1>t DEF JobType
<1> HIDE DEF n, i, f, k
<1>3. /\ q.job = j /\ q.alloc = "HELD" /\ q.ckpt = 0 /\ q.result = 0
  BY DEF NoRow
<1> HIDE DEF q
<1>4. Moves(jobs[j], k)
  BY <1>1, <1>2 DEF Moves, Open, Terminal
<1>5. JobsStep /\ OthersKept(j) /\ jobs'[j] = k
  BY <1>1, <1>4, OneJobMoves, Zenon
<1>6. PausedIsResumable
  BY <1>2, <1>5, NotPaused
<1>7. FreshJobs'
  BY <1>5, FreshStep DEF RowInv
<1>8. \A b \in Attempts : /\ b # a => attempts'[b] = attempts[b]
                          /\ b = a => attempts'[b] = q
  BY <1>t, <1>1
<1>9. attempts[a] = NoRow
  BY <1>1 DEF RowInv, Inv, UnusedRows
<1>10. AttemptsStep
  BY <1>1, <1>3, <1>8, <1>9 DEF AttemptsStep, AllocationTaken, Unreleased, NoRow
<1>11. FenceStep
  <2> SUFFICES ASSUME NEW b \in Attempts PROVE RevokedByFence(b)
    BY DEF FenceStep
  <2>1. CASE b = a
    BY <1>9, <2>1, NoRowFields DEF RevokedByFence
  <2>2. CASE b # a
    BY <1>8, <2>2 DEF RevokedByFence
  <2> QED BY <2>1, <2>2
<1>12. ReservationRows'
  <2> SUFFICES ASSUME NEW b \in Attempts
               PROVE  Reserved(attempts'[b], jobs'[attempts'[b].job].state)
    BY DEF ReservationRows
  <2>1. CASE b = a
    BY <1>2, <1>3, <1>5, <1>8, <2>1 DEF Reserved
  <2>2. CASE b # a
    <3>1. Reserved(attempts[b], jobs[attempts[b].job].state) /\ attempts'[b] = attempts[b]
      BY <1>8, <2>2 DEF RowInv, ReservationRows
    <3>2. attempts[b].alloc = "HELD" => attempts[b].job \in Jobs /\ attempts[b].job # j
      <4>1. attempts[b].job = j => attempts[b].alloc = "RELEASED"
        BY <1>1, QueuedReleased DEF RowInv, Running
      <4>2. attempts[b].alloc = "HELD" => attempts[b].job \in Jobs
        BY RowTypes DEF RowInv, Inv, UnusedRows, NoRow
      <4> QED BY <4>1, <4>2
    <3>3. attempts[b].alloc = "HELD" => jobs'[attempts[b].job] = jobs[attempts[b].job]
      BY <1>5, <3>2 DEF OthersKept
    <3> QED BY <3>1, <3>3 DEF Reserved
  <2> QED BY <2>1, <2>2
<1> QED BY <1>5, <1>6, <1>7, <1>10, <1>11, <1>12 DEF RowStep

-----------------------------------------------------------------------------
(* Verified cleanup. *)

\* The job row a cleanup writes, compared with the one it finds.
LEMMA CleanedMoves ==
  ASSUME RowInv, NEW a \in Attempts, NEW j \in Jobs, attempts[a].job = j, MayCleanUp(a)
  PROVE  /\ \/ Cleaned(j, a) = jobs[j]
            \/ Moves(jobs[j], Cleaned(j, a))
            \/ Finishes(jobs[j], Cleaned(j, a)) /\ Cleaned(j, a).state # "SUCCEEDED"
         /\ jobs[j].state \in Terminal => Cleaned(j, a) = jobs[j]
         /\ Cleaned(j, a).state = "PAUSED" => Restorable(j)
         /\ jobs[j].state \in Running => Cleaned(j, a).state = "PAUSED"
         /\ Cleaned(j, a).ref = jobs[j].ref
<1> DEFINE c == [jobs[j] EXCEPT !.state = "CANCELLED", !.intent = "NONE"]
           p == [jobs[j] EXCEPT !.state = "PAUSED", !.intent = "NONE"]
           g == jobs[j].retries + 1
           i == IF jobs[j].desired = "PAUSED" THEN "CHECKPOINT_FOR_PAUSE" ELSE jobs[j].intent
           r == [jobs[j] EXCEPT !.state = "RETRY_WAIT", !.retries = g, !.intent = i]
           e == [jobs[j] EXCEPT !.state = "FAILED", !.intent = "NONE"]
<1>t. /\ jobs[j] \in JobType /\ jobs[j].fence \in Nat
      /\ jobs[j].state \in {"CANCELLING", "PAUSING", "RECOVERING", "SUCCEEDED"}
  BY CleanupFacts, JobRowFields DEF RowInv
<1>1. /\ jobs[j].state = "CANCELLING" => Cleaned(j, a) = c
      /\ jobs[j].state = "PAUSING" => Cleaned(j, a) = p
      /\ jobs[j].state = "RECOVERING" => Cleaned(j, a) = Recovered(j, a)
      /\ jobs[j].state = "SUCCEEDED" => Cleaned(j, a) = jobs[j]
  BY DEF Cleaned
<1>2. \/ Recovered(j, a) = p /\ Restorable(j)
      \/ Recovered(j, a) = r
      \/ Recovered(j, a) = e
  BY DEF Recovered
<1> HIDE DEF g, i
<1>3. /\ c.state = "CANCELLED" /\ c.fence = jobs[j].fence /\ c.ref = jobs[j].ref
      /\ p.state = "PAUSED" /\ p.fence = jobs[j].fence /\ p.ref = jobs[j].ref
      /\ r.state = "RETRY_WAIT" /\ r.fence = jobs[j].fence /\ r.ref = jobs[j].ref
      /\ e.state = "FAILED" /\ e.fence = jobs[j].fence /\ e.ref = jobs[j].ref
  BY <1>t DEF JobType
<1>4. jobs[j].state = "PAUSING" => Restorable(j)
  BY DEF MayCleanUp, Terminal, Restorable
<1> HIDE DEF c, p, r, e
<1>5. CASE jobs[j].state = "CANCELLING"
  BY <1>1, <1>3, <1>5, <1>t DEF Finishes, Open, Terminal, Running
<1>6. CASE jobs[j].state = "PAUSING"
  BY <1>1, <1>3, <1>4, <1>6, <1>t DEF Moves, Open, Terminal, Running
<1>7. CASE jobs[j].state = "RECOVERING"
  BY <1>1, <1>2, <1>3, <1>7, <1>t DEF Moves, Finishes, Open, Terminal, Running
<1>8. CASE jobs[j].state = "SUCCEEDED"
  BY <1>1, <1>8, <1>t DEF Terminal, Running
<1> QED BY <1>t, <1>5, <1>6, <1>7, <1>8, Zenon

\* An attempt that may be cleaned up has no reservation left.
LEMMA CleanupUnreserved ==
  ASSUME RowInv, NEW a \in Attempts, MayCleanUp(a)
  PROVE  attempts[a].ckpt = 0 /\ attempts[a].result = 0
<1> DEFINE row == attempts[a]
           s == jobs[attempts[a].job].state
<1>1. /\ row.job # NoJob /\ row \in AttemptType /\ Unreleased(a)
      /\ s \in {"CANCELLING", "PAUSING", "RECOVERING", "SUCCEEDED"}
  BY CleanupFacts DEF RowInv
<1>2. Reserved(row, s)
  BY DEF RowInv, ReservationRows
<1>3. CASE row.alloc = "QUARANTINED"
  <2>1. row.grant \in Nat /\ ~(row.grant > 0)
    BY <1>1, <1>3, AttemptRowFields DEF RowInv, Inv, AuthorityRows
  <2>2. row.grant = 0
    BY <2>1
  <2> QED BY <1>2, <2>2 DEF Reserved
<1>4. CASE row.alloc = "HELD"
  <2>1. s \in Running \cup {"SUCCEEDED"}
    BY <1>1, <1>4 DEF RowInv, Inv, AttemptToJob
  <2>2. s \in {"PAUSING", "SUCCEEDED"}
    BY <1>1, <2>1 DEF Running
  <2>3. s = "PAUSING" => row.state = "STOPPING"
    BY DEF MayCleanUp, Terminal
  <2>4. s = "SUCCEEDED" => row.state = "SUCCEEDED"
    BY <1>2, <1>4 DEF Reserved
  <2> QED BY <1>2, <2>2, <2>3, <2>4 DEF Reserved
<1> QED BY <1>1, <1>3, <1>4 DEF Unreleased

\* report_cleanup.
LEMMA ReportCleanupRows ==
  ASSUME RowInv, NEW a \in Attempts, ReportCleanup(a)
  PROVE  RowStep
<1>m. MayCleanUp(a)
  BY DEF ReportCleanup
<1>1. PICK j \in Jobs : attempts[a].job = j
  BY <1>m, CleanupFacts DEF RowInv
<1> DEFINE e == EndedState(j, a)
           d == IF jobs[j].state = "PAUSING" THEN 0 ELSE attempts[a].result
           q == [attempts[a] EXCEPT !.state = e, !.alloc = "RELEASED", !.lease = "REVOKED",
                                    !.grant = 0, !.result = d]
           k == Cleaned(j, a)
<1>t. /\ attempts \in [Attempts -> AttemptType] /\ attempts[a] \in AttemptType
      /\ Unreleased(a) /\ attempts[a].job # NoJob
  BY <1>m, CleanupFacts DEF RowInv, Inv, TypeOK
<1>2. /\ attempts' = [attempts EXCEPT ![a] = q]
      /\ jobs' = [jobs EXCEPT ![j] = k]
      /\ active' = Adjust(active, j, -1)
      /\ outstanding' = IF Ends(jobs[j], k) THEN Adjust(outstanding, j, -1) ELSE outstanding
      /\ UNCHANGED <<good, results>>
  BY <1>1 DEF ReportCleanup
<1>3. /\ k = jobs[j] \/ Moves(jobs[j], k) \/ (Finishes(jobs[j], k) /\ k.state # "SUCCEEDED")
      /\ k.state = "PAUSED" => Restorable(j)
      /\ jobs[j].state \in Running => k.state = "PAUSED"
      /\ k.ref = jobs[j].ref
  BY <1>m, <1>1, CleanedMoves
<1>4. attempts[a].ckpt = 0 /\ attempts[a].result = 0
  BY <1>m, CleanupUnreserved
<1>5. d = 0
  BY <1>4
<1> HIDE DEF e, d, k
<1>6. /\ q.job = j /\ q.alloc = "RELEASED" /\ q.ckpt = 0 /\ q.result = 0
  BY <1>t, <1>1, <1>4, <1>5 DEF AttemptType
<1> HIDE DEF q
<1>7. JobsStep /\ OthersKept(j) /\ jobs'[j] = k
  <2>1. CASE k = jobs[j] \/ Moves(jobs[j], k)
    <3>1. ~Ends(jobs[j], k)
      BY <2>1 DEF Ends, Moves, Open
    <3> QED BY <1>2, <2>1, <3>1, OneJobMoves, Zenon
  <2>2. CASE Finishes(jobs[j], k) /\ k.state # "SUCCEEDED"
    <3>1. Ends(jobs[j], k)
      BY <2>2 DEF Ends, Finishes, Open
    <3> QED BY <1>2, <2>2, <3>1, OneJobFinishes, Zenon
  <2> QED BY <1>3, <2>1, <2>2
<1>8. \A b \in Attempts : /\ b # a => attempts'[b] = attempts[b]
                          /\ b = a => attempts'[b] = q
  BY <1>t, <1>2
<1>9. PausedIsResumable
  <2> SUFFICES ASSUME NEW i \in Jobs, jobs[i].state # "PAUSED", jobs'[i].state = "PAUSED"
               PROVE  Restorable(i)'
    BY DEF PausedIsResumable
  <2>1. i = j /\ Restorable(j) /\ jobs'[j].ref = jobs[j].ref
    BY <1>3, <1>7 DEF OthersKept
  <2>2. good' = good /\ \A b \in good : b \in Attempts
    BY <1>2 DEF RowInv, Inv, TypeOK
  <2>3. \A b \in good : attempts'[b].job = attempts[b].job
    BY <1>1, <1>6, <1>8, <2>2
  <2> QED BY <2>1, <2>2, <2>3 DEF Restorable
<1>10. FreshJobs'
  BY <1>7, FreshStep DEF RowInv
<1>11. AttemptsStep
  BY <1>1, <1>2, <1>6, <1>8, <1>t DEF AttemptsStep, AllocationReturned, Unreleased
<1>12. FenceStep
  <2> SUFFICES ASSUME NEW b \in Attempts PROVE RevokedByFence(b)
    BY DEF FenceStep
  <2>1. CASE b = a
    BY <1>1, <1>3, <1>7, <2>1, Zenon DEF RevokedByFence
  <2>2. CASE b # a
    BY <1>8, <2>2 DEF RevokedByFence
  <2> QED BY <2>1, <2>2
<1>13. ReservationRows'
  <2> SUFFICES ASSUME NEW b \in Attempts
               PROVE  Reserved(attempts'[b], jobs'[attempts'[b].job].state)
    BY DEF ReservationRows
  <2>1. CASE b = a
    BY <1>6, <1>8, <2>1 DEF Reserved
  <2>2. CASE b # a
    <3>1. Reserved(attempts[b], jobs[attempts[b].job].state) /\ attempts'[b] = attempts[b]
      BY <1>8, <2>2 DEF RowInv, ReservationRows
    <3>2. attempts[b].alloc = "HELD" => attempts[b].job \in Jobs
      BY RowTypes DEF RowInv, Inv, UnusedRows, NoRow
    <3>3. attempts[b].alloc = "HELD" => attempts[b].job # j
      BY <1>1, <1>t, <2>2 DEF RowInv, Inv, OneUnreleased, Unreleased
    <3>4. attempts[b].alloc = "HELD" => jobs'[attempts[b].job] = jobs[attempts[b].job]
      BY <1>7, <3>2, <3>3 DEF OthersKept
    <3> QED BY <3>1, <3>4 DEF Reserved
  <2> QED BY <2>1, <2>2
<1> QED BY <1>7, <1>9, <1>10, <1>11, <1>12, <1>13 DEF RowStep

-----------------------------------------------------------------------------
(* Disabling the worker, and the steps that touch no row. *)

\* disable_worker.
LEMMA DisableWorkerRows ==
  ASSUME RowInv, DisableWorker
  PROVE  RowStep
<1> DEFINE lost == {a \in Attempts : LeaseHeld(a) /\ Current(a)}
           hit(j) == \E a \in lost : attempts[a].job = j
<1>t. jobs \in [Jobs -> JobType] /\ attempts \in [Attempts -> AttemptType]
  BY DEF RowInv, Inv, TypeOK
<1>1. /\ attempts' = [a \in Attempts |->
           IF a \in lost THEN Fenced(attempts[a], "STOPPING", "INFRASTRUCTURE")
           ELSE IF LeaseHeld(a) THEN Revoked(attempts[a]) ELSE attempts[a]]
      /\ jobs' = [j \in Jobs |-> IF hit(j) THEN LostAttempt(jobs[j]) ELSE jobs[j]]
      /\ UNCHANGED <<results, outstanding, active>>
  BY DEF DisableWorker, counters
<1>2. \A a \in Attempts : LeaseHeld(a) =>
        /\ attempts[a].job \in Jobs /\ attempts[a].alloc = "HELD"
        /\ jobs[attempts[a].job].state \in Running <=> a \in lost
  BY HeldFacts DEF Current, RowInv
<1>3. \A j \in Jobs : hit(j) => jobs[j].state \in Running
  BY <1>2
<1>l. lost \subseteq Attempts /\ \A a \in lost : LeaseHeld(a)
  OBVIOUS
<1> HIDE DEF lost
<1>4. \A j \in Jobs :
        /\ hit(j) => /\ Moves(jobs[j], jobs'[j]) /\ jobs'[j].fence > jobs[j].fence
                     /\ jobs'[j].state = "RECOVERING"
        /\ ~hit(j) => jobs'[j] = jobs[j]
  <2> TAKE j \in Jobs
  <2>1. CASE hit(j)
    <3>1. jobs'[j] = LostAttempt(jobs[j])
      BY <1>1, <2>1
    <3>2. jobs[j] \in JobType /\ jobs[j].state \in Running
      BY <1>t, <1>3, <2>1
    <3> QED BY <2>1, <3>1, <3>2, LostMoves
  <2>2. CASE ~hit(j)
    BY <1>1, <2>2
  <2> QED BY <2>1, <2>2
<1>5. JobsStep
  BY <1>1, <1>4 DEF JobsStep, JobsMove
<1>6. PausedIsResumable
  BY <1>4 DEF PausedIsResumable
<1>7. FreshJobs'
  BY <1>5, FreshStep DEF RowInv
<1>8. \A a \in Attempts :
        /\ LeaseHeld(a) => /\ attempts'[a].job = attempts[a].job
                           /\ attempts'[a].alloc = "QUARANTINED" /\ attempts'[a].grant = 0
                           /\ \A s : Reserved(attempts'[a], s)
        /\ ~LeaseHeld(a) => attempts'[a] = attempts[a]
  <2> TAKE a \in Attempts
  <2>1. CASE a \in lost
    <3>1. attempts'[a] = Fenced(attempts[a], "STOPPING", "INFRASTRUCTURE")
      BY <1>1, <2>1
    <3>2. LeaseHeld(a) /\ attempts[a] \in AttemptType /\ attempts[a].alloc = "HELD"
      BY <1>t, <1>2, <1>l, <2>1
    <3> QED BY <3>1, <3>2, FencedFields, FencedReserved
  <2>2. CASE a \notin lost /\ LeaseHeld(a)
    <3>1. attempts'[a] = Revoked(attempts[a])
      BY <1>1, <2>2
    <3>2. attempts[a] \in AttemptType /\ attempts[a].alloc = "HELD"
      BY <1>t, <1>2, <2>2
    <3> QED BY <2>2, <3>1, <3>2, RevokedFields, RevokedReserved
  <2>3. CASE ~LeaseHeld(a)
    BY <1>1, <1>l, <2>3
  <2> QED BY <2>1, <2>2, <2>3
<1>9. AttemptsStep
  <2>1. \A a \in Attempts : attempts'[a].job = attempts[a].job
    BY <1>8
  <2>2. \A a \in Attempts : Unreleased(a)' <=> Unreleased(a)
    BY <1>2, <1>8 DEF Unreleased
  <2> QED BY <1>1, <2>1, <2>2 DEF AttemptsStep, AllocationsKept
<1>10. FenceStep
  <2> SUFFICES ASSUME NEW a \in Attempts PROVE RevokedByFence(a)
    BY DEF FenceStep
  <2>1. CASE LeaseHeld(a) /\ jobs[attempts[a].job].state \in Running
    <3>1. attempts[a].job \in Jobs /\ hit(attempts[a].job)
      BY <1>2, <2>1
    <3> QED BY <1>4, <3>1 DEF RevokedByFence
  <2>2. CASE ~LeaseHeld(a)
    BY <1>8, <2>2 DEF RevokedByFence
  <2>3. CASE jobs[attempts[a].job].state \notin Running
    BY <2>3 DEF RevokedByFence
  <2> QED BY <2>1, <2>2, <2>3
<1>11. ReservationRows'
  <2> SUFFICES ASSUME NEW a \in Attempts
               PROVE  Reserved(attempts'[a], jobs'[attempts'[a].job].state)
    BY DEF ReservationRows
  <2>1. CASE LeaseHeld(a)
    BY <1>8, <2>1
  <2>2. CASE ~LeaseHeld(a)
    <3>1. Reserved(attempts[a], jobs[attempts[a].job].state) /\ attempts'[a] = attempts[a]
      BY <1>8, <2>2 DEF RowInv, ReservationRows
    <3>2. attempts[a].alloc # "HELD"
      <4>1. attempts[a].job = NoJob => attempts[a] = NoRow
        BY DEF RowInv, Inv, UnusedRows
      <4>2. attempts[a].job # NoJob => (attempts[a].alloc = "HELD" <=> LeaseHeld(a))
        BY DEF RowInv, Inv, AuthorityRows
      <4> QED BY <2>2, <4>1, <4>2, NoRowFields
    <3> QED BY <3>1, <3>2 DEF Reserved
  <2> QED BY <2>1, <2>2
<1> QED BY <1>5, <1>6, <1>7, <1>9, <1>10, <1>11 DEF RowStep

\* Heartbeats, administration, the mode, the worker's containers and stuttering.
LEMMA RowsKept ==
  ASSUME RowInv, UNCHANGED <<jobs, attempts, results, counters>>
  PROVE  RowStep
<1>1. JobsStep /\ PausedIsResumable
  BY Zenon DEF JobsStep, JobsMove, PausedIsResumable, counters
<1> QED BY <1>1, JobsOnly DEF counters

-----------------------------------------------------------------------------
(* Every step is one of these, and the strengthened invariant always holds. *)

\* An empty database has no reservation and only fresh jobs.
LEMMA InitRows == Init => RowInv
<1> SUFFICES ASSUME Init PROVE RowInv
  OBVIOUS
<1>1. \A a \in Attempts : Reserved(attempts[a], jobs[attempts[a].job].state)
  BY DEF Init, NoRow, Reserved
<1>2. \A j \in Jobs : jobs[j] = NoJobRow
  BY DEF Init
<1> QED BY <1>1, <1>2, InitInv DEF RowInv, ReservationRows, FreshJobs

\* What every transaction, and everything the worker does on its own, does to the rows.
LEMMA NextRows == RowInv /\ [Next]_vars => RowStep /\ RowInv'
<1> SUFFICES ASSUME RowInv, [Next]_vars PROVE RowStep /\ RowInv'
  OBVIOUS
<1>1. ASSUME UserStep PROVE RowStep
  <2>1. PICK j \in Jobs :
          \/ Submit(j) \/ PauseJob(j) \/ ResumeJob(j) \/ CancelJob(j)
          \/ \E src \in Jobs : RetryFailedJob(j, src)
    BY <1>1 DEF UserStep
  <2>2. ASSUME \E src \in Jobs : RetryFailedJob(j, src) PROVE RowStep
    BY <2>2, CreateJobRows DEF RetryFailedJob
  <2> QED BY <2>1, <2>2, CreateJobRows, PauseJobRows, ResumeJobRows, CancelWaitingRows,
             CancelRunningRows, CancelRecoveringRows DEF CancelJob, Submit
<1>2. ASSUME CoordinatorStep PROVE RowStep
  BY <1>2, PromoteRetryRows, DispatchRows, ReapLeaseRows DEF CoordinatorStep
<1>3. ASSUME CallbackStep PROVE RowStep
  <2>1. PICK a \in Attempts :
          \/ ClaimAttempt(a) \/ StartAttempt(a) \/ AdoptAttempt(a)
          \/ ReserveResult(a) \/ CompleteAttempt(a)
          \/ ReserveCheckpoint(a) \/ PublishCheckpoint(a) \/ RejectCheckpoint(a)
          \/ \E b \in Attempts : MarkCorrupt(a, b)
          \/ \E class \in FailureClasses : FailAttempt(a, class)
          \/ ReportCleanup(a)
    BY <1>3 DEF CallbackStep
  <2>2. ASSUME NEW b \in Attempts, MarkCorrupt(a, b) PROVE RowStep
    BY <2>2, RowsKept DEF MarkCorrupt
  <2> QED BY <2>1, <2>2, ClaimAttemptRows, StartAttemptRows, AdoptAttemptRows,
             ReserveResultRows, CompleteAttemptRows, ReserveCheckpointRows,
             PublishCheckpointRows, RejectCheckpointRows, FailAttemptRows, ReportCleanupRows
<1>4. ASSUME WorkerStep PROVE RowStep
  <2>1. CASE DisableWorker
    BY <2>1, DisableWorkerRows
  <2>2. CASE ~DisableWorker
    <3>1. UNCHANGED <<jobs, attempts, results, counters>>
      BY <1>4, <2>2, Zenon DEF WorkerStep, CreateIncarnation, Heartbeat, SweepHealth,
         DrainWorker, EnableWorker, SetMode
    <3> QED BY <3>1, RowsKept
  <2> QED BY <2>1, <2>2
<1>5. ASSUME EnvironmentStep PROVE RowStep
  <2>1. PICK a \in Attempts : LeaseExpires(a) \/ CreateContainer(a) \/ RetireExecution(a)
    BY <1>5 DEF EnvironmentStep
  <2>2. CASE LeaseExpires(a)
    BY <2>2, LeaseExpiresRows
  <2>3. CASE CreateContainer(a) \/ RetireExecution(a)
    BY <2>3, RowsKept DEF CreateContainer, RetireExecution
  <2> QED BY <2>1, <2>2, <2>3
<1>6. ASSUME UNCHANGED vars PROVE RowStep
  BY <1>6, RowsKept DEF vars, counters
<1>7. RowStep
  BY <1>1, <1>2, <1>3, <1>4, <1>5, <1>6 DEF Next
<1>8. Inv'
  BY NextInv DEF RowInv
<1> QED BY <1>7, <1>8 DEF RowInv, RowStep

\* Reservations, grants and phases of an attempt agree in every reachable state.
THEOREM RowInvariance == Spec => []RowInv
<1> QED BY InitRows, NextRows, PTL DEF Spec

-----------------------------------------------------------------------------
(* Controls. *)

\* What a step may do to one job.
LEMMA JobRowStep ==
  ASSUME RowStep, NEW j \in Jobs
  PROVE  \/ jobs'[j] = jobs[j]
         \/ Enters(jobs[j], jobs'[j])
         \/ Moves(jobs[j], jobs'[j])
         \/ Finishes(jobs[j], jobs'[j])
<1> QED BY Zenon DEF RowStep, JobsStep, JobsMove, JobEnters, JobFinishes, OthersKept

\* From the rows: fences, reservations, pauses and cancels.
LEMMA RowStepControls ==
  ASSUME RowInv, RowInv', RowStep
  PROVE  FenceAdvances /\ ReservationsBound' /\ PausedIsResumable /\ CancelWins
<1>1. \A j \in Jobs : \/ jobs'[j] = jobs[j]
                      \/ Enters(jobs[j], jobs'[j])
                      \/ Moves(jobs[j], jobs'[j])
                      \/ Finishes(jobs[j], jobs'[j])
  BY JobRowStep
<1>2. FenceAdvances
  <2>1. \A j \in Jobs : jobs'[j].fence >= jobs[j].fence
    <3> TAKE j \in Jobs
    <3>1. jobs[j].fence \in Nat
      BY JobRowFields DEF RowInv, Inv, TypeOK
    <3>2. jobs[j] = NoJobRow => jobs[j].fence = 0
      BY DEF NoJobRow
    <3> QED BY <1>1, <3>1, <3>2 DEF Enters, Moves, Finishes
  <2>2. ASSUME NEW j \in Jobs, NEW a \in Attempts, attempts[a].job = j,
               jobs[j].state \in Running, attempts[a].grant > 0, attempts'[a].grant = 0,
               jobs'[j].state # "PAUSED"
        PROVE  jobs'[j].fence > attempts[a].fence
    <3>1. attempts[a].fence = jobs[j].fence
      BY <2>2, IdentityAssumption, Zenon DEF RowInv, Inv, AuthorityRows, AttemptToJob
    <3>2. jobs'[j].fence > jobs[j].fence
      BY <2>2 DEF RowStep, FenceStep, RevokedByFence
    <3> QED BY <3>1, <3>2
  <2> QED BY <2>1, <2>2 DEF FenceAdvances
<1>3. ReservationsBound'
  BY Zenon DEF RowInv, ReservationRows, Reserved, ReservationsBound
<1>4. CancelWins
  <2> SUFFICES ASSUME NEW j \in Jobs, jobs[j].desired = "CANCELLED"
               PROVE  jobs'[j].state \in {"CANCELLING", "CANCELLED"}
    BY DEF CancelWins
  <2>1. jobs[j].state \in {"CANCELLING", "CANCELLED"}
    BY DEF RowInv, Inv, IntentRows, IntentRow
  <2> QED BY <1>1, <2>1 DEF Enters, Moves, Finishes, Open, Terminal, NoJobRow
<1> QED BY <1>2, <1>3, <1>4 DEF RowStep

\* No transaction of user, coordinator, reaper or worker overrides a control that was
\* accepted: the fence of a job never falls and every revoke of a running attempt
\* raises it, no reservation outlives its grant, a pause leaves a checkpoint to resume
\* from, and a committed cancel wins (fence_attempt, adopt_attempt, report_cleanup).
THEOREM ControlsAreRespected == Spec => ControlRespected
<1>1. RowInv /\ RowInv' /\ [Next]_vars =>
        [FenceAdvances /\ ReservationsBound' /\ PausedIsResumable /\ CancelWins]_vars
  BY NextRows, RowStepControls
<1> QED BY <1>1, RowInvariance, PTL DEF Spec, ControlRespected

-----------------------------------------------------------------------------
(* Results and ends. *)

Own(j) == {a \in results : attempts[a].job = j}

\* A job has a result once it SUCCEEDED, and no second one.
ResultRows ==
  \A j \in Jobs : IF jobs[j].state = "SUCCEEDED" THEN \E a \in Attempts : Own(j) = {a}
                                                 ELSE Own(j) = {}

\* The attempts that own a result keep their job.
LEMMA OwnersKept ==
  ASSUME RowInv, RowStep
  PROVE  \A a \in results : attempts'[a].job = attempts[a].job
<1> SUFFICES ASSUME NEW a \in results PROVE attempts'[a].job = attempts[a].job
  OBVIOUS
<1>1. a \in Attempts /\ attempts[a].job # NoJob
  BY DEF RowInv, Inv, TypeOK, UnusedRows
<1> QED BY <1>1, Zenon DEF RowStep, AttemptsStep, AllocationsKept, AllocationTaken, AllocationReturned

\* Every step keeps it: only a completion adds a result, to a job that had none.
LEMMA ResultRowsStep ==
  ASSUME RowInv, ResultRows, RowStep
  PROVE  ResultRows'
<1>1. \A a \in results : attempts'[a].job = attempts[a].job
  BY OwnersKept
<1> SUFFICES ASSUME NEW i \in Jobs
             PROVE  IF jobs'[i].state = "SUCCEEDED" THEN \E a \in Attempts : Own(i)' = {a}
                                                    ELSE Own(i)' = {}
  BY DEF ResultRows
<1>2. results' = results => Own(i)' = Own(i)
  BY <1>1 DEF Own
<1>3. ASSUME results' = results, jobs'[i].state = "SUCCEEDED" <=> jobs[i].state = "SUCCEEDED"
      PROVE  IF jobs'[i].state = "SUCCEEDED" THEN \E a \in Attempts : Own(i)' = {a}
                                             ELSE Own(i)' = {}
  BY <1>2, <1>3 DEF ResultRows
<1>4. CASE JobsMove
  <2>1. jobs'[i].state = "SUCCEEDED" <=> jobs[i].state = "SUCCEEDED"
    BY <1>4 DEF JobsMove, Moves, Open, Terminal
  <2> QED BY <1>3, <1>4, <2>1 DEF JobsMove
<1>5. CASE \E j \in Jobs : JobEnters(j)
  <2>1. jobs'[i].state = "SUCCEEDED" <=> jobs[i].state = "SUCCEEDED"
    BY <1>5 DEF JobEnters, OthersKept, Enters, NoJobRow
  <2> QED BY <1>3, <1>5, <2>1 DEF JobEnters
<1>6. ASSUME NEW j \in Jobs, JobFinishes(j)
      PROVE  IF jobs'[i].state = "SUCCEEDED" THEN \E a \in Attempts : Own(i)' = {a}
                                             ELSE Own(i)' = {}
  <2>0. jobs[j].state # "SUCCEEDED" /\ \A l \in Jobs \ {j} : jobs'[l] = jobs[l]
    BY <1>6, Zenon DEF JobFinishes, Finishes, Open, Terminal, OthersKept
  <2>1. CASE jobs'[j].state # "SUCCEEDED" /\ UNCHANGED results
    BY <1>3, <2>0, <2>1
  <2>2. CASE jobs'[j].state = "SUCCEEDED"
             /\ \E a \in Attempts : attempts[a].job = j /\ results' = results \cup {a}
    <3>1. PICK a \in Attempts : attempts[a].job = j /\ results' = results \cup {a}
      BY <2>2
    <3>2. attempts'[a].job = j
      <4>1. attempts[a].job # NoJob
        BY <3>1, IdentityAssumption
      <4> QED BY <3>1, <4>1, Zenon
          DEF RowStep, AttemptsStep, AllocationsKept, AllocationTaken, AllocationReturned
    <3>3. Own(j) = {}
      BY <2>0 DEF ResultRows
    <3>4. CASE i = j
      <4>1. Own(j)' = {a}
        BY <1>1, <3>1, <3>2, <3>3 DEF Own
      <4> QED BY <2>2, <3>4, <4>1
    <3>5. CASE i # j
      <4>1. Own(i)' = Own(i)
        BY <1>1, <3>1, <3>2, <3>5 DEF Own
      <4> QED BY <2>0, <3>5, <4>1 DEF ResultRows
    <3> QED BY <3>4, <3>5
  <2> QED BY <1>6, <2>1, <2>2, Zenon DEF JobFinishes
<1> QED BY <1>4, <1>5, <1>6 DEF RowStep, JobsStep

INSTANCE FiniteSetTheorems

\* Counting the results of a job.
LEMMA OneResult == ResultRows => ResultUnique
<1> SUFFICES ASSUME ResultRows, NEW j \in Jobs
             PROVE  Cardinality(Own(j)) = IF jobs[j].state = "SUCCEEDED" THEN 1 ELSE 0
  BY DEF ResultUnique, Own
<1>1. CASE jobs[j].state = "SUCCEEDED"
  <2>1. PICK a \in Attempts : Own(j) = {a}
    BY <1>1 DEF ResultRows
  <2> QED BY <1>1, <2>1, FS_Singleton, Zenon
<1>2. CASE jobs[j].state # "SUCCEEDED"
  <2>1. Own(j) = {}
    BY <1>2 DEF ResultRows
  <2> QED BY <1>2, <2>1, FS_EmptySet
<1> QED BY <1>1, <1>2

\* Of completion, failure, reap and cancel the first to commit decides: a job has one
\* result exactly if it SUCCEEDED, and a job that ended never changes again
\* (complete_attempt, report_cleanup, cancel_job).
THEOREM RacesHaveOneWinner == Spec => OneWinner
<1>1. Init => ResultRows
  BY DEF Init, ResultRows, Own, NoJobRow
<1>2. RowInv /\ ResultRows /\ [Next]_vars => ResultRows'
  BY NextRows, ResultRowsStep
<1>3. RowInv /\ ResultRows' /\ [Next]_vars => [ResultUnique' /\ TerminalStable]_vars
  <2> SUFFICES ASSUME RowInv, ResultRows', [Next]_vars PROVE ResultUnique' /\ TerminalStable
    OBVIOUS
  <2>1. ResultUnique'
    BY OneResult, PTL
  <2>2. RowStep
    BY NextRows
  <2>3. TerminalStable
    BY <2>2, JobRowStep DEF Enters, Moves, Finishes, Open, TerminalStable, Terminal, NoJobRow
  <2> QED BY <2>1, <2>3
<1> QED BY <1>1, <1>2, <1>3, RowInvariance, PTL DEF Spec, OneWinner

-----------------------------------------------------------------------------
(* Counters. *)

OpenIn(s) == {j \in Jobs : s \in ScopesOf[j] /\ Open(jobs[j])}
HeldIn(s) == {a \in Held : s \in ScopesOf[attempts[a].job]}

\* What is counted is finite.
LEMMA CountsFinite ==
  ASSUME NEW s
  PROVE  /\ IsFiniteSet(OpenIn(s)) /\ IsFiniteSet(HeldIn(s))
         /\ Cardinality(OpenIn(s)) \in Nat /\ Cardinality(HeldIn(s)) \in Nat
<1>1. IsFiniteSet(Attempts)
  BY FS_Interval, BoundAssumption DEF Attempts
<1>2. OpenIn(s) \in SUBSET Jobs /\ HeldIn(s) \in SUBSET Attempts
  BY DEF OpenIn, HeldIn, Held
<1>3. IsFiniteSet(OpenIn(s)) /\ IsFiniteSet(HeldIn(s))
  BY <1>1, <1>2, FinitePool, FS_Subset
<1> QED BY <1>3, FS_CardinalityType

\* The counter of outstanding jobs follows the jobs.
LEMMA OutstandingStep ==
  ASSUME RowInv, JobsStep, NEW s \in Scopes, outstanding[s] = Cardinality(OpenIn(s))
  PROVE  outstanding'[s] = Cardinality(OpenIn(s)')
<1>f. IsFiniteSet(OpenIn(s)) /\ Cardinality(OpenIn(s)) \in Nat
  BY CountsFinite
<1>1. CASE JobsMove
  <2>1. OpenIn(s)' = OpenIn(s)
    BY <1>1 DEF JobsMove, OpenIn, Moves
  <2> QED BY <1>1, <2>1 DEF JobsMove
<1>2. ASSUME NEW j \in Jobs, JobEnters(j) PROVE outstanding'[s] = Cardinality(OpenIn(s)')
  <2>0. /\ ~Open(jobs[j]) /\ Open(jobs'[j])
        /\ \A i \in Jobs \ {j} : jobs'[i] = jobs[i]
        /\ outstanding' = Adjust(outstanding, j, 1)
    BY <1>2 DEF JobEnters, OthersKept, Enters, Open, NoJobRow, Terminal
  <2>1. CASE s \in ScopesOf[j]
    <3>1. OpenIn(s)' = OpenIn(s) \cup {j} /\ j \notin OpenIn(s)
      BY <2>0, <2>1 DEF OpenIn
    <3>2. Cardinality(OpenIn(s)') = Cardinality(OpenIn(s)) + 1
      BY <1>f, <3>1, FS_AddElement, Zenon
    <3> QED BY <2>0, <2>1, <3>2 DEF Adjust
  <2>2. CASE s \notin ScopesOf[j]
    <3>1. OpenIn(s)' = OpenIn(s)
      BY <2>0, <2>2 DEF OpenIn
    <3> QED BY <2>0, <2>2, <3>1 DEF Adjust
  <2> QED BY <2>1, <2>2
<1>3. ASSUME NEW j \in Jobs, JobFinishes(j) PROVE outstanding'[s] = Cardinality(OpenIn(s)')
  <2>0. /\ Open(jobs[j]) /\ ~Open(jobs'[j])
        /\ \A i \in Jobs \ {j} : jobs'[i] = jobs[i]
        /\ outstanding' = Adjust(outstanding, j, -1)
    BY <1>3 DEF JobFinishes, OthersKept, Finishes, Open
  <2>1. CASE s \in ScopesOf[j]
    <3>1. OpenIn(s)' = OpenIn(s) \ {j} /\ j \in OpenIn(s)
      BY <2>0, <2>1 DEF OpenIn
    <3>2. Cardinality(OpenIn(s)') = Cardinality(OpenIn(s)) - 1
      BY <1>f, <3>1, FS_RemoveElement, Zenon
    <3> QED BY <2>0, <2>1, <3>2, <1>f, Zenon DEF Adjust
  <2>2. CASE s \notin ScopesOf[j]
    <3>1. OpenIn(s)' = OpenIn(s)
      BY <2>0, <2>2 DEF OpenIn
    <3> QED BY <2>0, <2>2, <3>1 DEF Adjust
  <2> QED BY <2>1, <2>2
<1> QED BY <1>1, <1>2, <1>3 DEF JobsStep

\* The counter of active attempts follows the allocations.
LEMMA ActiveStep ==
  ASSUME RowInv, AttemptsStep, NEW s \in Scopes, active[s] = Cardinality(HeldIn(s))
  PROVE  active'[s] = Cardinality(HeldIn(s)')
<1>f. IsFiniteSet(HeldIn(s)) /\ Cardinality(HeldIn(s)) \in Nat
  BY CountsFinite
<1>o. ASSUME NEW a \in Attempts, \A b \in Attempts \ {a} : attempts'[b] = attempts[b]
      PROVE  HeldIn(s)' \ {a} = HeldIn(s) \ {a}
  BY <1>o DEF HeldIn, Held, Unreleased
<1>1. CASE AllocationsKept
  <2>1. HeldIn(s)' = HeldIn(s)
    BY <1>1 DEF AllocationsKept, HeldIn, Held
  <2> QED BY <1>1, <2>1 DEF AllocationsKept
<1>2. ASSUME NEW a \in Attempts, NEW j \in Jobs, AllocationTaken(a, j)
      PROVE  active'[s] = Cardinality(HeldIn(s)')
  <2>0. HeldIn(s)' \ {a} = HeldIn(s) \ {a} /\ a \notin HeldIn(s)
    BY <1>2, <1>o, Zenon DEF AllocationTaken, HeldIn, Held
  <2>1. a \in HeldIn(s)' <=> s \in ScopesOf[j]
    BY <1>2 DEF AllocationTaken, HeldIn, Held
  <2>2. CASE s \in ScopesOf[j]
    <3>1. HeldIn(s)' = HeldIn(s) \cup {a}
      BY <2>0, <2>1, <2>2
    <3>2. Cardinality(HeldIn(s)') = Cardinality(HeldIn(s)) + 1
      BY <1>f, <2>0, <3>1, FS_AddElement, Zenon
    <3> QED BY <1>2, <2>2, <3>2 DEF AllocationTaken, Adjust
  <2>3. CASE s \notin ScopesOf[j]
    <3>1. HeldIn(s)' = HeldIn(s)
      BY <2>0, <2>1, <2>3
    <3> QED BY <1>2, <2>3, <3>1 DEF AllocationTaken, Adjust
  <2> QED BY <2>2, <2>3
<1>3. ASSUME NEW a \in Attempts, NEW j \in Jobs, AllocationReturned(a, j)
      PROVE  active'[s] = Cardinality(HeldIn(s)')
  <2>0. HeldIn(s)' \ {a} = HeldIn(s) \ {a} /\ a \notin HeldIn(s)'
    BY <1>3, <1>o DEF AllocationReturned, HeldIn, Held
  <2>1. a \in HeldIn(s) <=> s \in ScopesOf[j]
    BY <1>3, Zenon DEF AllocationReturned, HeldIn, Held
  <2>2. CASE s \in ScopesOf[j]
    <3>1. HeldIn(s)' = HeldIn(s) \ {a}
      BY <2>0
    <3>2. Cardinality(HeldIn(s)') = Cardinality(HeldIn(s)) - 1
      BY <1>f, <2>1, <2>2, <3>1, FS_RemoveElement, Zenon
    <3> QED BY <1>3, <2>2, <3>2, <1>f DEF AllocationReturned, Adjust
  <2>3. CASE s \notin ScopesOf[j]
    <3>1. HeldIn(s)' = HeldIn(s)
      BY <2>0, <2>1, <2>3
    <3> QED BY <1>3, <2>3, <3>1 DEF AllocationReturned, Adjust
  <2> QED BY <2>2, <2>3
<1> QED BY <1>1, <1>2, <1>3 DEF AttemptsStep

SetCounters ==
  \A s \in Scopes : /\ outstanding[s] = Cardinality(OpenIn(s))
                    /\ active[s] = Cardinality(HeldIn(s))

\* CountersExact, restated over the two sets.
LEMMA CountersAsSets == CountersExact <=> SetCounters
<1> QED BY DEF CountersExact, SetCounters, OpenIn, HeldIn, Open

\* The counters admission and placement trust are never off by one, whatever races
\* and retries happened: every transaction that ends a job, or releases an attempt,
\* takes each counter row back exactly once (adjust_quota_counters, report_cleanup).
THEOREM CountersAreExact == Spec => []CountersExact
<1>1. Init => SetCounters
  <2> SUFFICES ASSUME Init, NEW s \in Scopes
               PROVE  /\ outstanding[s] = Cardinality(OpenIn(s))
                      /\ active[s] = Cardinality(HeldIn(s))
    BY DEF SetCounters
  <2>1. OpenIn(s) = {}
    BY Zenon DEF Init, OpenIn, Open, NoJobRow
  <2>2. HeldIn(s) = {}
    BY Zenon DEF Init, HeldIn, Held, Unreleased, NoRow
  <2> QED BY <2>1, <2>2, FS_EmptySet DEF Init
<1>2. RowInv /\ SetCounters /\ [Next]_vars => SetCounters'
  <2> SUFFICES ASSUME RowInv, SetCounters, [Next]_vars, NEW s \in Scopes
               PROVE  /\ outstanding'[s] = Cardinality(OpenIn(s)')
                      /\ active'[s] = Cardinality(HeldIn(s)')
    BY DEF SetCounters
  <2>1. JobsStep /\ AttemptsStep
    BY NextRows DEF RowStep
  <2> QED BY <2>1, OutstandingStep, ActiveStep DEF SetCounters
<1> QED BY <1>1, <1>2, CountersAsSets, RowInvariance, PTL DEF Spec
-----------------------------------------------------------------------------
(* Capacity. *)

\* What the inductive invariant says of the capacity: the units are finitely many.
CapacityInv == IsFiniteSet(Units(Held)) /\ Used <= Capacity

\* The units of one attempt are as many as its job demands.
LEMMA OwnUnits ==
  ASSUME NEW a, NEW n \in Nat
  PROVE  IsFiniteSet({a} \X (1..n)) /\ Cardinality({a} \X (1..n)) = n
<1>1. IsFiniteSet({a}) /\ Cardinality({a}) = 1
  BY FS_Singleton
<1>2. IsFiniteSet(1..n) /\ Cardinality(1..n) = n
  BY FS_Interval
<1>3. /\ IsFiniteSet({a} \X (1..n))
      /\ Cardinality({a} \X (1..n)) = Cardinality({a}) * Cardinality(1..n)
  BY <1>1, <1>2, FS_Product, Zenon
<1> QED BY <1>1, <1>2, <1>3

\* A dispatch adds the demand of its job and nothing else.
LEMMA TakenUnits ==
  ASSUME NEW a \in Attempts, NEW j \in Jobs, AllocationTaken(a, j), CapacityInv
  PROVE  CapacityInv'
<1> DEFINE own == {a} \X (1..Demand[j])
<1>1. Demand[j] \in Nat /\ Capacity \in Nat
  BY DemandAssumption
<1>2. IsFiniteSet(own) /\ Cardinality(own) = Demand[j]
  BY <1>1, OwnUnits, Zenon
<1>3. Held' = Held \cup {a}
  BY DEF AllocationTaken, Held, Unreleased
<1>4. /\ attempts'[a].job = j
      /\ \A b \in Held \ {a} : attempts'[b].job = attempts[b].job
  BY Zenon DEF AllocationTaken, Held
<1>5. Units(Held)' \subseteq Units(Held) \cup own
  BY <1>3, <1>4 DEF Units
<1>6. /\ IsFiniteSet(Units(Held) \cup own)
      /\ Cardinality(Units(Held) \cup own) <= Cardinality(Units(Held)) + Demand[j]
  <2>1. IsFiniteSet(Units(Held))
    BY DEF CapacityInv
  <2>2. /\ IsFiniteSet(Units(Held) \cup own) /\ IsFiniteSet(Units(Held) \cap own)
        /\ Cardinality(Units(Held) \cup own)
             = Cardinality(Units(Held)) + Cardinality(own) - Cardinality(Units(Held) \cap own)
    BY <1>2, <2>1, FS_Union, FS_Intersection, Zenon
  <2>3. Cardinality(Units(Held)) \in Nat /\ Cardinality(Units(Held) \cap own) \in Nat
    BY <2>1, <2>2, FS_CardinalityType
  <2> HIDE DEF own
  <2> QED BY <1>1, <1>2, <2>2, <2>3
<1>7. IsFiniteSet(Units(Held)') /\ Cardinality(Units(Held)') <= Cardinality(Units(Held) \cup own)
  BY <1>5, <1>6, FS_Subset
<1>8. Cardinality(Units(Held)) + Demand[j] <= Capacity
  BY Zenon DEF AllocationTaken, Fits, Used
<1>9. /\ Cardinality(Units(Held)') \in Nat /\ Cardinality(Units(Held)) \in Nat
      /\ Cardinality(Units(Held) \cup own) \in Nat
  BY <1>6, <1>7, FS_CardinalityType DEF CapacityInv
<1> HIDE DEF own
<1> QED BY <1>1, <1>6, <1>7, <1>8, <1>9 DEF CapacityInv, Used

\* The single worker is never promised more than it has: what quarantined attempts
\* hold counts until their cleanup is verified, and the dispatch decides under the
\* locks that make the sum current (_held_capacity, apply_decision).
THEOREM CapacityIsRespected == Spec => []CapacityRespected
<1>1. Init => CapacityInv
  <2> SUFFICES ASSUME Init PROVE CapacityInv
    OBVIOUS
  <2>1. Held = {}
    BY Zenon DEF Init, Held, Unreleased, NoRow
  <2>2. Units(Held) = {}
    BY <2>1 DEF Units
  <2> QED BY <2>2, FS_EmptySet, DemandAssumption DEF CapacityInv, Used
<1>2. RowInv /\ CapacityInv /\ [Next]_vars => CapacityInv'
  <2> SUFFICES ASSUME RowInv, CapacityInv, [Next]_vars PROVE CapacityInv'
    OBVIOUS
  <2>1. AttemptsStep
    BY NextRows DEF RowStep
  <2>2. ASSUME NEW S, Held' = S, S \subseteq Held,
               \A a \in S : attempts'[a].job = attempts[a].job
        PROVE  CapacityInv'
    <3>1. IsFiniteSet(Units(Held)') /\ Cardinality(Units(Held)') <= Cardinality(Units(Held))
      <4>1. Units(Held)' \subseteq Units(Held)
        BY <2>2 DEF Units
      <4> QED BY <4>1, FS_Subset DEF CapacityInv
    <3>2. Cardinality(Units(Held)') \in Nat /\ Cardinality(Units(Held)) \in Nat
      BY <3>1, FS_CardinalityType DEF CapacityInv
    <3> QED BY <3>1, <3>2, DemandAssumption DEF CapacityInv, Used
  <2>3. CASE AllocationsKept
    <3>1. Held' = Held /\ \A a \in Held : attempts'[a].job = attempts[a].job
      BY <2>3 DEF AllocationsKept, Held
    <3> QED BY <2>2, <3>1
  <2>4. ASSUME NEW a \in Attempts, NEW j \in Jobs, AllocationReturned(a, j)
        PROVE  CapacityInv'
    <3>1. Held' \subseteq Held /\ \A b \in Held' : attempts'[b].job = attempts[b].job
      BY <2>4 DEF AllocationReturned, Held, Unreleased
    <3> QED BY <2>2, <3>1
  <2> QED BY <2>1, <2>3, <2>4, TakenUnits DEF AttemptsStep
<1>3. CapacityInv => CapacityRespected
  BY DEF CapacityInv, CapacityRespected
<1> QED BY <1>1, <1>2, <1>3, RowInvariance, PTL DEF Spec
=============================================================================
