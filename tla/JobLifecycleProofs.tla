-------------------------- MODULE JobLifecycleProofs --------------------------
(***************************************************************************)
(* Proofs about JobLifecycle, for any number of jobs, attempts, scopes,     *)
(* retries and worker incarnations: what its steps write keeps the row      *)
(* types, its steps preserve the inductive invariant, and the properties    *)
(* that the invariant implies.                                              *)
(***************************************************************************)
EXTENDS JobLifecycle, TLAPS

-----------------------------------------------------------------------------
(* Row types. *)

\* The names the actions write are job states.
LEMMA JobStateNames ==
  /\ "QUEUED" \in JobStates /\ "PAUSING" \in JobStates /\ "CANCELLED" \in JobStates
  /\ "CANCELLING" \in JobStates /\ "DISPATCHING" \in JobStates
  /\ "RECOVERING" \in JobStates /\ "RUNNING" \in JobStates /\ "SUCCEEDED" \in JobStates
  /\ "PAUSED" \in JobStates /\ "RETRY_WAIT" \in JobStates /\ "FAILED" \in JobStates
  /\ "NONE" \in JobStates
  BY DEF JobStates, Terminal, Running

\* The names the actions write are attempt states.
LEMMA AttemptStateNames ==
  /\ "CREATED" \in AttemptStates /\ "CLAIMED" \in AttemptStates
  /\ "RUNNING" \in AttemptStates /\ "CHECKPOINTING" \in AttemptStates
  /\ "STOPPING" \in AttemptStates /\ "SUCCEEDED" \in AttemptStates
  /\ "FAILED" \in AttemptStates /\ "CANCELLED" \in AttemptStates
  /\ "LOST" \in AttemptStates
  BY DEF AttemptStates

\* The fields of a job row have the types the schema gives them.
LEMMA JobRowFields ==
  ASSUME NEW job \in JobType
  PROVE  /\ job.state \in JobStates /\ job.desired \in {"RUNNING", "PAUSED", "CANCELLED"}
         /\ job.intent \in {"NONE", "CHECKPOINT_FOR_PAUSE"} /\ job.fence \in Nat
         /\ job.retries \in 0..MaxRetries /\ job.lineage \subseteq Jobs
         /\ job.ref \in Attempts \cup {NoAttempt}
  BY DEF JobType

\* The fields of an attempt row have the types the schema gives them.
LEMMA AttemptRowFields ==
  ASSUME NEW row \in AttemptType
  PROVE  /\ row.job \in Jobs \cup {NoJob} /\ row.first \in BOOLEAN /\ row.fence \in Nat
         /\ row.lease \in {"NONE", "LIVE", "EXPIRED", "REVOKED"}
         /\ row.alloc \in {"NONE", "HELD", "QUARANTINED", "RELEASED"}
         /\ row.grant \in Nat /\ row.ckpt \in Nat /\ row.result \in Nat
         /\ row.bound \in BOOLEAN /\ row.claimed \in BOOLEAN
         /\ row.class \in FailureClass
  BY DEF AttemptType

\* A job row stays one when its state, desire, intent, fence or retries change.
LEMMA JobRowUpdate ==
  ASSUME NEW job \in JobType, NEW s \in JobStates,
         NEW d \in {"RUNNING", "PAUSED", "CANCELLED"},
         NEW i \in {"NONE", "CHECKPOINT_FOR_PAUSE"}, NEW f \in Nat, NEW r \in 0..MaxRetries
  PROVE  /\ [job EXCEPT !.state = s] \in JobType
         /\ [job EXCEPT !.state = s, !.desired = d] \in JobType
         /\ [job EXCEPT !.state = s, !.intent = i] \in JobType
         /\ [job EXCEPT !.state = s, !.desired = d, !.intent = i] \in JobType
         /\ [job EXCEPT !.state = s, !.fence = f] \in JobType
         /\ [job EXCEPT !.state = s, !.desired = d, !.fence = f] \in JobType
         /\ [job EXCEPT !.state = s, !.retries = r, !.intent = i] \in JobType
<1>1. [job EXCEPT !.state = s] \in JobType BY DEF JobType
<1>2. [job EXCEPT !.state = s, !.desired = d] \in JobType BY Zenon DEF JobType
<1>3. [job EXCEPT !.state = s, !.intent = i] \in JobType BY Zenon DEF JobType
<1>4. [job EXCEPT !.state = s, !.desired = d, !.intent = i] \in JobType BY Zenon DEF JobType
<1>5. [job EXCEPT !.state = s, !.fence = f] \in JobType BY Zenon DEF JobType
<1>6. [job EXCEPT !.state = s, !.desired = d, !.fence = f] \in JobType BY Zenon DEF JobType
<1>7. [job EXCEPT !.state = s, !.retries = r, !.intent = i] \in JobType BY Zenon DEF JobType
<1> QED BY <1>1, <1>2, <1>3, <1>4, <1>5, <1>6, <1>7

\* A job that loses its attempt keeps its row type.
LEMMA LostAttemptType ==
  ASSUME NEW job \in JobType
  PROVE  LostAttempt(job) \in JobType
<1>1. job.fence + 1 \in Nat BY JobRowFields
<1> QED BY <1>1, JobRowUpdate, JobRowFields, JobStateNames, Zenon DEF LostAttempt

\* Revoking the authority of an attempt keeps its row type.
LEMMA RevokedType ==
  ASSUME NEW row \in AttemptType
  PROVE  Revoked(row) \in AttemptType
<1> DEFINE alloc == IF row.alloc = "HELD" THEN "QUARANTINED" ELSE row.alloc
<1>1. alloc \in {"NONE", "HELD", "QUARANTINED", "RELEASED"}
  BY AttemptRowFields
<1> HIDE DEF alloc
<1>2. [row EXCEPT !.lease = "REVOKED", !.grant = 0, !.ckpt = 0, !.result = 0,
                  !.alloc = alloc] \in AttemptType
  BY <1>1, Zenon DEF AttemptType
<1> QED BY <1>2 DEF Revoked, alloc

\* Fencing an attempt (fence_attempt) keeps its row type.
LEMMA FencedType ==
  ASSUME NEW row \in AttemptType, NEW state \in AttemptStates,
         NEW class \in FailureClass
  PROVE  Fenced(row, state, class) \in AttemptType
<1> DEFINE revoked == Revoked(row)
<1>1. revoked \in AttemptType BY RevokedType
<1> HIDE DEF revoked
<1>2. [revoked EXCEPT !.state = state, !.class = class] \in AttemptType
  BY <1>1, Zenon DEF AttemptType
<1> QED BY <1>2 DEF Fenced, revoked

\* What fencing does to the fields the invariant speaks of.
LEMMA RevokedFields ==
  ASSUME NEW row \in AttemptType
  PROVE  /\ Revoked(row).job = row.job /\ Revoked(row).fence = row.fence
         /\ Revoked(row).class = row.class /\ Revoked(row).state = row.state
         /\ Revoked(row).lease = "REVOKED" /\ Revoked(row).grant = 0
         /\ Revoked(row).bound = row.bound
         /\ row.alloc = "HELD" => Revoked(row).alloc = "QUARANTINED"
  BY DEF Revoked, AttemptType

\* What fencing does to the fields the invariant speaks of.
LEMMA FencedFields ==
  ASSUME NEW row \in AttemptType, NEW state, NEW class
  PROVE  /\ Fenced(row, state, class).job = row.job
         /\ Fenced(row, state, class).fence = row.fence
         /\ Fenced(row, state, class).class = class
         /\ Fenced(row, state, class).lease = "REVOKED"
         /\ Fenced(row, state, class).grant = 0
         /\ Fenced(row, state, class).bound = row.bound
         /\ row.alloc = "HELD" => Fenced(row, state, class).alloc = "QUARANTINED"
<1> DEFINE revoked == Revoked(row)
<1>1. revoked \in AttemptType BY RevokedType
<1>2. /\ revoked.job = row.job /\ revoked.fence = row.fence /\ revoked.lease = "REVOKED"
      /\ revoked.grant = 0 /\ revoked.bound = row.bound
      /\ row.alloc = "HELD" => revoked.alloc = "QUARANTINED"
  BY RevokedFields
<1> HIDE DEF revoked
<1> DEFINE fenced == [revoked EXCEPT !.state = state, !.class = class]
<1>3. /\ fenced.job = revoked.job /\ fenced.fence = revoked.fence /\ fenced.class = class
      /\ fenced.lease = revoked.lease /\ fenced.grant = revoked.grant
      /\ fenced.alloc = revoked.alloc /\ fenced.bound = revoked.bound
  BY <1>1 DEF AttemptType
<1>4. Fenced(row, state, class) = fenced
  BY DEF Fenced, revoked
<1> HIDE DEF fenced
<1> QED BY <1>2, <1>3, <1>4

-----------------------------------------------------------------------------
(* Three kinds of step. *)

\* Two rows of an attempt the invariant cannot tell apart.
SameAuthority(r, q) ==
  /\ q.job = r.job /\ q.fence = r.fence /\ q.class = r.class /\ q.alloc = r.alloc
  /\ q.lease \in {"LIVE", "EXPIRED"} <=> r.lease \in {"LIVE", "EXPIRED"}
  /\ q.grant > 0 <=> r.grant > 0

\* A job's state may move as long as what its attempts hold still fits it.
SamePhase(j, k) ==
  /\ k.state \in Running => j.state \in Running /\ k.fence = j.fence
  /\ j.state \in Running => k.state \in Running \cup {"SUCCEEDED"}
  /\ k.state \in {"RECOVERING", "CANCELLING"} <=> j.state \in {"RECOVERING", "CANCELLING"}
  /\ j.state = "SUCCEEDED" => k.state = "SUCCEEDED"

\* Steps that neither give nor take authority.
LEMMA KeepStep ==
  ASSUME Inv, TypeOK', IntentRows', WorkerRow',
         \A a \in Attempts : SameAuthority(attempts[a], attempts'[a]),
         \A j \in Jobs : SamePhase(jobs[j], jobs'[j]),
         \A a \in Attempts : attempts[a].job = NoJob =>
           /\ attempts'[a] = attempts[a] /\ exec'[a] = exec[a]
           /\ a \notin good' /\ a \notin results',
         \A a \in Attempts : exec[a] = "GONE" => exec'[a] = "GONE"
  PROVE  Inv'
<1>t. /\ \A a \in Attempts : attempts[a].job \in Jobs \cup {NoJob}
      /\ jobs \in [Jobs -> JobType] /\ NoJob \notin Jobs
  BY IdentityAssumption, AttemptRowFields DEF Inv, TypeOK
<1>1. UnusedRows'
  BY DEF Inv, UnusedRows, SameAuthority
<1>2. AuthorityRows'
  BY DEF Inv, AuthorityRows, SameAuthority, LeaseHeld
<1>3. AttemptToJob'
  BY <1>t DEF Inv, AttemptToJob, SameAuthority, SamePhase
<1>4. JobToAttempt'
  BY DEF Inv, JobToAttempt, SameAuthority, SamePhase
<1>5. OneUnreleased'
  BY DEF Inv, OneUnreleased, SameAuthority, Unreleased
<1> QED BY <1>1, <1>2, <1>3, <1>4, <1>5 DEF Inv

\* A row whose authority was taken away.
Taken(r, q) ==
  /\ r.alloc = "HELD" /\ q.alloc = "QUARANTINED"
  /\ q.job = r.job /\ q.fence = r.fence
  /\ q.lease = "REVOKED" /\ q.grant = 0

\* Steps that take the authority of the attempts in L, and with it stop their jobs.
LEMMA TakeStep ==
  ASSUME Inv, TypeOK', IntentRows', WorkerRow',
         NEW L \in SUBSET Attempts,
         \A a \in L : Taken(attempts[a], attempts'[a]),
         \A a \in L : jobs[attempts[a].job].state \in Running =>
           /\ attempts'[a].class # "NONE"
           /\ jobs'[attempts[a].job].state \in {"RECOVERING", "CANCELLING"},
         \A a \in Attempts \ L : attempts'[a] = attempts[a],
         \A j \in Jobs :
           \/ jobs'[j] = jobs[j]
           \/ /\ jobs[j].state \in Running
              /\ jobs'[j].state \in {"RECOVERING", "CANCELLING"}
              /\ \E a \in L : attempts[a].job = j,
         UNCHANGED <<good, results, exec>>
  PROVE  Inv'
<1>t. /\ \A a \in Attempts : attempts[a].job \in Jobs \cup {NoJob}
      /\ \A a \in Attempts : attempts[a].grant \in Nat
      /\ jobs \in [Jobs -> JobType] /\ NoJob \notin Jobs
  BY IdentityAssumption, AttemptRowFields DEF Inv, TypeOK
<1>0. \A a \in L : attempts[a].job # NoJob
  BY DEF Inv, UnusedRows, Taken, NoRow
<1>1. UnusedRows'
  BY <1>0 DEF Inv, UnusedRows, Taken
<1>2. AuthorityRows'
  BY <1>0 DEF Inv, AuthorityRows, Taken, LeaseHeld
<1>3. AttemptToJob'
  BY <1>t, <1>0 DEF Inv, AttemptToJob, Taken, Running, OneUnreleased, Unreleased
<1>4. JobToAttempt'
  BY <1>t, <1>0 DEF Inv, JobToAttempt, AttemptToJob, Taken, Running
<1>5. OneUnreleased'
  BY DEF Inv, OneUnreleased, Taken, Unreleased
<1> QED BY <1>1, <1>2, <1>3, <1>4, <1>5 DEF Inv

\* Adding or subtracting one in the scopes of a job keeps the counters numbers.
LEMMA AdjustType ==
  ASSUME NEW c \in [Scopes -> Int], NEW j \in Jobs
  PROVE  Adjust(c, j, 1) \in [Scopes -> Int] /\ Adjust(c, j, -1) \in [Scopes -> Int]
  BY DEF Adjust

\* The steps that only change one job and the counters.
LEMMA JobStep ==
  ASSUME Inv, NEW j \in Jobs, NEW k \in JobType,
         jobs' = [jobs EXCEPT ![j] = k],
         SamePhase(jobs[j], k), IntentRow(j)',
         outstanding' \in [Scopes -> Int],
         UNCHANGED <<attempts, good, results, active, worker, mode, exec>>
  PROVE  Inv'
<1>1. TypeOK'
  BY DEF Inv, TypeOK
<1>2. IntentRows'
  <2> SUFFICES ASSUME NEW i \in Jobs, i # j PROVE IntentRow(i)'
    BY DEF IntentRows
  <2> QED BY DEF Inv, TypeOK, IntentRows, IntentRow, Dispatchable
<1>3. \A i \in Jobs : SamePhase(jobs[i], jobs'[i])
  BY DEF Inv, TypeOK, SamePhase
<1>4. \A a \in Attempts : SameAuthority(attempts[a], attempts'[a])
  BY DEF SameAuthority
<1> QED BY <1>1, <1>2, <1>3, <1>4, KeepStep DEF Inv, WorkerRow, UnusedRows

\* Admitting a job (_create_job) preserves the invariant.
LEMMA CreateJobStep ==
  ASSUME Inv, NEW j \in Jobs, NEW lineage \in SUBSET Jobs,
         NEW ref \in Attempts \cup {NoAttempt}, CreateJob(j, lineage, ref)
  PROVE  Inv'
<1> DEFINE k == [NoJobRow EXCEPT !.state = "QUEUED", !.lineage = lineage, !.ref = ref]
<1>a. 0 \in 0..MaxRetries /\ "QUEUED" \in JobStates
  BY JobStateNames, BoundAssumption
<1>1. k \in JobType
  BY <1>a, Zenon DEF NoJobRow, JobType
<1>2. SamePhase(jobs[j], k)
  BY DEF CreateJob, SamePhase, NoJobRow, Running
<1>3. jobs' = [jobs EXCEPT ![j] = k]
  BY DEF CreateJob
<1>4. IntentRow(j)'
  BY <1>3 DEF Inv, TypeOK, IntentRow, Dispatchable, NoJobRow
<1>5. outstanding' \in [Scopes -> Int]
  BY AdjustType DEF CreateJob, Inv, TypeOK
<1> HIDE DEF k
<1> QED BY <1>1, <1>2, <1>3, <1>4, <1>5, JobStep, Zenon DEF CreateJob

\* Submitting a job preserves the invariant.
LEMMA SubmitStep ==
  ASSUME Inv, NEW j \in Jobs, Submit(j)
  PROVE  Inv'
  BY CreateJobStep DEF Submit

\* A manual retry of a failed job preserves the invariant.
LEMMA RetryFailedJobStep ==
  ASSUME Inv, NEW j \in Jobs, NEW src \in Jobs, RetryFailedJob(j, src)
  PROVE  Inv'
<1>1. jobs[src].lineage \subseteq Jobs /\ good \subseteq Attempts
  BY JobRowFields DEF Inv, TypeOK
<1> QED BY <1>1, CreateJobStep DEF RetryFailedJob

\* A pause request preserves the invariant.
LEMMA PauseJobStep ==
  ASSUME Inv, NEW j \in Jobs, PauseJob(j)
  PROVE  Inv'
<1> DEFINE k == [jobs[j] EXCEPT !.state = "PAUSING", !.desired = "PAUSED"]
<1>0. jobs[j] \in JobType
  BY DEF Inv, TypeOK
<1>1. k \in JobType
  BY <1>0, JobStateNames, JobRowUpdate, JobRowFields, Zenon
<1>2. SamePhase(jobs[j], k)
  BY <1>0 DEF PauseJob, SamePhase, Running, JobType
<1>3. jobs' = [jobs EXCEPT ![j] = k]
  BY Zenon DEF PauseJob
<1>4. IntentRow(j)'
  BY <1>0, <1>3 DEF Inv, TypeOK, IntentRows, IntentRow, JobType, PauseJob
<1> HIDE DEF k
<1> QED BY <1>1, <1>2, <1>3, <1>4, JobStep, Zenon DEF PauseJob, counters, Inv, TypeOK

\* A resume request preserves the invariant.
LEMMA ResumeJobStep ==
  ASSUME Inv, NEW j \in Jobs, ResumeJob(j)
  PROVE  Inv'
<1> DEFINE k == [jobs[j] EXCEPT !.state = "QUEUED", !.desired = "RUNNING", !.intent = "NONE"]
<1>0. jobs[j] \in JobType
  BY DEF Inv, TypeOK
<1>1. k \in JobType
  BY <1>0, JobStateNames, JobRowUpdate, JobRowFields, Zenon
<1>2. SamePhase(jobs[j], k)
  BY <1>0 DEF ResumeJob, SamePhase, Running, JobType
<1>3. jobs' = [jobs EXCEPT ![j] = k]
  BY Zenon DEF ResumeJob
<1>4. IntentRow(j)'
  BY <1>0, <1>3 DEF Inv, TypeOK, IntentRows, IntentRow, Dispatchable, JobType, ResumeJob
<1>5. outstanding' \in [Scopes -> Int]
  BY AdjustType DEF ResumeJob, counters, Inv, TypeOK
<1> HIDE DEF k
<1> QED BY <1>1, <1>2, <1>3, <1>4, <1>5, JobStep, Zenon DEF ResumeJob, counters

\* Cancelling a job that waits preserves the invariant.
LEMMA CancelWaitingStep ==
  ASSUME Inv, NEW j \in Jobs, CancelWaiting(j)
  PROVE  Inv'
<1> DEFINE k == [jobs[j] EXCEPT !.state = "CANCELLED", !.desired = "CANCELLED",
                               !.intent = "NONE"]
<1>0. jobs[j] \in JobType
  BY DEF Inv, TypeOK
<1>1. k \in JobType
  BY <1>0, JobStateNames, JobRowUpdate, JobRowFields, Zenon
<1>2. SamePhase(jobs[j], k)
  BY <1>0 DEF CancelWaiting, SamePhase, Running, JobType
<1>3. jobs' = [jobs EXCEPT ![j] = k]
  BY Zenon DEF CancelWaiting
<1>4. IntentRow(j)'
  BY <1>0, <1>3 DEF Inv, TypeOK, IntentRows, IntentRow, Dispatchable, JobType, CancelWaiting
<1>5. outstanding' \in [Scopes -> Int]
  BY AdjustType DEF CancelWaiting, counters, Inv, TypeOK
<1> HIDE DEF k
<1> QED BY <1>1, <1>2, <1>3, <1>4, <1>5, JobStep, Zenon DEF CancelWaiting, counters

\* Cancelling a job that recovers preserves the invariant.
LEMMA CancelRecoveringStep ==
  ASSUME Inv, NEW j \in Jobs, CancelRecovering(j)
  PROVE  Inv'
<1> DEFINE k == [jobs[j] EXCEPT !.state = "CANCELLING", !.desired = "CANCELLED"]
<1>0. jobs[j] \in JobType
  BY DEF Inv, TypeOK
<1>1. k \in JobType
  BY <1>0, JobStateNames, JobRowUpdate, JobRowFields, Zenon
<1>2. SamePhase(jobs[j], k)
  BY <1>0 DEF CancelRecovering, SamePhase, Running, JobType
<1>3. jobs' = [jobs EXCEPT ![j] = k]
  BY Zenon DEF CancelRecovering
<1>4. IntentRow(j)'
  BY <1>0, <1>3 DEF Inv, TypeOK, IntentRows, IntentRow, Dispatchable, JobType, CancelRecovering
<1>5. outstanding' \in [Scopes -> Int]
  BY AdjustType DEF CancelRecovering, counters, Inv, TypeOK
<1> HIDE DEF k
<1> QED BY <1>1, <1>2, <1>3, <1>4, <1>5, JobStep, Zenon DEF CancelRecovering, counters

\* Promoting a due retry (promote_due_locked) preserves the invariant.
LEMMA PromoteRetryStep ==
  ASSUME Inv, NEW j \in Jobs, PromoteRetry(j)
  PROVE  Inv'
<1> DEFINE k == [jobs[j] EXCEPT !.state = "QUEUED"]
<1>0. jobs[j] \in JobType
  BY DEF Inv, TypeOK
<1>1. k \in JobType
  BY <1>0, JobStateNames, JobRowUpdate, JobRowFields, Zenon
<1>2. SamePhase(jobs[j], k)
  BY <1>0 DEF PromoteRetry, SamePhase, Running, JobType
<1>3. jobs' = [jobs EXCEPT ![j] = k]
  BY DEF PromoteRetry
<1>4. IntentRow(j)'
  BY <1>0, <1>3 DEF Inv, TypeOK, IntentRows, IntentRow, Dispatchable, JobType, PromoteRetry
<1>5. outstanding' \in [Scopes -> Int]
  BY AdjustType DEF PromoteRetry, counters, Inv, TypeOK
<1> HIDE DEF k
<1> QED BY <1>1, <1>2, <1>3, <1>4, <1>5, JobStep, Zenon DEF PromoteRetry, counters

\* The steps that change one attempt that keeps its authority, and its job.
LEMMA AttemptStep ==
  ASSUME Inv, NEW a \in Attempts, NEW q \in AttemptType, NEW k \in JobType,
         NEW j \in Jobs, attempts[a].job = j,
         attempts' = [attempts EXCEPT ![a] = q],
         SameAuthority(attempts[a], q),
         jobs' = [jobs EXCEPT ![j] = k],
         SamePhase(jobs[j], k), IntentRow(j)',
         outstanding' \in [Scopes -> Int],
         good' \in SUBSET (good \cup {a}), results' \in SUBSET (results \cup {a}),
         UNCHANGED <<active, worker, mode, exec>>
  PROVE  Inv'
<1>0. j # NoJob
  BY IdentityAssumption
<1>1. TypeOK'
  BY DEF Inv, TypeOK
<1>2. IntentRows'
  <2> SUFFICES ASSUME NEW i \in Jobs, i # j PROVE IntentRow(i)'
    BY DEF IntentRows
  <2> QED BY DEF Inv, TypeOK, IntentRows, IntentRow, Dispatchable
<1>3. \A i \in Jobs : SamePhase(jobs[i], jobs'[i])
  BY DEF Inv, TypeOK, SamePhase
<1>4. \A b \in Attempts : SameAuthority(attempts[b], attempts'[b])
  BY DEF Inv, TypeOK, SameAuthority
<1>5. \A b \in Attempts : attempts[b].job = NoJob =>
        /\ attempts'[b] = attempts[b] /\ exec'[b] = exec[b]
        /\ b \notin good' /\ b \notin results'
  BY <1>0 DEF Inv, TypeOK, UnusedRows
<1> QED BY <1>1, <1>2, <1>3, <1>4, <1>5, KeepStep DEF Inv, WorkerRow

\* The row of an attempt, and of its job when it has one.
LEMMA RowTypes ==
  ASSUME TypeOK, NEW a \in Attempts
  PROVE  /\ attempts[a] \in AttemptType
         /\ attempts[a].job # NoJob => attempts[a].job \in Jobs /\ jobs[attempts[a].job] \in JobType
  BY AttemptRowFields DEF TypeOK

\* What every callback under a live authority may rely on.
LEMMA LiveFacts ==
  ASSUME TypeOK, NEW a \in Attempts, NEW i \in Nat, Live(a, i)
  PROVE  /\ attempts[a].job \in Jobs /\ attempts[a].job # NoJob
         /\ attempts[a].alloc = "HELD" /\ attempts[a].lease = "LIVE"
         /\ attempts[a].grant = i /\ i > 0
         /\ attempts[a].fence = jobs[attempts[a].job].fence
         /\ LivePhase(jobs[attempts[a].job], attempts[a].intent)
  BY RowTypes, IdentityAssumption DEF Live, Authority

\* The fields of the worker row have the types the schema gives them.
LEMMA WorkerFields ==
  ASSUME TypeOK
  PROVE  /\ worker.inc \in Nat /\ worker.admin \in {"ENABLED", "DRAINING", "DISABLED"}
         /\ worker.ready \in BOOLEAN /\ worker.passed \in BOOLEAN
  BY BoundAssumption DEF TypeOK, WorkerType

\* A job that does not change stays in its phase.
LEMMA NoChange ==
  ASSUME NEW job PROVE SamePhase(job, job)
  BY DEF SamePhase

\* The row updates of the callbacks.
LEMMA ClaimedRow ==
  ASSUME NEW row \in AttemptType, NEW r \in BOOLEAN
  PROVE  /\ [row EXCEPT !.state = "CLAIMED", !.claimed = TRUE, !.restored = r] \in AttemptType
         /\ SameAuthority(row, [row EXCEPT !.state = "CLAIMED", !.claimed = TRUE, !.restored = r])
<1> DEFINE q == [row EXCEPT !.state = "CLAIMED", !.claimed = TRUE, !.restored = r]
<1>0. 0 \in Nat /\ TRUE \in BOOLEAN OBVIOUS
<1>1. q \in AttemptType
  BY <1>0, AttemptStateNames, Zenon DEF AttemptType
<1>2. /\ q.job = row.job /\ q.fence = row.fence /\ q.class = row.class
      /\ q.alloc = row.alloc /\ q.lease = row.lease /\ q.grant = row.grant
  BY DEF AttemptType
<1> HIDE DEF q
<1>3. SameAuthority(row, q)
  BY <1>2 DEF SameAuthority
<1> QED BY <1>1, <1>3 DEF q

\* A started attempt keeps its row type and its authority.
LEMMA StartedRow ==
  ASSUME NEW row \in AttemptType
  PROVE  /\ [row EXCEPT !.state = "RUNNING", !.bound = TRUE] \in AttemptType
         /\ SameAuthority(row, [row EXCEPT !.state = "RUNNING", !.bound = TRUE])
<1> DEFINE q == [row EXCEPT !.state = "RUNNING", !.bound = TRUE]
<1>0. 0 \in Nat /\ TRUE \in BOOLEAN OBVIOUS
<1>1. q \in AttemptType
  BY <1>0, AttemptStateNames, Zenon DEF AttemptType
<1>2. /\ q.job = row.job /\ q.fence = row.fence /\ q.class = row.class
      /\ q.alloc = row.alloc /\ q.lease = row.lease /\ q.grant = row.grant
  BY DEF AttemptType
<1> HIDE DEF q
<1>3. SameAuthority(row, q)
  BY <1>2 DEF SameAuthority
<1> QED BY <1>1, <1>3 DEF q

\* An attempt with a result reservation keeps its row type and its authority.
LEMMA ResultRow ==
  ASSUME NEW row \in AttemptType, NEW n \in Nat
  PROVE  /\ [row EXCEPT !.result = n] \in AttemptType
         /\ SameAuthority(row, [row EXCEPT !.result = n])
<1> DEFINE q == [row EXCEPT !.result = n]
<1>0. 0 \in Nat /\ TRUE \in BOOLEAN OBVIOUS
<1>1. q \in AttemptType
  BY <1>0, AttemptStateNames, Zenon DEF AttemptType
<1>2. /\ q.job = row.job /\ q.fence = row.fence /\ q.class = row.class
      /\ q.alloc = row.alloc /\ q.lease = row.lease /\ q.grant = row.grant
  BY DEF AttemptType
<1> HIDE DEF q
<1>3. SameAuthority(row, q)
  BY <1>2 DEF SameAuthority
<1> QED BY <1>1, <1>3 DEF q

\* A completed attempt keeps its row type and, until its cleanup, its authority.
LEMMA CompletedRow ==
  ASSUME NEW row \in AttemptType
  PROVE  /\ [row EXCEPT !.state = "SUCCEEDED", !.result = 0] \in AttemptType
         /\ SameAuthority(row, [row EXCEPT !.state = "SUCCEEDED", !.result = 0])
<1> DEFINE q == [row EXCEPT !.state = "SUCCEEDED", !.result = 0]
<1>0. 0 \in Nat /\ TRUE \in BOOLEAN OBVIOUS
<1>1. q \in AttemptType
  BY <1>0, AttemptStateNames, Zenon DEF AttemptType
<1>2. /\ q.job = row.job /\ q.fence = row.fence /\ q.class = row.class
      /\ q.alloc = row.alloc /\ q.lease = row.lease /\ q.grant = row.grant
  BY DEF AttemptType
<1> HIDE DEF q
<1>3. SameAuthority(row, q)
  BY <1>2 DEF SameAuthority
<1> QED BY <1>1, <1>3 DEF q

\* An attempt with a checkpoint reservation keeps its row type and its authority.
LEMMA ReservedRow ==
  ASSUME NEW row \in AttemptType, NEW n \in Nat
  PROVE  /\ [row EXCEPT !.state = "CHECKPOINTING", !.ckpt = n] \in AttemptType
         /\ SameAuthority(row, [row EXCEPT !.state = "CHECKPOINTING", !.ckpt = n])
<1> DEFINE q == [row EXCEPT !.state = "CHECKPOINTING", !.ckpt = n]
<1>0. 0 \in Nat /\ TRUE \in BOOLEAN OBVIOUS
<1>1. q \in AttemptType
  BY <1>0, AttemptStateNames, Zenon DEF AttemptType
<1>2. /\ q.job = row.job /\ q.fence = row.fence /\ q.class = row.class
      /\ q.alloc = row.alloc /\ q.lease = row.lease /\ q.grant = row.grant
  BY DEF AttemptType
<1> HIDE DEF q
<1>3. SameAuthority(row, q)
  BY <1>2 DEF SameAuthority
<1> QED BY <1>1, <1>3 DEF q

\* An attempt that published a checkpoint keeps its row type and its authority.
LEMMA PublishedRow ==
  ASSUME NEW row \in AttemptType, NEW s \in AttemptStates
  PROVE  /\ [row EXCEPT !.ckpt = 0, !.state = s] \in AttemptType
         /\ SameAuthority(row, [row EXCEPT !.ckpt = 0, !.state = s])
<1> DEFINE q == [row EXCEPT !.ckpt = 0, !.state = s]
<1>0. 0 \in Nat /\ TRUE \in BOOLEAN OBVIOUS
<1>1. q \in AttemptType
  BY <1>0, AttemptStateNames, Zenon DEF AttemptType
<1>2. /\ q.job = row.job /\ q.fence = row.fence /\ q.class = row.class
      /\ q.alloc = row.alloc /\ q.lease = row.lease /\ q.grant = row.grant
  BY DEF AttemptType
<1> HIDE DEF q
<1>3. SameAuthority(row, q)
  BY <1>2 DEF SameAuthority
<1> QED BY <1>1, <1>3 DEF q

\* Reserving a result preserves the invariant.
LEMMA ReserveResultStep ==
  ASSUME Inv, NEW a \in Attempts, ReserveResult(a)
  PROVE  Inv'
<1>0. PICK j \in Jobs : attempts[a].job = j
  BY LiveFacts, WorkerFields DEF ReserveResult, Inv, LiveNow
<1>a. /\ attempts[a] \in AttemptType /\ jobs[j] \in JobType /\ jobs \in [Jobs -> JobType]
      /\ attempts[a].grant \in Nat
  BY AttemptRowFields DEF Inv, TypeOK
<1> DEFINE q == [attempts[a] EXCEPT !.result = attempts[a].grant]
<1>1. q \in AttemptType /\ SameAuthority(attempts[a], q)
  BY <1>a, ResultRow
<1>2. attempts' = [attempts EXCEPT ![a] = q]
  BY <1>0 DEF ReserveResult
<1>3. jobs' = [jobs EXCEPT ![j] = jobs[j]] /\ SamePhase(jobs[j], jobs[j])
  BY <1>a, NoChange DEF ReserveResult
<1>4. IntentRow(j)'
  BY DEF Inv, IntentRows, IntentRow, Dispatchable, ReserveResult
<1>5. /\ outstanding' \in [Scopes -> Int] /\ UNCHANGED <<active, worker, mode, exec>>
      /\ good' \in SUBSET (good \cup {a}) /\ results' \in SUBSET (results \cup {a})
  BY <1>0, AdjustType DEF ReserveResult, counters, Inv, TypeOK
<1> HIDE DEF q
<1> DEFINE k == jobs[j]
<1>6. k \in JobType /\ jobs' = [jobs EXCEPT ![j] = k] /\ SamePhase(jobs[j], k)
  BY <1>a, <1>3
<1> HIDE DEF k
<1> QED BY <1>0, <1>1, <1>2, <1>4, <1>5, <1>6, AttemptStep, Zenon

\* Reserving a checkpoint preserves the invariant.
LEMMA ReserveCheckpointStep ==
  ASSUME Inv, NEW a \in Attempts, ReserveCheckpoint(a)
  PROVE  Inv'
<1>0. PICK j \in Jobs : attempts[a].job = j
  BY LiveFacts, WorkerFields DEF ReserveCheckpoint, Inv, LiveNow
<1>a. /\ attempts[a] \in AttemptType /\ jobs[j] \in JobType /\ jobs \in [Jobs -> JobType]
      /\ attempts[a].grant \in Nat
  BY AttemptRowFields DEF Inv, TypeOK
<1> DEFINE q == [attempts[a] EXCEPT !.state = "CHECKPOINTING", !.ckpt = attempts[a].grant]
<1>1. q \in AttemptType /\ SameAuthority(attempts[a], q)
  BY <1>a, ReservedRow, Zenon
<1>2. attempts' = [attempts EXCEPT ![a] = q]
  BY <1>0 DEF ReserveCheckpoint
<1>3. jobs' = [jobs EXCEPT ![j] = jobs[j]] /\ SamePhase(jobs[j], jobs[j])
  BY <1>a, NoChange DEF ReserveCheckpoint
<1>4. IntentRow(j)'
  BY DEF Inv, IntentRows, IntentRow, Dispatchable, ReserveCheckpoint
<1>5. /\ outstanding' \in [Scopes -> Int] /\ UNCHANGED <<active, worker, mode, exec>>
      /\ good' \in SUBSET (good \cup {a}) /\ results' \in SUBSET (results \cup {a})
  BY <1>0, AdjustType DEF ReserveCheckpoint, counters, Inv, TypeOK
<1> HIDE DEF q
<1> DEFINE k == jobs[j]
<1>6. k \in JobType /\ jobs' = [jobs EXCEPT ![j] = k] /\ SamePhase(jobs[j], k)
  BY <1>a, <1>3
<1> HIDE DEF k
<1> QED BY <1>0, <1>1, <1>2, <1>4, <1>5, <1>6, AttemptStep, Zenon

\* A claim preserves the invariant.
LEMMA ClaimAttemptStep ==
  ASSUME Inv, NEW a \in Attempts, ClaimAttempt(a)
  PROVE  Inv'
<1>0. PICK j \in Jobs : attempts[a].job = j
  BY LiveFacts, WorkerFields DEF ClaimAttempt, Inv, LiveNow
<1>a. /\ attempts[a] \in AttemptType /\ jobs[j] \in JobType /\ jobs \in [Jobs -> JobType]
      /\ attempts[a].grant \in Nat
  BY AttemptRowFields DEF Inv, TypeOK
<1>p. PICK r \in BOOLEAN : attempts' = [attempts EXCEPT ![a] =
        [attempts[a] EXCEPT !.state = "CLAIMED", !.claimed = TRUE, !.restored = r]]
  BY Zenon DEF ClaimAttempt
<1> DEFINE q == [attempts[a] EXCEPT !.state = "CLAIMED", !.claimed = TRUE, !.restored = r]
<1>1. q \in AttemptType /\ SameAuthority(attempts[a], q)
  BY <1>a, ClaimedRow, Zenon
<1>2. attempts' = [attempts EXCEPT ![a] = q]
  BY <1>p
<1>3. jobs' = [jobs EXCEPT ![j] = jobs[j]] /\ SamePhase(jobs[j], jobs[j])
  BY <1>a, NoChange DEF ClaimAttempt
<1>4. IntentRow(j)'
  BY DEF Inv, IntentRows, IntentRow, Dispatchable, ClaimAttempt
<1>5. /\ outstanding' \in [Scopes -> Int] /\ UNCHANGED <<active, worker, mode, exec>>
      /\ good' \in SUBSET (good \cup {a}) /\ results' \in SUBSET (results \cup {a})
  BY <1>0, AdjustType DEF ClaimAttempt, counters, Inv, TypeOK
<1> HIDE DEF q
<1> DEFINE k == jobs[j]
<1>6. k \in JobType /\ jobs' = [jobs EXCEPT ![j] = k] /\ SamePhase(jobs[j], k)
  BY <1>a, <1>3
<1> HIDE DEF k
<1> QED BY <1>0, <1>1, <1>2, <1>4, <1>5, <1>6, AttemptStep, Zenon

\* Publishing a checkpoint preserves the invariant.
LEMMA PublishCheckpointStep ==
  ASSUME Inv, NEW a \in Attempts, PublishCheckpoint(a)
  PROVE  Inv'
<1>0. PICK j \in Jobs : attempts[a].job = j
  BY LiveFacts, WorkerFields DEF PublishCheckpoint, Inv, LiveNow, MayPublish
<1>a. /\ attempts[a] \in AttemptType /\ jobs[j] \in JobType /\ jobs \in [Jobs -> JobType]
      /\ attempts[a].grant \in Nat
  BY AttemptRowFields DEF Inv, TypeOK
<1> DEFINE s == IF jobs[j].state = "PAUSING" THEN "STOPPING" ELSE "RUNNING"
<1> DEFINE q == [attempts[a] EXCEPT !.ckpt = 0, !.state = s]
<1>s. s \in AttemptStates
  BY AttemptStateNames
<1>1. q \in AttemptType /\ SameAuthority(attempts[a], q)
  <2> HIDE DEF s
  <2> QED BY <1>a, <1>s, PublishedRow, Zenon
<1>2. attempts' = [attempts EXCEPT ![a] = q]
  BY <1>0 DEF PublishCheckpoint
<1>3. jobs' = [jobs EXCEPT ![j] = jobs[j]] /\ SamePhase(jobs[j], jobs[j])
  BY <1>a, NoChange DEF PublishCheckpoint
<1>4. IntentRow(j)'
  BY DEF Inv, IntentRows, IntentRow, Dispatchable, PublishCheckpoint
<1>5. /\ outstanding' \in [Scopes -> Int] /\ UNCHANGED <<active, worker, mode, exec>>
      /\ good' \in SUBSET (good \cup {a}) /\ results' \in SUBSET (results \cup {a})
  BY <1>0, AdjustType DEF PublishCheckpoint, counters, Inv, TypeOK
<1> HIDE DEF q, s
<1> DEFINE k == jobs[j]
<1>6. k \in JobType /\ jobs' = [jobs EXCEPT ![j] = k] /\ SamePhase(jobs[j], k)
  BY <1>a, <1>3
<1> HIDE DEF k
<1> QED BY <1>0, <1>1, <1>2, <1>4, <1>5, <1>6, AttemptStep, Zenon

\* A start callback preserves the invariant.
LEMMA StartAttemptStep ==
  ASSUME Inv, NEW a \in Attempts, StartAttempt(a)
  PROVE  Inv'
<1>0. PICK j \in Jobs : attempts[a].job = j
  BY LiveFacts, WorkerFields DEF StartAttempt, Inv, LiveNow
<1>a. attempts[a] \in AttemptType /\ jobs[j] \in JobType /\ jobs \in [Jobs -> JobType]
  BY DEF Inv, TypeOK
<1>b. LivePhase(jobs[j], attempts[a].intent)
  BY <1>0, LiveFacts, WorkerFields DEF StartAttempt, Inv, LiveNow
<1> DEFINE q == [attempts[a] EXCEPT !.state = "RUNNING", !.bound = TRUE]
           s == IF attempts[a].intent = "RUN" THEN "RUNNING" ELSE "PAUSING"
           k == [jobs[j] EXCEPT !.state = s]
<1>1. q \in AttemptType /\ SameAuthority(attempts[a], q)
  BY <1>a, StartedRow, Zenon
<1>2. attempts' = [attempts EXCEPT ![a] = q] /\ jobs' = [jobs EXCEPT ![j] = k]
  BY <1>0, <1>a DEF StartAttempt
<1>3. k \in JobType
  <2>1. s \in JobStates BY JobStateNames
  <2> HIDE DEF s
  <2> QED BY <2>1, <1>a, JobRowUpdate, JobRowFields, Zenon
<1>4. SamePhase(jobs[j], k)
  BY <1>a, <1>b DEF SamePhase, LivePhase, Running, JobType
<1>5. IntentRow(j)'
  <2>1. IntentRow(j)
    BY DEF Inv, IntentRows
  <2> QED BY <1>a, <1>b, <1>2, <2>1 DEF IntentRow, LivePhase, JobType, Dispatchable
<1>6. /\ outstanding' \in [Scopes -> Int] /\ UNCHANGED <<active, worker, mode, exec>>
      /\ good' \in SUBSET (good \cup {a}) /\ results' \in SUBSET (results \cup {a})
  BY DEF StartAttempt, counters, Inv, TypeOK
<1> HIDE DEF q, k
<1> QED BY <1>0, <1>1, <1>2, <1>3, <1>4, <1>5, <1>6, AttemptStep, Zenon

\* Recognizing a result preserves the invariant.
LEMMA CompleteAttemptStep ==
  ASSUME Inv, NEW a \in Attempts, CompleteAttempt(a)
  PROVE  Inv'
<1>0. PICK j \in Jobs : attempts[a].job = j
  BY LiveFacts, WorkerFields DEF CompleteAttempt, Inv, LiveNow
<1>a. attempts[a] \in AttemptType /\ jobs[j] \in JobType /\ jobs \in [Jobs -> JobType]
  BY DEF Inv, TypeOK
<1> DEFINE q == [attempts[a] EXCEPT !.state = "SUCCEEDED", !.result = 0]
           k == [jobs[j] EXCEPT !.state = "SUCCEEDED"]
<1>1. q \in AttemptType /\ SameAuthority(attempts[a], q)
  BY <1>a, CompletedRow, Zenon
<1>2. attempts' = [attempts EXCEPT ![a] = q] /\ jobs' = [jobs EXCEPT ![j] = k]
  BY <1>0, <1>a DEF CompleteAttempt
<1>3. k \in JobType
  BY <1>a, JobRowUpdate, JobRowFields, JobStateNames, Zenon
<1>4. SamePhase(jobs[j], k)
  BY <1>0, <1>a DEF SamePhase, CompleteAttempt, Running, JobType
<1>5. IntentRow(j)'
  <2>1. IntentRow(j)
    BY DEF Inv, IntentRows
  <2> QED BY <1>0, <1>a, <1>2, <2>1 DEF IntentRow, CompleteAttempt, JobType, Dispatchable
<1>6. /\ outstanding' \in [Scopes -> Int] /\ UNCHANGED <<active, worker, mode, exec>>
      /\ good' \in SUBSET (good \cup {a}) /\ results' \in SUBSET (results \cup {a})
  BY <1>0, AdjustType DEF CompleteAttempt, Inv, TypeOK
<1> HIDE DEF q, k
<1> QED BY <1>0, <1>1, <1>2, <1>3, <1>4, <1>5, <1>6, AttemptStep, Zenon

\* Rejecting a defective checkpoint preserves the invariant.
LEMMA RejectCheckpointStep ==
  ASSUME Inv, NEW a \in Attempts, RejectCheckpoint(a)
  PROVE  Inv'
<1>0. PICK j \in Jobs : attempts[a].job = j
  BY LiveFacts, WorkerFields DEF RejectCheckpoint, MayPublish, Inv, LiveNow
<1>a. attempts[a] \in AttemptType /\ jobs[j] \in JobType /\ jobs \in [Jobs -> JobType]
  BY DEF Inv, TypeOK
<1> DEFINE q == [attempts[a] EXCEPT !.ckpt = 0, !.state = "RUNNING"]
           aborted == jobs[j].state = "PAUSING" /\ attempts[a].intent = "RUN"
           abort == [jobs[j] EXCEPT !.state = "RUNNING", !.desired = "RUNNING"]
           k == IF aborted THEN abort ELSE jobs[j]
<1>1. q \in AttemptType /\ SameAuthority(attempts[a], q)
  BY <1>a, PublishedRow, AttemptStateNames, Zenon
<1>2. attempts' = [attempts EXCEPT ![a] = q]
  BY DEF RejectCheckpoint
<1>3. jobs' = [jobs EXCEPT ![j] = k]
  BY <1>0, <1>a, Zenon DEF RejectCheckpoint
<1>4. k \in JobType
  BY <1>a, JobRowUpdate, JobRowFields, JobStateNames, Zenon
<1>5. SamePhase(jobs[j], k)
  BY <1>a DEF SamePhase, Running, JobType
<1>6. IntentRow(j)'
  <2>1. IntentRow(j) /\ CheckpointPhase(a)
    BY DEF Inv, IntentRows, RejectCheckpoint, MayPublish
  <2>2. CASE aborted
    <3>1. jobs'[j] = abort /\ jobs[j].intent = "NONE"
      BY <1>0, <1>3, <1>a, <2>1, <2>2 DEF CheckpointPhase
    <3> QED BY <3>1, <1>a DEF IntentRow, JobType
  <2>3. CASE ~aborted
    <3>1. jobs'[j] = jobs[j]
      BY <1>3, <1>a, <2>3
    <3> QED BY <3>1, <2>1 DEF IntentRow, Dispatchable
  <2> QED BY <2>2, <2>3
<1>7. /\ outstanding' \in [Scopes -> Int] /\ UNCHANGED <<active, worker, mode, exec>>
      /\ good' \in SUBSET (good \cup {a}) /\ results' \in SUBSET (results \cup {a})
  BY DEF RejectCheckpoint, counters, Inv, TypeOK
<1> HIDE DEF q, k
<1> QED BY <1>0, <1>1, <1>2, <1>3, <1>4, <1>5, <1>6, <1>7, AttemptStep, Zenon

\* Adoption by the next incarnation preserves the invariant.
LEMMA AdoptAttemptStep ==
  ASSUME Inv, NEW a \in Attempts, AdoptAttempt(a)
  PROVE  Inv'
<1>i. worker.inc - 1 \in Nat /\ worker.inc \in Nat
  <2>1. worker.inc \in Nat /\ worker.inc - 1 > 0
    BY WorkerFields DEF Inv, AdoptAttempt, Live, Authority
  <2> QED BY <2>1
<1>0. PICK j \in Jobs : attempts[a].job = j
  BY <1>i, LiveFacts DEF AdoptAttempt, Inv
<1>a. attempts[a] \in AttemptType /\ jobs[j] \in JobType /\ jobs \in [Jobs -> JobType]
  BY DEF Inv, TypeOK
<1>b. attempts[a].grant > 0 /\ worker.inc > 0
  BY <1>i, LiveFacts DEF AdoptAttempt, Inv
<1> DEFINE c == IF attempts[a].ckpt = 0 THEN 0 ELSE worker.inc
           r == IF attempts[a].result = 0 THEN 0 ELSE worker.inc
           q == [attempts[a] EXCEPT !.grant = worker.inc, !.ckpt = c, !.result = r]
<1>1. q \in AttemptType
  <2>1. c \in Nat /\ r \in Nat
    BY <1>i
  <2> HIDE DEF c, r
  <2> QED BY <1>a, <1>i, <2>1, Zenon DEF AttemptType
<1>2. SameAuthority(attempts[a], q)
  <2>1. /\ q.job = attempts[a].job /\ q.fence = attempts[a].fence
        /\ q.class = attempts[a].class /\ q.alloc = attempts[a].alloc
        /\ q.lease = attempts[a].lease /\ q.grant = worker.inc
    BY <1>a DEF AttemptType
  <2> HIDE DEF q
  <2> QED BY <2>1, <1>b DEF SameAuthority
<1>3. attempts' = [attempts EXCEPT ![a] = q]
  BY DEF AdoptAttempt, Regranted
<1>4. IntentRow(j)'
  BY DEF Inv, IntentRows, IntentRow, Dispatchable, AdoptAttempt
<1>5. /\ outstanding' \in [Scopes -> Int] /\ UNCHANGED <<active, worker, mode, exec>>
      /\ good' \in SUBSET (good \cup {a}) /\ results' \in SUBSET (results \cup {a})
  BY DEF AdoptAttempt, counters, Inv, TypeOK
<1> DEFINE k == jobs[j]
<1>6. k \in JobType /\ jobs' = [jobs EXCEPT ![j] = k] /\ SamePhase(jobs[j], k)
  BY <1>a, NoChange DEF AdoptAttempt
<1> HIDE DEF q, k
<1> QED BY <1>0, <1>1, <1>2, <1>3, <1>4, <1>5, <1>6, AttemptStep, Zenon

\* The passing of database time beyond a lease preserves the invariant.
LEMMA LeaseExpiresStep ==
  ASSUME Inv, NEW a \in Attempts, LeaseExpires(a)
  PROVE  Inv'
<1>t. attempts[a] \in AttemptType /\ jobs \in [Jobs -> JobType]
  BY DEF Inv, TypeOK
<1>0. PICK j \in Jobs : attempts[a].job = j
  BY <1>t, AttemptRowFields DEF Inv, UnusedRows, LeaseExpires, NoRow
<1> DEFINE q == [attempts[a] EXCEPT !.lease = "EXPIRED"]
           k == jobs[j]
<1>1. q \in AttemptType
  BY <1>t DEF AttemptType
<1>2. SameAuthority(attempts[a], q)
  BY <1>t DEF SameAuthority, AttemptType, LeaseExpires
<1>3. attempts' = [attempts EXCEPT ![a] = q]
  BY DEF LeaseExpires
<1>4. IntentRow(j)'
  BY DEF Inv, IntentRows, IntentRow, Dispatchable, LeaseExpires
<1>5. /\ outstanding' \in [Scopes -> Int] /\ UNCHANGED <<active, worker, mode, exec>>
      /\ good' \in SUBSET (good \cup {a}) /\ results' \in SUBSET (results \cup {a})
  BY DEF LeaseExpires, counters, Inv, TypeOK
<1>6. k \in JobType /\ jobs' = [jobs EXCEPT ![j] = k] /\ SamePhase(jobs[j], k)
  BY <1>t, NoChange DEF LeaseExpires
<1> HIDE DEF q, k
<1> QED BY <1>0, <1>1, <1>2, <1>3, <1>4, <1>5, <1>6, AttemptStep, Zenon

\* The steps that touch no job and no attempt.
LEMMA OutsideStep ==
  ASSUME Inv, TypeOK', WorkerRow',
         UNCHANGED <<jobs, attempts, results>>, good' \subseteq good,
         \A a \in Attempts : attempts[a].job = NoJob => exec'[a] = exec[a],
         \A a \in Attempts : exec[a] = "GONE" => exec'[a] = "GONE"
  PROVE  Inv'
<1>1. IntentRows'
  BY DEF Inv, IntentRows, IntentRow, Dispatchable
<1>2. \A a \in Attempts : SameAuthority(attempts[a], attempts'[a])
  BY DEF SameAuthority
<1>3. \A j \in Jobs : SamePhase(jobs[j], jobs'[j])
  BY DEF SamePhase
<1> QED BY <1>1, <1>2, <1>3, KeepStep DEF Inv, UnusedRows

\* Marking a checkpoint corrupt preserves the invariant.
LEMMA MarkCorruptStep ==
  ASSUME Inv, NEW a \in Attempts, NEW b \in Attempts, MarkCorrupt(a, b)
  PROVE  Inv'
<1>1. TypeOK'
  BY DEF Inv, TypeOK, MarkCorrupt, counters
<1> QED BY <1>1, OutsideStep DEF MarkCorrupt, Inv, WorkerRow

\* A container that appears in Docker preserves the invariant.
LEMMA CreateContainerStep ==
  ASSUME Inv, NEW a \in Attempts, CreateContainer(a)
  PROVE  Inv'
<1>1. TypeOK'
  BY DEF Inv, TypeOK, CreateContainer, counters
<1>2. attempts[a].job # NoJob
  BY DEF Inv, UnusedRows, CreateContainer, NoRow
<1>3. /\ \A b \in Attempts : attempts[b].job = NoJob => exec'[b] = exec[b]
      /\ \A b \in Attempts : exec[b] = "GONE" => exec'[b] = "GONE"
  BY <1>2 DEF CreateContainer, Inv, TypeOK
<1> QED BY <1>1, <1>3, OutsideStep DEF CreateContainer, Inv, WorkerRow

\* Removing a container, or the tombstone of an attempt, preserves the invariant.
LEMMA RetireExecutionStep ==
  ASSUME Inv, NEW a \in Attempts, RetireExecution(a)
  PROVE  Inv'
<1>1. TypeOK'
  BY DEF Inv, TypeOK, RetireExecution, counters
<1>2. attempts[a].job # NoJob
  BY DEF Inv, UnusedRows, RetireExecution, NoRow
<1>3. /\ \A b \in Attempts : attempts[b].job = NoJob => exec'[b] = exec[b]
      /\ \A b \in Attempts : exec[b] = "GONE" => exec'[b] = "GONE"
  BY <1>2 DEF RetireExecution, Inv, TypeOK
<1> QED BY <1>1, <1>3, OutsideStep DEF RetireExecution, Inv, WorkerRow

\* Everything that only concerns the worker row or the mode.
LEMMA WorkerRowStep ==
  ASSUME Inv,
         CreateIncarnation \/ Heartbeat \/ SweepHealth \/ DrainWorker \/ EnableWorker \/ SetMode
  PROVE  Inv'
<1>f. /\ worker \in WorkerType /\ worker.inc \in Nat
  BY WorkerFields DEF Inv, TypeOK
<1>1. worker' \in WorkerType /\ WorkerRow'
  <2>1. CASE CreateIncarnation
    <3>1. worker.inc + 1 \in 0..MaxIncarnation
      BY <2>1, <1>f, BoundAssumption DEF CreateIncarnation
    <3>2. worker' \in WorkerType
      BY <3>1, <2>1, <1>f, Zenon DEF CreateIncarnation, WorkerType
    <3>3. worker'.ready = FALSE
      BY <2>1, <1>f DEF CreateIncarnation, WorkerType
    <3> QED BY <3>2, <3>3 DEF WorkerRow
  <2>2. CASE Heartbeat
    <3>1. PICK passes \in BOOLEAN :
            worker' = [worker EXCEPT !.passed = passes,
                                     !.ready = passes /\ worker.admin # "DISABLED"]
      BY <2>2, Zenon DEF Heartbeat
    <3> DEFINE ready == passes /\ worker.admin # "DISABLED"
    <3>2. ready \in BOOLEAN OBVIOUS
    <3> HIDE DEF ready
    <3>3. [worker EXCEPT !.passed = passes, !.ready = ready] \in WorkerType
      BY <3>2, <1>f, Zenon DEF WorkerType
    <3>4. [worker EXCEPT !.passed = passes, !.ready = ready].inc = worker.inc
      BY <1>f DEF WorkerType
    <3> QED BY <3>1, <3>3, <3>4, <2>2, Zenon DEF ready, Heartbeat, WorkerRow
  <2>3. CASE SweepHealth
    BY <2>3, <1>f, Zenon DEF SweepHealth, WorkerType, WorkerRow
  <2>4. CASE DrainWorker
    BY <2>4, <1>f DEF DrainWorker, WorkerType, WorkerRow, Inv
  <2>5. CASE EnableWorker
    BY <2>5, <1>f DEF EnableWorker, WorkerType, WorkerRow, Inv
  <2>6. CASE SetMode
    BY <2>6, <1>f DEF SetMode, WorkerRow, Inv
  <2> QED BY <2>1, <2>2, <2>3, <2>4, <2>5, <2>6
<1>2. /\ UNCHANGED <<jobs, attempts, good, results, outstanding, active, exec>>
      /\ mode' \in {"NORMAL", "ADMISSION_OFF"}
  BY Zenon DEF CreateIncarnation, Heartbeat, SweepHealth, DrainWorker, EnableWorker, SetMode,
         counters, Inv, TypeOK
<1>3. TypeOK'
  BY <1>1, <1>2 DEF Inv, TypeOK
<1> QED BY <1>1, <1>2, <1>3, OutsideStep


-----------------------------------------------------------------------------
(* Authority is taken: reap, cancel, fail, disable. *)

\* What the loss of an attempt does to the row of its job.
LEMMA LostFields ==
  ASSUME NEW job \in JobType
  PROVE  /\ LostAttempt(job).state = "RECOVERING" /\ LostAttempt(job).desired = job.desired
         /\ LostAttempt(job).intent = job.intent /\ LostAttempt(job).fence = job.fence + 1
  BY DEF LostAttempt, JobType

\* A running job that loses its attempt keeps its desire and its intent.
LEMMA LostIntent ==
  ASSUME Inv, NEW j \in Jobs, jobs[j].state \in Running, jobs'[j] = LostAttempt(jobs[j])
  PROVE  IntentRow(j)'
<1>1. jobs[j] \in JobType /\ IntentRow(j)
  BY DEF Inv, TypeOK, IntentRows
<1>2. /\ jobs'[j].state = "RECOVERING" /\ jobs'[j].desired = jobs[j].desired
      /\ jobs'[j].intent = jobs[j].intent
  BY <1>1, LostFields
<1> QED BY <1>1, <1>2 DEF IntentRow, Running

\* An attempt with a lease holds its allocation and has a job.
LEMMA HeldFacts ==
  ASSUME Inv, NEW a \in Attempts, LeaseHeld(a)
  PROVE  /\ attempts[a].job \in Jobs /\ attempts[a].job # NoJob
         /\ attempts[a].alloc = "HELD" /\ attempts[a] \in AttemptType
         /\ jobs[attempts[a].job] \in JobType
         /\ jobs[attempts[a].job].state \in Running \cup {"SUCCEEDED"}
         /\ jobs[attempts[a].job].state \in Running => Current(a)
<1>1. attempts[a].job # NoJob
  BY DEF Inv, UnusedRows, LeaseHeld, NoRow
<1> QED BY <1>1, RowTypes DEF Inv, AuthorityRows, AttemptToJob, Current

\* Revoking takes the authority of an attempt that has it.
LEMMA RevokedTaken ==
  ASSUME NEW row \in AttemptType, row.alloc = "HELD"
  PROVE  Taken(row, Revoked(row))
  BY RevokedFields DEF Taken

\* Fencing takes the authority of an attempt that has it and records the class.
LEMMA FencedTaken ==
  ASSUME NEW row \in AttemptType, row.alloc = "HELD", NEW state, NEW class
  PROVE  Taken(row, Fenced(row, state, class)) /\ Fenced(row, state, class).class = class
  BY FencedFields DEF Taken

\* The classes the actions write are failure classes.
LEMMA ClassNames ==
  /\ "INFRASTRUCTURE" \in FailureClass /\ "USER_CANCEL" \in FailureClass
  /\ FailureClasses \subseteq FailureClass
  BY DEF FailureClass, FailureClasses

\* One attempt loses its authority and, when the job was running, the job with it.
LEMMA TakeOne ==
  ASSUME Inv, NEW a \in Attempts, NEW q \in AttemptType, NEW j \in Jobs,
         attempts[a].job = j, Taken(attempts[a], q),
         attempts' = [attempts EXCEPT ![a] = q],
         \/ jobs[j].state \notin Running /\ jobs' = jobs
         \/ /\ jobs[j].state \in Running /\ q.class # "NONE"
            /\ jobs' = [jobs EXCEPT ![j] = LostAttempt(jobs[j])],
         UNCHANGED <<good, results, outstanding, active, worker, mode, exec>>
  PROVE  Inv'
<1>1. TypeOK'
  BY LostAttemptType DEF Inv, TypeOK
<1>2. IntentRows'
  <2> SUFFICES ASSUME NEW i \in Jobs PROVE IntentRow(i)'
    BY DEF IntentRows
  <2>1. CASE jobs'[i] = jobs[i]
    BY <2>1 DEF Inv, IntentRows, IntentRow, Dispatchable
  <2>2. CASE jobs'[i] # jobs[i]
    BY <2>2, LostIntent DEF Inv, TypeOK
  <2> QED BY <2>1, <2>2
<1>3. \A b \in Attempts \ {a} : attempts'[b] = attempts[b]
  BY DEF Inv, TypeOK
<1>4. attempts'[a] = q
  BY DEF Inv, TypeOK
<1>5. \A i \in Jobs : \/ jobs'[i] = jobs[i]
                      \/ /\ i = j /\ jobs[i].state \in Running
                         /\ jobs'[i].state \in {"RECOVERING", "CANCELLING"}
  BY LostFields DEF Inv, TypeOK
<1>6. jobs[j].state \in Running => /\ q.class # "NONE"
                                   /\ jobs'[j].state \in {"RECOVERING", "CANCELLING"}
  BY LostFields DEF Inv, TypeOK
<1> DEFINE L == {a}
<1>7. /\ L \in SUBSET Attempts
      /\ \A b \in L : Taken(attempts[b], attempts'[b])
  BY <1>4
<1>8. \A b \in L : jobs[attempts[b].job].state \in Running =>
        /\ attempts'[b].class # "NONE"
        /\ jobs'[attempts[b].job].state \in {"RECOVERING", "CANCELLING"}
  BY <1>4, <1>6
<1>9. \A b \in Attempts \ L : attempts'[b] = attempts[b]
  BY <1>3
<1>10. \A i \in Jobs : \/ jobs'[i] = jobs[i]
                       \/ /\ jobs[i].state \in Running
                          /\ jobs'[i].state \in {"RECOVERING", "CANCELLING"}
                          /\ \E b \in L : attempts[b].job = i
  BY <1>5
<1>11. WorkerRow'
  BY DEF Inv, WorkerRow
<1> HIDE DEF L
<1> QED BY <1>1, <1>2, <1>7, <1>8, <1>9, <1>10, <1>11, TakeStep

\* Reaping an expired lease preserves the invariant.
LEMMA ReapLeaseStep ==
  ASSUME Inv, NEW a \in Attempts, ReapLease(a)
  PROVE  Inv'
<1>0. LeaseHeld(a)
  BY DEF ReapLease, LeaseHeld
<1>1. PICK j \in Jobs : attempts[a].job = j
  BY <1>0, HeldFacts
<1>t. attempts[a] \in AttemptType /\ attempts[a].alloc = "HELD"
  BY <1>0, HeldFacts
<1>2. CASE Current(a)
  <2> DEFINE q == Fenced(attempts[a], "LOST", "INFRASTRUCTURE")
  <2>1. q \in AttemptType
    BY <1>t, FencedType, AttemptStateNames, ClassNames
  <2>2. Taken(attempts[a], q) /\ q.class # "NONE"
    BY <1>t, FencedTaken
  <2>3. /\ attempts' = [attempts EXCEPT ![a] = q] /\ jobs[j].state \in Running
        /\ jobs' = [jobs EXCEPT ![j] = LostAttempt(jobs[j])]
    BY <1>1, <1>2 DEF ReapLease, Current
  <2> HIDE DEF q
  <2> QED BY <1>1, <2>1, <2>2, <2>3, TakeOne, Zenon DEF ReapLease, counters
<1>3. CASE ~Current(a)
  <2> DEFINE q == Revoked(attempts[a])
  <2>1. q \in AttemptType /\ Taken(attempts[a], q)
    BY <1>t, RevokedType, RevokedTaken
  <2>2. jobs[j].state \notin Running
    BY <1>0, <1>1, <1>3, HeldFacts
  <2>3. attempts' = [attempts EXCEPT ![a] = q] /\ jobs' = jobs
    BY <1>3 DEF ReapLease
  <2> HIDE DEF q
  <2> QED BY <1>1, <2>1, <2>2, <2>3, TakeOne, Zenon DEF ReapLease, counters
<1> QED BY <1>2, <1>3

\* An accepted failure report preserves the invariant.
LEMMA FailAttemptStep ==
  ASSUME Inv, NEW a \in Attempts, NEW class \in FailureClasses, FailAttempt(a, class)
  PROVE  Inv'
<1>0. LeaseHeld(a)
  BY DEF FailAttempt, MayFail, LeaseHeld
<1>1. PICK j \in Jobs : attempts[a].job = j
  BY <1>0, HeldFacts
<1>t. attempts[a] \in AttemptType /\ attempts[a].alloc = "HELD"
  BY <1>0, HeldFacts
<1> DEFINE f == Fenced(attempts[a], "STOPPING", class)
           b == attempts[a].bound \/ exec[a] = "ALIVE"
           q == [f EXCEPT !.bound = b]
<1>2. f \in AttemptType
  BY <1>t, FencedType, AttemptStateNames, ClassNames
<1>3. Taken(attempts[a], f) /\ f.class = class
  BY <1>t, FencedTaken
<1>5. b \in BOOLEAN OBVIOUS
<1>6. class # "NONE"
  BY DEF FailureClasses
<1>7. /\ attempts' = [attempts EXCEPT ![a] = q]
      /\ jobs[j].state \in Running
      /\ jobs' = [jobs EXCEPT ![j] = LostAttempt(jobs[j])]
  <2>1. attempts' = [attempts EXCEPT ![a] = q]
    BY Zenon DEF FailAttempt
  <2>2. jobs[j].state \in Running /\ jobs' = [jobs EXCEPT ![j] = LostAttempt(jobs[j])]
    BY <1>1 DEF FailAttempt, MayFail
  <2> QED BY <2>1, <2>2
<1> HIDE DEF f, b
<1>8. q \in AttemptType
  BY <1>2, <1>5 DEF AttemptType
<1>9. /\ q.alloc = f.alloc /\ q.job = f.job /\ q.fence = f.fence /\ q.lease = f.lease
      /\ q.grant = f.grant /\ q.class = f.class
  BY <1>2 DEF AttemptType
<1> HIDE DEF q
<1>10. Taken(attempts[a], q) /\ q.class # "NONE"
  BY <1>3, <1>6, <1>9 DEF Taken
<1> QED BY <1>1, <1>7, <1>8, <1>10, TakeOne, Zenon DEF FailAttempt, counters

\* Cancelling a running job preserves the invariant.
LEMMA CancelRunningStep ==
  ASSUME Inv, NEW j \in Jobs, CancelRunning(j)
  PROVE  Inv'
<1> DEFINE L == {a \in AttemptsOf(j) : LeaseHeld(a)}
<1>t. jobs[j] \in JobType /\ jobs[j].state \in Running /\ jobs \in [Jobs -> JobType]
      /\ attempts \in [Attempts -> AttemptType]
  BY DEF Inv, TypeOK, CancelRunning
<1>1. PICK a \in Attempts : attempts[a].job = j /\ LeaseHeld(a)
  BY <1>t, IdentityAssumption DEF Inv, JobToAttempt, AuthorityRows
<1>2. L \in SUBSET Attempts /\ L # {} /\ \A b \in L : LeaseHeld(b) /\ attempts[b].job = j
  BY <1>1 DEF AttemptsOf
<1> DEFINE k == [jobs[j] EXCEPT !.state = "CANCELLING", !.desired = "CANCELLED",
                                !.fence = jobs[j].fence + 1]
<1>3. /\ attempts' = [b \in Attempts |-> IF b \in L
                        THEN Fenced(attempts[b], "STOPPING", "USER_CANCEL") ELSE attempts[b]]
      /\ jobs' = [jobs EXCEPT ![j] = k]
      /\ UNCHANGED <<good, results, outstanding, active, worker, mode, exec>>
  BY <1>2, Zenon DEF CancelRunning, counters
<1> HIDE DEF L
<1>4. k \in JobType
  <2>1. jobs[j].fence + 1 \in Nat
    BY <1>t, JobRowFields
  <2> QED BY <1>t, <2>1, JobRowUpdate, JobRowFields, JobStateNames, Zenon
<1>5. k.state = "CANCELLING" /\ k.desired = "CANCELLED"
  BY <1>t DEF JobType
<1> HIDE DEF k
<1>6. \A b \in L : /\ Taken(attempts[b], attempts'[b]) /\ attempts'[b].class = "USER_CANCEL"
                   /\ attempts'[b] \in AttemptType
  <2> TAKE b \in L
  <2>1. b \in Attempts /\ attempts[b] \in AttemptType /\ attempts[b].alloc = "HELD"
    BY <1>2, HeldFacts
  <2>2. attempts'[b] = Fenced(attempts[b], "STOPPING", "USER_CANCEL")
    BY <1>3, <2>1
  <2> QED BY <2>1, <2>2, FencedTaken, FencedType, AttemptStateNames, ClassNames, SMTT(30)
<1>7. \A b \in Attempts \ L : attempts'[b] = attempts[b]
  BY <1>3
<1>8. TypeOK'
  <2>1. attempts' \in [Attempts -> AttemptType]
    BY <1>t, <1>3, <1>6, <1>7
  <2> QED BY <1>3, <1>4, <2>1 DEF Inv, TypeOK
<1>9. IntentRows'
  <2> SUFFICES ASSUME NEW i \in Jobs PROVE IntentRow(i)'
    BY DEF IntentRows
  <2>1. CASE i = j
    BY <2>1, <1>t, <1>3, <1>5 DEF IntentRow
  <2>2. CASE i # j
    BY <2>2, <1>t, <1>3 DEF Inv, IntentRows, IntentRow, Dispatchable
  <2> QED BY <2>1, <2>2
<1>10. \A b \in L : jobs[attempts[b].job].state \in Running =>
         /\ attempts'[b].class # "NONE"
         /\ jobs'[attempts[b].job].state \in {"RECOVERING", "CANCELLING"}
  BY <1>t, <1>2, <1>3, <1>5, <1>6
<1>11. \A i \in Jobs : \/ jobs'[i] = jobs[i]
                       \/ /\ jobs[i].state \in Running
                          /\ jobs'[i].state \in {"RECOVERING", "CANCELLING"}
                          /\ \E b \in L : attempts[b].job = i
  BY <1>t, <1>2, <1>3, <1>5
<1>12. WorkerRow' /\ UNCHANGED <<good, results, exec>>
  BY <1>3 DEF Inv, WorkerRow
<1> QED BY <1>2, <1>6, <1>7, <1>8, <1>9, <1>10, <1>11, <1>12, TakeStep, Zenon

\* Disabling the worker, which fences all its attempts, preserves the invariant.
LEMMA DisableWorkerStep ==
  ASSUME Inv, DisableWorker
  PROVE  Inv'
<1> DEFINE L == {a \in Attempts : LeaseHeld(a)}
           lost == {a \in Attempts : LeaseHeld(a) /\ Current(a)}
           hit(j) == \E a \in lost : attempts[a].job = j
<1>t. /\ jobs \in [Jobs -> JobType] /\ attempts \in [Attempts -> AttemptType]
      /\ worker \in WorkerType
  BY DEF Inv, TypeOK
<1>1. /\ attempts' = [a \in Attempts |->
           IF a \in lost THEN Fenced(attempts[a], "STOPPING", "INFRASTRUCTURE")
           ELSE IF a \in L THEN Revoked(attempts[a]) ELSE attempts[a]]
      /\ jobs' = [j \in Jobs |-> IF hit(j) THEN LostAttempt(jobs[j]) ELSE jobs[j]]
      /\ worker' = [worker EXCEPT !.admin = "DISABLED", !.ready = FALSE]
      /\ UNCHANGED <<good, results, outstanding, active, mode, exec>>
  BY DEF DisableWorker, counters
<1>2. \A a \in L : /\ attempts[a].job \in Jobs /\ attempts[a].alloc = "HELD"
                   /\ jobs[attempts[a].job].state \in Running <=> a \in lost
  BY HeldFacts DEF Current
<1>3. lost \subseteq L /\ L \in SUBSET Attempts
  OBVIOUS
<1>4. \A j \in Jobs : hit(j) => jobs[j].state \in Running
  BY <1>2, <1>3
<1> HIDE DEF L, lost
<1>5. \A a \in L : /\ Taken(attempts[a], attempts'[a]) /\ attempts'[a] \in AttemptType
                   /\ a \in lost => attempts'[a].class # "NONE"
  <2> TAKE a \in L
  <2>t. a \in Attempts /\ attempts[a] \in AttemptType /\ attempts[a].alloc = "HELD"
    BY <1>t, <1>2, <1>3
  <2>1. CASE a \in lost
    <3>1. attempts'[a] = Fenced(attempts[a], "STOPPING", "INFRASTRUCTURE")
      BY <1>1, <2>1, <2>t
    <3>2. Taken(attempts[a], attempts'[a]) /\ attempts'[a].class = "INFRASTRUCTURE"
      BY <2>t, <3>1, FencedTaken
    <3>3. attempts'[a] \in AttemptType
      BY <2>t, <3>1, FencedType, AttemptStateNames, ClassNames, Zenon
    <3> QED BY <3>2, <3>3
  <2>2. CASE a \notin lost
    <3>1. attempts'[a] = Revoked(attempts[a])
      BY <1>1, <2>2, <2>t
    <3> QED BY <2>t, <2>2, <3>1, RevokedTaken, RevokedType
  <2> QED BY <2>1, <2>2
<1>6. \A a \in Attempts \ L : attempts'[a] = attempts[a]
  BY <1>1, <1>3
<1>7. \A j \in Jobs : /\ hit(j) => jobs'[j] = LostAttempt(jobs[j]) /\ jobs'[j].state = "RECOVERING"
                      /\ ~hit(j) => jobs'[j] = jobs[j]
  BY <1>1, <1>t, LostFields
<1>8. worker' \in WorkerType /\ worker'.ready = FALSE
  <2>1. worker' \in WorkerType
    BY <1>1, <1>t, Zenon DEF WorkerType
  <2>2. worker'.ready = FALSE
    BY <1>1, <1>t DEF WorkerType
  <2> QED BY <2>1, <2>2
<1>9. TypeOK'
  <2>1. attempts' \in [Attempts -> AttemptType]
    BY <1>1, <1>t, <1>5, <1>6, Zenon
  <2>2. jobs' \in [Jobs -> JobType]
    BY <1>1, <1>t, LostAttemptType
  <2> QED BY <1>1, <1>8, <2>1, <2>2 DEF Inv, TypeOK
<1>10. IntentRows'
  <2> SUFFICES ASSUME NEW j \in Jobs PROVE IntentRow(j)'
    BY DEF IntentRows
  <2>1. CASE hit(j)
    BY <2>1, <1>4, <1>7, LostIntent
  <2>2. CASE ~hit(j)
    <3>1. jobs'[j] = jobs[j]
      BY <2>2, <1>7
    <3> QED BY <3>1 DEF Inv, IntentRows, IntentRow, Dispatchable
  <2> QED BY <2>1, <2>2
<1>11. \A a \in L : jobs[attempts[a].job].state \in Running =>
         /\ attempts'[a].class # "NONE"
         /\ jobs'[attempts[a].job].state \in {"RECOVERING", "CANCELLING"}
  BY <1>2, <1>5, <1>7
<1>12. \A j \in Jobs : \/ jobs'[j] = jobs[j]
                       \/ /\ jobs[j].state \in Running
                          /\ jobs'[j].state \in {"RECOVERING", "CANCELLING"}
                          /\ \E a \in L : attempts[a].job = j
  BY <1>3, <1>4, <1>7
<1>13. WorkerRow' /\ UNCHANGED <<good, results, exec>>
  BY <1>1, <1>8 DEF WorkerRow
<1> QED BY <1>3, <1>5, <1>6, <1>9, <1>10, <1>11, <1>12, <1>13, TakeStep

-----------------------------------------------------------------------------
(* Authority is given: dispatch. *)

\* A queued job has no attempt left that is not released.
LEMMA QueuedReleased ==
  ASSUME Inv, NEW j \in Jobs, jobs[j].state \notin Running,
         jobs[j].state \notin {"RECOVERING", "CANCELLING", "SUCCEEDED"}
  PROVE  \A b \in Attempts : attempts[b].job = j =>
           attempts[b].alloc = "RELEASED" /\ attempts[b].grant = 0
<1> SUFFICES ASSUME NEW b \in Attempts, attempts[b].job = j
             PROVE  attempts[b].alloc = "RELEASED" /\ attempts[b].grant = 0
  OBVIOUS
<1>1. attempts[b].job # NoJob /\ attempts[b] \in AttemptType
  BY IdentityAssumption, RowTypes DEF Inv
<1>2. attempts[b].alloc \in {"NONE", "HELD", "QUARANTINED", "RELEASED"} /\ attempts[b].grant \in Nat
  BY <1>1, AttemptRowFields
<1>3. attempts[b].alloc = "RELEASED"
  BY <1>1, <1>2 DEF Inv, AuthorityRows, AttemptToJob
<1> QED BY <1>1, <1>2, <1>3 DEF Inv, AuthorityRows

\* Dispatching a queued job (apply_decision) preserves the invariant.
LEMMA DispatchStep ==
  ASSUME Inv, NEW j \in Jobs, NEW a \in Attempts, Dispatch(j, a)
  PROVE  Inv'
<1> DEFINE n == AttemptsOf(j) = {}
           i == IF jobs[j].intent = "NONE" THEN "RUN" ELSE jobs[j].intent
           f == jobs[j].fence + 1
           q == [NoRow EXCEPT !.job = j, !.first = n, !.state = "CREATED", !.fence = f,
                              !.intent = i, !.lease = "LIVE", !.alloc = "HELD",
                              !.grant = worker.inc]
           k == [jobs[j] EXCEPT !.state = "DISPATCHING", !.fence = f]
<1>t. /\ jobs \in [Jobs -> JobType] /\ jobs[j] \in JobType
      /\ attempts \in [Attempts -> AttemptType] /\ j # NoJob
  BY IdentityAssumption DEF Inv, TypeOK
<1>1. /\ attempts[a].job = NoJob /\ jobs[j].state = "QUEUED" /\ Dispatchable(j)
      /\ attempts' = [attempts EXCEPT ![a] = q]
      /\ jobs' = [jobs EXCEPT ![j] = k]
      /\ active' = Adjust(active, j, 1)
      /\ UNCHANGED <<good, results, outstanding, worker, mode, exec>>
  BY Zenon DEF Dispatch
<1>2. n \in BOOLEAN
  OBVIOUS
<1>3. i \in {"NONE", "RUN", "CHECKPOINT_FOR_PAUSE"} /\ f \in Nat
  BY <1>t, JobRowFields
<1>4. worker.inc \in Nat /\ worker.inc > 0
  BY WorkerFields DEF Dispatch, Inv, WorkerRow
<1>5. jobs[j].state = "QUEUED" /\ k.state = "DISPATCHING" /\ k.fence = f /\ k.desired = jobs[j].desired
      /\ k.intent = jobs[j].intent
  BY <1>t, <1>1 DEF JobType
<1>6. k \in JobType
  BY <1>t, <1>3, JobRowUpdate, JobStateNames, JobRowFields, Zenon
<1> HIDE DEF n, i, f, k
<1>7. NoRow \in AttemptType
  BY DEF NoRow, AttemptType, AttemptStates, FailureClass
<1>8. q \in AttemptType
  BY <1>2, <1>3, <1>4, <1>7, AttemptStateNames, Zenon DEF AttemptType
<1>9. /\ q.job = j /\ q.fence = f /\ q.lease = "LIVE" /\ q.alloc = "HELD"
      /\ q.grant = worker.inc /\ q.class = "NONE"
  BY DEF NoRow
<1> HIDE DEF q
<1>10. \A b \in Attempts : attempts[b].job = j => attempts[b].alloc = "RELEASED"
  BY <1>1, QueuedReleased DEF Running
<1>11. \A b \in Attempts : /\ b # a => attempts'[b] = attempts[b]
                           /\ b = a => attempts'[b] = q
  BY <1>1, <1>t
<1>12. \A l \in Jobs : /\ l # j => jobs'[l] = jobs[l]
                       /\ l = j => jobs'[l] = k
  BY <1>1, <1>t
<1>13. TypeOK'
  BY <1>1, <1>6, <1>8, AdjustType DEF Inv, TypeOK
<1>14. UnusedRows'
  BY <1>1, <1>9, <1>11, <1>t DEF Inv, UnusedRows
<1>15. AuthorityRows'
  BY <1>1, <1>4, <1>9, <1>11, <1>t DEF Inv, AuthorityRows, LeaseHeld
<1>16. AttemptToJob'
  <2> SUFFICES ASSUME NEW b \in Attempts, attempts'[b].job # NoJob
               PROVE  LET job == jobs'[attempts'[b].job] IN
                 /\ attempts'[b].alloc = "HELD" => job.state \in Running \cup {"SUCCEEDED"}
                 /\ attempts'[b].alloc = "HELD" /\ job.state \in Running =>
                      attempts'[b].fence = job.fence
                 /\ attempts'[b].alloc = "QUARANTINED" =>
                      job.state \in {"RECOVERING", "CANCELLING", "SUCCEEDED"}
                 /\ attempts'[b].alloc = "QUARANTINED" /\ job.state # "SUCCEEDED" =>
                      attempts'[b].class # "NONE"
    BY Zenon DEF AttemptToJob
  <2>1. CASE b = a
    BY <2>1, <1>5, <1>9, <1>11, <1>12 DEF Running
  <2>2. CASE b # a /\ attempts[b].job = j
    BY <2>2, <1>10, <1>11, SMTT(30)
  <2>3. CASE b # a /\ attempts[b].job # j
    <3>1. attempts[b].job \in Jobs
      BY <1>11, <2>3, <1>t, AttemptRowFields
    <3>2. attempts'[b] = attempts[b] /\ jobs'[attempts[b].job] = jobs[attempts[b].job]
      BY <2>3, <3>1, <1>11, <1>12
    <3> QED BY <3>1, <3>2 DEF Inv, AttemptToJob
  <2> QED BY <2>1, <2>2, <2>3, Zenon
<1>17. JobToAttempt'
  <2> SUFFICES ASSUME NEW l \in Jobs
               PROVE  /\ jobs'[l].state \in Running =>
                           \E b \in Attempts : attempts'[b].job = l /\ attempts'[b].alloc = "HELD"
                      /\ jobs'[l].state \in {"RECOVERING", "CANCELLING"} =>
                           \E b \in Attempts : attempts'[b].job = l /\ attempts'[b].alloc = "QUARANTINED"
    BY DEF JobToAttempt
  <2>1. CASE l = j
    BY <2>1, <1>5, <1>9, <1>11, <1>12
  <2>2. CASE l # j
    <3>1. jobs'[l] = jobs[l] /\ l # NoJob
      BY <2>2, <1>12, IdentityAssumption
    <3>2. \A b \in Attempts : attempts[b].job = l => attempts'[b] = attempts[b]
      BY <3>1, <1>1, <1>11
    <3> QED BY <3>1, <3>2 DEF Inv, JobToAttempt
  <2> QED BY <2>1, <2>2
<1>18. OneUnreleased'
  BY <1>9, <1>10, <1>11 DEF Inv, OneUnreleased, Unreleased
<1>19. IntentRows'
  <2> SUFFICES ASSUME NEW l \in Jobs PROVE IntentRow(l)'
    BY DEF IntentRows
  <2>1. CASE l = j
    BY <2>1, <1>1, <1>5, <1>12, SMTT(30) DEF Inv, IntentRows, IntentRow, Dispatchable
  <2>2. CASE l # j
    BY <2>2, <1>12 DEF Inv, IntentRows, IntentRow, Dispatchable
  <2> QED BY <2>1, <2>2
<1>20. WorkerRow'
  BY <1>1 DEF Inv, WorkerRow
<1> QED BY <1>13, <1>14, <1>15, <1>16, <1>17, <1>18, <1>19, <1>20 DEF Inv

-----------------------------------------------------------------------------
(* Authority and resources are returned: verified cleanup. *)

\* What an accepted cleanup finds.
LEMMA CleanupFacts ==
  ASSUME Inv, NEW a \in Attempts, MayCleanUp(a)
  PROVE  /\ attempts[a].job \in Jobs /\ attempts[a].job # NoJob
         /\ attempts[a] \in AttemptType /\ jobs[attempts[a].job] \in JobType
         /\ exec[a] = "GONE" /\ Unreleased(a)
         /\ jobs[attempts[a].job].state \in {"CANCELLING", "PAUSING", "RECOVERING", "SUCCEEDED"}
         /\ jobs[attempts[a].job].state = "PAUSING" => jobs[attempts[a].job].desired = "PAUSED"
<1>1. attempts[a].job # NoJob
  BY Zenon DEF Inv, UnusedRows, MayCleanUp, Unreleased, NoRow
<1>2. /\ attempts[a].job \in Jobs /\ attempts[a] \in AttemptType
      /\ jobs[attempts[a].job] \in JobType
  BY <1>1, RowTypes, SMTT(30) DEF Inv
<1>3. jobs[attempts[a].job].state \in Running \cup {"RECOVERING", "CANCELLING", "SUCCEEDED"}
  BY <1>1 DEF Inv, AttemptToJob, MayCleanUp, Unreleased
<1>4. /\ exec[a] = "GONE" /\ Unreleased(a)
      /\ jobs[attempts[a].job].state \in {"CANCELLING", "PAUSING", "RECOVERING"} \cup Terminal
      /\ jobs[attempts[a].job].state = "PAUSING" => jobs[attempts[a].job].desired = "PAUSED"
  BY DEF MayCleanUp, Terminal
<1> QED BY <1>1, <1>2, <1>3, <1>4 DEF Running, Terminal

\* The job row that recovery or the end of a cancel or a pause writes.
LEMMA RecoveredRow ==
  ASSUME Inv, NEW j \in Jobs, jobs[j].state = "RECOVERING", NEW a \in Attempts
  PROVE  /\ Recovered(j, a) \in JobType
         /\ Recovered(j, a).state \in {"PAUSED", "RETRY_WAIT", "FAILED"}
         /\ Recovered(j, a).desired = jobs[j].desired
         /\ Recovered(j, a).desired = "RUNNING" => Recovered(j, a).intent = "NONE"
         /\ Recovered(j, a).state = "RETRY_WAIT" =>
              \/ Recovered(j, a).desired = "RUNNING"
              \/ Recovered(j, a).desired = "PAUSED"
                   /\ Recovered(j, a).intent = "CHECKPOINT_FOR_PAUSE"
<1>t. jobs[j] \in JobType /\ IntentRow(j)
  BY DEF Inv, TypeOK, IntentRows
<1>d. jobs[j].desired \in {"RUNNING", "PAUSED"} /\ (jobs[j].desired = "RUNNING" => jobs[j].intent = "NONE")
  BY <1>t, JobRowFields DEF IntentRow
<1> DEFINE p == [jobs[j] EXCEPT !.state = "PAUSED", !.intent = "NONE"]
           g == jobs[j].retries + 1
           i == IF jobs[j].desired = "PAUSED" THEN "CHECKPOINT_FOR_PAUSE" ELSE jobs[j].intent
           r == [jobs[j] EXCEPT !.state = "RETRY_WAIT", !.retries = g, !.intent = i]
           e == [jobs[j] EXCEPT !.state = "FAILED", !.intent = "NONE"]
<1>1. \/ Recovered(j, a) = p
      \/ Recovered(j, a) = r /\ jobs[j].retries < MaxRetries
      \/ Recovered(j, a) = e
  BY DEF Recovered
<1>i. i \in {"NONE", "CHECKPOINT_FOR_PAUSE"} /\ (jobs[j].desired = "PAUSED" => i = "CHECKPOINT_FOR_PAUSE")
      /\ (jobs[j].desired = "RUNNING" => i = "NONE")
  BY <1>t, <1>d, JobRowFields
<1>g. jobs[j].retries < MaxRetries => g \in 0..MaxRetries
  BY <1>t, JobRowFields, BoundAssumption
<1> HIDE DEF g, i
<1>2. /\ p \in JobType /\ e \in JobType
      /\ jobs[j].retries < MaxRetries => r \in JobType
  BY <1>t, <1>i, <1>g, JobRowUpdate, JobRowFields, JobStateNames, Zenon
<1>3. /\ p.state = "PAUSED" /\ p.desired = jobs[j].desired /\ p.intent = "NONE"
      /\ r.state = "RETRY_WAIT" /\ r.desired = jobs[j].desired /\ r.intent = i
      /\ e.state = "FAILED" /\ e.desired = jobs[j].desired /\ e.intent = "NONE"
  BY <1>t DEF JobType
<1> HIDE DEF p, r, e
<1> QED BY <1>1, <1>2, <1>3, <1>d, <1>i

\* The job row report_cleanup writes, whatever the job was waiting for.
LEMMA CleanedRow ==
  ASSUME Inv, NEW a \in Attempts, NEW j \in Jobs, attempts[a].job = j, MayCleanUp(a)
  PROVE  /\ Cleaned(j, a) \in JobType
         /\ Cleaned(j, a).state \in {"CANCELLED", "PAUSED", "RETRY_WAIT", "FAILED", "SUCCEEDED"}
         /\ Cleaned(j, a).desired = jobs[j].desired
         /\ jobs[j].state = "SUCCEEDED" <=> Cleaned(j, a).state = "SUCCEEDED"
         /\ Cleaned(j, a).state = "CANCELLED" <=> Cleaned(j, a).desired = "CANCELLED"
         /\ Cleaned(j, a).desired = "RUNNING" => Cleaned(j, a).intent = "NONE"
         /\ Cleaned(j, a).state = "RETRY_WAIT" =>
              \/ Cleaned(j, a).desired = "RUNNING"
              \/ Cleaned(j, a).desired = "PAUSED"
                   /\ Cleaned(j, a).intent = "CHECKPOINT_FOR_PAUSE"
<1> DEFINE c == [jobs[j] EXCEPT !.state = "CANCELLED", !.intent = "NONE"]
           p == [jobs[j] EXCEPT !.state = "PAUSED", !.intent = "NONE"]
<1>t. /\ jobs[j] \in JobType /\ IntentRow(j)
      /\ jobs[j].state \in {"CANCELLING", "PAUSING", "RECOVERING", "SUCCEEDED"}
      /\ jobs[j].state = "PAUSING" => jobs[j].desired = "PAUSED"
  BY CleanupFacts DEF Inv, IntentRows
<1>1. c \in JobType /\ p \in JobType
  BY <1>t, JobRowUpdate, JobRowFields, JobStateNames, Zenon
<1>2. /\ c.state = "CANCELLED" /\ c.desired = jobs[j].desired /\ c.intent = "NONE"
      /\ p.state = "PAUSED" /\ p.desired = jobs[j].desired /\ p.intent = "NONE"
  BY <1>t DEF JobType
<1>3. /\ jobs[j].state = "CANCELLING" => Cleaned(j, a) = c
      /\ jobs[j].state = "PAUSING" => Cleaned(j, a) = p
      /\ jobs[j].state = "RECOVERING" => Cleaned(j, a) = Recovered(j, a)
      /\ jobs[j].state = "SUCCEEDED" => Cleaned(j, a) = jobs[j]
  BY DEF Cleaned
<1> HIDE DEF c, p
<1>4. CASE jobs[j].state = "CANCELLING"
  BY <1>4, <1>t, <1>1, <1>2, <1>3, Zenon DEF IntentRow
<1>5. CASE jobs[j].state = "PAUSING"
  BY <1>5, <1>t, <1>1, <1>2, <1>3, Zenon
<1>6. CASE jobs[j].state = "RECOVERING"
  <2>1. jobs[j].desired # "CANCELLED"
    BY <1>6, <1>t DEF IntentRow
  <2> QED BY <1>6, <2>1, <1>3, RecoveredRow
<1>7. CASE jobs[j].state = "SUCCEEDED"
  BY <1>7, <1>t, <1>3 DEF IntentRow
<1> QED BY <1>t, <1>4, <1>5, <1>6, <1>7, Zenon

\* The final state of an attempt is an attempt state.
LEMMA EndedStateType ==
  ASSUME Inv, NEW a \in Attempts, NEW j \in Jobs, attempts[a] \in AttemptType
  PROVE  EndedState(j, a) \in AttemptStates
<1>1. attempts[a].state \in AttemptStates
  BY DEF AttemptType
<1> QED BY <1>1, AttemptStateNames DEF EndedState

\* A verified cleanup preserves the invariant.
LEMMA ReportCleanupStep ==
  ASSUME Inv, NEW a \in Attempts, ReportCleanup(a)
  PROVE  Inv'
<1>m. MayCleanUp(a)
  BY DEF ReportCleanup
<1>1. PICK j \in Jobs : attempts[a].job = j
  BY <1>m, CleanupFacts
<1> DEFINE e == EndedState(j, a)
           d == IF jobs[j].state = "PAUSING" THEN 0 ELSE attempts[a].result
           q == [attempts[a] EXCEPT !.state = e, !.alloc = "RELEASED", !.lease = "REVOKED",
                                    !.grant = 0, !.result = d]
           k == Cleaned(j, a)
<1>t. /\ jobs \in [Jobs -> JobType] /\ attempts \in [Attempts -> AttemptType]
      /\ attempts[a] \in AttemptType /\ jobs[j] \in JobType /\ j # NoJob
      /\ exec[a] = "GONE" /\ Unreleased(a)
      /\ jobs[j].state \in {"CANCELLING", "PAUSING", "RECOVERING", "SUCCEEDED"}
  BY <1>m, <1>1, CleanupFacts DEF Inv, TypeOK
<1>2. /\ attempts' = [attempts EXCEPT ![a] = q]
      /\ jobs' = [jobs EXCEPT ![j] = k]
      /\ active' = Adjust(active, j, -1)
      /\ outstanding' = Adjust(outstanding, j, -1) \/ outstanding' = outstanding
      /\ UNCHANGED <<good, results, worker, mode, exec>>
  BY <1>1 DEF ReportCleanup
<1>3. e \in AttemptStates /\ d \in Nat
  BY <1>t, EndedStateType, AttemptRowFields
<1>4. /\ k \in JobType
      /\ k.state \in {"CANCELLED", "PAUSED", "RETRY_WAIT", "FAILED", "SUCCEEDED"}
      /\ jobs[j].state = "SUCCEEDED" <=> k.state = "SUCCEEDED"
      /\ k.state = "CANCELLED" <=> k.desired = "CANCELLED"
      /\ k.desired = "RUNNING" => k.intent = "NONE"
      /\ k.state = "RETRY_WAIT" =>
           \/ k.desired = "RUNNING"
           \/ k.desired = "PAUSED" /\ k.intent = "CHECKPOINT_FOR_PAUSE"
  BY <1>m, <1>1, CleanedRow
<1> HIDE DEF e, d, k
<1>5. q \in AttemptType
  BY <1>t, <1>3, Zenon DEF AttemptType
<1>6. q.job = j /\ q.lease = "REVOKED" /\ q.alloc = "RELEASED" /\ q.grant = 0
  BY <1>t, <1>1 DEF AttemptType
<1> HIDE DEF q
<1>7. \A b \in Attempts : /\ b # a => attempts'[b] = attempts[b]
                          /\ b = a => attempts'[b] = q
  BY <1>2, <1>t
<1>8. \A l \in Jobs : /\ l # j => jobs'[l] = jobs[l]
                      /\ l = j => jobs'[l] = k
  BY <1>2, <1>t
<1>9. \A b \in Attempts : b # a /\ attempts[b].job = j =>
        attempts[b].alloc = "RELEASED"
  <2> SUFFICES ASSUME NEW b \in Attempts, b # a, attempts[b].job = j
               PROVE  attempts[b].alloc = "RELEASED"
    OBVIOUS
  <2>1. ~Unreleased(b)
    BY <1>1, <1>t DEF Inv, OneUnreleased
  <2>2. attempts[b].alloc \in {"NONE", "HELD", "QUARANTINED", "RELEASED"}
    BY <1>t, AttemptRowFields
  <2> QED BY <2>1, <2>2, <1>t DEF Inv, AuthorityRows, Unreleased
<1>10. TypeOK'
  BY <1>2, <1>4, <1>5, AdjustType DEF Inv, TypeOK
<1>11. UnusedRows'
  BY <1>2, <1>6, <1>7, <1>t, SMTT(30) DEF Inv, UnusedRows
<1>12. AuthorityRows'
  BY <1>2, <1>6, <1>7, <1>t, SMTT(30) DEF Inv, AuthorityRows, LeaseHeld
<1>13. AttemptToJob'
  <2> SUFFICES ASSUME NEW b \in Attempts, attempts'[b].job # NoJob,
                      attempts'[b].alloc \in {"HELD", "QUARANTINED"}
               PROVE  LET job == jobs'[attempts'[b].job] IN
                 /\ attempts'[b].alloc = "HELD" => job.state \in Running \cup {"SUCCEEDED"}
                 /\ attempts'[b].alloc = "HELD" /\ job.state \in Running =>
                      attempts'[b].fence = job.fence
                 /\ attempts'[b].alloc = "QUARANTINED" =>
                      job.state \in {"RECOVERING", "CANCELLING", "SUCCEEDED"}
                 /\ attempts'[b].alloc = "QUARANTINED" /\ job.state # "SUCCEEDED" =>
                      attempts'[b].class # "NONE"
    BY DEF AttemptToJob
  <2>1. b # a /\ attempts'[b] = attempts[b] /\ attempts[b].job # j
    BY <1>6, <1>7, <1>9
  <2>2. attempts[b].job \in Jobs
    BY <2>1, <1>t, AttemptRowFields
  <2>3. jobs'[attempts[b].job] = jobs[attempts[b].job]
    BY <2>1, <2>2, <1>8
  <2> QED BY <2>1, <2>2, <2>3 DEF Inv, AttemptToJob
<1>14. JobToAttempt'
  <2> SUFFICES ASSUME NEW l \in Jobs
               PROVE  /\ jobs'[l].state \in Running =>
                           \E b \in Attempts : attempts'[b].job = l /\ attempts'[b].alloc = "HELD"
                      /\ jobs'[l].state \in {"RECOVERING", "CANCELLING"} =>
                           \E b \in Attempts : attempts'[b].job = l /\ attempts'[b].alloc = "QUARANTINED"
    BY DEF JobToAttempt
  <2>1. CASE l = j
    BY <2>1, <1>4, <1>8 DEF Running
  <2>2. CASE l # j
    <3>1. \A b \in Attempts : attempts[b].job = l => attempts'[b] = attempts[b]
      BY <2>2, <1>1, <1>7
    <3> QED BY <2>2, <3>1, <1>8 DEF Inv, JobToAttempt
  <2> QED BY <2>1, <2>2
<1>15. OneUnreleased'
  BY <1>6, <1>7 DEF Inv, OneUnreleased, Unreleased
<1>16. IntentRows'
  <2> SUFFICES ASSUME NEW l \in Jobs PROVE IntentRow(l)'
    BY DEF IntentRows
  <2>1. CASE l = j
    BY <2>1, <1>4, <1>8 DEF IntentRow, Dispatchable
  <2>2. CASE l # j
    BY <2>2, <1>8 DEF Inv, IntentRows, IntentRow, Dispatchable
  <2> QED BY <2>1, <2>2
<1>17. WorkerRow'
  BY <1>2 DEF Inv, WorkerRow
<1> QED BY <1>10, <1>11, <1>12, <1>13, <1>14, <1>15, <1>16, <1>17 DEF Inv

-----------------------------------------------------------------------------
(* The invariant holds in every reachable state. *)

\* An empty database satisfies the invariant.
LEMMA InitInv == Init => Inv
<1> SUFFICES ASSUME Init PROVE Inv
  BY SMTT(30)
<1>1. NoJobRow \in JobType
  <2>1. 0 \in 0..MaxRetries /\ "NONE" \in JobStates
    BY BoundAssumption, JobStateNames
  <2> QED BY <2>1 DEF NoJobRow, JobType
<1>2. NoRow \in AttemptType
  BY DEF NoRow, AttemptType, AttemptStates, FailureClass
<1>3. worker \in WorkerType
  BY BoundAssumption DEF Init, WorkerType
<1>4. TypeOK
  BY <1>1, <1>2, <1>3 DEF Init, TypeOK
<1>5. \A j \in Jobs : jobs[j] = NoJobRow
  BY DEF Init
<1>6. \A a \in Attempts : attempts[a] = NoRow /\ attempts[a].job = NoJob
                          /\ attempts[a].alloc = "NONE" /\ exec[a] = "NONE"
                          /\ a \notin good /\ a \notin results
  BY DEF Init, NoRow
<1>7. \A j \in Jobs : jobs[j].state = "NONE" /\ jobs[j].desired = "RUNNING"
                      /\ jobs[j].intent = "NONE"
  BY <1>5 DEF NoJobRow
<1>8. WorkerRow
  BY DEF Init, WorkerRow
<1> QED BY <1>4, <1>6, <1>7, <1>8, Zenon
  DEF Inv, UnusedRows, AuthorityRows, AttemptToJob, JobToAttempt, OneUnreleased,
      Unreleased, IntentRows, IntentRow, Dispatchable, Running

\* Every transaction, and everything the worker does on its own, preserves it.
LEMMA NextInv == Inv /\ [Next]_vars => Inv'
<1> SUFFICES ASSUME Inv, [Next]_vars PROVE Inv'
  OBVIOUS
<1>1. ASSUME UserStep PROVE Inv'
  <2>1. PICK j \in Jobs :
          \/ Submit(j) \/ PauseJob(j) \/ ResumeJob(j) \/ CancelJob(j)
          \/ \E src \in Jobs : RetryFailedJob(j, src)
    BY <1>1 DEF UserStep
  <2> QED BY <2>1, SubmitStep, PauseJobStep, ResumeJobStep, CancelWaitingStep,
             CancelRunningStep, CancelRecoveringStep, RetryFailedJobStep DEF CancelJob
<1>2. ASSUME CoordinatorStep PROVE Inv'
  BY <1>2, PromoteRetryStep, DispatchStep, ReapLeaseStep DEF CoordinatorStep
<1>3. ASSUME CallbackStep PROVE Inv'
  <2>1. PICK a \in Attempts :
          \/ ClaimAttempt(a) \/ StartAttempt(a) \/ AdoptAttempt(a)
          \/ ReserveResult(a) \/ CompleteAttempt(a)
          \/ ReserveCheckpoint(a) \/ PublishCheckpoint(a) \/ RejectCheckpoint(a)
          \/ \E b \in Attempts : MarkCorrupt(a, b)
          \/ \E class \in FailureClasses : FailAttempt(a, class)
          \/ ReportCleanup(a)
    BY <1>3 DEF CallbackStep
  <2> QED BY <2>1, ClaimAttemptStep, StartAttemptStep, AdoptAttemptStep, ReserveResultStep,
             CompleteAttemptStep, ReserveCheckpointStep, PublishCheckpointStep,
             RejectCheckpointStep, MarkCorruptStep, FailAttemptStep, ReportCleanupStep
<1>4. ASSUME WorkerStep PROVE Inv'
  BY <1>4, WorkerRowStep, DisableWorkerStep DEF WorkerStep
<1>5. ASSUME EnvironmentStep PROVE Inv'
  BY <1>5, LeaseExpiresStep, CreateContainerStep, RetireExecutionStep DEF EnvironmentStep
<1>6. ASSUME UNCHANGED vars PROVE Inv'
  <2>1. TypeOK'
    BY <1>6 DEF vars, Inv, TypeOK
  <2>2. UnusedRows' /\ AuthorityRows'
    BY <1>6 DEF vars, Inv, UnusedRows, AuthorityRows, LeaseHeld
  <2>3. AttemptToJob'
    BY <1>6, Zenon DEF vars, Inv, AttemptToJob
  <2>4. JobToAttempt' /\ OneUnreleased'
    BY <1>6, SMTT(30) DEF vars, Inv, JobToAttempt, OneUnreleased, Unreleased
  <2>5. IntentRows' /\ WorkerRow'
    BY <1>6 DEF vars, Inv, IntentRows, IntentRow, Dispatchable, WorkerRow
  <2> QED BY <2>1, <2>2, <2>3, <2>4, <2>5 DEF Inv
<1> QED BY <1>1, <1>2, <1>3, <1>4, <1>5, <1>6 DEF Next

\* The rows of jobs, attempts, leases, grants and allocations always agree.
THEOREM Invariance == Spec => []Inv
<1> QED BY InitInv, NextInv, PTL DEF Spec

\* Every row keeps its type.
THEOREM TypeCorrectness == Spec => []TypeOK
<1>1. Inv => TypeOK
  BY DEF Inv
<1> QED BY <1>1, Invariance, PTL

\* However late a stalled worker acts on a claim, a job has at most one container.
THEOREM AtMostOneContainer == Spec => []SingleContainer
<1>1. Inv => SingleContainer
  <2> SUFFICES ASSUME Inv, NEW a \in Attempts, NEW b \in Attempts,
                      exec[a] = "ALIVE", exec[b] = "ALIVE", attempts[a].job = attempts[b].job
               PROVE  a = b
    BY DEF SingleContainer
  <2>1. Unreleased(a) /\ Unreleased(b)
    <3>1. ASSUME NEW c \in Attempts, exec[c] = "ALIVE" PROVE Unreleased(c)
      <4>1. attempts[c].job # NoJob /\ attempts[c].alloc \in {"NONE", "HELD", "QUARANTINED", "RELEASED"}
        BY <3>1, AttemptRowFields, RowTypes DEF Inv, UnusedRows
      <4> QED BY <3>1, <4>1, SMTT(30) DEF Inv, AuthorityRows, Unreleased
    <3> QED BY <3>1
  <2> QED BY <2>1 DEF Inv, OneUnreleased
<1> QED BY <1>1, Invariance, PTL

\* The resources of a container that may exist are never given to another job.
THEOREM ContainersAreCharged == Spec => []ContainerIsCharged
<1>1. Inv => ContainerIsCharged
  <2> SUFFICES ASSUME Inv, NEW c \in Attempts, exec[c] = "ALIVE" PROVE Unreleased(c)
    BY DEF ContainerIsCharged
  <2>1. attempts[c].job # NoJob /\ attempts[c].alloc \in {"NONE", "HELD", "QUARANTINED", "RELEASED"}
    BY AttemptRowFields, RowTypes, SMTT(30) DEF Inv, UnusedRows
  <2> QED BY <2>1 DEF Inv, AuthorityRows, Unreleased
<1> QED BY <1>1, Invariance, PTL

\* An attempt of a job is released when another one of it is not.
LEMMA OthersReleased ==
  ASSUME Inv, NEW j \in Jobs, NEW a \in AttemptsOf(j), Unreleased(a)
  PROVE  \A b \in AttemptsOf(j) \ {a} : attempts[b].alloc = "RELEASED"
<1> SUFFICES ASSUME NEW b \in Attempts, attempts[b].job = j, b # a
             PROVE  attempts[b].alloc = "RELEASED"
  BY DEF AttemptsOf
<1>1. attempts[b].alloc \in {"NONE", "HELD", "QUARANTINED", "RELEASED"} /\ attempts[b].job # NoJob
  BY AttemptRowFields, RowTypes, IdentityAssumption DEF Inv
<1>2. ~Unreleased(b)
  BY SMTT(30) DEF Inv, OneUnreleased, AttemptsOf
<1> QED BY <1>1, <1>2 DEF Inv, AuthorityRows, Unreleased

\* A job believed to be running can always be found by the reaper, a cancel or a
\* disable: it has one attempt with a lease, at the job's fence.
THEOREM RunningJobsAreHeld == Spec => []RunningHasAuthority
<1>1. Inv => RunningHasAuthority
  <2> SUFFICES ASSUME Inv, NEW j \in Jobs, jobs[j].state \in Running
               PROVE  \E a \in AttemptsOf(j) :
                        /\ LeaseHeld(a) /\ attempts[a].alloc = "HELD" /\ attempts[a].grant > 0
                        /\ attempts[a].fence = jobs[j].fence
                        /\ \A b \in AttemptsOf(j) \ {a} : attempts[b].alloc = "RELEASED"
    BY DEF RunningHasAuthority
  <2>1. PICK a \in Attempts : attempts[a].job = j /\ attempts[a].alloc = "HELD"
    BY DEF Inv, JobToAttempt
  <2>2. a \in AttemptsOf(j) /\ Unreleased(a) /\ attempts[a].job # NoJob
    BY <2>1, IdentityAssumption DEF AttemptsOf, Unreleased
  <2>3. LeaseHeld(a) /\ attempts[a].grant > 0 /\ attempts[a].fence = jobs[j].fence
    BY <2>1, <2>2, Zenon DEF Inv, AuthorityRows, AttemptToJob
  <2>4. \A b \in AttemptsOf(j) \ {a} : attempts[b].alloc = "RELEASED"
    BY <2>2, OthersReleased
  <2> QED BY <2>1, <2>2, <2>3, <2>4
<1> QED BY <1>1, Invariance, PTL

\* A job that waits for a cleanup waits for one that will be accepted.
THEOREM RecoveryIsPossible == Spec => []RecoveryCanFinish
<1>1. Inv => RecoveryCanFinish
  <2> SUFFICES ASSUME Inv, NEW j \in Jobs, jobs[j].state \in {"RECOVERING", "CANCELLING"}
               PROVE  \E a \in AttemptsOf(j) :
                        /\ attempts[a].alloc = "QUARANTINED" /\ attempts[a].class # "NONE"
                        /\ \A b \in AttemptsOf(j) \ {a} : attempts[b].alloc = "RELEASED"
    BY DEF RecoveryCanFinish
  <2>1. PICK a \in Attempts : attempts[a].job = j /\ attempts[a].alloc = "QUARANTINED"
    BY DEF Inv, JobToAttempt
  <2>2. a \in AttemptsOf(j) /\ Unreleased(a) /\ attempts[a].job # NoJob
    BY <2>1, IdentityAssumption, SMTT(30) DEF AttemptsOf, Unreleased
  <2>3. attempts[a].class # "NONE"
    BY <2>1, <2>2, SMTT(30) DEF Inv, AttemptToJob
  <2>4. \A b \in AttemptsOf(j) \ {a} : attempts[b].alloc = "RELEASED"
    BY <2>2, OthersReleased
  <2> QED BY <2>1, <2>2, <2>3, <2>4
<1> QED BY <1>1, Invariance, PTL

\* A job in the queue, waiting for a retry, paused or over holds no resources and
\* no authority, and a queued one can be dispatched.
THEOREM WaitingJobsHoldNothing == Spec => []WaitingHoldsNothing
<1>1. Inv => WaitingHoldsNothing
  <2> SUFFICES ASSUME Inv, NEW j \in Jobs,
                      jobs[j].state \in {"QUEUED", "RETRY_WAIT", "PAUSED", "FAILED", "CANCELLED"}
               PROVE  /\ \A a \in AttemptsOf(j) : attempts[a].alloc = "RELEASED" /\ attempts[a].grant = 0
                      /\ jobs[j].state \in {"QUEUED", "RETRY_WAIT"} => Dispatchable(j)
    BY DEF WaitingHoldsNothing
  <2>1. \A a \in AttemptsOf(j) : attempts[a].alloc = "RELEASED" /\ attempts[a].grant = 0
    BY QueuedReleased DEF Running, AttemptsOf
  <2>2. jobs[j].state \in {"QUEUED", "RETRY_WAIT"} => Dispatchable(j)
    BY DEF Inv, IntentRows, IntentRow
  <2> QED BY <2>1, <2>2
<1> QED BY <1>1, Invariance, PTL

\* A job never has two containers, and a container is never uncharged
\* (report_cleanup releases and requeues only on a proof).
THEOREM HostIsSafe == Spec => []HostSafe
<1> QED
  BY AtMostOneContainer, ContainersAreCharged, PTL DEF HostSafe

\* No path of reaper, failure, cancel, disable or cleanup leaves a job in a state
\* that nothing can end (reap_lease_locked, fence_attempt, report_cleanup).
THEOREM NoJobIsStranded == Spec => []NothingStranded
<1> QED
  BY RunningJobsAreHeld, RecoveryIsPossible, WaitingJobsHoldNothing, PTL DEF NothingStranded

=============================================================================
