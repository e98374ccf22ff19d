------------------------------ MODULE Submission ------------------------------
(***************************************************************************)
(* Repeated requests: the CLI client that retries a command under one key, *)
(* the API threads that run submitJob, retryFailedJob, cancelJob and       *)
(* submitSweep, the idempotency records they share, admission, and the     *)
(* coordinator's retention sweep of those records.                         *)
(*                                                                         *)
(* A step is one committed transaction or one client event.  A record in   *)
(* state PENDING is never committed: every operation here inserts and      *)
(* completes its record in one transaction, so a record in the table is    *)
(* COMPLETED.  One tenant and one user: their three admission scopes and   *)
(* two rate buckets coincide.                                              *)
(***************************************************************************)
EXTENDS Naturals, Sequences, FiniteSets

CONSTANTS
  Commands,     \* what the users of a behaviour run, one of several sets of commands
                \* [op, key, body]; body = what the request hash covers
  Threads,      \* request threads of the API process
  Retention,    \* idempotency_terminal_retention_days, in ticks
  Recheck,      \* RECHECK of the retention sweep, in ticks
  Limit,        \* outstanding_limit
  Burst,        \* rate burst; one token is refilled per tick
  MaxTime,      \* bound: ticks of the clock
  MaxSends,     \* bound: requests sent, retries and later runs included
  MaxJobs,      \* bound: jobs created
  MaxChanges    \* bound: changes of the operational mode and of the conditions

VARIABLES
  clock,
  mode,         \* policy_versions.operational_mode of the current row
  fault,        \* the condition that fails now, at most one: see Conditions
  records,      \* idempotency_records: <<operation_id, key>> -> row
  jobs,         \* jobs in creation order
  sweeps,       \* sweep_parents with their sweep_children
  outstanding,  \* admission_counters
  bucket,       \* rate_buckets
  threads,      \* requests being served
  answered,     \* the resource last returned to a client, per command
  sent,
  changes

tables == <<records, jobs, sweeps, outstanding, bucket>>
vars == <<clock, mode, fault, tables, threads, answered, sent, changes>>

None == "none"
NoResource == << >>
Rejected == <<"rejected">>
Modes == {"NORMAL", "ADMISSION_OFF", "WRITE_FROZEN"}

\* What a request can meet besides the mode: the membership or the tenant policy
\* is gone, the disk is past its watermark, the byte quota is used up, the
\* template is disabled or an artifact of the spec is not COMMITTED.
Conditions == {None, "MEMBERSHIP", "POLICY", "DISK", "QUOTA", "SPEC"}

\* _ABORTING_CODES: these end a sweep request instead of becoming an outcome.
Aborting == {"permission_denied", "dependency_unavailable"}

Key(c) == <<c.op, c.key>>
Live(j) == jobs[j].end = None
Job(j) == <<"job", j>>
Sweep(s) == <<"sweep", s>>

Idle == [cmd |-> NoResource, at |-> "IDLE", pressure |-> FALSE, open |-> FALSE, sweep |-> 0, todo |-> {}]

Init ==
  /\ clock = 1 /\ mode = "NORMAL" /\ fault = None
  /\ records = << >> /\ jobs = << >> /\ sweeps = << >>
  /\ outstanding = 0 /\ bucket = [tokens |-> Burst, last |-> 1]
  /\ threads = [t \in Threads |-> Idle]
  /\ \E run \in Commands : answered = [c \in run |-> NoResource]
  /\ sent = 0 /\ changes = 0

-----------------------------------------------------------------------------
(* The client: request_json and the commands that call it. *)

Waiting(c) == \E t \in Threads : threads[t].open /\ threads[t].cmd = c

\* A command is run, or request_json makes its next try after a transport error, a
\* 429 or a 503: the key and the body are the same every time, so the server cannot
\* tell a retry from a later run.  The thread reads the disk before its transaction.
Send(c) == \E t \in Threads :
  /\ threads[t].at = "IDLE" /\ ~Waiting(c)
  /\ c.op \in {"cancelJob", "retryFailedJob"} => c.body \in DOMAIN jobs
  /\ sent < MaxSends /\ sent' = sent + 1
  /\ threads' = [threads EXCEPT ![t] = [Idle EXCEPT !.cmd = c, !.at = "BEGIN",
                                          !.pressure = (fault = "DISK"), !.open = TRUE]]
  /\ UNCHANGED <<clock, mode, fault, tables, answered, changes>>

\* The connection breaks or times out; the thread does not notice and goes on.
Disconnect(t) ==
  /\ threads[t].open
  /\ threads' = [threads EXCEPT ![t].open = FALSE]
  /\ UNCHANGED <<clock, mode, fault, tables, answered, sent, changes>>

\* The thread ends; a client that still waits gets the code and the resource.
Reply(t, code, resource) ==
  /\ threads' = [threads EXCEPT ![t] = Idle]
  /\ answered' = IF threads[t].open /\ code = "ok"
                 THEN [answered EXCEPT ![threads[t].cmd] = resource] ELSE answered

-----------------------------------------------------------------------------
(* Idempotency records. *)

\* Mutant: the stored request hash is not compared.
BeginAnyBody(k, body) == IF k \in DOMAIN records THEN "replay" ELSE "new"

\* begin_idempotency: the key is free, or its record answers for it.
Begin(k, body) ==
  CASE k \notin DOMAIN records -> "new"
    [] k \in DOMAIN records /\ records[k].body # body -> "idempotency_conflict"
    [] OTHER -> "replay"

\* The row that begin_idempotency and complete_idempotency leave together.
Completed(k, body, resource) ==
  [r \in DOMAIN records \cup {k} |->
     IF r = k THEN [body |-> body, res |-> resource, expires |-> clock + Retention]
              ELSE records[r]]

Later(m, n) == IF m < n THEN n ELSE m
Least(S) == CHOOSE m \in S : \A n \in S : m <= n
Latest(S) == CHOOSE m \in S : \A n \in S : n <= m

\* Mutant: a terminal path that does not extend the records.
ExtendedNone(rows, j) == rows

\* extend_retention: every record of the job is kept for the retention past its end.
Extended(rows, j) ==
  [k \in DOMAIN rows |->
     IF rows[k].res = j
     THEN [rows[k] EXCEPT !.expires = Later(@, clock + Retention)]
     ELSE rows[k]]

-----------------------------------------------------------------------------
(* Admission. *)

\* _rate_lock: the tokens of a bucket that was last refilled at bucket.last.
Refilled ==
  LET tokens == bucket.tokens + (clock - bucket.last) IN IF tokens < Burst THEN tokens ELSE Burst

\* A sequence of checks <<condition, error code>>: none fails, or the first that
\* fails gives the error.
Passes(checks) == \A i \in DOMAIN checks : ~checks[i][1]
FirstError(checks) == checks[Least({i \in DOMAIN checks : checks[i][1]})][2]

\* enforce_watermark of an admission: the disk as read before the transaction.
PressureCheck(pressure) == <<pressure, "storage_pressure">>

\* enforce_byte_quota: the tenant's committed and reserved bytes have reached its quota.
QuotaCheck == <<fault = "QUOTA", "quota_exceeded">>

\* enforce_storage: after the replay and the mode check.
StorageChecks(pressure) == <<PressureCheck(pressure), QuotaCheck>>

ModeChecks == <<<<mode \in {"ADMISSION_OFF", "WRITE_FROZEN"}, "state_conflict">>>>

\* _admit after the mode and the storage: policy, counters, rate.
LimitChecks ==
  <<<<fault = "POLICY", "dependency_unavailable">>,
    <<outstanding >= Limit, "quota_exceeded">>,
    <<Refilled < 1, "rate_limited">>>>

\* _validate_template_and_artifacts and the tenant limit, at the start of _create_job.
SpecChecks == <<<<fault = "SPEC", "infeasible_request">>>>

\* _create_job: the job, its outstanding admission and its token, under key k.
CreateJob(k, body) ==
  /\ Len(jobs) < MaxJobs
  /\ jobs' = Append(jobs, [key |-> k, end |-> None, at |-> 0])
  /\ outstanding' = outstanding + 1
  /\ bucket' = [tokens |-> Refilled - 1, last |-> clock]
  /\ records' = Completed(k, body, Job(Len(jobs) + 1))

\* A job ends: its admission is returned and its records are kept from now on.
EndsNow(j, state, rows) ==
  /\ jobs' = [jobs EXCEPT ![j] = [key |-> jobs[j].key, end |-> state, at |-> clock]]
  /\ outstanding' = outstanding - 1
  /\ records' = Extended(rows, Job(j))

-----------------------------------------------------------------------------
(* One transaction per request. *)

\* What a transaction finds before its own checks: authorization, then the key.
Opening(t) ==
  LET c == threads[t].cmd IN
  IF fault = "MEMBERSHIP" THEN "permission_denied" ELSE Begin(Key(c), c.body)

Serving(t, op) == threads[t].at = "BEGIN" /\ threads[t].cmd.op = op

\* The stored answer is returned, or the key was used for another request.
Answered(t) ==
  /\ threads[t].at = "BEGIN" /\ Opening(t) # "new"
  /\ Opening(t) = "replay" => threads[t].cmd.op # "submitSweep"
  /\ IF Opening(t) = "replay"
     THEN Reply(t, "ok", records[Key(threads[t].cmd)].res)
     ELSE Reply(t, Opening(t), NoResource)
  /\ UNCHANGED <<clock, mode, fault, tables, sent, changes>>

\* submit and retry_failed_job: a job is created or the request is refused.
NewJob(t, checks) ==
  LET c == threads[t].cmd IN
  /\ Opening(t) = "new"
  /\ IF Passes(checks)
     THEN CreateJob(Key(c), c.body) /\ Reply(t, "ok", Job(Len(jobs) + 1))
     ELSE Reply(t, FirstError(checks), NoResource) /\ UNCHANGED tables
  /\ UNCHANGED <<clock, mode, fault, sweeps, sent, changes>>

Submit(t) ==
  /\ Serving(t, "submitJob")
  /\ NewJob(t, ModeChecks \o StorageChecks(threads[t].pressure) \o LimitChecks \o SpecChecks)

\* The source of a manual retry has to have FAILED; it is only read.
RetryFailed(t) ==
  /\ Serving(t, "retryFailedJob")
  /\ NewJob(t, ModeChecks \o LimitChecks
               \o <<<<jobs[threads[t].cmd.body].end # "FAILED", "state_conflict">>>> \o SpecChecks)

\* cancel_job of a job without a container; If-Match names the version of a live job.
Cancel(t) ==
  LET c == threads[t].cmd
      checks == <<<<mode = "WRITE_FROZEN", "state_conflict">>,
                  <<~Live(c.body), "version_conflict">>>> IN
  /\ Serving(t, "cancelJob") /\ Opening(t) = "new"
  /\ IF Passes(checks)
     THEN /\ EndsNow(c.body, "CANCELLED", Completed(Key(c), c.body, Job(c.body)))
          /\ Reply(t, "ok", Job(c.body))
     ELSE Reply(t, FirstError(checks), NoResource) /\ UNCHANGED <<jobs, outstanding, records>>
  /\ UNCHANGED <<clock, mode, fault, sweeps, bucket, sent, changes>>

-----------------------------------------------------------------------------
(* Sweeps: a parent transaction, then one transaction per child. *)

\* expand: the combinations of the dimensions, the last one varying fastest.
Expand(dims) ==
  LET combos[d \in 0 .. Len(dims)] ==
        IF d = 0 THEN <<<< >>>>
        ELSE [i \in 1 .. Len(combos[d - 1]) * Len(dims[d]) |->
                Append(combos[d - 1][((i - 1) \div Len(dims[d])) + 1],
                       dims[d][((i - 1) % Len(dims[d])) + 1])]
  IN combos[Len(dims)]

\* The retention and the limits are counts.  A key that a client chooses is no child
\* key, which carries a digest, and a sweep that reaches the service has an expansion.
ASSUME SubmissionAssumption ==
  /\ Retention \in Nat /\ Recheck \in Nat /\ Limit \in Nat /\ Burst \in Nat
  /\ \A c \in UNION Commands :
       Len(c.key) = 1 /\ (c.op = "submitSweep" => Len(Expand(c.body)) \in Nat)

ChildKey(s, i) == <<"submitJob", <<s, i, Expand(sweeps[s].body)[i]>>>>
Unfinished(s) == {i \in DOMAIN sweeps[s].children : sweeps[s].children[i] = NoResource}
Finished(s) == sweeps[s].accepted + sweeps[s].rejected = Len(sweeps[s].children)

\* submit goes on to the indexes of sweep s that have no outcome.
Admits(t, s, indexes) ==
  /\ threads' = [threads EXCEPT ![t] = [@ EXCEPT !.at = "CHILDREN", !.sweep = s, !.todo = indexes]]
  /\ UNCHANGED answered

\* open_parent of a new key: the whole request is checked and its expansion stored.
OpenParent(t) ==
  LET c == threads[t].cmd
      s == Len(sweeps) + 1
      n == Len(Expand(c.body))
      checks == SpecChecks \o ModeChecks \o StorageChecks(threads[t].pressure) IN
  /\ Serving(t, "submitSweep") /\ Opening(t) = "new"
  /\ IF Passes(checks)
     THEN /\ sweeps' = Append(sweeps, [key |-> Key(c), body |-> c.body, accepted |-> 0,
                                       rejected |-> 0, children |-> [i \in 1 .. n |-> NoResource]])
          /\ records' = Completed(Key(c), c.body, Sweep(s))
          /\ Admits(t, s, 1 .. n)
     ELSE Reply(t, FirstError(checks), NoResource) /\ UNCHANGED <<sweeps, records>>
  /\ UNCHANGED <<clock, mode, fault, jobs, outstanding, bucket, sent, changes>>

\* open_parent of a key that was used: the unfinished indexes are resumed.
ReopenParent(t) ==
  LET s == records[Key(threads[t].cmd)].res[2] IN
  /\ Serving(t, "submitSweep") /\ Opening(t) = "replay"
  /\ Admits(t, s, Unfinished(s))
  /\ UNCHANGED <<clock, mode, fault, tables, sent, changes>>

\* The outcome of child i commits with the parent's counts.
Outcome(s, i, outcome) ==
  sweeps' = [sweeps EXCEPT ![s] =
    [@ EXCEPT !.children = [@ EXCEPT ![i] = outcome],
              !.accepted = IF outcome = Rejected THEN @ ELSE @ + 1,
              !.rejected = IF outcome = Rejected THEN @ + 1 ELSE @]]

\* The parent record of sweep s, which serializes the threads that admit its children.
ParentKept(s) == \E k \in DOMAIN records : records[k].res = Sweep(s)

\* The thread goes on to the next index of its list.
NextChild(t, i) ==
  /\ threads' = [threads EXCEPT ![t] = [@ EXCEPT !.todo = @ \ {i}]]
  /\ UNCHANGED answered

\* _admit_child: an index that has an outcome is skipped.
AlreadyAdmitted(s, i) == sweeps[s].children[i] # NoResource

ChildAborts(s) == <<<<fault = "MEMBERSHIP", "permission_denied">>,
                    <<~ParentKept(s), "dependency_unavailable">>>>
ChildChecks == <<<<mode = "WRITE_FROZEN", "state_conflict">>>> \o ModeChecks \o LimitChecks \o SpecChecks

\* _submit_child: the child is accepted, rejected with its error, or the request
\* ends.  Its own submitJob record commits with its outcome, so a free index has a
\* free key and begin_idempotency never replays here.
Admitted(t, s, i) ==
  \/ /\ Passes(ChildChecks)
     /\ CreateJob(ChildKey(s, i), << >>) /\ Outcome(s, i, Job(Len(jobs) + 1)) /\ NextChild(t, i)
  \/ /\ ~Passes(ChildChecks) /\ (FirstError(ChildChecks) \in Aborting \/ mode = "WRITE_FROZEN")
     /\ Reply(t, FirstError(ChildChecks), NoResource) /\ UNCHANGED tables
  \/ /\ ~Passes(ChildChecks) /\ FirstError(ChildChecks) \notin Aborting /\ mode # "WRITE_FROZEN"
     /\ Outcome(s, i, Rejected) /\ NextChild(t, i)
     /\ UNCHANGED <<records, jobs, outstanding, bucket>>

\* _admit_child, of the lowest index left: the order in which submit takes them.
AdmitChild(t) ==
  LET s == threads[t].sweep IN
  /\ threads[t].at = "CHILDREN"
  /\ \E i \in threads[t].todo :
       /\ \A k \in threads[t].todo : i <= k
       /\ \/ /\ ~Passes(ChildAborts(s))
             /\ Reply(t, FirstError(ChildAborts(s)), NoResource) /\ UNCHANGED tables
          \/ Passes(ChildAborts(s)) /\ AlreadyAdmitted(s, i) /\ NextChild(t, i) /\ UNCHANGED tables
          \/ Passes(ChildAborts(s)) /\ ~AlreadyAdmitted(s, i) /\ Admitted(t, s, i)
  /\ UNCHANGED <<clock, mode, fault, sent, changes>>

\* submit returns the view of the sweep once every index of its list was handled.
FinishSweep(t) ==
  /\ threads[t].at = "CHILDREN" /\ threads[t].todo = {}
  /\ Reply(t, "ok", Sweep(threads[t].sweep))
  /\ UNCHANGED <<clock, mode, fault, tables, sent, changes>>

\* The pending wait or the transaction's retries run out, or the process dies: the
\* transaction rolls back.
RollBack(t) ==
  /\ threads[t].at # "IDLE"
  /\ \E code \in {"idempotency_in_progress", "dependency_unavailable"} : Reply(t, code, NoResource)
  /\ UNCHANGED <<clock, mode, fault, tables, sent, changes>>

-----------------------------------------------------------------------------
(* The retention sweep of the coordinator, and the rest of the system. *)

\* The expiries of the submitJob records that the accepted children of sweep s still have.
ChildExpiries(s) ==
  {records[k].expires : k \in {k \in DOMAIN records :
     k[1] = "submitJob" /\ \E i \in DOMAIN sweeps[s].children : sweeps[s].children[i] = records[k].res}}

\* sweep_batch: the record of an ended job is due, and that of a finished sweep whose
\* children have no record left.
Due(k) ==
  LET id == records[k].res[2] IN
  IF k[1] = "submitSweep" THEN Finished(id) /\ ChildExpiries(id) = {} ELSE ~Live(id)

\* sweep_batch: until when a record that is not due is left alone.  A finished sweep
\* waits for its last child record, which may itself be past its expiry.
Deferred(k) ==
  LET id == records[k].res[2] IN
  IF k[1] = "submitSweep" /\ Finished(id)
  THEN IF Latest(ChildExpiries(id)) > clock THEN Latest(ChildExpiries(id)) ELSE records[k].expires
  ELSE clock + Recheck

\* sweep_idempotency: one batch of expired records, of which the limit and locked
\* rows leave some out; the due ones are deleted, the others deferred.
SweepIdempotency ==
  /\ mode # "WRITE_FROZEN"
  /\ \E batch \in SUBSET {k \in DOMAIN records : records[k].expires < clock} :
       /\ batch # {}
       /\ records' = [k \in {k \in DOMAIN records : k \in batch => ~Due(k)} |->
                        IF k \in batch
                        THEN [records[k] EXCEPT !.expires = Later(@, Deferred(k))]
                        ELSE records[k]]
  /\ UNCHANGED <<clock, mode, fault, jobs, sweeps, outstanding, bucket, threads, answered,
                 sent, changes>>

\* A job ends by a completion or a verified cleanup: see JobLifecycle.
EndJob(j) ==
  /\ Live(j)
  /\ \E state \in {"SUCCEEDED", "FAILED"} : EndsNow(j, state, records)
  /\ UNCHANGED <<clock, mode, fault, sweeps, bucket, threads, answered, sent, changes>>

\* An administrator changes the operational mode, or a condition changes.
Change ==
  /\ changes < MaxChanges /\ changes' = changes + 1
  /\ \/ mode' \in Modes \ {mode} /\ UNCHANGED fault
     \/ fault' \in Conditions \ {fault} /\ UNCHANGED mode
  /\ UNCHANGED <<clock, tables, threads, answered, sent>>

Tick ==
  /\ clock < MaxTime /\ clock' = clock + 1
  /\ UNCHANGED <<mode, fault, tables, threads, answered, sent, changes>>

Next ==
  \/ \E c \in DOMAIN answered : Send(c)
  \/ \E t \in Threads :
       Disconnect(t) \/ Answered(t) \/ Submit(t) \/ RetryFailed(t) \/ Cancel(t) \/ OpenParent(t)
       \/ ReopenParent(t) \/ AdmitChild(t) \/ FinishSweep(t) \/ RollBack(t)
  \/ \E j \in DOMAIN jobs : EndJob(j)
  \/ SweepIdempotency \/ Change \/ Tick

Spec == Init /\ [][Next]_vars

-----------------------------------------------------------------------------
(* Properties. *)

\* A job whose answer may still be asked for: it runs, or it ended within the retention.
Replayable(j) == Live(j) \/ clock <= jobs[j].at + Retention

\* The record a job was created under answers with that job for as long as the job
\* lives and for the retention past its end (retention, extend_retention).
RecordsKept ==
  \A j \in DOMAIN jobs : Replayable(j) =>
    jobs[j].key \in DOMAIN records /\ records[jobs[j].key].res = Job(j)

\* A sweep can be resumed under its key until every index has an outcome and its
\* jobs are past their retention; its counts are those of its outcomes.
SweepsExact ==
  \A s \in DOMAIN sweeps :
    LET accepted == {i \in DOMAIN sweeps[s].children :
                       sweeps[s].children[i] \notin {NoResource, Rejected}} IN
    /\ Unfinished(s) # {} \/ (\E i \in accepted : Replayable(sweeps[s].children[i][2]))
         => ParentKept(s)
    /\ sweeps[s].accepted = Cardinality(accepted)
    /\ Finished(s) <=> Unfinished(s) = {}
    /\ \A j \in DOMAIN jobs, i \in DOMAIN sweeps[s].children :
         jobs[j].key = ChildKey(s, i) => sweeps[s].children[i] = Job(j)

\* Every request, retry, replay and sweep thread together admit one job per key
\* and per sweep index, within the outstanding limit.
AdmittedOnce ==
  /\ RecordsKept /\ SweepsExact
  /\ outstanding = Cardinality({j \in DOMAIN jobs : Live(j)}) /\ outstanding <= Limit

\* The answer for a command can still be repeated.
MayRepeat(c) ==
  CASE answered[c] = NoResource -> FALSE
    [] answered[c] # NoResource /\ c.op = "submitSweep" -> ParentKept(answered[c][2])
    [] OTHER -> Replayable(answered[c][2])

\* A user who repeats a command is given the resource of the first answer as long
\* as that can be asked for, and never the resource of another request.
SameAnswer ==
  [][\A c \in DOMAIN answered :
       /\ MayRepeat(c) => answered'[c] = answered[c]
       /\ \A d \in DOMAIN answered \ {c} : c.op = d.op /\ answered'[c] # NoResource
            => answered'[d] # answered'[c]]_vars

=============================================================================
