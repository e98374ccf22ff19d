------------------------------ MODULE Restore -------------------------------
(* What an attempt starts from.  A claim reads the checkpoints of its job,    *)
(* verifies their blobs outside any transaction, marks the damaged ones in a  *)
(* transaction of its own and freezes, in the claim transaction, the one to   *)
(* restore and the recognized chunks to carry forward.  The worker fetches    *)
(* both, runs on from there, and publishes checkpoints that recognize chunks. *)
(*                                                                           *)
(* A job works through its steps; with a chunked adapter each of them is an *)
(* output chunk.  Checkpoint n of job j is <<j, n>>.                          *)
EXTENDS Naturals, Sequences

CONSTANTS
  Jobs,            \* the first submitted one, and manual retries of others
  FirstJob,
  Architectures,   \* what an inventory of the worker may report
  Requests,        \* claim requests in flight at once
  Loads            \* what a behaviour is about: the template, and the bounds

Load ==
  [chunked : BOOLEAN,           \* the adapter publishes chunks (batch.inference)
   restartSafe : BOOLEAN,       \* the template may be run again from its input
   steps : Nat \ {0},
   jobs : SUBSET Jobs,          \* the first one, and the retries that may be made
   architectures : SUBSET Architectures,
   attempts : Nat \ {0},        \* one more than max_retries
   checkpoints : Nat,           \* checkpoints published of a job
   faults : Nat]                \* lost blobs, lost leases, failures, resent claims, new workers

NoJob == "NONE"

ASSUME RestoreAssumption ==
  /\ FirstJob \in Jobs /\ NoJob \notin Jobs
  /\ Loads \subseteq Load

VARIABLES
  state,       \* of each job and its current attempt
  number,      \* attempts.attempt_number of the current attempt
  parent,      \* jobs.retry_of_job_id
  ref,         \* checkpoint_references: checkpoints that a job inherits
  checkpoint,  \* committed checkpoints of each job in their sequence
  corrupt,     \* checkpoint_corruptions
  recognized,  \* recognized_chunks: the attempt that made each chunk, in order
  offered,     \* what the poll offer said of a checkpoint
  context,     \* attempts.execution_context: what the claim froze
  made,        \* the attempt that did each step the current attempt stands on
  result,      \* the chunks that the committed result names
  request,     \* the claim requests that the API is working on
  lost,        \* blobs that are missing or damaged
  arch,        \* what the inventory of the worker reports
  left,
  load

vars == <<state, number, parent, ref, checkpoint, corrupt, recognized, offered, context,
          made, result, request, lost, arch, left, load>>

lineage == <<parent, ref>>
store == <<lost, arch>>

Chunked == load.chunked
RestartSafe == load.restartSafe

NoCheckpoint == <<NoJob, 0>>
NoContext == [restore |-> NoCheckpoint, chunks |-> <<>>, usable |-> TRUE]
NoRequest == [phase |-> "NONE", job |-> NoJob, number |-> 0, arch |-> NoJob, plan |-> {},
              todo |-> {}, marks |-> {}, rejected |-> {}, selected |-> NoCheckpoint,
              ids |-> 0, chunks |-> <<>>, usable |-> TRUE]

Init ==
  /\ state = [j \in Jobs |-> IF j = FirstJob THEN "QUEUED" ELSE "ABSENT"]
  /\ number = [j \in Jobs |-> 0] /\ parent = [j \in Jobs |-> NoJob]
  /\ ref = [j \in Jobs |-> {}] /\ checkpoint = [j \in Jobs |-> <<>>] /\ corrupt = {}
  /\ recognized = [j \in Jobs |-> <<>>] /\ offered = [j \in Jobs |-> "NO_OFFER"]
  /\ context = [j \in Jobs |-> NoContext] /\ made = [j \in Jobs |-> <<>>]
  /\ result = [j \in Jobs |-> <<>>] /\ request = [r \in Requests |-> NoRequest]
  /\ load \in Loads
  /\ lost = {} /\ arch \in load.architectures /\ left = load.faults

-----------------------------------------------------------------------------
(* What the blobs show *)

Manifest(c) == <<"manifest", c[1], c[2]>>
StateFile(c) == <<"state", c[1], c[2]>>
ChunkFile(j, i) == <<"chunk", j, i>>

Record(c) == checkpoint[c[1]][c[2]]
Entries(c) == IF c = NoCheckpoint THEN <<>> ELSE Record(c).entries
ChunksOf(c) == IF Chunked THEN {ChunkFile(c[1], i) : i \in DOMAIN Entries(c)} ELSE {}
BlobsOf(c) == {Manifest(c), StateFile(c)} \union ChunksOf(c)
Own(j) == {<<j, n>> : n \in DOMAIN checkpoint[j]}
Checkpoints == UNION {Own(j) : j \in Jobs}
Blobs == UNION {BlobsOf(c) : c \in Checkpoints}

\* The job and every job that it was retried from: the recursive query collects the
\* least set of jobs that has the job and the parent of each of its members.
RetryClosed(S) == \A k \in S : parent[k] \in S \union {NoJob}
RetryLineage(j) == {k \in Jobs : \A S \in SUBSET Jobs : j \in S /\ RetryClosed(S) => k \in S}

\* A later or inherited attempt.
Inherits(j) == ref[j] # {}
Later(j) == number[j] > 1 \/ Inherits(j)

\* The unmarked checkpoints of a job: its own and the inherited.
NotCorrupt(c) == c \notin corrupt
Restorable(j) == Own(j) \union ref[j]
Candidates(j) == {c \in Restorable(j) : NotCorrupt(c)}

\* restore_order: the job's own first, then the newest sequence.
Precedes(j, c, d) ==
  \/ c[1] = j /\ d[1] # j
  \/ (c[1] = j) = (d[1] = j) /\ c[2] > d[2]
First(j, c, S) == \A d \in S \ {c} : Precedes(j, c, d)

\* The server proves the source of a checkpoint that the job does not own.
Proven(j, c) == c[1] = j \/ (c \in ref[j] /\ c[1] \in RetryLineage(j))

Readable(b) == b \notin lost
ManifestIntact(c) == Readable(Manifest(c))
Fits(c, a) == Record(c).arch = a
StateIntact(c) == Readable(StateFile(c))

\* s is the beginning of t.
Begins(s, t) == Len(s) <= Len(t) /\ \A i \in 1 .. Len(s) : s[i] = t[i]

\* The chunks that the checkpoint names are the recognized ones, and readable.
ChunksIntact(c) ==
  /\ \A b \in ChunksOf(c) : Readable(b)
  /\ Chunked => Begins(Entries(c), recognized[c[1]])

\* Carrying chunks forward is confined to a job; what describes the destination
\* rather than the bytes is not held against them.
Verdict(j, c, a) ==
  IF Chunked /\ c[1] # j THEN "INCOMPATIBLE"
  ELSE IF ~ManifestIntact(c) THEN "CORRUPT"
  ELSE IF ~Fits(c, a) THEN "INCOMPATIBLE"
  ELSE IF StateIntact(c) /\ ChunksIntact(c) THEN "VALID" ELSE "CORRUPT"

-----------------------------------------------------------------------------
(* The claim *)

\* The lease of the attempt is live and the fence is its own.
Live(j, n) == number[j] = n /\ state[j] \in {"CREATED", "CLAIMED", "STARTING", "RUNNING"}

\* The coordinator dispatches a queued job, or one whose retry is due.
Dispatch(j) ==
  /\ state[j] = "QUEUED"
  /\ state' = [state EXCEPT ![j] = "CREATED"]
  /\ number' = [number EXCEPT ![j] = @ + 1]
  /\ offered' = [offered EXCEPT ![j] = "NO_OFFER"]
  /\ context' = [context EXCEPT ![j] = NoContext]
  /\ made' = [made EXCEPT ![j] = <<>>]
  /\ UNCHANGED <<lineage, checkpoint, corrupt, recognized, result, request, store, left>>

\* The worker polls the offer and journals it with the claim it is about to send.
Poll(j) ==
  /\ state[j] = "CREATED" /\ offered[j] = "NO_OFFER"
  /\ offered' = [offered EXCEPT ![j] = IF Candidates(j) = {} THEN "NOTHING" ELSE "CHECKPOINT"]
  /\ UNCHANGED <<state, number, lineage, checkpoint, corrupt, recognized, context, made, result,
                 request, store, left>>

\* The phase that follows when nothing is left to verify.
Verified(q) ==
  [q EXCEPT !.phase =
     IF q.todo # {} /\ q.selected = NoCheckpoint THEN "VERIFY"
     ELSE IF q.phase # "MARKED" /\ q.marks # {} THEN "MARK"
     ELSE IF Chunked THEN "CHUNKS" ELSE "CLAIM"]

RecognizedScope(j) == Len(recognized[j])

\* _restore_plan: the API takes the claim and snapshots the candidates.  A second
\* request is the resend of a first that the worker gave up waiting for.
Plan(r, j) ==
  /\ state[j] = "CREATED" /\ offered[j] # "NO_OFFER" /\ request[r] = NoRequest
  /\ \E twin \in {\E q \in Requests : request[q].job = j /\ request[q].number = number[j]} :
       /\ twin => left > 0
       /\ left' = IF twin THEN left - 1 ELSE left
  /\ request' = [request EXCEPT ![r] =
       Verified([NoRequest EXCEPT !.job = j, !.number = number[j], !.arch = arch,
                                  !.plan = Candidates(j), !.todo = Candidates(j),
                                  !.ids = RecognizedScope(j)])]
  /\ UNCHANGED <<state, number, lineage, checkpoint, corrupt, recognized, offered, context, made,
                 result, store>>

\* Mutant: a checkpoint that does not fit the worker is marked like a damaged one.
JudgeMarksUnfit(q, c, verdict) ==
  IF verdict = "VALID" THEN [q EXCEPT !.selected = c]
  ELSE [q EXCEPT !.todo = @ \ {c}, !.marks = @ \union {c}]

\* _scan_restore, one candidate: newest first, up to the first valid one.
Judge(q, c, verdict) ==
  CASE verdict = "VALID" -> [q EXCEPT !.selected = c]
    [] verdict = "CORRUPT" -> [q EXCEPT !.todo = @ \ {c}, !.marks = @ \union {c}]
    [] verdict = "INCOMPATIBLE" ->
         [q EXCEPT !.todo = @ \ {c},
                   !.rejected = IF c[1] = q.job THEN @ \union {Record(c).arch} ELSE @]

Verify(r) ==
  /\ request[r].phase = "VERIFY"
  /\ \E q \in {request[r]} : \E c \in q.todo :
       /\ First(q.job, c, q.todo)
       /\ request' = [request EXCEPT ![r] = Verified(
            IF Record(c).arch \in q.rejected THEN [q EXCEPT !.todo = @ \ {c}]
            ELSE Judge(q, c, IF Proven(q.job, c) THEN Verdict(q.job, c, q.arch)
                             ELSE "INCOMPATIBLE"))]
  /\ UNCHANGED <<state, number, lineage, checkpoint, corrupt, recognized, offered, context, made,
                 result, store, left>>

\* _mark_corrupt, under the live authority of the attempt.
Mark(r) ==
  /\ request[r].phase = "MARK" /\ Live(request[r].job, request[r].number)
  /\ corrupt' = corrupt \union request[r].marks
  /\ request' = [request EXCEPT ![r] = Verified([request[r] EXCEPT !.phase = "MARKED"])]
  /\ UNCHANGED <<state, number, lineage, checkpoint, recognized, offered, context, made, result,
                 store, left>>

\* Mutant: the chunks recognized beyond the restored cursor are not handed over.
ScanRecognizedForgets(r) ==
  /\ request[r].phase = "CHUNKS"
  /\ request' = [request EXCEPT ![r].phase = "CLAIM"]
  /\ UNCHANGED <<state, number, lineage, checkpoint, corrupt, recognized, offered, context, made,
                 result, store, left>>

\* _scan_recognized: the chunks recognized from the cursor onward, if all of
\* their files can be read.
ScanRecognized(r) ==
  /\ request[r].phase = "CHUNKS"
  /\ \E q \in {request[r]} : \E from \in {Len(Entries(q.selected))} :
       request' = [request EXCEPT ![r] =
         [q EXCEPT !.phase = "CLAIM",
                   !.chunks = SubSeq(recognized[q.job], from + 1, q.ids),
                   !.usable = \A i \in (from + 1)..q.ids : Readable(ChunkFile(q.job, i))]]
  /\ UNCHANGED <<state, number, lineage, checkpoint, corrupt, recognized, offered, context, made,
                 result, store, left>>

\* Mutant: the claim trusts the snapshot it scanned.
SamePlanUnchecked(q) == TRUE

\* The snapshots that the request worked from are still what the database holds.
SamePlan(q) == Candidates(q.job) = q.plan \ q.marks

SameRecognized(q) == RecognizedScope(q.job) = q.ids

\* claim_attempt: freezes what the attempt restores and carries forward.
Claim(r) ==
  /\ request[r].phase = "CLAIM"
  /\ \E q \in {request[r]} :
       /\ Live(q.job, q.number) /\ state[q.job] = "CREATED"
       /\ SamePlan(q) /\ SameRecognized(q)
       /\ state' = [state EXCEPT ![q.job] = "CLAIMED"]
       /\ context' = [context EXCEPT ![q.job] =
            [restore |-> q.selected, chunks |-> IF q.usable THEN q.chunks ELSE <<>>,
             usable |-> q.usable]]
  /\ request' = [request EXCEPT ![r] = NoRequest]
  /\ UNCHANGED <<number, lineage, checkpoint, corrupt, recognized, offered, made, result, store,
                 left>>

\* The request ends without a claim: storage that cannot be reached, a snapshot
\* that is no longer current, a lease that is gone, an attempt already claimed
\* (its answer is replayed), or an API process that dies.
Drop(r) ==
  /\ request[r] # NoRequest
  /\ request' = [request EXCEPT ![r] = NoRequest]
  /\ UNCHANGED <<state, number, lineage, checkpoint, corrupt, recognized, offered, context, made,
                 result, store, left>>

-----------------------------------------------------------------------------
(* The worker and the run *)

\* An attempt ends.  Only the loss of its infrastructure is retried, and only
\* from the input or from a checkpoint that is not marked.
Recoverable(j) == RestartSafe \/ Candidates(j) # {}
Ended(j, infrastructure) ==
  IF infrastructure /\ number[j] < load.attempts /\ Recoverable(j) THEN "QUEUED" ELSE "FAILED"

\* download_execution_artifact serves what the claim froze, while it is intact.
RestoreFiles(j) ==
  IF context[j].restore = NoCheckpoint THEN {} ELSE {StateFile(context[j].restore)}
RecognizedFiles(j) ==
  {ChunkFile(j, Len(Entries(context[j].restore)) + i) : i \in DOMAIN context[j].chunks}
Downloads(j, files) == \A b \in files : Readable(b)

\* Why the worker gives an attempt up before it creates a container: the offer
\* named a checkpoint and the claim froze none; the restore is not one of this
\* job and worker, or cannot be fetched; the chunks cannot be carried forward.
NoneFrozen(j) ==
  context[j].restore = NoCheckpoint /\ offered[j] = "CHECKPOINT" /\ ~RestartSafe
RestoreUnfit(j) ==
  \E c \in {context[j].restore} \ {NoCheckpoint} : ~Fits(c, arch) \/ (Chunked /\ c[1] # j)
RestoreUnavailable(j) == RestoreUnfit(j) \/ ~Downloads(j, RestoreFiles(j))
ChunksUnavailable(j) == ~context[j].usable \/ ~Downloads(j, RecognizedFiles(j))
Unavailable(j) == NoneFrozen(j) \/ RestoreUnavailable(j) \/ ChunksUnavailable(j)

\* The attempt fails with a proof that it never had a container.
FailLaunch(j) ==
  /\ state[j] = "CLAIMED" /\ Unavailable(j)
  /\ state' = [state EXCEPT ![j] = Ended(j, FALSE)]
  /\ UNCHANGED <<number, lineage, checkpoint, corrupt, recognized, offered, context, made, result,
                 request, store, left>>

\* _dispatch_offer: downloads, prepares and starts the container.
Launch(j) ==
  /\ state[j] = "CLAIMED" /\ ~Unavailable(j)
  /\ state' = [state EXCEPT ![j] = "STARTING"]
  /\ UNCHANGED <<number, lineage, checkpoint, corrupt, recognized, offered, context, made, result,
                 request, store, left>>

\* What the container is given, and what the workload stands on: the restored
\* prefix, then the chunks recognized beyond it.
LaunchSpec(j) == [restored |-> Entries(context[j].restore), recognized |-> context[j].chunks]
TakenOver(spec) == spec.restored \o spec.recognized

\* start_attempt, which refuses to replay the input of a job that is not restart-safe.
RestoreRequired(j) == Later(j) /\ ~RestartSafe
Start(j) ==
  /\ state[j] = "STARTING"
  /\ RestoreRequired(j) => context[j].restore # NoCheckpoint
  /\ state' = [state EXCEPT ![j] = "RUNNING"]
  /\ made' = [made EXCEPT ![j] = TakenOver(LaunchSpec(j))]
  /\ UNCHANGED <<number, lineage, checkpoint, corrupt, recognized, offered, context, result,
                 request, store, left>>

\* start_attempt refuses; the worker reports STARTUP_TIMEOUT.
RefuseStart(j) ==
  /\ state[j] = "STARTING" /\ RestoreRequired(j) /\ context[j].restore = NoCheckpoint
  /\ state' = [state EXCEPT ![j] = Ended(j, FALSE)]
  /\ UNCHANGED <<number, lineage, checkpoint, corrupt, recognized, offered, context, made, result,
                 request, store, left>>

\* One step of the workload; of a job without chunks only their number matters.
Compute(j) ==
  /\ state[j] = "RUNNING" /\ Len(made[j]) < load.steps
  /\ made' = [made EXCEPT ![j] = Append(@, IF Chunked THEN number[j] ELSE 0)]
  /\ UNCHANGED <<state, number, lineage, checkpoint, corrupt, recognized, offered, context, result,
                 request, store, left>>

\* recognize: a chunk of an earlier attempt must be recognized as it is, one of
\* this attempt is inserted or is the same.
Recognizable(j) ==
  \A i \in DOMAIN made[j] :
    IF i <= Len(recognized[j]) THEN recognized[j][i] = made[j][i] ELSE made[j][i] = number[j]

Inserted(j) == recognized[j] \o SubSeq(made[j], Len(recognized[j]) + 1, Len(made[j]))

Recognize(j) ==
  IF Chunked
  THEN Recognizable(j) /\ recognized' = [recognized EXCEPT ![j] = Inserted(j)]
  ELSE UNCHANGED recognized

\* publish_checkpoint, of a graph that is verified first.
Publishable(j) == made[j] # <<>> /\ (Chunked => Recognizable(j))
Publish(j) ==
  /\ state[j] = "RUNNING" /\ Publishable(j) /\ Len(checkpoint[j]) < load.checkpoints
  /\ Recognize(j)
  /\ checkpoint' = [checkpoint EXCEPT ![j] = Append(@, [entries |-> made[j], arch |-> arch])]
  /\ UNCHANGED <<state, number, lineage, corrupt, offered, context, made, result, request, store,
                 left>>

\* complete_attempt: the final manifest covers every chunk.
Covered(j) == Len(made[j]) = load.steps
Complete(j) ==
  /\ state[j] = "RUNNING" /\ Covered(j)
  /\ Recognize(j)
  /\ state' = [state EXCEPT ![j] = "SUCCEEDED"]
  /\ result' = [result EXCEPT ![j] = made[j]]
  /\ UNCHANGED <<number, lineage, checkpoint, corrupt, offered, context, made, request, store, left>>

\* The lease lapses and the cleanup that follows is verified.
Lapse(j) ==
  /\ Live(j, number[j]) /\ left > 0
  /\ state' = [state EXCEPT ![j] = Ended(j, TRUE)] /\ left' = left - 1
  /\ UNCHANGED <<number, lineage, checkpoint, corrupt, recognized, offered, context, made, result,
                 request, store>>

\* The workload fails for a reason that is not retried.
FailRun(j) ==
  /\ state[j] = "RUNNING" /\ left > 0
  /\ state' = [state EXCEPT ![j] = Ended(j, FALSE)] /\ left' = left - 1
  /\ UNCHANGED <<number, lineage, checkpoint, corrupt, recognized, offered, context, made, result,
                 request, store>>

\* The checkpoint that a retry names: its scan of the blobs is read-only, and the
\* transaction reads the marks and the lineage again.
RetryScan(c) == Verdict(NoJob, c, Record(c).arch) = "VALID"
RetryCheckpoint(source, c) == c[1] \in RetryLineage(source) /\ NotCorrupt(c) /\ RetryScan(c)

\* retry_failed_job, from the input or from a checkpoint named by the user.
Retry(j, source, c) ==
  /\ j \in load.jobs /\ state[j] = "ABSENT" /\ state[source] = "FAILED"
  /\ c # NoCheckpoint => RetryCheckpoint(source, c)
  /\ state' = [state EXCEPT ![j] = "QUEUED"]
  /\ parent' = [parent EXCEPT ![j] = source]
  /\ ref' = [ref EXCEPT ![j] = {c} \ {NoCheckpoint}]
  /\ UNCHANGED <<number, checkpoint, corrupt, recognized, offered, context, made, result, request,
                 store, left>>

-----------------------------------------------------------------------------
(* The environment *)

\* A blob goes missing or no longer has its checksum.
Damage(b) ==
  /\ left > 0 /\ lost' = lost \union {b} /\ left' = left - 1
  /\ UNCHANGED <<state, number, lineage, checkpoint, corrupt, recognized, offered, context, made,
                 result, request, arch>>

\* A worker of another architecture takes over between two attempts.
Reinventory(a) ==
  /\ left > 0 /\ a # arch /\ \A j \in Jobs : ~Live(j, number[j])
  /\ arch' = a /\ left' = left - 1
  /\ UNCHANGED <<state, number, lineage, checkpoint, corrupt, recognized, offered, context, made,
                 result, request, lost>>

ClaimStep ==
  \/ \E j \in Jobs : Dispatch(j) \/ Poll(j)
  \/ \E r \in Requests : \/ \E j \in Jobs : Plan(r, j)
                         \/ Verify(r) \/ Mark(r) \/ ScanRecognized(r) \/ Claim(r) \/ Drop(r)

RunStep ==
  \E j \in Jobs :
    \/ FailLaunch(j) \/ Launch(j) \/ Start(j) \/ RefuseStart(j)
    \/ Compute(j) \/ Publish(j) \/ Complete(j) \/ Lapse(j) \/ FailRun(j)
    \/ \E source \in Jobs : \E c \in Checkpoints \union {NoCheckpoint} : Retry(j, source, c)

EnvironmentStep ==
  \/ \E b \in Blobs \ lost : Damage(b)
  \/ \E a \in load.architectures : Reinventory(a)

Next == (ClaimStep \/ RunStep \/ EnvironmentStep) /\ UNCHANGED load

Spec == Init /\ [][Next]_vars

-----------------------------------------------------------------------------
(* Properties *)

\* c is the first unmarked checkpoint that fits the worker, if there is one.
Newest(j, c) ==
  LET fitting == {d \in Candidates(j) : Fits(d, arch)} IN
  IF fitting = {} THEN c = NoCheckpoint ELSE c \in fitting /\ First(j, c, fitting)

\* Whatever other claims mark and resend while the blobs are being read, a claim
\* (claim_attempt with _restore_decision) freezes exactly the newest checkpoint
\* that is not marked and fits the worker: it neither restores one that is marked,
\* nor goes back further than it must, nor falls back to the input too early.
RestoreIsNewest ==
  [][\A j \in Jobs :
       state[j] = "CREATED" /\ state'[j] = "CLAIMED" => Newest(j, context'[j].restore)]_vars

\* The one-way mark of _mark_corrupt is only ever put on a checkpoint one of whose
\* blobs is gone or damaged, not on one that an outage hid, that was made on
\* another architecture or that a retry inherits.
MarksTrue == \A c \in corrupt : BlobsOf(c) \intersect lost # {}

\* Over all attempts, restores from older checkpoints and fallbacks to the input,
\* a chunk keeps the output that was recognized first: no attempt recomputes a
\* recognized chunk, so that no publish of it conflicts (recognize), and the
\* committed result names the recognized chunks.
ChunksKept ==
  [][Chunked => \A j \in Jobs :
       /\ Begins(recognized[j], recognized'[j])
       /\ state'[j] = "RUNNING" => Recognizable(j)'
       /\ state'[j] = "SUCCEEDED" => result'[j] = recognized'[j]]_vars
=============================================================================
