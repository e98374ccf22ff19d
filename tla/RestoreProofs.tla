---------------------------- MODULE RestoreProofs -----------------------------
(***************************************************************************)
(* The proofs about Restore, for any number of jobs, attempts,             *)
(* checkpoints, chunks and claim requests in flight: a mark is only put on *)
(* a damaged checkpoint, a claim freezes the newest checkpoint that fits,  *)
(* and a recognized chunk is kept.  RestoreSteps has the invariant and the *)
(* first steps of a run; here are what a run publishes, the steps of a     *)
(* claim request, and the theorems.                                        *)
(***************************************************************************)
EXTENDS RestoreSteps

-----------------------------------------------------------------------------
(* What a run publishes, and what a retry inherits *)

\* Recognizing a run leaves exactly what it made.
LEMMA InsertedIsMade ==
  ASSUME RestoreInv, NEW j \in Jobs, state[j] = "RUNNING", Chunked
  PROVE  Inserted(j) = made[j] /\ Begins(recognized[j], made[j])
<1>1. recognized[j] \in Seq(Nat) /\ made[j] \in Seq(Nat)
  BY DEF RestoreInv, Types
<1>2. Begins(recognized[j], made[j])
  <2>1. RunRow(j)
    BY DEF RestoreInv, JobRows, JobRow
  <2> QED BY <1>1, <2>1 DEF RunRow, Recognizable, Begins
<1> QED BY <1>1, <1>2, RestIsAppended, Zenon DEF Inserted

\* What Recognize does to the chunks of a running job.
LEMMA RecognizeFacts ==
  ASSUME RestoreInv, NEW j \in Jobs, state[j] = "RUNNING", Recognize(j)
  PROVE  /\ recognized' \in [Jobs -> Seq(Nat)]
         /\ \A k \in Jobs \ {j} : recognized'[k] = recognized[k]
         /\ \A k \in Jobs : Begins(recognized[k], recognized'[k])
         /\ Chunked => recognized'[j] = made[j]
<1>0. Types /\ made[j] \in Seq(Nat)
  BY DEF RestoreInv, Types
<1>1. CASE Chunked
  <2>1. recognized' = [recognized EXCEPT ![j] = made[j]] /\ Begins(recognized[j], made[j])
    BY <1>1, InsertedIsMade DEF Recognize
  <2> QED BY <1>0, <2>1, BeginsItself, SMTT(30) DEF Types
<1>2. CASE ~Chunked
  BY <1>0, <1>2, BeginsItself, SMTT(30) DEF Recognize, Types
<1> QED BY <1>1, <1>2

\* A run that has just been recognized stands on what is recognized.
LEMMA RecognizedRuns ==
  ASSUME Types, NEW j \in Jobs, recognized'[j] = made[j], made' = made
  PROVE  Len(recognized'[j]) <= Len(made'[j]) /\ Recognizable(j)'
<1>1. made[j] \in Seq(Nat)
  BY DEF Types
<1> QED BY <1>1 DEF Recognizable

LEMMA PublishKeeps ==
  ASSUME RestoreInv, NEW j \in Jobs, Publish(j), UNCHANGED load
  PROVE  Grows /\ RestoreInv'
<1> DEFINE row == [entries |-> made[j], arch |-> arch]
<1>0. /\ Types /\ JobRow(j) /\ state[j] = "RUNNING" /\ Recognize(j)
      /\ checkpoint[j] \in Seq(CheckpointRow) /\ row \in CheckpointRow /\ made[j] \in Seq(Nat)
      /\ checkpoint' = [checkpoint EXCEPT ![j] = Append(@, row)]
  BY Zenon DEF RestoreInv, Types, JobRows, Publish, CheckpointRow
<1>c. UNCHANGED <<state, number, parent, ref, corrupt, context, made, result, request, lost, arch,
                  load>> /\ Chunked' = Chunked
  BY DEF Publish, lineage, store, Chunked
<1>r. /\ recognized' \in [Jobs -> Seq(Nat)]
      /\ \A k \in Jobs \ {j} : recognized'[k] = recognized[k]
      /\ \A k \in Jobs : Begins(recognized[k], recognized'[k])
      /\ Chunked => recognized'[j] = made[j]
  BY <1>0, RecognizeFacts, Zenon
<1>p. /\ checkpoint' \in [Jobs -> Seq(CheckpointRow)]
      /\ \A k \in Jobs \ {j} : checkpoint'[k] = checkpoint[k]
      /\ checkpoint'[j] = Append(checkpoint[j], row)
  BY <1>0 DEF Types
<1> HIDE DEF row
<1>b. Begins(checkpoint[j], checkpoint'[j])
  BY <1>0, <1>p DEF Begins
<1>1. Types'
  BY <1>0, <1>c, <1>r, <1>p, Zenon DEF Types
<1>2. Grows
  <2>1. \A k \in Jobs : Begins(checkpoint[k], checkpoint'[k])
    BY <1>0, <1>b, <1>p, BeginsItself
  <2> QED BY <1>0, <1>c, <1>r, <2>1, GrowsBy, Zenon
<1>3. \A k \in Jobs \ {j} : Quiet(k)
  BY <1>c, <1>r, <1>p DEF Quiet
<1>4. ParentsStay
  BY <1>c DEF ParentsStay
<1>5. JobRow(j)'
  <2>1. RefRow(j)'
    BY <1>1, <1>2, <1>4, <1>c, RefKept
  <2>2. AbsentRow(j)'
    BY <1>0, <1>c DEF AbsentRow
  <2>3. NamedRow(j)'
    <3> SUFFICES ASSUME Chunked, NEW n \in DOMAIN checkpoint'[j]
                 PROVE  Begins(checkpoint'[j][n].entries, recognized'[j])
      BY <1>c, Zenon DEF NamedRow
    <3>1. recognized'[j] = made[j] /\ Begins(recognized[j], made[j]) /\ recognized[j] \in Seq(Nat)
      BY <1>0, <1>r DEF Types
    <3>2. CASE n \in DOMAIN checkpoint[j]
      <4>1. checkpoint'[j][n] = checkpoint[j][n] /\ checkpoint[j][n] \in CheckpointRow
        BY <1>0, <1>b, <3>2 DEF Begins
      <4>2. Begins(checkpoint[j][n].entries, recognized[j]) /\ checkpoint[j][n].entries \in Seq(Nat)
        BY <1>0, <3>2, <4>1 DEF JobRow, NamedRow, CheckpointRow
      <4> QED BY <1>0, <3>1, <4>1, <4>2, BeginsOn
    <3>3. CASE n \notin DOMAIN checkpoint[j]
      <4>1. checkpoint'[j][n] = row
        BY <1>0, <1>p, <3>3
      <4> QED BY <1>0, <3>1, <4>1, SMTT(30) DEF Begins, row
    <3> QED BY <3>2, <3>3
  <2>4. FrozenRow(j)'
    BY <1>0, <1>1, <1>2, <1>c, FrozenKept
  <2>5. RunRow(j)'
    BY <1>0, <1>c, <1>r, RecognizedRuns DEF RunRow
  <2> QED BY <2>1, <2>2, <2>3, <2>4, <2>5 DEF JobRow
<1> QED BY <1>1, <1>2, <1>3, <1>4, <1>5, <1>c, JobStepKeeps, Zenon

LEMMA CompleteKeeps ==
  ASSUME RestoreInv, NEW j \in Jobs, Complete(j), UNCHANGED load
  PROVE  Grows /\ RestoreInv'
<1>0. /\ Types /\ JobRow(j) /\ state[j] = "RUNNING" /\ Recognize(j) /\ made[j] \in Seq(Nat)
      /\ state'[j] = "SUCCEEDED" /\ result'[j] = made[j]
      /\ \A k \in Jobs \ {j} : state'[k] = state[k] /\ result'[k] = result[k]
  BY Zenon DEF RestoreInv, Types, JobRows, Complete
<1>c. UNCHANGED <<number, parent, ref, checkpoint, corrupt, context, made, request, lost, arch,
                  load>> /\ Chunked' = Chunked
  BY DEF Complete, lineage, store, Chunked
<1>r. /\ recognized' \in [Jobs -> Seq(Nat)]
      /\ \A k \in Jobs \ {j} : recognized'[k] = recognized[k]
      /\ \A k \in Jobs : Begins(recognized[k], recognized'[k])
      /\ Chunked => recognized'[j] = made[j]
  BY <1>0, RecognizeFacts
<1>1. Types'
  <2>1. state' \in [Jobs -> States] /\ result' \in [Jobs -> Seq(Nat)]
    BY <1>0, Zenon DEF Complete, Types, States
  <2> QED BY <1>0, <1>c, <1>r, <2>1, Zenon DEF Types
<1>2. Grows
  <2>1. \A k \in Jobs : state'[k] \in LiveStates => state[k] \in LiveStates
    BY <1>0 DEF LiveStates
  <2> QED BY <1>0, <1>c, <1>r, <2>1, BeginsItself, GrowsBy, Zenon
<1>3. \A k \in Jobs \ {j} : Quiet(k)
  BY <1>0, <1>c, <1>r, Zenon DEF Quiet
<1>4. ParentsStay
  BY <1>c DEF ParentsStay
<1>5. JobRow(j)'
  <2>1. RefRow(j)'
    BY <1>1, <1>2, <1>4, <1>c, RefKept
  <2>2. AbsentRow(j)'
    BY <1>0 DEF AbsentRow
  <2>3. NamedRow(j)'
    BY <1>1, <1>2, <1>c, NamedKept
  <2>4. FrozenRow(j)'
    BY <1>0, <1>1, <1>2, <1>c, FrozenKept
  <2>5. RunRow(j)'
    BY <1>0, <1>c, <1>r DEF RunRow
  <2> QED BY <2>1, <2>2, <2>3, <2>4, <2>5 DEF JobRow
<1> QED BY <1>1, <1>2, <1>3, <1>4, <1>5, <1>c, JobStepKeeps, Zenon

LEMMA RetryKeeps ==
  ASSUME RestoreInv, NEW j \in Jobs, NEW source \in Jobs,
         NEW c \in Checkpoints \union {NoCheckpoint}, Retry(j, source, c), UNCHANGED load
  PROVE  Grows /\ RestoreInv'
<1>0. /\ Types /\ JobRow(j) /\ state[j] = "ABSENT" /\ state'[j] = "QUEUED"
      /\ parent'[j] = source /\ parent[j] = NoJob /\ ref[j] = {} /\ checkpoint[j] = <<>>
      /\ ref'[j] = {c} \ {NoCheckpoint}
      /\ \A k \in Jobs \ {j} : state'[k] = state[k] /\ parent'[k] = parent[k] /\ ref'[k] = ref[k]
  BY Zenon DEF RestoreInv, Types, JobRows, JobRow, AbsentRow, Retry
<1>c. UNCHANGED <<number, checkpoint, corrupt, recognized, context, made, result, request, lost,
                  arch, load>> /\ Chunked' = Chunked
  BY Zenon DEF Retry, store, Chunked
<1>i. c = NoCheckpoint \/ c \in Ids
  BY <1>0, CheckpointFacts
<1>1. Types'
  <2>1. state' \in [Jobs -> States] /\ parent' \in [Jobs -> Jobs \union {NoJob}]
        /\ ref' \in [Jobs -> SUBSET Ids]
    BY <1>0, <1>i, Zenon DEF Retry, Types, States
  <2> QED BY <1>0, <1>c, <2>1, Zenon DEF Types
<1>2. Grows
  <2>1. \A k \in Jobs : ref[k] \subseteq ref'[k] /\ number[k] \in Nat
    BY <1>0, Zenon DEF Types
  <2>2. \A k \in Jobs : state'[k] \in LiveStates => state[k] \in LiveStates
    BY <1>0 DEF LiveStates
  <2> QED BY <1>0, <1>c, <2>1, <2>2, BeginsItself, GrowsBy, Zenon
<1>3. \A k \in Jobs \ {j} : Quiet(k)
  BY <1>0, <1>c DEF Quiet
<1>4. ParentsStay
  BY <1>0 DEF ParentsStay
<1>5. JobRow(j)'
  <2>1. RefRow(j)'
    <3> SUFFICES ASSUME c # NoCheckpoint
                 PROVE  c \in Checkpoints' /\ c[1] # j /\ c[1] \in RetryLineage(j)' /\ ~Chunked
      BY <1>0, <1>c DEF RefRow
    <3>1. /\ c \in Checkpoints /\ c[1] \in Jobs /\ c[2] \in DOMAIN checkpoint[c[1]]
          /\ c \in Checkpoints' /\ RetryCheckpoint(source, c)
      BY <1>0, <1>1, <1>2, CheckpointFacts, CheckpointKept, SMTT(30) DEF Retry
    <3>2. c[1] # j
      BY <1>0, <3>1, SMTT(30)
    <3>3. ~Chunked
      BY <3>1, RestoreAssumption, Zenon DEF RetryCheckpoint, RetryScan, Verdict
    <3>4. c[1] \in RetryLineage(j)'
      <4> SUFFICES ASSUME NEW S \in SUBSET Jobs, j \in S, RetryClosed(S)' PROVE c[1] \in S
        BY <3>1 DEF RetryLineage
      <4>1. source \in S
        BY <1>0, RestoreAssumption DEF RetryClosed
      <4>2. RetryClosed(S)
        BY <1>0, SMTT(30) DEF RetryClosed
      <4> QED BY <3>1, <4>1, <4>2, Zenon DEF RetryCheckpoint, RetryLineage
    <3> QED BY <3>1, <3>2, <3>3, <3>4
  <2>2. AbsentRow(j)' /\ RunRow(j)'
    BY <1>0, Zenon DEF AbsentRow, RunRow
  <2>3. NamedRow(j)'
    BY <1>1, <1>2, <1>c, NamedKept, SMTT(30)
  <2>4. FrozenRow(j)'
    BY <1>0, <1>1, <1>2, <1>c, FrozenKept, Zenon
  <2> QED BY <2>1, <2>2, <2>3, <2>4 DEF JobRow
<1> QED BY <1>1, <1>2, <1>3, <1>4, <1>5, <1>c, JobStepKeeps, Zenon

-----------------------------------------------------------------------------
(* The claim requests *)

\* The steps that change no job.
JobsRest ==
  UNCHANGED <<state, number, parent, ref, checkpoint, recognized, context, made, result, load>>

LEMMA RestingJobs ==
  ASSUME RestoreInv, JobsRest, lost \subseteq lost', request' \in [Requests -> RequestRow],
         arch' \in Architectures, arch' = arch \/ \A j \in Jobs : ~Live(j, number[j])
  PROVE  Types' /\ Grows /\ ParentsStay /\ \A j \in Jobs : Quiet(j)
<1>0. Types
  BY DEF RestoreInv
<1>1. Types'
  BY <1>0, Zenon DEF JobsRest, Types
<1>2. Grows
  <2>1. \A j \in Jobs : number[j] \in Nat
    BY <1>0 DEF Types
  <2>2. \A j \in Jobs : state[j] \in LiveStates => arch' = arch
    BY DEF Live, LiveStates
  <2> QED BY <1>0, <2>1, <2>2, BeginsItself, SMTT(30) DEF JobsRest, Grows
<1>3. ParentsStay /\ \A j \in Jobs : Quiet(j)
  BY DEF JobsRest, ParentsStay, Quiet
<1> QED BY <1>1, <1>2, <1>3, SMTT(30)

LEMMA OutsideKeeps ==
  ASSUME RestoreInv, JobsRest, lost \subseteq lost', request' = request, corrupt' = corrupt,
         arch' \in Architectures, arch' = arch \/ \A j \in Jobs : ~Live(j, number[j])
  PROVE  Grows /\ RestoreInv'
<1>1. request' \in [Requests -> RequestRow]
  BY DEF RestoreInv, Types
<1>2. Types' /\ Grows /\ ParentsStay /\ \A j \in Jobs : Quiet(j)
  BY <1>1, RestingJobs
<1>3. FirstJob \in Jobs /\ JobRow(FirstJob)'
  BY <1>2, QuietKept, RestoreAssumption
<1> QED BY <1>2, <1>3, JobStepKeeps

LEMMA PollKeeps ==
  ASSUME RestoreInv, NEW j \in Jobs, Poll(j), UNCHANGED load
  PROVE  Grows /\ RestoreInv'
<1>1. JobsRest /\ lost \subseteq lost' /\ arch' = arch /\ request' = request /\ corrupt' = corrupt
  BY DEF Poll, JobsRest, lineage, store
<1>2. arch' \in Architectures
  BY <1>1 DEF RestoreInv, Types
<1> QED BY <1>1, <1>2, OutsideKeeps

LEMMA DamageKeeps ==
  ASSUME RestoreInv, NEW b, Damage(b), UNCHANGED load
  PROVE  Grows /\ RestoreInv'
<1>1. JobsRest /\ lost \subseteq lost' /\ arch' = arch /\ request' = request /\ corrupt' = corrupt
  BY DEF Damage, JobsRest, lineage
<1>2. arch' \in Architectures
  BY <1>1 DEF RestoreInv, Types
<1> QED BY <1>1, <1>2, OutsideKeeps

LEMMA ReinventoryKeeps ==
  ASSUME RestoreInv, NEW a \in load.architectures, Reinventory(a), UNCHANGED load
  PROVE  Grows /\ RestoreInv'
<1>1. JobsRest /\ lost \subseteq lost' /\ arch' = a /\ request' = request /\ corrupt' = corrupt
  BY DEF Reinventory, JobsRest, lineage
<1>2. arch' \in Architectures /\ \A j \in Jobs : ~Live(j, number[j])
  BY <1>1 DEF RestoreInv, Types, Reinventory
<1> QED BY <1>1, <1>2, OutsideKeeps

\* A request goes on with the row q.
LEMMA RequestKeeps ==
  ASSUME RestoreInv, NEW r \in Requests, NEW q \in RequestRow, Knows(q) \/ q.phase = "NONE",
         request' = [request EXCEPT ![r] = q], JobsRest, UNCHANGED store,
         \A c \in corrupt' : c \in corrupt \/ (c \in Checkpoints /\ BlobsOf(c) \intersect lost # {})
  PROVE  Grows /\ RestoreInv'
<1>1. /\ request' \in [Requests -> RequestRow] /\ request'[r] = q
      /\ \A s \in Requests \ {r} : request'[s] = request[s]
  BY DEF RestoreInv, Types
<1>2. arch' \in Architectures /\ arch' = arch /\ lost' = lost
  BY DEF RestoreInv, Types, store
<1>3. Types' /\ Grows /\ ParentsStay /\ \A j \in Jobs : Quiet(j)
  BY <1>1, <1>2, RestingJobs
<1>4. ScanRow(r)'
  <2>1. CASE q.phase = "NONE"
    BY <1>1, <2>1 DEF ScanRow
  <2>2. CASE Knows(q)
    BY <1>1, <1>3, <2>2, KnowsKept, RowScan
  <2> QED BY <2>1, <2>2
<1> QED BY <1>1, <1>3, <1>4, RequestStepKeeps

LEMMA NoRequestRow == NoRequest \in RequestRow /\ NoRequest.phase = "NONE"
<1> QED BY SMTT(30) DEF NoRequest, RequestRow, NoCheckpoint, Ids, Phases

LEMMA DropKeeps ==
  ASSUME RestoreInv, NEW r \in Requests, Drop(r), UNCHANGED load
  PROVE  Grows /\ RestoreInv'
<1>1. JobsRest /\ UNCHANGED <<store, corrupt>> /\ request' = [request EXCEPT ![r] = NoRequest]
  BY DEF Drop, JobsRest, lineage
<1> QED BY <1>1, NoRequestRow, RequestKeeps, Zenon

\* Verified only moves the request on to its next phase.
LEMMA VerifiedFacts ==
  ASSUME NEW q \in RequestRow, Asked(q), Planned(q), Damaged(q), Skipped(q),
         q.selected # NoCheckpoint =>
           /\ q.selected \in q.todo /\ Fits(q.selected, q.arch)
           /\ First(q.job, q.selected, q.todo) /\ (Chunked => q.selected[1] = q.job),
         q.ids <= Len(recognized[q.job])
  PROVE  Verified(q) \in RequestRow /\ Knows(Verified(q))
<1>1. PICK v : v = Verified(q)
  OBVIOUS
<1>2. /\ v \in RequestRow /\ v.job = q.job /\ v.number = q.number /\ v.arch = q.arch
      /\ v.plan = q.plan /\ v.todo = q.todo /\ v.marks = q.marks /\ v.rejected = q.rejected
      /\ v.selected = q.selected /\ v.ids = q.ids
  BY <1>1 DEF Verified, RequestRow, Phases
<1>3. /\ v.phase = "VERIFY" => q.selected = NoCheckpoint
      /\ v.phase # "VERIFY" => q.todo = {} \/ q.selected # NoCheckpoint
      /\ Chunked => v.phase # "CLAIM"
  BY <1>1 DEF Verified, RequestRow
<1>4. Asked(v) /\ Planned(v) /\ Damaged(v) /\ Skipped(v)
  BY <1>2, Zenon DEF Asked, Planned, Damaged, Skipped
<1>5. Chosen(v) /\ Carried(v)
  BY <1>2, <1>3, Zenon DEF Chosen, Carried
<1> QED BY <1>1, <1>2, <1>4, <1>5, Zenon DEF Knows

LEMMA PlanKeeps ==
  ASSUME RestoreInv, NEW r \in Requests, NEW j \in Jobs, Plan(r, j), UNCHANGED load
  PROVE  Grows /\ RestoreInv'
<1>0. JobsRest /\ UNCHANGED <<store, corrupt>>
  BY DEF Plan, JobsRest, lineage
<1>1. PICK q : q = [NoRequest EXCEPT !.job = j, !.number = number[j], !.arch = arch,
                                     !.plan = Candidates(j), !.todo = Candidates(j),
                                     !.ids = RecognizedScope(j)]
  OBVIOUS
<1>2. /\ Candidates(j) \subseteq Restorable(j) /\ Candidates(j) \subseteq Ids
      /\ number[j] \in Nat /\ arch \in Architectures /\ recognized[j] \in Seq(Nat)
  <2>1. Candidates(j) \subseteq Restorable(j)
    BY DEF Candidates
  <2> QED BY <2>1, RestorableExists, CheckpointFacts DEF RestoreInv, Types
<1>3. /\ q \in RequestRow /\ q.job = j /\ q.number = number[j] /\ q.arch = arch
      /\ q.plan = Candidates(j) /\ q.todo = Candidates(j) /\ q.marks = {} /\ q.rejected = {}
      /\ q.selected = NoCheckpoint /\ q.ids = Len(recognized[j])
  <2>1. Len(recognized[j]) \in Nat
    BY <1>2
  <2>2. NoCheckpoint \in Ids /\ <<>> \in Seq(Nat)
    BY DEF NoCheckpoint, Ids
  <2>3. q = [phase |-> "NONE", job |-> j, number |-> number[j], arch |-> arch,
             plan |-> Candidates(j), todo |-> Candidates(j), marks |-> {}, rejected |-> {},
             selected |-> NoCheckpoint, ids |-> Len(recognized[j]), chunks |-> <<>>, usable |-> TRUE]
    BY <1>1, Zenon DEF NoRequest, RecognizedScope
  <2>4. q \in RequestRow
    BY <1>2, <2>1, <2>2, <2>3, Zenon DEF RequestRow, Phases
  <2> QED BY <2>3, <2>4
<1>4. Asked(q) /\ Planned(q) /\ Damaged(q) /\ Skipped(q) /\ q.ids <= Len(recognized[q.job])
  BY <1>2, <1>3, SMTT(30) DEF Asked, Planned, Damaged, Skipped
<1>5. Verified(q) \in RequestRow /\ Knows(Verified(q))
  BY <1>3, <1>4, VerifiedFacts, Zenon
<1>6. request' = [request EXCEPT ![r] = Verified(q)]
  BY <1>1 DEF Plan
<1>7. PICK v \in RequestRow : v = Verified(q)
  BY <1>5
<1> QED BY <1>0, <1>5, <1>6, <1>7, RequestKeeps, Zenon

\* The request that a step works on.
LEMMA KnownRow ==
  ASSUME RestoreInv, NEW r \in Requests, NEW q, q = request[r], q.phase # "NONE"
  PROVE  q \in RequestRow /\ Knows(q) /\ q.plan \subseteq Checkpoints
<1>1. q \in RequestRow /\ Knows(q)
  BY Zenon DEF RestoreInv, Types, ScanRow
<1> QED BY <1>1, RestorableExists, SMTT(30) DEF Knows, Asked, Planned, RestoreInv

LEMMA MarkKeeps ==
  ASSUME RestoreInv, NEW r \in Requests, Mark(r), UNCHANGED load
  PROVE  Grows /\ RestoreInv'
<1>0. JobsRest /\ UNCHANGED store
  BY DEF Mark, JobsRest, lineage
<1>1. PICK q : q = request[r]
  OBVIOUS
<1>2. /\ q \in RequestRow /\ Knows(q) /\ q.plan \subseteq Checkpoints /\ q.phase = "MARK"
      /\ corrupt' = corrupt \union q.marks
      /\ request' = [request EXCEPT ![r] = Verified([q EXCEPT !.phase = "MARKED"])]
  BY <1>1, KnownRow DEF Mark
<1>3. PICK p : p = [q EXCEPT !.phase = "MARKED"]
  BY Zenon
<1>4. /\ p \in RequestRow /\ p.job = q.job /\ p.number = q.number /\ p.arch = q.arch
      /\ p.plan = q.plan /\ p.todo = q.todo /\ p.marks = q.marks /\ p.rejected = q.rejected
      /\ p.selected = q.selected /\ p.ids = q.ids
  BY <1>2, <1>3, Zenon DEF RequestRow, Phases
<1>5. Asked(p) /\ Planned(p) /\ Damaged(p) /\ Skipped(p) /\ p.ids <= Len(recognized[p.job])
  BY <1>2, <1>4 DEF Knows, Asked, Planned, Damaged, Skipped, Carried
<1>6. p.selected # NoCheckpoint =>
        /\ p.selected \in p.todo /\ Fits(p.selected, p.arch)
        /\ First(p.job, p.selected, p.todo) /\ (Chunked => p.selected[1] = p.job)
  BY <1>2, <1>4 DEF Knows, Chosen
<1>7. Verified(p) \in RequestRow /\ Knows(Verified(p))
  BY <1>4, <1>5, <1>6, VerifiedFacts, Zenon
<1>8. PICK v \in RequestRow : v = Verified(p)
  BY <1>7
<1>9. \A c \in corrupt' : c \in corrupt \/ (c \in Checkpoints /\ BlobsOf(c) \intersect lost # {})
  BY <1>2 DEF Knows, Planned, Damaged
<1> QED BY <1>0, <1>2, <1>3, <1>7, <1>8, <1>9, RequestKeeps, Zenon

LEMMA ScanRecognizedKeeps ==
  ASSUME RestoreInv, NEW r \in Requests, ScanRecognized(r), UNCHANGED load
  PROVE  Grows /\ RestoreInv'
<1>0. JobsRest /\ UNCHANGED <<store, corrupt>>
  BY SMTT(30) DEF ScanRecognized, JobsRest, lineage
<1>1. PICK q : q = request[r]
  OBVIOUS
<1> DEFINE from == Len(Entries(q.selected))
           chunks == SubSeq(recognized[q.job], from + 1, q.ids)
           usable == \A i \in (from + 1)..q.ids : Readable(ChunkFile(q.job, i))
<1>2. /\ q \in RequestRow /\ Knows(q) /\ q.plan \subseteq Checkpoints /\ q.phase = "CHUNKS"
      /\ request' = [request EXCEPT ![r] =
           [q EXCEPT !.phase = "CLAIM", !.chunks = chunks, !.usable = usable]]
  BY <1>1, KnownRow, Zenon DEF ScanRecognized
<1>3. chunks \in Seq(Nat)
  <2>1. Entries(q.selected) \in Seq(Nat)
    <3>1. CASE q.selected = NoCheckpoint
      BY <3>1 DEF Entries
    <3>2. CASE q.selected # NoCheckpoint
      <4>1. q.selected \in Checkpoints
        BY <1>2, <3>2 DEF Knows, Chosen, Planned
      <4> QED BY <4>1, CheckpointFacts DEF RestoreInv
    <3> QED BY <3>1, <3>2
  <2>2. /\ from \in Nat /\ q.ids \in Nat /\ recognized[q.job] \in Seq(Nat)
        /\ q.ids <= Len(recognized[q.job])
    BY <1>2, <2>1 DEF Knows, Asked, Carried, RequestRow, RestoreInv, Types
  <2> HIDE DEF from
  <2> QED BY <2>2, SubSeqFacts
<1>4. usable \in BOOLEAN
  OBVIOUS
<1>5. PICK p : p = [q EXCEPT !.phase = "CLAIM", !.chunks = chunks, !.usable = usable]
  BY Zenon
<1> HIDE DEF chunks, usable
<1>6. /\ p \in RequestRow /\ p.job = q.job /\ p.number = q.number /\ p.arch = q.arch
      /\ p.plan = q.plan /\ p.todo = q.todo /\ p.marks = q.marks /\ p.rejected = q.rejected
      /\ p.selected = q.selected /\ p.ids = q.ids /\ p.phase = "CLAIM" /\ p.chunks = chunks
  BY <1>2, <1>3, <1>4, <1>5, Zenon DEF RequestRow, Phases
<1>7. Asked(p) /\ Planned(p) /\ Damaged(p) /\ Skipped(p)
  BY <1>2, <1>6 DEF Knows, Asked, Planned, Damaged, Skipped
<1>8. Chosen(p)
  BY <1>2, <1>6 DEF Knows, Chosen
<1>9. Carried(p)
  BY <1>2, <1>6 DEF Knows, Carried, chunks
<1> QED BY <1>0, <1>2, <1>5, <1>6, <1>7, <1>8, <1>9, RequestKeeps, Zenon DEF Knows

\* A checkpoint that the scan calls corrupt has a blob that is lost: a recognized
\* chunk that it names is never replaced.
LEMMA CorruptIsDamaged ==
  ASSUME RestoreInv, NEW j, NEW c \in Checkpoints, NEW a, Verdict(j, c, a) = "CORRUPT"
  PROVE  BlobsOf(c) \intersect lost # {}
<1>1. Chunked => Begins(Entries(c), recognized[c[1]])
  <2>1. /\ c[1] \in Jobs /\ c[2] \in DOMAIN checkpoint[c[1]]
        /\ Entries(c) = Record(c).entries
    BY CheckpointFacts DEF RestoreInv
  <2> QED BY <2>1 DEF RestoreInv, JobRows, JobRow, NamedRow, Record
<1>2. \/ Manifest(c) \in lost \/ StateFile(c) \in lost \/ \E b \in ChunksOf(c) : b \in lost
  BY <1>1 DEF Verdict, ManifestIntact, StateIntact, ChunksIntact, Readable
<1> QED BY <1>2, SMTT(30) DEF BlobsOf

\* A candidate of a job is proven, and of the job itself if the job has chunks.
LEMMA CandidateProven ==
  ASSUME RestoreInv, NEW j \in Jobs, NEW c \in Restorable(j)
  PROVE  Proven(j, c) /\ (Chunked => c[1] = j)
<1>1. CASE c \in Own(j)
  BY <1>1, OwnFacts DEF Proven
<1>2. CASE c \in ref[j]
  BY <1>2 DEF RestoreInv, JobRows, JobRow, RefRow, Proven
<1> QED BY <1>1, <1>2 DEF Restorable

\* What a verified candidate does to a row: it is chosen, marked or passed over.
Judged(q, c, p) ==
  /\ p.job = q.job /\ p.number = q.number /\ p.arch = q.arch /\ p.plan = q.plan /\ p.ids = q.ids
  /\ \/ /\ p.todo = q.todo /\ p.marks = q.marks /\ p.rejected = q.rejected
        /\ p.selected = c /\ Fits(c, q.arch) /\ (Chunked => c[1] = q.job)
     \/ /\ p.todo = q.todo \ {c} /\ p.marks = q.marks \union {c} /\ p.rejected = q.rejected
        /\ p.selected = q.selected /\ BlobsOf(c) \intersect lost # {}
     \/ /\ p.todo = q.todo \ {c} /\ p.marks = q.marks /\ p.selected = q.selected
        /\ q.arch \notin p.rejected /\ ~Fits(c, q.arch)

LEMMA JudgeFacts ==
  ASSUME RestoreInv, NEW q \in RequestRow, q.job \in Jobs, q.arch \notin q.rejected,
         NEW c \in Checkpoints, c \in Restorable(q.job), NEW p,
         p = IF Record(c).arch \in q.rejected THEN [q EXCEPT !.todo = @ \ {c}]
             ELSE Judge(q, c, IF Proven(q.job, c) THEN Verdict(q.job, c, q.arch) ELSE "INCOMPATIBLE")
  PROVE  p \in RequestRow /\ Judged(q, c, p)
<1>1. /\ c \in Ids /\ Record(c).arch \in Architectures
      /\ Proven(q.job, c) /\ (Chunked => c[1] = q.job)
  BY CheckpointFacts, CandidateProven, SMTT(30) DEF RestoreInv, CheckpointRow
<1>2. CASE Record(c).arch \in q.rejected
  <2>1. p = [q EXCEPT !.todo = q.todo \ {c}] /\ ~Fits(c, q.arch)
    BY <1>2 DEF Fits
  <2> QED BY <2>1, Zenon DEF RequestRow, Judged
<1>3. CASE Record(c).arch \notin q.rejected /\ Verdict(q.job, c, q.arch) = "VALID"
  <2>1. p = [q EXCEPT !.selected = c]
    BY <1>1, <1>3 DEF Judge
  <2>2. Fits(c, q.arch)
    BY <1>3 DEF Verdict
  <2> QED BY <1>1, <2>1, <2>2, SMTT(30) DEF RequestRow, Judged
<1>4. CASE Record(c).arch \notin q.rejected /\ Verdict(q.job, c, q.arch) = "CORRUPT"
  <2>1. p = [q EXCEPT !.todo = q.todo \ {c}, !.marks = q.marks \union {c}]
    BY <1>1, <1>4 DEF Judge
  <2>2. BlobsOf(c) \intersect lost # {}
    BY <1>4, CorruptIsDamaged
  <2>3. p \in RequestRow
    <3> DEFINE todo == q.todo \ {c}  marks == q.marks \union {c}
    <3>1. todo \in SUBSET Ids /\ marks \in SUBSET Ids
      BY <1>1 DEF RequestRow
    <3> HIDE DEF todo, marks
    <3>2. [q EXCEPT !.todo = todo, !.marks = marks] \in RequestRow
      BY <3>1, Zenon DEF RequestRow
    <3> QED BY <2>1, <3>2, Zenon DEF todo, marks
  <2>4. /\ p.job = q.job /\ p.number = q.number /\ p.arch = q.arch /\ p.plan = q.plan
        /\ p.ids = q.ids /\ p.todo = q.todo \ {c} /\ p.marks = q.marks \union {c}
        /\ p.rejected = q.rejected /\ p.selected = q.selected
    BY <2>1, Zenon DEF RequestRow
  <2> QED BY <2>2, <2>3, <2>4 DEF Judged
<1>5. CASE Record(c).arch \notin q.rejected /\ Verdict(q.job, c, q.arch) = "INCOMPATIBLE"
  <2> DEFINE rejected == IF c[1] = q.job THEN q.rejected \union {Record(c).arch} ELSE q.rejected
  <2>1. p = [q EXCEPT !.todo = q.todo \ {c}, !.rejected = rejected]
    BY <1>1, <1>5 DEF Judge
  <2>2. ~Fits(c, q.arch)
    BY <1>1, <1>5 DEF Verdict
  <2>3. rejected \subseteq Architectures /\ q.arch \notin rejected
    BY <1>1, <2>2 DEF Fits, RequestRow
  <2> HIDE DEF rejected
  <2> QED BY <2>1, <2>2, <2>3, Zenon DEF RequestRow, Judged
<1>6. Verdict(q.job, c, q.arch) \in {"VALID", "CORRUPT", "INCOMPATIBLE"}
  BY DEF Verdict
<1> QED BY <1>2, <1>3, <1>4, <1>5, <1>6

LEMMA VerifyKeeps ==
  ASSUME RestoreInv, NEW r \in Requests, Verify(r), UNCHANGED load
  PROVE  Grows /\ RestoreInv'
<1>0. JobsRest /\ UNCHANGED <<store, corrupt>>
  BY SMTT(30) DEF Verify, JobsRest, lineage
<1>1. PICK q : q = request[r]
  OBVIOUS
<1>2. /\ q \in RequestRow /\ Knows(q) /\ q.plan \subseteq Checkpoints
      /\ q.selected = NoCheckpoint /\ q.job \in Jobs /\ q.arch \notin q.rejected
  BY <1>1, KnownRow DEF Verify, Knows, Chosen, Asked, Skipped
<1> DEFINE row(c) ==
      IF Record(c).arch \in q.rejected THEN [q EXCEPT !.todo = @ \ {c}]
      ELSE Judge(q, c, IF Proven(q.job, c) THEN Verdict(q.job, c, q.arch) ELSE "INCOMPATIBLE")
<1>3. PICK c \in q.todo : /\ First(q.job, c, q.todo)
                          /\ request' = [request EXCEPT ![r] = Verified(row(c))]
  BY <1>1, Zenon DEF Verify
<1>4. c \in Checkpoints /\ c \in Restorable(q.job) /\ c \in q.plan /\ c # NoCheckpoint
  <2>1. c \in q.plan /\ q.plan \subseteq Restorable(q.job)
    BY <1>2, <1>3, Zenon DEF Knows, Planned
  <2> QED BY <1>2, <2>1, CheckpointFacts, Zenon DEF RestoreInv
<1>5. PICK p : p = row(c)
  BY Zenon
<1>6. p \in RequestRow /\ Judged(q, c, p) /\ request' = [request EXCEPT ![r] = Verified(p)]
  BY <1>2, <1>3, <1>4, <1>5, JudgeFacts
<1> HIDE DEF row
<1>7. Asked(p) /\ Planned(p)
  BY <1>2, <1>4, <1>6, SMTT(30) DEF Judged, Knows, Asked, Planned
<1>8. Damaged(p) /\ p.ids <= Len(recognized[p.job])
  BY <1>2, <1>4, <1>6, Zenon DEF Judged, Knows, Damaged, Carried
<1>9. Skipped(p)
  BY <1>2, <1>4, <1>6, Zenon DEF Judged, Knows, Skipped
<1>10. p.selected # NoCheckpoint =>
         /\ p.selected \in p.todo /\ Fits(p.selected, p.arch)
         /\ First(p.job, p.selected, p.todo) /\ (Chunked => p.selected[1] = p.job)
  BY <1>2, <1>3, <1>4, <1>6, Zenon DEF Judged
<1>11. PICK v \in RequestRow : v = Verified(p) /\ Knows(v)
  BY <1>6, <1>7, <1>8, <1>9, <1>10, VerifiedFacts, SMTT(30)
<1> QED BY <1>0, <1>6, <1>11, RequestKeeps, Zenon

\* The claim hands over all that is recognized, from the checkpoint on or in full.
LEMMA ClaimFreezes ==
  ASSUME RestoreInv, NEW q \in RequestRow, Knows(q), q.phase = "CLAIM", SameRecognized(q), Chunked
  PROVE  Entries(q.selected) \o q.chunks = recognized[q.job]
<1> DEFINE rec == recognized[q.job]  start == Entries(q.selected)
<1>1. /\ rec \in Seq(Nat) /\ q.ids = Len(rec) /\ q.job \in Jobs
      /\ q.chunks = SubSeq(rec, Len(start) + 1, q.ids)
  BY Zenon DEF RestoreInv, Types, Knows, Asked, Carried, SameRecognized, RecognizedScope
<1>2. start \in Seq(Nat) /\ Begins(start, rec)
  <2>1. CASE q.selected = NoCheckpoint
    BY <1>1, <2>1, SMTT(30) DEF Entries, Begins
  <2>2. CASE q.selected # NoCheckpoint
    <3>1. q.selected \in Restorable(q.job) /\ q.selected[1] = q.job
      BY <2>2 DEF Knows, Chosen, Planned
    <3>2. q.selected \in Checkpoints
      BY <1>1, <3>1, RestorableExists DEF RestoreInv
    <3>3. /\ q.selected[2] \in DOMAIN checkpoint[q.job] /\ start \in Seq(Nat)
          /\ start = checkpoint[q.job][q.selected[2]].entries
      BY <3>1, <3>2, CheckpointFacts DEF RestoreInv, Record
    <3> QED BY <1>1, <3>3, Zenon DEF RestoreInv, JobRows, JobRow, NamedRow
  <2> QED BY <2>1, <2>2
<1> HIDE DEF rec, start
<1>3. start \o SubSeq(rec, Len(start) + 1, Len(rec)) = rec
  BY <1>1, <1>2, RestIsAppended, SMTT(30)
<1> QED BY <1>1, <1>3, Zenon DEF rec, start

LEMMA ClaimKeeps ==
  ASSUME RestoreInv, NEW r \in Requests, Claim(r), UNCHANGED load
  PROVE  Grows /\ RestoreInv'
<1>1. PICK q : q = request[r]
  OBVIOUS
<1> DEFINE frozen == [restore |-> q.selected, chunks |-> IF q.usable THEN q.chunks ELSE <<>>,
                      usable |-> q.usable]
<1>2. /\ q \in RequestRow /\ Knows(q) /\ q.plan \subseteq Checkpoints /\ q.phase = "CLAIM"
      /\ q.job \in Jobs /\ state[q.job] = "CREATED" /\ SameRecognized(q)
      /\ state' = [state EXCEPT ![q.job] = "CLAIMED"]
      /\ context' = [context EXCEPT ![q.job] = frozen]
      /\ request' = [request EXCEPT ![r] = NoRequest]
  BY <1>1, KnownRow, Zenon DEF Claim, Knows, Asked
<1>c. /\ UNCHANGED <<number, parent, ref, checkpoint, corrupt, recognized, made, result, lost, arch,
                     load>>
      /\ Chunked' = Chunked
  BY DEF Claim, lineage, store, Chunked
<1>3. PICK j \in Jobs : j = q.job
  BY <1>2, Zenon
<1>4. frozen \in ContextRow /\ frozen.restore = q.selected /\ frozen.usable = q.usable
      /\ (q.usable => frozen.chunks = q.chunks)
  <2>1. q.chunks \in Seq(Nat) /\ <<>> \in Seq(Nat)
    BY <1>2 DEF RequestRow
  <2> QED BY <1>2, <2>1, Zenon DEF ContextRow, RequestRow
<1> HIDE DEF frozen
<1>5. /\ state'[j] = "CLAIMED" /\ context'[j] = frozen /\ request'[r] = NoRequest
      /\ \A k \in Jobs \ {j} : state'[k] = state[k] /\ context'[k] = context[k]
      /\ \A s \in Requests \ {r} : request'[s] = request[s]
  BY <1>2, <1>3, Zenon DEF RestoreInv, Types
<1>6. Types'
  <2>0. /\ state \in [Jobs -> States] /\ context \in [Jobs -> ContextRow]
        /\ request \in [Requests -> RequestRow]
    BY Zenon DEF RestoreInv, Types
  <2>1. /\ state' \in [Jobs -> States] /\ context' \in [Jobs -> ContextRow]
        /\ request' \in [Requests -> RequestRow]
    BY <1>2, <1>4, <2>0, NoRequestRow DEF States, LiveStates
  <2> QED BY <1>c, <2>1, Zenon DEF RestoreInv, Types
<1>7. Grows
  <2>1. \A k \in Jobs : state'[k] \in LiveStates => state[k] \in LiveStates
    BY <1>2, <1>3, <1>5 DEF LiveStates
  <2> QED BY <1>c, <2>1, BeginsItself, GrowsBy, Zenon DEF RestoreInv
<1>8. ParentsStay /\ \A k \in Jobs \ {j} : Quiet(k)
  BY <1>c, <1>5 DEF ParentsStay, Quiet
<1>9. JobRow(j)'
  <2>1. RefRow(j)'
    BY <1>6, <1>7, <1>8, <1>c, RefKept, SMTT(30)
  <2>2. AbsentRow(j)' /\ RunRow(j)'
    BY <1>5 DEF AbsentRow, RunRow
  <2>3. NamedRow(j)'
    BY <1>6, <1>7, <1>c, NamedKept, SMTT(30)
  <2>4. FrozenRow(j)'
    <3>1. q.selected # NoCheckpoint => q.selected \in Checkpoints
      BY <1>2, SMTT(30) DEF Knows, Chosen, Planned
    <3>2. Checkpoints' = Checkpoints
      BY <1>c DEF Checkpoints, Own
    <3>3. Entries(context[j].restore)' = Entries(q.selected)
      BY <1>c, <1>4, <1>5, SMTT(30) DEF Entries, Record
    <3>4. Chunked => Entries(q.selected) \o q.chunks = recognized[j]
      BY <1>2, <1>3, ClaimFreezes, Zenon
    <3> QED BY <1>c, <1>4, <1>5, <3>1, <3>2, <3>3, <3>4, Zenon DEF FrozenRow
  <2> QED BY <2>1, <2>2, <2>3, <2>4 DEF JobRow
<1>10. JobRows'
  BY <1>6, <1>7, <1>8, <1>9, QuietKept DEF JobRows
<1>11. MarkRows'
  BY <1>6, <1>7, <1>c, MarksKept, SMTT(30)
<1>12. \A s \in Requests : ScanRow(s)'
  <2>1. ScanRow(r)'
    BY <1>5, NoRequestRow DEF ScanRow
  <2> QED BY <1>5, <1>6, <1>7, <2>1, ScanKept, SMTT(30)
<1> QED BY <1>6, <1>7, <1>10, <1>11, <1>12, SMTT(30) DEF RestoreInv

-----------------------------------------------------------------------------
(* The theorems *)

LEMMA InitRestore == Init => RestoreInv
<1> SUFFICES ASSUME Init PROVE RestoreInv
  OBVIOUS
<1>0. \A j \in Jobs : /\ state[j] \in {"QUEUED", "ABSENT"} /\ ref[j] = {} /\ parent[j] = NoJob
                      /\ checkpoint[j] = <<>> /\ context[j] = NoContext
  BY Zenon DEF Init
<1>1. Types
  <2>1. NoContext \in ContextRow /\ <<>> \in Seq(Nat) /\ <<>> \in Seq(CheckpointRow)
    BY DEF NoContext, NoCheckpoint, ContextRow, Ids
  <2>2. load \in Load /\ load.architectures \subseteq Architectures /\ arch \in Architectures
    BY RestoreAssumption DEF Init, Load
  <2>3. request \in [Requests -> RequestRow]
    BY NoRequestRow, Zenon DEF Init
  <2>4. state \in [Jobs -> States]
    BY DEF Init, States
  <2> QED BY <2>1, <2>2, <2>3, <2>4 DEF Init, Types
<1>2. JobRows
  <2> SUFFICES ASSUME NEW j \in Jobs PROVE JobRow(j)
    BY Zenon DEF JobRows
  <2>1. RefRow(j) /\ AbsentRow(j) /\ NamedRow(j)
    BY <1>0 DEF RefRow, AbsentRow, NamedRow
  <2>2. FrozenRow(j) /\ RunRow(j)
    <3>1. /\ state[j] \notin {"CLAIMED", "STARTING", "RUNNING", "SUCCEEDED"}
          /\ context[j].restore = NoCheckpoint
      BY <1>0 DEF NoContext
    <3> QED BY <3>1 DEF FrozenRow, RunRow
  <2> QED BY <2>1, <2>2 DEF JobRow
<1>3. MarkRows
  BY DEF Init, MarkRows, MarksTrue
<1>4. \A r \in Requests : ScanRow(r)
  BY NoRequestRow DEF Init, ScanRow
<1> QED BY <1>1, <1>2, <1>3, <1>4, SMTT(30) DEF RestoreInv

LEMMA NextRestore == RestoreInv /\ [Next]_vars => RestoreInv' /\ Grows
<1> SUFFICES ASSUME RestoreInv, [Next]_vars PROVE Grows /\ RestoreInv'
  OBVIOUS
<1>1. CASE UNCHANGED vars
  <2>1. JobsRest /\ lost \subseteq lost' /\ request' = request /\ corrupt' = corrupt /\ arch' = arch
    BY <1>1 DEF vars, JobsRest
  <2>2. arch' \in Architectures
    BY <2>1 DEF RestoreInv, Types
  <2> QED BY <2>1, <2>2, OutsideKeeps
<1>2. CASE ClaimStep /\ UNCHANGED load
  <2>1. ASSUME NEW j \in Jobs, Dispatch(j) \/ Poll(j) PROVE Grows /\ RestoreInv'
    BY <1>2, <2>1, DispatchKeeps, PollKeeps
  <2>2. ASSUME NEW r \in Requests, NEW j \in Jobs, Plan(r, j) PROVE Grows /\ RestoreInv'
    BY <1>2, <2>2, PlanKeeps
  <2>3. ASSUME NEW r \in Requests, Verify(r) \/ Mark(r) \/ ScanRecognized(r) \/ Claim(r) \/ Drop(r)
        PROVE  Grows /\ RestoreInv'
    BY <1>2, <2>3, VerifyKeeps, MarkKeeps, ScanRecognizedKeeps, ClaimKeeps, DropKeeps, SMTT(30)
  <2> QED BY <1>2, <2>1, <2>2, <2>3, Zenon DEF ClaimStep
<1>3. CASE RunStep /\ UNCHANGED load
  <2>1. ASSUME NEW j \in Jobs,
               FailLaunch(j) \/ Launch(j) \/ Start(j) \/ RefuseStart(j) \/ Compute(j)
        PROVE  Grows /\ RestoreInv'
    BY <1>3, <2>1, FailLaunchKeeps, LaunchKeeps, StartKeeps, RefuseStartKeeps, ComputeKeeps, SMTT(30)
  <2>2. ASSUME NEW j \in Jobs, Publish(j) \/ Complete(j) \/ Lapse(j) \/ FailRun(j)
        PROVE  Grows /\ RestoreInv'
    BY <1>3, <2>2, PublishKeeps, CompleteKeeps, LapseKeeps, FailRunKeeps, SMTT(30)
  <2>3. ASSUME NEW j \in Jobs, NEW source \in Jobs, NEW c \in Checkpoints \union {NoCheckpoint},
               Retry(j, source, c)
        PROVE  Grows /\ RestoreInv'
    BY <1>3, <2>3, RetryKeeps
  <2> QED BY <1>3, <2>1, <2>2, <2>3, Zenon DEF RunStep
<1>4. CASE EnvironmentStep /\ UNCHANGED load
  <2>1. ASSUME NEW b, Damage(b) PROVE Grows /\ RestoreInv'
    BY <1>4, <2>1, DamageKeeps
  <2>2. ASSUME NEW a \in load.architectures, Reinventory(a) PROVE Grows /\ RestoreInv'
    BY <1>4, <2>2, ReinventoryKeeps
  <2> QED BY <1>4, <2>1, <2>2, Zenon DEF EnvironmentStep
<1> QED BY <1>1, <1>2, <1>3, <1>4 DEF Next

\* A claim request's knowledge, the frozen context and the recognized chunks stay in
\* step, whatever other requests, damage, lapses and retries come between
\* (_restore_plan, _scan_restore, _mark_corrupt, claim_attempt, publish_checkpoint).
THEOREM RestoreInvariance == Spec => []RestoreInv
<1>1. RestoreInv /\ [Next]_vars => RestoreInv'
  BY NextRestore
<1> QED BY InitRestore, <1>1, PTL DEF Spec

\* The one-way mark of _mark_corrupt is only ever on a damaged checkpoint.
THEOREM MarksAreTrue == Spec => []MarksTrue
<1>1. RestoreInv => MarksTrue
  BY DEF RestoreInv, MarkRows
<1> QED BY RestoreInvariance, <1>1, PTL

\* A chunk keeps the output that was recognized first, no run recomputes a
\* recognized chunk, and a result names the recognized ones (recognize).
THEOREM ChunksAreKept == Spec => ChunksKept
<1>1. RestoreInv /\ RestoreInv' /\ [Next]_vars =>
        [Chunked => \A j \in Jobs :
           /\ Begins(recognized[j], recognized'[j])
           /\ state'[j] = "RUNNING" => Recognizable(j)'
           /\ state'[j] = "SUCCEEDED" => result'[j] = recognized'[j]]_vars
  <2> SUFFICES ASSUME RestoreInv, RestoreInv', Grows, Chunked, NEW j \in Jobs
               PROVE  /\ Begins(recognized[j], recognized'[j])
                      /\ state'[j] = "RUNNING" => Recognizable(j)'
                      /\ state'[j] = "SUCCEEDED" => result'[j] = recognized'[j]
    BY NextRestore
  <2>1. recognized[j] \in Seq(Nat) /\ recognized'[j] \in Seq(Nat)
    BY Zenon DEF RestoreInv, Types
  <2>2. Begins(recognized[j], recognized'[j]) /\ Chunked'
    BY Zenon DEF Grows, Chunked
  <2>3. RunRow(j)'
    BY DEF RestoreInv, JobRows, JobRow
  <2> QED BY <2>1, <2>2, <2>3 DEF RunRow
<1> QED BY RestoreInvariance, <1>1, PTL DEF Spec, ChunksKept

\* What a claim that is still live has chosen is the newest that fits.
LEMMA ChosenIsNewest ==
  ASSUME RestoreInv, NEW q \in RequestRow, Knows(q), q.phase = "CLAIM",
         Live(q.job, q.number), SamePlan(q)
  PROVE  Newest(q.job, q.selected)
<1> DEFINE fitting == {d \in Candidates(q.job) : Fits(d, arch)}
<1>1. q.arch = arch /\ Candidates(q.job) = q.plan \ q.marks
  BY Zenon DEF Knows, Asked, SamePlan
<1>2. fitting \subseteq q.todo
  BY <1>1 DEF Knows, Skipped
<1>3. CASE q.selected = NoCheckpoint
  <2>1. fitting = {}
    BY <1>2, <1>3, Zenon DEF Knows, Chosen
  <2> QED BY <1>3, <2>1 DEF Newest
<1>4. CASE q.selected # NoCheckpoint
  <2>1. q.selected \in fitting
    BY <1>1, <1>4, Zenon DEF Knows, Chosen, Planned
  <2>2. First(q.job, q.selected, fitting)
    BY <1>2, <1>4, Zenon DEF Knows, Chosen, First
  <2> QED BY <2>1, <2>2 DEF Newest
<1> QED BY <1>3, <1>4

\* Only the claim makes an attempt CLAIMED.
LEMMA OnlyClaimClaims ==
  ASSUME RestoreInv, Next, NEW j \in Jobs, state[j] = "CREATED", state'[j] = "CLAIMED"
  PROVE  \E r \in Requests : Claim(r) /\ request[r].job = j
<1>0. state \in [Jobs -> States]
  BY DEF RestoreInv, Types
<1>1. ASSUME NEW k \in Jobs, Dispatch(k) \/ Poll(k) PROVE FALSE
  BY <1>0, <1>1 DEF Dispatch, Poll
<1>2. ASSUME NEW r \in Requests, NEW k \in Jobs, Plan(r, k) PROVE FALSE
  BY <1>2 DEF Plan
<1>3. ASSUME NEW r \in Requests, Verify(r) \/ Mark(r) \/ ScanRecognized(r) \/ Drop(r) PROVE FALSE
  BY <1>3 DEF Verify, Mark, ScanRecognized, Drop
<1>4. ASSUME NEW r \in Requests, Claim(r) PROVE request[r].job = j
  BY <1>0, <1>4, Zenon DEF Claim
<1>5. ASSUME NEW k \in Jobs, FailLaunch(k) \/ Launch(k) \/ Start(k) \/ RefuseStart(k) PROVE FALSE
  BY <1>0, <1>5, EndedIs, Zenon DEF FailLaunch, Launch, Start, RefuseStart
<1>6. ASSUME NEW k \in Jobs, Compute(k) \/ Publish(k) \/ Complete(k) PROVE FALSE
  BY <1>0, <1>6, SMTT(30) DEF Compute, Publish, Complete
<1>7. ASSUME NEW k \in Jobs, Lapse(k) \/ FailRun(k) PROVE FALSE
  BY <1>0, <1>7, EndedIs, Zenon DEF Lapse, FailRun
<1>8. ASSUME NEW k \in Jobs, NEW source, NEW c, Retry(k, source, c) PROVE FALSE
  BY <1>0, <1>8, SMTT(30) DEF Retry
<1>9. ASSUME NEW b, Damage(b) \/ Reinventory(b) PROVE FALSE
  BY <1>9 DEF Damage, Reinventory
<1>10. ~RunStep
  BY <1>5, <1>6, <1>7, <1>8, Zenon DEF RunStep
<1>11. ~EnvironmentStep
  BY <1>9, Zenon DEF EnvironmentStep
<1>12. ClaimStep
  BY <1>10, <1>11, Zenon DEF Next
<1> QED BY <1>1, <1>2, <1>3, <1>4, <1>12, Zenon DEF ClaimStep

\* A claim freezes exactly the newest checkpoint that is not marked and fits the
\* worker, although it was chosen from snapshots that other requests, damage and
\* lost leases may have overtaken (claim_attempt with _restore_decision).
THEOREM RestoresNewest == Spec => RestoreIsNewest
<1>1. RestoreInv /\ [Next]_vars =>
        [\A j \in Jobs :
           state[j] = "CREATED" /\ state'[j] = "CLAIMED" => Newest(j, context'[j].restore)]_vars
  <2> SUFFICES ASSUME RestoreInv, Next, NEW j \in Jobs, state[j] = "CREATED", state'[j] = "CLAIMED"
               PROVE  Newest(j, context'[j].restore)
    OBVIOUS
  <2>1. PICK r \in Requests : Claim(r) /\ request[r].job = j
    BY OnlyClaimClaims
  <2>2. PICK q : q = request[r]
    OBVIOUS
  <2>3. /\ q \in RequestRow /\ Knows(q) /\ q.phase = "CLAIM" /\ q.job = j
        /\ Live(q.job, q.number) /\ SamePlan(q)
    BY <2>1, <2>2, KnownRow, SMTT(30) DEF Claim
  <2>4. context'[j].restore = q.selected
    <3>1. context \in [Jobs -> ContextRow]
      BY Zenon DEF RestoreInv, Types
    <3>2. context' = [context EXCEPT ![j] =
             [restore |-> q.selected, chunks |-> IF q.usable THEN q.chunks ELSE <<>>,
              usable |-> q.usable]]
      BY <2>1, <2>2, Zenon DEF Claim
    <3> QED BY <3>1, <3>2
  <2>5. Newest(q.job, q.selected)
    BY <2>3, ChosenIsNewest, Zenon
  <2> QED BY <2>3, <2>4, <2>5
<1> QED BY RestoreInvariance, <1>1, PTL DEF Spec, RestoreIsNewest
=============================================================================
