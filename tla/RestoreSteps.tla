----------------------------- MODULE RestoreSteps ------------------------------
(***************************************************************************)
(* The first half of the proofs about Restore: the inductive invariant,    *)
(* what no step undoes, and the steps of a run up to its computing, for    *)
(* any number of jobs, attempts, checkpoints and chunks.                   *)
(***************************************************************************)
EXTENDS Restore, TLAPS

-----------------------------------------------------------------------------
(* The inductive invariant *)

LiveStates == {"CREATED", "CLAIMED", "STARTING", "RUNNING"}
States == LiveStates \union {"ABSENT", "QUEUED", "SUCCEEDED", "FAILED"}
Phases == {"NONE", "VERIFY", "MARK", "MARKED", "CHUNKS", "CLAIM"}
Ids == (Jobs \union {NoJob}) \X Nat

CheckpointRow == [entries: Seq(Nat), arch: Architectures]
ContextRow == [restore: Ids, chunks: Seq(Nat), usable: BOOLEAN]
RequestRow ==
  [phase: Phases, job: Jobs \union {NoJob}, number: Nat, arch: Architectures \union {NoJob},
   plan: SUBSET Ids, todo: SUBSET Ids, marks: SUBSET Ids, rejected: SUBSET Architectures,
   selected: Ids, ids: Nat, chunks: Seq(Nat), usable: BOOLEAN]

Types ==
  /\ state \in [Jobs -> States] /\ number \in [Jobs -> Nat]
  /\ parent \in [Jobs -> Jobs \union {NoJob}] /\ ref \in [Jobs -> SUBSET Ids]
  /\ checkpoint \in [Jobs -> Seq(CheckpointRow)] /\ recognized \in [Jobs -> Seq(Nat)]
  /\ context \in [Jobs -> ContextRow] /\ made \in [Jobs -> Seq(Nat)]
  /\ result \in [Jobs -> Seq(Nat)] /\ request \in [Requests -> RequestRow]
  /\ arch \in Architectures /\ load \in Load /\ load.architectures \subseteq Architectures

\* A retry inherits at most one checkpoint, of a job it descends from; none of a
\* chunked job.
RefRow(j) ==
  \A c \in ref[j] :
    /\ ref[j] = {c} /\ c \in Checkpoints /\ c[1] # j
    /\ c[1] \in RetryLineage(j) /\ ~Chunked

AbsentRow(j) ==
  state[j] = "ABSENT" => checkpoint[j] = <<>> /\ parent[j] = NoJob /\ ref[j] = {}

\* What a checkpoint names was recognized with it.
NamedRow(j) ==
  Chunked => \A n \in DOMAIN checkpoint[j] : Begins(checkpoint[j][n].entries, recognized[j])

\* What the claim froze is all that was recognized.
FrozenRow(j) ==
  /\ context[j].restore # NoCheckpoint => context[j].restore \in Checkpoints
  /\ Chunked /\ state[j] \in {"CLAIMED", "STARTING"} /\ context[j].usable =>
       Entries(context[j].restore) \o context[j].chunks = recognized[j]
  /\ state[j] = "STARTING" => context[j].usable

\* A run stands on all that was recognized and adds to it; a result is all of it.
RunRow(j) ==
  Chunked =>
    /\ state[j] = "RUNNING" => Len(recognized[j]) <= Len(made[j]) /\ Recognizable(j)
    /\ state[j] = "SUCCEEDED" => result[j] = recognized[j]

JobRow(j) == RefRow(j) /\ AbsentRow(j) /\ NamedRow(j) /\ FrozenRow(j) /\ RunRow(j)
JobRows == \A j \in Jobs : JobRow(j)

\* What a claim request knows stays true while it works outside transactions.
Asked(q) ==
  /\ q.job \in Jobs /\ q.number <= number[q.job]
  /\ Live(q.job, q.number) => q.arch = arch

Planned(q) ==
  /\ q.plan \subseteq Restorable(q.job)
  /\ q.todo \subseteq q.plan /\ q.marks \subseteq q.plan \ q.todo

Damaged(q) == \A c \in q.marks : BlobsOf(c) \intersect lost # {}

Skipped(q) ==
  /\ q.arch \notin q.rejected
  /\ \A c \in q.plan \ q.todo : c \in q.marks \/ ~Fits(c, q.arch)

Chosen(q) ==
  /\ q.selected # NoCheckpoint =>
       /\ q.selected \in q.todo /\ Fits(q.selected, q.arch)
       /\ First(q.job, q.selected, q.todo)
       /\ Chunked => q.selected[1] = q.job
  /\ IF q.phase = "VERIFY" THEN q.selected = NoCheckpoint
     ELSE q.todo = {} \/ q.selected # NoCheckpoint

Carried(q) ==
  /\ q.ids <= Len(recognized[q.job])
  /\ Chunked /\ q.phase = "CLAIM" =>
       q.chunks = SubSeq(recognized[q.job], Len(Entries(q.selected)) + 1, q.ids)

Knows(q) == Asked(q) /\ Planned(q) /\ Damaged(q) /\ Skipped(q) /\ Chosen(q) /\ Carried(q)

ScanRow(r) == request[r].phase # "NONE" => Knows(request[r])

MarkRows == corrupt \subseteq Checkpoints /\ MarksTrue

RestoreInv == Types /\ JobRows /\ MarkRows /\ \A r \in Requests : ScanRow(r)

-----------------------------------------------------------------------------

(* Sequences and identifiers *)

LEMMA SeqSame ==
  ASSUME NEW s \in Seq(Nat), NEW t \in Seq(Nat), Len(s) = Len(t),
         \A i \in 1 .. Len(s) : s[i] = t[i]
  PROVE  s = t
  OBVIOUS

LEMMA ConcatFacts ==
  ASSUME NEW s \in Seq(Nat), NEW t \in Seq(Nat)
  PROVE  /\ s \o t \in Seq(Nat)
         /\ Len(s \o t) = Len(s) + Len(t)
         /\ \A i \in 1 .. Len(s) + Len(t) :
              (s \o t)[i] = IF i <= Len(s) THEN s[i] ELSE t[i - Len(s)]
  OBVIOUS

LEMMA SubSeqFacts ==
  ASSUME NEW s \in Seq(Nat), NEW m \in Nat, NEW n \in Nat, n <= Len(s)
  PROVE  /\ SubSeq(s, m + 1, n) \in Seq(Nat)
         /\ Len(SubSeq(s, m + 1, n)) = IF m <= n THEN n - m ELSE 0
         /\ \A i \in 1 .. n - m : SubSeq(s, m + 1, n)[i] = s[m + i]
<1> DEFINE a == m + 1  p == SubSeq(s, m + 1, n)
<1>1. a \in Nat \ {0} /\ n - a + 1 = n - m /\ (a <= n <=> m < n) /\ \A i \in Nat : a + i - 1 = m + i
  OBVIOUS
<1>2. p = SubSeq(s, a, n)
  OBVIOUS
<1> HIDE DEF a, p
<1>3. /\ p \in Seq(Nat)
      /\ Len(p) = IF a <= n THEN n - a + 1 ELSE 0
      /\ \A i \in 1 .. n - a + 1 : p[i] = s[a + i - 1]
  BY <1>1, <1>2
<1>4. Len(p) = IF m <= n THEN n - m ELSE 0
  BY <1>1, <1>3
<1>5. ASSUME NEW i \in 1 .. n - m PROVE p[i] = s[m + i]
  <2>1. i \in 1 .. n - a + 1 /\ a + i - 1 = m + i
    BY <1>1
  <2>2. p[i] = s[a + i - 1]
    BY <1>3, <2>1, Zenon
  <2> QED BY <2>1, <2>2
<1> QED BY <1>3, <1>4, <1>5 DEF p

\* Two sequences that agree up to n have the same parts up to n.
LEMMA SamePart ==
  ASSUME NEW s \in Seq(Nat), NEW t \in Seq(Nat), NEW m \in Nat, NEW n \in Nat,
         n <= Len(s), Begins(s, t)
  PROVE  SubSeq(s, m + 1, n) = SubSeq(t, m + 1, n)
<1> DEFINE p == SubSeq(s, m + 1, n)  q == SubSeq(t, m + 1, n)
<1>1. Len(s) \in Nat /\ Len(t) \in Nat
  OBVIOUS
<1>2. n <= Len(t) /\ \A i \in 1 .. n - m : m + i \in 1 .. Len(s)
  <2> DEFINE k == Len(s)  l == Len(t)
  <2>1. k \in Nat /\ l \in Nat /\ n <= k /\ k <= l
    BY <1>1 DEF Begins
  <2> HIDE DEF k, l
  <2>2. n <= l /\ \A i \in 1 .. n - m : m + i \in 1 .. k
    BY <2>1
  <2> QED BY <2>2 DEF k, l
<1>3. \A i \in 1 .. n - m : s[m + i] = t[m + i]
  BY <1>2 DEF Begins
<1>4. /\ p \in Seq(Nat) /\ Len(p) = (IF m <= n THEN n - m ELSE 0)
      /\ \A i \in 1 .. n - m : p[i] = s[m + i]
  BY SubSeqFacts
<1>5. /\ q \in Seq(Nat) /\ Len(q) = (IF m <= n THEN n - m ELSE 0)
      /\ \A i \in 1 .. n - m : q[i] = t[m + i]
  BY <1>2, SubSeqFacts, Zenon
<1> HIDE DEF p, q
<1>6. 1 .. Len(p) \subseteq 1 .. n - m
  BY <1>4
<1> QED BY <1>3, <1>4, <1>5, <1>6, SeqSame, Zenon DEF p, q

LEMMA BeginsOn ==
  ASSUME NEW s \in Seq(Nat), NEW t \in Seq(Nat), NEW u \in Seq(Nat), Begins(s, t), Begins(t, u)
  PROVE  Begins(s, u)
<1> QED BY DEF Begins

\* A beginning and the rest are the whole.
LEMMA RestIsAppended ==
  ASSUME NEW rec \in Seq(Nat), NEW done \in Seq(Nat), Begins(rec, done)
  PROVE  rec \o SubSeq(done, Len(rec) + 1, Len(done)) = done
<1> DEFINE rest == SubSeq(done, Len(rec) + 1, Len(done))
<1>2. /\ Len(rec) <= Len(done) /\ Len(rec) \in Nat /\ Len(done) \in Nat
      /\ \A i \in 1 .. Len(rec) : rec[i] = done[i]
  BY DEF Begins
<1>3. /\ rest \in Seq(Nat) /\ Len(rest) = Len(done) - Len(rec)
      /\ \A i \in 1 .. Len(done) - Len(rec) : rest[i] = done[Len(rec) + i]
  <2> DEFINE m == Len(rec)  n == Len(done)
  <2>1. m \in Nat /\ n \in Nat /\ n <= Len(done) /\ m <= n
    BY <1>2
  <2> HIDE DEF m, n
  <2>2. /\ SubSeq(done, m + 1, n) \in Seq(Nat) /\ Len(SubSeq(done, m + 1, n)) = n - m
        /\ \A i \in 1 .. n - m : SubSeq(done, m + 1, n)[i] = done[m + i]
    BY <2>1, SubSeqFacts
  <2> QED BY <2>2 DEF m, n
<1> HIDE DEF rest
<1>4. /\ rec \o rest \in Seq(Nat) /\ Len(rec \o rest) = Len(done)
      /\ \A i \in 1 .. Len(done) :
           (rec \o rest)[i] = IF i <= Len(rec) THEN rec[i] ELSE rest[i - Len(rec)]
  BY <1>2, <1>3, ConcatFacts, SMTT(30)
<1>5. ASSUME NEW i \in 1 .. Len(done), i > Len(rec)
      PROVE  rest[i - Len(rec)] = done[i]
  <2> DEFINE k == i - Len(rec)
  <2>1. k \in 1 .. Len(done) - Len(rec) /\ Len(rec) + k = i
    BY <1>2, <1>5
  <2>2. rest[k] = done[Len(rec) + k]
    <3> HIDE DEF k
    <3> QED BY <1>3, <2>1
  <2> QED BY <2>1, <2>2
<1>6. ASSUME NEW i \in 1 .. Len(done)
      PROVE  (rec \o rest)[i] = done[i]
  <2>0. (rec \o rest)[i] = IF i <= Len(rec) THEN rec[i] ELSE rest[i - Len(rec)]
    BY <1>4
  <2>1. CASE i <= Len(rec)
    <3>1. i \in 1 .. Len(rec)
      BY <1>2, <2>1
    <3>2. rec[i] = done[i]
      BY <1>2, <3>1
    <3> QED BY <2>0, <2>1, <3>2
  <2>2. CASE i > Len(rec)
    <3>1. ~(i <= Len(rec))
      BY <1>2, <2>2
    <3>2. rest[i - Len(rec)] = done[i]
      BY <1>5, <2>2
    <3> QED BY <2>0, <3>1, <3>2
  <2>3. i <= Len(rec) \/ i > Len(rec)
    BY <1>2
  <2> QED BY <2>1, <2>2, <2>3, Zenon
<1>7. rec \o rest = done
  BY <1>4, <1>6, SeqSame, Zenon
<1> QED BY <1>7, Zenon DEF rest

\* A checkpoint, and what is recorded of it.
LEMMA CheckpointFacts ==
  ASSUME Types, NEW c \in Checkpoints
  PROVE  /\ c[1] \in Jobs /\ c[2] \in DOMAIN checkpoint[c[1]] /\ c = <<c[1], c[2]>>
         /\ c \in Ids /\ c # NoCheckpoint
         /\ Record(c) \in CheckpointRow /\ Entries(c) \in Seq(Nat) /\ Entries(c) = Record(c).entries
<1>0. PICK j \in Jobs : c \in Own(j)
  BY DEF Checkpoints
<1>1. PICK n \in DOMAIN checkpoint[j] : c = <<j, n>>
  BY <1>0 DEF Own
<1>2. checkpoint[j] \in Seq(CheckpointRow)
  BY DEF Types
<1>3. n \in Nat /\ checkpoint[j][n] \in CheckpointRow
  BY <1>2
<1>4. c # NoCheckpoint
  BY <1>1, RestoreAssumption DEF NoCheckpoint
<1> QED BY <1>1, <1>3, <1>4 DEF Ids, Record, Entries, CheckpointRow

LEMMA OwnFacts ==
  ASSUME NEW j \in Jobs, NEW c \in Own(j)
  PROVE  c \in Checkpoints /\ c[1] = j
<1> QED BY DEF Own, Checkpoints

LEMMA CheckpointIsOwn ==
  ASSUME Types, NEW c \in Checkpoints
  PROVE  c \in Own(c[1])
<1> QED BY CheckpointFacts DEF Own

\* What a job may restore from exists.
LEMMA RestorableExists ==
  ASSUME JobRows, NEW j \in Jobs
  PROVE  Restorable(j) \subseteq Checkpoints
<1> QED BY OwnFacts DEF JobRows, JobRow, RefRow, Restorable

-----------------------------------------------------------------------------
(* What no step undoes *)

\* Checkpoints, references, recognized chunks and lost blobs only accumulate; an
\* attempt that has ended stays so, and the worker's inventory changes between them.
Grows ==
  /\ load' = load /\ lost \subseteq lost'
  /\ \A j \in Jobs :
       /\ number'[j] >= number[j]
       /\ number'[j] = number[j] /\ state'[j] \in LiveStates =>
            state[j] \in LiveStates /\ arch' = arch
       /\ ref[j] \subseteq ref'[j]
       /\ Begins(checkpoint[j], checkpoint'[j])
       /\ Begins(recognized[j], recognized'[j])

LEMMA CheckpointKept ==
  ASSUME Types, Types', Grows, NEW c \in Checkpoints
  PROVE  /\ c \in Checkpoints' /\ Record(c)' = Record(c) /\ Entries(c)' = Entries(c)
         /\ BlobsOf(c)' = BlobsOf(c)
<1>1. c[1] \in Jobs /\ c[2] \in DOMAIN checkpoint[c[1]] /\ c = <<c[1], c[2]>>
  BY CheckpointFacts
<1>2. checkpoint[c[1]] \in Seq(CheckpointRow) /\ checkpoint'[c[1]] \in Seq(CheckpointRow)
  BY <1>1 DEF Types
<1>3. c[2] \in DOMAIN checkpoint'[c[1]] /\ checkpoint'[c[1]][c[2]] = checkpoint[c[1]][c[2]]
  BY <1>1, <1>2 DEF Grows, Begins
<1>4. c \in Checkpoints'
  BY <1>1, <1>3 DEF Checkpoints, Own
<1>5. Record(c)' = Record(c) /\ Entries(c)' = Entries(c)
  BY <1>3 DEF Record, Entries
<1>6. Chunked' = Chunked
  BY DEF Grows, Chunked
<1>7. ChunksOf(c)' = ChunksOf(c)
  BY <1>5, <1>6 DEF ChunksOf
<1> QED BY <1>4, <1>5, <1>7 DEF BlobsOf, Manifest, StateFile

\* The retries that a job descends from stay.
LEMMA LineageKept ==
  ASSUME NEW j \in Jobs, \A k \in Jobs : parent'[k] = parent[k] \/ parent[k] = NoJob
  PROVE  RetryLineage(j) \subseteq RetryLineage(j)'
<1>1. \A S \in SUBSET Jobs : RetryClosed(S)' => RetryClosed(S)
  BY DEF RetryClosed
<1> QED BY <1>1 DEF RetryLineage

\* What a request knows outlives every step.
LEMMA KnowsKept ==
  ASSUME RestoreInv, Types', Grows, NEW q \in RequestRow, Knows(q)
  PROVE  Knows(q)'
<1>0. Asked(q) /\ Planned(q) /\ Damaged(q) /\ Skipped(q) /\ Chosen(q) /\ Carried(q)
  BY DEF Knows
<1>j. q.job \in Jobs
  BY <1>0 DEF Asked
<1>p. q.plan \subseteq Checkpoints /\ q.todo \subseteq Checkpoints /\ q.marks \subseteq Checkpoints
  BY <1>0, <1>j, RestorableExists DEF Planned, RestoreInv
<1>c. \A c \in q.plan : /\ Record(c)' = Record(c) /\ Entries(c)' = Entries(c)
                        /\ BlobsOf(c)' = BlobsOf(c)
  BY <1>p, CheckpointKept DEF RestoreInv
<1>1. Asked(q)'
  BY <1>0, <1>j DEF Asked, Live, Grows, LiveStates, RestoreInv, Types, RequestRow
<1>2. Planned(q)'
  <2>1. Restorable(q.job) \subseteq Restorable(q.job)'
    <3>1. Own(q.job) \subseteq Own(q.job)'
      BY <1>j DEF Own, Grows, Begins, RestoreInv, Types
    <3> QED BY <1>j, <3>1 DEF Restorable, Grows
  <2> QED BY <1>0, <2>1 DEF Planned
<1>3. Damaged(q)'
  BY <1>0, <1>c DEF Damaged, Planned, Grows
<1>4. Skipped(q)'
  BY <1>0, <1>c DEF Skipped, Fits
<1>5. Chosen(q)'
  BY <1>0, <1>c DEF Chosen, Planned, Fits, First, Precedes, Grows, Chunked
<1>6. Carried(q)'
  <2>1. Entries(q.selected)' = Entries(q.selected)
    BY <1>0, <1>c DEF Chosen, Planned, Entries
  <2>2. Begins(recognized[q.job], recognized'[q.job]) /\ q.ids \in Nat
        /\ recognized[q.job] \in Seq(Nat) /\ recognized'[q.job] \in Seq(Nat)
    BY <1>j, SMTT(30) DEF Grows, RestoreInv, Types, RequestRow
  <2>3. q.ids <= Len(recognized[q.job]) /\ q.ids <= Len(recognized'[q.job])
    BY <1>0, <2>2 DEF Carried, Begins
  <2>4. \A m \in Nat : SubSeq(recognized'[q.job], m + 1, q.ids) = SubSeq(recognized[q.job], m + 1, q.ids)
    BY <2>2, <2>3, SamePart, Zenon
  <2>5. Len(Entries(q.selected)) \in Nat
    BY <1>0, <1>p, CheckpointFacts DEF Chosen, Entries, RestoreInv
  <2> QED BY <1>0, <2>1, <2>3, <2>4, <2>5, Zenon DEF Carried, Grows, Chunked
<1> QED BY <1>1, <1>2, <1>3, <1>4, <1>5, <1>6 DEF Knows

\* A request whose row is q.
LEMMA RowScan ==
  ASSUME NEW r \in Requests, NEW q, request'[r] = q, Knows(q)'
  PROVE  ScanRow(r)'
<1>1. Asked(request[r])' /\ Planned(request[r])' /\ Damaged(request[r])'
  BY DEF Knows, Asked, Planned, Damaged
<1>2. Skipped(request[r])' /\ Chosen(request[r])' /\ Carried(request[r])'
  BY DEF Knows, Skipped, Chosen, Carried
<1> QED BY <1>1, <1>2 DEF ScanRow, Knows

LEMMA ScanKept ==
  ASSUME RestoreInv, Types', Grows, NEW r \in Requests, request'[r] = request[r]
  PROVE  ScanRow(r)'
<1>1. PICK q \in RequestRow : q = request[r]
  BY DEF RestoreInv, Types
<1>2. CASE q.phase = "NONE"
  BY <1>1, <1>2 DEF ScanRow
<1>3. CASE q.phase # "NONE"
  <2>1. Knows(q)
    BY <1>1, <1>3 DEF RestoreInv, ScanRow
  <2>2. Knows(q)'
    BY <2>1, KnowsKept
  <2> QED BY <1>1, <2>2, RowScan
<1> QED BY <1>2, <1>3

-----------------------------------------------------------------------------
(* Jobs that a step leaves alone *)

\* Only a job without a parent is given one.
ParentsStay == \A k \in Jobs : parent'[k] = parent[k] \/ parent[k] = NoJob

Quiet(j) ==
  /\ state'[j] = state[j] /\ number'[j] = number[j] /\ parent'[j] = parent[j] /\ ref'[j] = ref[j]
  /\ checkpoint'[j] = checkpoint[j] /\ recognized'[j] = recognized[j]
  /\ context'[j] = context[j] /\ made'[j] = made[j] /\ result'[j] = result[j]

LEMMA RefKept ==
  ASSUME RestoreInv, Types', Grows, ParentsStay, NEW j \in Jobs, ref'[j] = ref[j]
  PROVE  RefRow(j)'
<1>1. RefRow(j) /\ Chunked' = Chunked
  BY DEF RestoreInv, JobRows, JobRow, Grows, Chunked
<1>2. RetryLineage(j) \subseteq RetryLineage(j)'
  BY LineageKept DEF ParentsStay
<1>3. \A c \in Checkpoints : c \in Checkpoints'
  BY CheckpointKept DEF RestoreInv
<1> QED BY <1>1, <1>2, <1>3 DEF RefRow

\* What a checkpoint names stays recognized.
LEMMA NamedKept ==
  ASSUME RestoreInv, Types', Grows, NEW j \in Jobs, checkpoint'[j] = checkpoint[j]
  PROVE  NamedRow(j)'
<1> SUFFICES ASSUME Chunked, NEW n \in DOMAIN checkpoint[j]
             PROVE  Begins(checkpoint[j][n].entries, recognized'[j])
  BY DEF NamedRow, Grows, Chunked
<1>1. Begins(checkpoint[j][n].entries, recognized[j]) /\ Begins(recognized[j], recognized'[j])
  BY DEF RestoreInv, JobRows, JobRow, NamedRow, Grows
<1>2. checkpoint[j][n] \in CheckpointRow /\ recognized[j] \in Seq(Nat) /\ recognized'[j] \in Seq(Nat)
  BY DEF RestoreInv, Types
<1>3. checkpoint[j][n].entries \in Seq(Nat)
  BY <1>2 DEF CheckpointRow
<1> QED BY <1>1, <1>2, <1>3 DEF Begins

\* What a claim froze stays what the attempt takes over until it runs.
LEMMA FrozenKept ==
  ASSUME RestoreInv, Types', Grows, NEW j \in Jobs, context'[j] = context[j],
         state'[j] \in {"CLAIMED", "STARTING"} =>
           state[j] \in {"CLAIMED", "STARTING"} /\ recognized'[j] = recognized[j],
         state'[j] = "STARTING" => context[j].usable
  PROVE  FrozenRow(j)'
<1>1. FrozenRow(j) /\ Chunked' = Chunked
  BY DEF RestoreInv, JobRows, JobRow, Grows, Chunked
<1>2. CASE context[j].restore = NoCheckpoint
  BY <1>1, <1>2 DEF FrozenRow, Entries
<1>3. CASE context[j].restore # NoCheckpoint
  <2>1. PICK c \in Checkpoints : c = context[j].restore
    BY <1>1, <1>3 DEF FrozenRow
  <2>2. c \in Checkpoints' /\ Record(c)' = Record(c)
    BY CheckpointKept DEF RestoreInv
  <2>3. Entries(context[j].restore) = Record(c).entries
    BY <1>3, <2>1 DEF Entries
  <2>4. Entries(context[j].restore)' = Record(c)'.entries
    BY <1>3, <2>1 DEF Entries, Record
  <2>5. context'[j].restore \in Checkpoints'
    BY <2>1, <2>2
  <2> QED BY <1>1, <2>2, <2>3, <2>4, <2>5, Zenon DEF FrozenRow
<1> QED BY <1>2, <1>3

LEMMA QuietKept ==
  ASSUME RestoreInv, Types', Grows, ParentsStay, NEW j \in Jobs, Quiet(j)
  PROVE  JobRow(j)'
<1>0. JobRow(j) /\ Chunked' = Chunked
  BY DEF RestoreInv, JobRows, Grows, Chunked
<1>1. RefRow(j)'
  BY RefKept DEF Quiet
<1>2. AbsentRow(j)'
  BY <1>0 DEF Quiet, JobRow, AbsentRow
<1>3. NamedRow(j)'
  BY NamedKept, SMTT(30) DEF Quiet
<1>4. FrozenRow(j)'
  BY <1>0, FrozenKept, Zenon DEF Quiet, JobRow, FrozenRow
<1>5. RunRow(j)'
  BY <1>0 DEF Quiet, JobRow, RunRow, Recognizable
<1> QED BY <1>1, <1>2, <1>3, <1>4, <1>5 DEF JobRow

\* Marks stay true, and a new one is of a damaged checkpoint.
LEMMA MarksKept ==
  ASSUME RestoreInv, Types', Grows,
         \A c \in corrupt' : c \in corrupt \/ (c \in Checkpoints /\ BlobsOf(c) \intersect lost # {})
  PROVE  MarkRows'
<1>1. \A c \in corrupt' : c \in Checkpoints /\ BlobsOf(c) \intersect lost # {}
  BY DEF RestoreInv, MarkRows, MarksTrue
<1>2. \A c \in corrupt' : c \in Checkpoints' /\ BlobsOf(c)' = BlobsOf(c)
  BY <1>1, CheckpointKept DEF RestoreInv
<1> QED BY <1>1, <1>2 DEF MarkRows, MarksTrue, Grows

\* A step that works on one job.
LEMMA JobStepKeeps ==
  ASSUME RestoreInv, Types', Grows, ParentsStay, NEW j \in Jobs, JobRow(j)',
         \A k \in Jobs \ {j} : Quiet(k), corrupt' = corrupt, request' = request
  PROVE  RestoreInv'
<1>1. JobRows'
  BY QuietKept DEF JobRows
<1>2. MarkRows'
  BY MarksKept
<1>3. \A r \in Requests : ScanRow(r)'
  BY ScanKept
<1> QED BY <1>1, <1>2, <1>3 DEF RestoreInv

\* A step that works on one claim request.
LEMMA RequestStepKeeps ==
  ASSUME RestoreInv, Types', Grows, ParentsStay, \A k \in Jobs : Quiet(k),
         \A c \in corrupt' : c \in corrupt \/ (c \in Checkpoints /\ BlobsOf(c) \intersect lost # {}),
         NEW r \in Requests, \A s \in Requests \ {r} : request'[s] = request[s], ScanRow(r)'
  PROVE  RestoreInv'
<1>1. JobRows'
  BY QuietKept DEF JobRows
<1>2. MarkRows'
  BY MarksKept
<1>3. \A s \in Requests \ {r} : ScanRow(s)'
  BY ScanKept
<1> QED BY <1>1, <1>2, <1>3 DEF RestoreInv

-----------------------------------------------------------------------------
(* The run *)

LEMMA BeginsItself ==
  ASSUME Types, NEW j \in Jobs
  PROVE  Begins(checkpoint[j], checkpoint[j]) /\ Begins(recognized[j], recognized[j])
<1>1. checkpoint[j] \in Seq(CheckpointRow) /\ recognized[j] \in Seq(Nat)
  BY DEF Types
<1> QED BY <1>1 DEF Begins

\* A step that dispatches nothing and only adds.
LEMMA GrowsBy ==
  ASSUME Types, UNCHANGED <<number, load, arch>>, lost \subseteq lost',
         \A k \in Jobs : /\ state'[k] \in LiveStates => state[k] \in LiveStates
                         /\ ref[k] \subseteq ref'[k]
                         /\ Begins(checkpoint[k], checkpoint'[k])
                         /\ Begins(recognized[k], recognized'[k])
  PROVE  Grows
<1>1. \A k \in Jobs : number[k] \in Nat
  BY DEF Types
<1>2. \A k \in Jobs : number'[k] >= number[k]
  BY <1>1
<1> QED BY <1>2, Zenon DEF Grows

\* An attempt ends or goes on to start its container.
LEMMA StateStep ==
  ASSUME RestoreInv, NEW j \in Jobs, NEW s, state' = [state EXCEPT ![j] = s],
         state[j] \in LiveStates,
         s \in {"QUEUED", "FAILED"} \/ (state[j] = "CLAIMED" /\ s = "STARTING" /\ context[j].usable),
         UNCHANGED <<number, lineage, checkpoint, corrupt, recognized, context, made, result,
                     request, store, load>>
  PROVE  Grows /\ RestoreInv'
<1>0. Types /\ state'[j] = s /\ (\A k \in Jobs \ {j} : state'[k] = state[k]) /\ JobRow(j)
  BY DEF RestoreInv, Types, JobRows
<1>c. UNCHANGED <<number, parent, ref, checkpoint, recognized, context, made, result, corrupt,
                  request, lost, arch, load>>
  BY DEF lineage, store
<1>1. Types'
  <2>1. state' \in [Jobs -> States]
    BY <1>0 DEF Types, States, LiveStates
  <2> QED BY <1>0, <1>c, <2>1, Zenon DEF Types
<1>2. Grows
  <2>1. \A k \in Jobs : state'[k] \in LiveStates => state[k] \in LiveStates
    BY <1>0
  <2> QED BY <1>0, <1>c, <2>1, BeginsItself, GrowsBy, Zenon
<1>3. \A k \in Jobs \ {j} : Quiet(k)
  BY <1>0, <1>c, Zenon DEF Quiet
<1>4. ParentsStay
  BY <1>c, Zenon DEF ParentsStay
<1>5. JobRow(j)'
  <2>1. RefRow(j)'
    BY <1>1, <1>2, <1>4, <1>c, RefKept, Zenon
  <2>2. AbsentRow(j)' /\ RunRow(j)'
    BY <1>0 DEF AbsentRow, RunRow
  <2>3. NamedRow(j)'
    BY <1>1, <1>2, NamedKept
  <2>4. FrozenRow(j)'
    BY <1>0, <1>1, <1>2, FrozenKept
  <2> QED BY <2>1, <2>2, <2>3, <2>4 DEF JobRow
<1> QED BY <1>1, <1>2, <1>3, <1>4, <1>5, JobStepKeeps

LEMMA EndedIs == ASSUME NEW j, NEW i PROVE Ended(j, i) \in {"QUEUED", "FAILED"}
<1> QED BY DEF Ended

LEMMA FailLaunchKeeps ==
  ASSUME RestoreInv, NEW j \in Jobs, FailLaunch(j), UNCHANGED load
  PROVE  Grows /\ RestoreInv'
<1>1. state[j] \in LiveStates
  BY DEF FailLaunch, LiveStates
<1> QED BY <1>1, EndedIs, StateStep, Zenon DEF FailLaunch

LEMMA LaunchKeeps ==
  ASSUME RestoreInv, NEW j \in Jobs, Launch(j), UNCHANGED load
  PROVE  Grows /\ RestoreInv'
<1>1. state[j] \in LiveStates /\ context[j].usable
  BY DEF Launch, LiveStates, Unavailable, ChunksUnavailable
<1> QED BY <1>1, StateStep, Zenon DEF Launch

LEMMA RefuseStartKeeps ==
  ASSUME RestoreInv, NEW j \in Jobs, RefuseStart(j), UNCHANGED load
  PROVE  Grows /\ RestoreInv'
<1>1. state[j] \in LiveStates
  BY DEF RefuseStart, LiveStates
<1> QED BY <1>1, EndedIs, StateStep, Zenon DEF RefuseStart

LEMMA LapseKeeps ==
  ASSUME RestoreInv, NEW j \in Jobs, Lapse(j), UNCHANGED load
  PROVE  Grows /\ RestoreInv'
<1>1. state[j] \in LiveStates
  BY DEF Lapse, Live, LiveStates
<1> QED BY <1>1, EndedIs, StateStep, Zenon DEF Lapse

LEMMA FailRunKeeps ==
  ASSUME RestoreInv, NEW j \in Jobs, FailRun(j), UNCHANGED load
  PROVE  Grows /\ RestoreInv'
<1>1. state[j] \in LiveStates
  BY DEF FailRun, LiveStates
<1> QED BY <1>1, EndedIs, StateStep, Zenon DEF FailRun

LEMMA DispatchKeeps ==
  ASSUME RestoreInv, NEW j \in Jobs, Dispatch(j), UNCHANGED load
  PROVE  Grows /\ RestoreInv'
<1>0. /\ Types /\ JobRow(j) /\ state'[j] = "CREATED" /\ number'[j] = number[j] + 1
      /\ context'[j] = NoContext /\ number[j] \in Nat
      /\ \A k \in Jobs \ {j} : state'[k] = state[k] /\ number'[k] = number[k]
                               /\ context'[k] = context[k] /\ made'[k] = made[k]
  BY Zenon DEF RestoreInv, Types, JobRows, Dispatch
<1>c. UNCHANGED <<parent, ref, checkpoint, recognized, result, corrupt, request, lost, arch, load>>
  BY Zenon DEF Dispatch, lineage, store
<1>1. Types'
  <2>1. NoContext \in ContextRow /\ <<>> \in Seq(Nat)
    BY DEF NoContext, NoCheckpoint, ContextRow, Ids
  <2>2. state' \in [Jobs -> States] /\ number' \in [Jobs -> Nat]
    BY <1>0 DEF Dispatch, Types, States, LiveStates
  <2>3. context' \in [Jobs -> ContextRow] /\ made' \in [Jobs -> Seq(Nat)]
    BY <1>0, <2>1 DEF Dispatch, Types
  <2> QED BY <1>0, <1>c, <2>2, <2>3, Zenon DEF Types
<1>2. Grows
  <2>1. \A k \in Jobs : number[k] \in Nat
    BY <1>0 DEF Types
  <2>2. \A k \in Jobs : /\ number'[k] >= number[k]
                        /\ number'[k] = number[k] => k # j
    BY <1>0, <2>1
  <2> QED BY <1>0, <1>c, <2>2, BeginsItself, Zenon DEF Grows
<1>3. \A k \in Jobs \ {j} : Quiet(k)
  BY <1>0, <1>c, Zenon DEF Quiet
<1>4. ParentsStay
  BY <1>c, Zenon DEF ParentsStay
<1>5. JobRow(j)'
  <2>1. RefRow(j)'
    BY <1>1, <1>2, <1>4, <1>c, RefKept, Zenon
  <2>2. AbsentRow(j)' /\ RunRow(j)'
    BY <1>0 DEF AbsentRow, RunRow
  <2>3. NamedRow(j)'
    BY <1>1, <1>2, <1>c, NamedKept, Zenon
  <2>4. FrozenRow(j)'
    BY <1>0 DEF FrozenRow, NoContext
  <2> QED BY <2>1, <2>2, <2>3, <2>4 DEF JobRow
<1> QED BY <1>1, <1>2, <1>3, <1>4, <1>5, <1>c, JobStepKeeps, Zenon

\* What the container takes over is a sequence, and all that was recognized.
LEMMA TakenOverFacts ==
  ASSUME RestoreInv, NEW j \in Jobs, state[j] = "STARTING"
  PROVE  /\ TakenOver(LaunchSpec(j)) \in Seq(Nat)
         /\ Chunked => TakenOver(LaunchSpec(j)) = recognized[j]
<1>1. FrozenRow(j) /\ context[j] \in ContextRow
  BY SMTT(30) DEF RestoreInv, JobRows, JobRow, Types
<1>2. Entries(context[j].restore) \in Seq(Nat)
  <2>1. CASE context[j].restore = NoCheckpoint
    BY <2>1 DEF Entries
  <2>2. CASE context[j].restore # NoCheckpoint
    BY <1>1, <2>2, CheckpointFacts DEF FrozenRow, RestoreInv
  <2> QED BY <2>1, <2>2
<1>3. context[j].chunks \in Seq(Nat)
  BY <1>1 DEF ContextRow
<1>4. Entries(context[j].restore) \o context[j].chunks \in Seq(Nat)
  BY <1>2, <1>3
<1>5. TakenOver(LaunchSpec(j)) = Entries(context[j].restore) \o context[j].chunks
  BY Zenon DEF TakenOver, LaunchSpec
<1>6. Chunked => Entries(context[j].restore) \o context[j].chunks = recognized[j]
  BY <1>1, Zenon DEF FrozenRow
<1> QED BY <1>4, <1>5, <1>6, Zenon

LEMMA StartKeeps ==
  ASSUME RestoreInv, NEW j \in Jobs, Start(j), UNCHANGED load
  PROVE  Grows /\ RestoreInv'
<1>0. /\ Types /\ JobRow(j) /\ state[j] = "STARTING" /\ state'[j] = "RUNNING"
      /\ made'[j] = TakenOver(LaunchSpec(j)) /\ recognized' = recognized
      /\ \A k \in Jobs \ {j} : state'[k] = state[k] /\ made'[k] = made[k]
  BY Zenon DEF RestoreInv, Types, JobRows, Start
<1>c. UNCHANGED <<number, parent, ref, checkpoint, recognized, context, result, corrupt, request,
                  lost, arch, load>>
  BY Zenon DEF Start, lineage, store
<1>1. Types'
  <2>1. state' \in [Jobs -> States]
    BY <1>0 DEF Start, Types, States, LiveStates
  <2>2. made' \in [Jobs -> Seq(Nat)]
    BY <1>0, TakenOverFacts DEF Start, Types
  <2> QED BY <1>0, <1>c, <2>1, <2>2, Zenon DEF Types
<1>2. Grows
  <2>1. \A k \in Jobs : state'[k] \in LiveStates => state[k] \in LiveStates
    BY <1>0 DEF LiveStates
  <2> QED BY <1>0, <1>c, <2>1, BeginsItself, GrowsBy, Zenon
<1>3. \A k \in Jobs \ {j} : Quiet(k)
  BY <1>0, <1>c, Zenon DEF Quiet
<1>4. ParentsStay
  BY <1>c, Zenon DEF ParentsStay
<1>5. JobRow(j)'
  <2>1. RefRow(j)'
    BY <1>1, <1>2, <1>4, <1>c, RefKept, Zenon
  <2>2. AbsentRow(j)'
    BY <1>0 DEF AbsentRow
  <2>3. NamedRow(j)'
    BY <1>1, <1>2, <1>c, NamedKept, Zenon
  <2>4. FrozenRow(j)'
    BY <1>0, <1>1, <1>2, <1>c, FrozenKept, Zenon
  <2>5. RunRow(j)'
    <3>1. Chunked => made'[j] = recognized[j]
      BY <1>0, TakenOverFacts
    <3>2. recognized[j] \in Seq(Nat)
      BY <1>0 DEF Types
    <3>3. Chunked' = Chunked
      BY DEF Chunked
    <3> QED BY <1>0, <3>1, <3>2, <3>3 DEF RunRow, Recognizable
  <2> QED BY <2>1, <2>2, <2>3, <2>4, <2>5 DEF JobRow
<1> QED BY <1>1, <1>2, <1>3, <1>4, <1>5, <1>c, JobStepKeeps, Zenon

LEMMA ComputeKeeps ==
  ASSUME RestoreInv, NEW j \in Jobs, Compute(j), UNCHANGED load
  PROVE  Grows /\ RestoreInv'
<1> DEFINE unit == IF Chunked THEN number[j] ELSE 0
<1>0. /\ Types /\ JobRow(j) /\ state[j] = "RUNNING" /\ made'[j] = Append(made[j], unit)
      /\ made[j] \in Seq(Nat) /\ recognized[j] \in Seq(Nat) /\ number[j] \in Nat /\ unit \in Nat
      /\ \A k \in Jobs \ {j} : made'[k] = made[k]
      /\ made \in [Jobs -> Seq(Nat)] /\ made' = [made EXCEPT ![j] = Append(made[j], unit)]
  BY DEF RestoreInv, Types, JobRows, Compute
<1>c. UNCHANGED <<state, number, parent, ref, checkpoint, recognized, context, result, corrupt,
                  request, lost, arch, load>>
  BY Zenon DEF Compute, lineage, store
<1>1. Types'
  <2>1. Append(made[j], unit) \in Seq(Nat)
    BY <1>0
  <2>2. made' \in [Jobs -> Seq(Nat)]
    BY <1>0, <2>1, Zenon
  <2> QED BY <1>0, <1>c, <2>2, Zenon DEF Types
<1>2. Grows
  BY <1>0, <1>c, BeginsItself, GrowsBy, Zenon
<1>3. \A k \in Jobs \ {j} : Quiet(k)
  BY <1>0, <1>c DEF Quiet
<1>4. ParentsStay
  BY <1>c DEF ParentsStay
<1>5. JobRow(j)'
  <2>1. RefRow(j)'
    BY <1>1, <1>2, <1>4, <1>c, RefKept
  <2>2. AbsentRow(j)'
    BY <1>0, <1>c DEF AbsentRow
  <2>3. NamedRow(j)'
    BY <1>1, <1>2, <1>c, NamedKept
  <2>4. FrozenRow(j)'
    BY <1>0, <1>1, <1>2, <1>c, FrozenKept
  <2>5. RunRow(j)'
    <3> SUFFICES ASSUME Chunked PROVE Len(recognized[j]) <= Len(made'[j]) /\ Recognizable(j)'
      BY <1>0, <1>c DEF RunRow, Chunked
    <3>1. Len(recognized[j]) <= Len(made[j]) /\ Recognizable(j)
      BY <1>0 DEF JobRow, RunRow
    <3>2. /\ Len(made'[j]) = Len(made[j]) + 1 /\ made'[j] \in Seq(Nat)
          /\ \A i \in 1 .. Len(made'[j]) :
               made'[j][i] = IF i <= Len(made[j]) THEN made[j][i] ELSE number[j]
      BY <1>0
    <3> QED BY <1>0, <1>c, <3>1, <3>2, SMTT(30) DEF Recognizable
  <2> QED BY <2>1, <2>2, <2>3, <2>4, <2>5 DEF JobRow
<1> QED BY <1>1, <1>2, <1>3, <1>4, <1>5, <1>c, JobStepKeeps, Zenon
=============================================================================
