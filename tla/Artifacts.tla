------------------------------- MODULE Artifacts -------------------------------
(***************************************************************************)
(* Artifact uploads and storage collection: the upload request of a user   *)
(* or of a worker from its reservation to its metadata row, the files it   *)
(* leaves under staging/ and committed/, the expiry of abandoned upload    *)
(* sessions, and the passes of the storage GC that run beside it.          *)
(*                                                                         *)
(* A step is one PostgreSQL transaction, one file operation or one event   *)
(* of the client.  A staged key and a blob key are fresh for each upload,  *)
(* so a file is named by the upload that wrote it.  Ages count clock ticks *)
(* and stop growing once they are past their time to live.                 *)
(***************************************************************************)
EXTENDS Integers, Sequences, FiniteSets

CONSTANTS
  Requests,     \* what clients send: [by, key, phases, content, size]
  Uploads,      \* upload ids, 1..n in order of arrival: bounds the requests sent
  Quota,        \* tenant_artifact_quota_bytes
  StagingTtl,   \* staging_ttl_seconds, in ticks
  OrphanTtl,    \* orphan_ttl_seconds, in ticks
  MaxChanges,   \* bound: changes of the caller's scope
  MaxCrashes    \* bound: restarts of the API process

ASSUME RequestAssumption ==
  \A r \in Requests : r.by \in {"user", "worker"} /\ r.size \in Nat
ASSUME UploadAssumption == Uploads \subseteq Nat /\ IsFiniteSet(Uploads)
ASSUME QuotaAssumption == Quota \in Nat
ASSUME TtlAssumption == StagingTtl \in Nat /\ OrphanTtl \in Nat

VARIABLES
  up,        \* the upload() call of each request
  sessions,  \* upload_sessions: upload -> [state, size, age]
  records,   \* idempotency_records of the uploads: key -> row
  arts,      \* artifacts: upload that inserted the row -> [content, size]
  acked,     \* what clients were told: <<key, artifact>> of every 201
  refs,      \* artifact_references of purpose ATTEMPT_UPLOAD: <<artifact, upload>>
  counter,   \* artifact_storage_counters of the tenant
  staging,   \* files under staging/: upload -> [age, gen]
  blobs,     \* files under committed/: upload -> [age, content]
  handles,   \* FilesystemArtifactStore._active
  gc,        \* the GC pass of this process, and whether a step of it was cut short
  scope,     \* what _authorize finds: membership, attempt phase and grant
  changes, crashes

tables == <<sessions, records, arts, refs, counter>>
files == <<staging, blobs, handles>>
around == <<scope, changes, crashes>>
storeVars == <<up, acked, tables, files, gc, around>>

Unread == "none"
Pending == << >>
Refused == <<"error">>
Created(answer) == answer # Pending /\ answer[1] = "created"

\* What statvfs may show whenever it is called: below the watermarks, past the high
\* one, past the critical one, or an error.
Levels == {"low", "high", "critical", "down"}

NoCall == [at |-> "IDLE", req |-> << >>, grant |-> 0, level |-> Unread, good |-> FALSE]

\* Tables and directories are functions of the uploads that have an entry.
NoRows == [u \in {} |-> 0]
Put(rows, u, row) == [v \in DOMAIN rows \cup {u} |-> IF v = u THEN row ELSE rows[v]]
Only(rows, S) == [v \in S |-> rows[v]]
Without(rows, u) == Only(rows, DOMAIN rows \ {u})

\* The bytes of some rows.  A sum is counted here byte by byte: a row contributes
\* as many elements as its size says.
ByteSet(rows, S) == UNION {{u} \X (1..rows[u].size) : u \in S}
Bytes(rows, S) == Cardinality(ByteSet(rows, S))

NoPass == [at |-> "IDLE", old |-> NoRows, cut |-> FALSE]

StoreInit ==
  /\ up = [u \in Uploads |-> NoCall] /\ acked = {}
  /\ sessions = NoRows /\ records = NoRows /\ arts = NoRows /\ refs = {}
  /\ counter = [reserved |-> 0, committed |-> 0]
  /\ staging = NoRows /\ blobs = NoRows /\ handles = {}
  /\ gc = NoPass
  /\ scope = [member |-> TRUE, phase |-> "RUNNING", grant |-> 1]
  /\ changes = 0 /\ crashes = 0

Least(S) == CHOOSE i \in S : \A k \in S : i <= k

\* The first check that fails, of a sequence of <<condition, error code>>.
FirstError(checks) ==
  LET failed == {i \in DOMAIN checks : checks[i][1]} IN
  IF failed = {} THEN "ok" ELSE checks[Least(failed)][2]

-----------------------------------------------------------------------------
(* What an upload is checked against. *)

\* _authorize of a user: live membership.  Of a worker: the request's grant is the
\* current one, its lease is live, and the attempt is in a phase that takes the kind.
Authorized(r, grant) ==
  IF r.by = "user" THEN scope.member
  ELSE grant = scope.grant /\ scope.phase \in r.phases

\* enforce_watermark: users stop at the high watermark, workers at the critical one.
Pressure(by, level) ==
  level = "critical" \/ (level = "high" /\ by = "user")

DiskChecks(by, level) ==
  << <<level = "down", "dependency_unavailable">>, <<Pressure(by, level), "storage_pressure">> >>

\* begin_idempotency under the key of the request.
Begin(r) ==
  CASE r.key \notin DOMAIN records -> "new"
    [] r.key \in DOMAIN records /\ records[r.key].hash # r.content -> "idempotency_conflict"
    [] r.key \in DOMAIN records /\ records[r.key].answer = Pending -> "idempotency_in_progress"
    [] OTHER -> "replay"

\* _validate_upload_replay: a worker's replay needs a committed session and a grant
\* that descends from the one of the first upload (each adoption grants the next).
ReplayChecks(r, grant) ==
  << <<r.by = "worker" /\ sessions[records[r.key].upload].state # "COMMITTED", "state_conflict">>,
     <<r.by = "worker" /\ records[r.key].grant > grant, "state_conflict">> >>

\* The tenant stays within its byte quota with this upload.
Fits(size) == counter.reserved + counter.committed + size <= Quota

\* complete_idempotency: only a PENDING record takes an answer.
Answer(key, answer) ==
  IF records[key].answer = Pending THEN [records EXCEPT ![key].answer = answer] ELSE records

-----------------------------------------------------------------------------
(* ArtifactService.upload. *)

Ends(u) == up' = [up EXCEPT ![u] = [NoCall EXCEPT !.at = "ENDED"]]
Goes(u, at) == up' = [up EXCEPT ![u].at = at]
Fails(u) == Goes(u, "ABORT")

\* A request arrives; the disk is read before any transaction, from a value cached
\* for a second.
Receive(u, r) ==
  /\ up[u].at = "IDLE" /\ \A v \in Uploads : v < u => up[v].at # "IDLE"
  /\ \E level \in Levels :
       up' = [up EXCEPT ![u] = [NoCall EXCEPT !.at = "BEGIN", !.req = r, !.grant = scope.grant,
                                               !.level = FirstError(DiskChecks(r.by, level))]]
  /\ UNCHANGED <<acked, tables, files, gc, around>>

\* begin_operation: the record, the reservation and the ACTIVE session are one
\* transaction, and a replay is answered before disk and quota are looked at.
BeginUpload(u) ==
  LET r == up[u].req
      begun == IF Authorized(r, up[u].grant) THEN Begin(r) ELSE "permission_denied"
      replay == begun = "replay" /\ FirstError(ReplayChecks(r, up[u].grant)) = "ok"
      refused == up[u].level # "ok" \/ ~Fits(r.size)
  IN /\ up[u].at = "BEGIN"
     /\ \/ /\ replay /\ Created(records[r.key].answer)
           /\ acked' = acked \cup {<<r.key, records[r.key].answer[2]>>}
           /\ Ends(u) /\ UNCHANGED tables
        \/ /\ \/ replay /\ ~Created(records[r.key].answer)
              \/ begun # "new" /\ ~replay
              \/ begun = "new" /\ refused
           /\ Ends(u) /\ UNCHANGED <<acked, tables>>
        \/ /\ begun = "new" /\ ~refused
           /\ records' = Put(records, r.key, [hash |-> r.content, answer |-> Pending,
                                               upload |-> u, grant |-> up[u].grant])
           /\ counter' = [counter EXCEPT !.reserved = @ + r.size]
           /\ sessions' = Put(sessions, u, [state |-> "ACTIVE", size |-> r.size, age |-> 0])
           /\ Goes(u, "STAGE")
           /\ UNCHANGED <<acked, arts, refs>>
     /\ UNCHANGED <<files, gc, around>>

\* begin_staging: an exclusive create, or the store's error.
Stage(u) ==
  /\ up[u].at = "STAGE"
  /\ \/ /\ staging' = Put(staging, u, [age |-> 0, gen |-> 0])
        /\ handles' = handles \cup {u}
        /\ up' = [up EXCEPT ![u] = [@ EXCEPT !.at = "STREAM", !.level = Unread]]
     \/ Fails(u) /\ UNCHANGED <<staging, handles>>
  /\ UNCHANGED <<acked, tables, blobs, gc, around>>

\* The chunks of the stream: all declared bytes arrive, with the declared content or
\* not; or the stream is short, too long or interrupted; or a write or the re-check
\* of the watermark fails.
Stream(u) ==
  /\ up[u].at = "STREAM"
  /\ staging' = [staging EXCEPT ![u] = [age |-> 0, gen |-> 1]]
  /\ \/ \E good \in BOOLEAN : up' = [up EXCEPT ![u] = [@ EXCEPT !.at = "COMMIT", !.good = good]]
     \/ Fails(u)
  /\ UNCHANGED <<acked, tables, blobs, handles, gc, around>>

\* The watermark is checked once more, then commit_blob: checksum, fsync, rename to
\* committed/ and the directory fsync, after whose failure the blob stays behind.
CommitBlob(u) ==
  LET renamed == Put(blobs, u, [age |-> staging[u].age, content |-> up[u].req.content])
  IN /\ up[u].at = "COMMIT"
     /\ \/ Fails(u) /\ UNCHANGED files
        \/ /\ up[u].good
           /\ \E level \in Levels : FirstError(DiskChecks(up[u].req.by, level)) = "ok"
           /\ blobs' = renamed /\ staging' = Without(staging, u)
           /\ \/ Fails(u) /\ UNCHANGED handles
              \/ Goes(u, "METADATA") /\ handles' = handles \ {u}
     /\ UNCHANGED <<acked, tables, gc, around>>

\* The committed artifact of the tenant with this content.
Existing(content) == {a \in DOMAIN arts : arts[a].content = content}

\* has_blob under the shared advisory lock of the blob key; a blob that cannot be
\* inspected counts as missing.
HasBlob(u) == u \in DOMAIN blobs

\* Mutant: the content that is already stored is counted again.
ConvertedTwice(size, known) ==
  [reserved |-> counter.reserved - size, committed |-> counter.committed + size]

\* The reservation becomes committed bytes, or none when the content is known.
Converted(size, known) ==
  [reserved |-> counter.reserved - size,
   committed |-> IF known THEN counter.committed ELSE counter.committed + size]

\* commit_operation: a caller that lost its scope leaves the session to expiry; a
\* record answered in the meantime (expiry) is returned and the blob is surplus; a
\* missing blob aborts; else row, counter, session, reference and answer together.
\* The answer of the database may be lost: the call then ends and keeps its blob.
CommitRow(u) ==
  LET r == up[u].req
      known == Existing(r.content)
      a == IF known = {} THEN u ELSE Least(known)
  IN /\ up[u].at = "METADATA"
     /\ \/ /\ ~Authorized(r, up[u].grant) /\ Ends(u) /\ UNCHANGED <<acked, tables>>
        \/ /\ Authorized(r, up[u].grant) /\ records[r.key].answer # Pending
           /\ Goes(u, "SURPLUS") /\ UNCHANGED <<acked, tables>>
        \/ /\ Authorized(r, up[u].grant) /\ records[r.key].answer = Pending
           /\ known = {} /\ ~HasBlob(u)
           /\ Fails(u) /\ UNCHANGED <<acked, tables>>
        \/ /\ Authorized(r, up[u].grant) /\ records[r.key].answer = Pending
           /\ known = {} => HasBlob(u)
           /\ arts' = IF known = {} THEN Put(arts, u, [content |-> r.content, size |-> r.size])
                      ELSE arts
           /\ counter' = Converted(r.size, known # {})
           /\ sessions' = [sessions EXCEPT ![u] = [@ EXCEPT !.state = "COMMITTED", !.age = 0]]
           /\ refs' = IF r.by = "worker" THEN refs \cup {<<a, u>>} ELSE refs
           /\ records' = Answer(r.key, <<"created", a>>)
           /\ \/ Ends(u) /\ UNCHANGED acked
              \/ /\ acked' = acked \cup {<<r.key, a>>}
                 /\ IF known = {} THEN Ends(u) ELSE Goes(u, "SURPLUS")
     /\ UNCHANGED <<files, gc, around>>

\* issue_gc_token: no row names the blob, or a row that nothing refers to.
Claimable(u) == \A ref \in refs : ref[1] # u

\* delete_unreferenced for the blob this upload did not need; a failure leaves it.
DropSurplus(u) ==
  /\ up[u].at = "SURPLUS"
  /\ \/ Claimable(u) /\ blobs' = Without(blobs, u)
     \/ UNCHANGED blobs
  /\ Ends(u)
  /\ UNCHANGED <<acked, tables, staging, handles, gc, around>>

\* Every failure: _abort_upload releases the reservation and answers the record, if
\* neither was done before and the database does not fail; in its finally,
\* abort_staging drops the handle and unlinks the file, or leaves it to the GC.
AbortUpload(u) ==
  LET r == up[u].req IN
  /\ up[u].at = "ABORT"
  /\ \/ UNCHANGED tables
     \/ /\ records[r.key].answer = Pending /\ sessions[u].state = "ACTIVE"
        /\ counter' = [counter EXCEPT !.reserved = @ - r.size]
        /\ sessions' = [sessions EXCEPT ![u] = [@ EXCEPT !.state = "ABORTED", !.age = 0]]
        /\ records' = Answer(r.key, Refused)
        /\ UNCHANGED <<arts, refs>>
  /\ handles' = handles \ {u}
  /\ staging' = Without(staging, u) \/ UNCHANGED staging
  /\ Ends(u)
  /\ UNCHANGED <<acked, blobs, gc, around>>

Upload(u) ==
  \/ BeginUpload(u) \/ Stage(u) \/ Stream(u) \/ CommitBlob(u) \/ CommitRow(u)
  \/ DropSurplus(u) \/ AbortUpload(u)

-----------------------------------------------------------------------------
(* StorageGc: one pass at a time, its steps in order. *)

\* run_once takes the advisory lock of the pass.
GcStart ==
  /\ gc.at = "IDLE"
  /\ gc' = [NoPass EXCEPT !.at = "EXPIRE"]
  /\ UNCHANGED <<up, acked, tables, files, around>>

\* Mutant: a session is overdue only when its file is.
OverdueLate == {u \in DOMAIN sessions :
  sessions[u].state = "ACTIVE" /\ u \in DOMAIN staging /\ staging[u].age > StagingTtl}

\* The sessions expire_uploads selects and, under their locks, still finds overdue.
Overdue == {u \in DOMAIN sessions :
  sessions[u].state = "ACTIVE" /\ sessions[u].age >= StagingTtl}

\* expire_uploads: every overdue session gives its reservation back and its
\* record, if nobody answered it, says so.
Expire ==
  /\ gc.at = "EXPIRE"
  /\ counter' = [counter EXCEPT !.reserved = @ - Bytes(sessions, Overdue)]
  /\ sessions' = [u \in DOMAIN sessions |->
                    IF u \in Overdue THEN [sessions[u] EXCEPT !.state = "EXPIRED", !.age = 0] ELSE sessions[u]]
  /\ records' = [k \in DOMAIN records |->
                   IF records[k].upload \in Overdue /\ records[k].answer = Pending
                   THEN [records[k] EXCEPT !.answer = Refused] ELSE records[k]]
  /\ gc' = [gc EXCEPT !.at = "SCAN_STAGING"]
  /\ UNCHANGED <<up, acked, arts, refs, files, around>>

\* _old_files: what a scan of the area finds older than its time to live, with the
\* state (inode, size and mtime) each file had then.
OldStaging == [u \in {v \in DOMAIN staging : staging[v].age > StagingTtl} |-> staging[u].gen]
OldBlobs == [u \in {v \in DOMAIN blobs : blobs[v].age > OrphanTtl} |-> 1]

\* The scan and the query of the ACTIVE sessions after it: in between a session can
\* only leave ACTIVE, so one step for both keeps as much as the code does.
ScanStaging ==
  /\ gc.at = "SCAN_STAGING"
  /\ gc' = [gc EXCEPT !.at = "DROP_STAGING",
                      !.old = Only(OldStaging, {u \in DOMAIN OldStaging : sessions[u].state # "ACTIVE"})]
  /\ UNCHANGED <<up, acked, tables, files, around>>

\* remove_scanned of a staging file: not while its handle is open, and only the
\* very file the scan saw.
DropStaging(u) ==
  /\ gc.at = "DROP_STAGING" /\ u \in DOMAIN gc.old
  /\ staging' = IF u \notin handles /\ u \in DOMAIN staging /\ staging[u].gen = gc.old[u]
                THEN Without(staging, u) ELSE staging
  /\ gc' = [gc EXCEPT !.old = Without(@, u)]
  /\ UNCHANGED <<up, acked, tables, blobs, handles, around>>

ScanBlobs ==
  /\ gc.at = "SCAN_BLOBS" \/ (gc.at = "DROP_STAGING" /\ gc.old = NoRows)
  /\ gc' = [gc EXCEPT !.at = "LOOK_BLOBS", !.old = OldBlobs]
  /\ UNCHANGED <<up, acked, tables, files, around>>

\* The blobs among them that no row names, read after the scan.
LookBlobs ==
  /\ gc.at = "LOOK_BLOBS"
  /\ gc' = [gc EXCEPT !.at = "DROP_BLOBS", !.old = Only(@, DOMAIN @ \ DOMAIN arts)]
  /\ UNCHANGED <<up, acked, tables, files, around>>

\* Mutant: the row is not looked for again under the lock.
NamedBefore(u) == FALSE

\* The check under the exclusive lock of the blob key: a row names the blob by now.
Named(u) == u \in DOMAIN arts

\* _remove_orphan: one transaction holds the lock around the check and the unlink.
DropOrphan(u) ==
  /\ gc.at = "DROP_BLOBS" /\ u \in DOMAIN gc.old
  /\ blobs' = IF Named(u) THEN blobs ELSE Without(blobs, u)
  /\ gc' = [gc EXCEPT !.old = Without(@, u)]
  /\ UNCHANGED <<up, acked, tables, staging, handles, around>>

\* The pass ends; _reconcile only reads.
GcEnd ==
  /\ gc.at = "DROP_BLOBS" /\ gc.old = NoRows
  /\ gc' = NoPass
  /\ UNCHANGED <<up, acked, tables, files, around>>

\* A step fails or the budget of the pass is spent: the pass goes on with the next
\* step, and the last step ends it.
GcSkip ==
  /\ gc.at # "IDLE"
  /\ gc' = [at |-> CASE gc.at = "EXPIRE" -> "SCAN_STAGING"
                     [] gc.at \in {"SCAN_STAGING", "DROP_STAGING"} -> "SCAN_BLOBS"
                     [] OTHER -> "IDLE",
            old |-> NoRows, cut |-> TRUE]
  /\ UNCHANGED <<up, acked, tables, files, around>>

Collect ==
  \/ GcStart \/ Expire \/ ScanStaging
  \/ ScanBlobs \/ LookBlobs \/ GcEnd
  \/ \E u \in Uploads : DropStaging(u) \/ DropOrphan(u)

-----------------------------------------------------------------------------
(* The world around them. *)

Aged(age, last) == IF age < last THEN age + 1 ELSE last

Tick ==
  /\ sessions' = [u \in DOMAIN sessions |-> [sessions[u] EXCEPT !.age =
                     IF sessions[u].state = "ACTIVE" THEN Aged(@, StagingTtl) ELSE @]]
  /\ staging' = [u \in DOMAIN staging |-> [staging[u] EXCEPT !.age = Aged(@, StagingTtl + 1)]]
  /\ blobs' = [u \in DOMAIN blobs |-> [blobs[u] EXCEPT !.age = Aged(@, OrphanTtl + 1)]]
  /\ UNCHANGED <<up, acked, records, arts, refs, counter, handles, gc, around>>

\* A member is removed, the attempt changes its phase, ends, or is adopted under
\* its next grant.
ScopeChange ==
  /\ changes < MaxChanges /\ changes' = changes + 1
  /\ \/ scope.member /\ scope' = [scope EXCEPT !.member = FALSE]
     \/ /\ scope.phase # "ENDED"
        /\ \E p \in {"RUNNING", "CHECKPOINTING", "ENDED"} \ {scope.phase} :
             scope' = [scope EXCEPT !.phase = p]
     \/ scope' = [scope EXCEPT !.grant = @ + 1]
  /\ UNCHANGED <<up, acked, tables, files, gc, crashes>>

\* The API process dies: its calls, handles and GC pass are gone, its files stay.
ApiCrash ==
  /\ crashes < MaxCrashes /\ crashes' = crashes + 1
  /\ up' = [u \in Uploads |-> IF up[u].at = "IDLE" THEN NoCall ELSE [NoCall EXCEPT !.at = "ENDED"]]
  /\ handles' = {} /\ gc' = NoPass
  /\ UNCHANGED <<acked, tables, staging, blobs, scope, changes>>

-----------------------------------------------------------------------------
(* Reading an artifact. *)

\* inspect: size and checksum of the bytes that are there, if they are.
Intact(a) == a \in DOMAIN blobs /\ blobs[a].content = arts[a].content

\* The single range of the header: <<first>> or <<first, last>>, or << >> for none.
RangeOf(header, size) ==
  CASE header = << >> -> <<0, size - 1>>
    [] Len(header) = 1 -> <<header[1], size - 1>>
    [] OTHER -> <<header[1], IF header[2] < size THEN header[2] ELSE size - 1>>

\* download_artifact of a committed row: the positions the bounded reader serves.
Download(a, header) ==
  LET r == RangeOf(header, arts[a].size) IN
  CASE ~Intact(a) -> "dependency_unavailable"
    [] Intact(a) /\ header # << >> /\ (header[1] >= arts[a].size \/ (Len(header) = 2 /\ header[2] < header[1]))
         -> "validation_failed"
    [] OTHER -> r[1]..r[2]

-----------------------------------------------------------------------------
StoreNext ==
  \/ \E u \in Uploads, r \in Requests : Receive(u, r)
  \/ \E u \in Uploads : Upload(u)
  \/ Collect \/ GcSkip \/ Tick \/ ScopeChange \/ ApiCrash

StoreSpec == StoreInit /\ [][StoreNext]_storeVars

\* The calls of the API and its GC loop go on and the clock moves; steps of a pass
\* may fail or be cut short, but not forever.
Fairness ==
  /\ WF_storeVars(Tick) /\ WF_storeVars(Collect) /\ WF_storeVars(\E u \in Uploads : Upload(u))
  /\ <>[]~gc.cut

LiveSpec == StoreSpec /\ Fairness

-----------------------------------------------------------------------------
(* Properties. *)

Headers == {<< >>} \cup {<<i>> : i \in 0..2} \cup ((0..2) \X (0..2))

\* The metadata commit and the GC race for a blob, and neither order loses it: every
\* committed row has its blob, with the content it was committed with and downloadable
\* in every range; what a client was told with 201 is such a row with the content of
\* its key, one for each key; and the row of a content is unique in the tenant.
BlobsKept ==
  /\ \A a \in DOMAIN arts : Intact(a) /\ Existing(arts[a].content) = {a}
  /\ \A a \in DOMAIN arts, h \in Headers :
       LET wanted == {b \in 0..(arts[a].size - 1) :
                        (h # << >> => h[1] <= b) /\ (Len(h) = 2 => b <= h[2])}
       IN Download(a, h) = IF h # << >> /\ wanted = {} THEN "validation_failed" ELSE wanted
  /\ \A p \in acked : /\ p[2] \in DOMAIN arts /\ arts[p[2]].content = records[p[1]].hash
                       /\ \A q \in acked : q[1] = p[1] => q = p

\* Whatever fails in between, the tenant's counters equal what its rows say, as
\* counter_drift computes it (the reservations of ACTIVE sessions, the sizes of
\* committed artifacts), and the tenant never exceeds its byte quota.
BytesAccounted ==
  /\ counter.reserved = Bytes(sessions, {u \in DOMAIN sessions : sessions[u].state = "ACTIVE"})
  /\ counter.committed = Bytes(arts, DOMAIN arts)
  /\ counter.reserved + counter.committed <= Quota

\* Nothing an upload leaves behind stays: once its call has ended, be it by an error
\* or by a crash, its reservation is eventually released, its staging file removed, and
\* its blob removed unless a row names it.
Reclaimed ==
  []<>(\A u \in Uploads : up[u].at = "ENDED" =>
         /\ u \in DOMAIN sessions => sessions[u].state # "ACTIVE"
         /\ u \notin DOMAIN staging
         /\ u \in DOMAIN blobs => u \in DOMAIN arts)
=============================================================================
