-------------------------- MODULE ArtifactsProofs --------------------------
(***************************************************************************)
(* Uploads and the storage GC keep every committed blob and exact books,   *)
(* for any requests, uploads, quota and times to live: proofs about the    *)
(* module Artifacts.                                                       *)
(***************************************************************************)
EXTENDS Artifacts, TLAPS

-----------------------------------------------------------------------------
(* The inductive invariant *)

Places == {"IDLE", "BEGIN", "STAGE", "STREAM", "COMMIT", "METADATA", "SURPLUS", "ABORT", "ENDED"}

\* The places of a call that has a reservation.
Working == {"STAGE", "STREAM", "COMMIT", "METADATA", "SURPLUS", "ABORT"}

Keys == {r.key : r \in Requests}
Contents == {r.content : r \in Requests}
Answers == {Pending, Refused} \cup {<<"created", a>> : a \in Uploads}

DiskVerdicts == {Unread, "ok", "dependency_unavailable", "storage_pressure"}

CallRow ==
  [at : Places, req : Requests \cup {<< >>}, grant : Nat, level : DiskVerdicts, good : BOOLEAN]
SessionRow == [state : {"ACTIVE", "COMMITTED", "ABORTED", "EXPIRED"}, size : Nat, age : Nat]
RecordRow == [hash : Contents, answer : Answers, upload : Uploads, grant : Nat]
ArtRow == [content : Contents, size : Nat]
StagedRow == [age : Nat, gen : Nat]
BlobRow == [age : Nat, content : Contents]
Phases == {"RUNNING", "CHECKPOINTING", "ENDED"}
ScopeRow == [member : BOOLEAN, phase : Phases, grant : Nat]

Table(t, S, R) == DOMAIN t \subseteq S /\ t \in [DOMAIN t -> R]

StoreTypes ==
  /\ up \in [Uploads -> CallRow]
  /\ Table(sessions, Uploads, SessionRow) /\ Table(records, Keys, RecordRow)
  /\ Table(arts, Uploads, ArtRow)
  /\ Table(staging, Uploads, StagedRow) /\ Table(blobs, Uploads, BlobRow)
  /\ acked \subseteq Keys \X Uploads
  /\ scope \in ScopeRow

\* A call between its reservation and its end: its session and its record are there.
Reserved(u) ==
  LET r == up[u].req IN
  /\ u \in DOMAIN sessions /\ sessions[u].size = r.size
  /\ r.key \in DOMAIN records /\ records[r.key].upload = u /\ records[r.key].hash = r.content

CallFits(u) ==
  /\ up[u].at \in {"IDLE", "BEGIN"} => u \notin DOMAIN sessions
  /\ up[u].at \notin {"IDLE", "ENDED"} => up[u].req \in Requests
  /\ up[u].at \in Working => Reserved(u)
  /\ up[u].at \in {"STREAM", "COMMIT"} => u \in DOMAIN staging /\ u \in handles
  /\ up[u].at = "METADATA" /\ u \in DOMAIN blobs => blobs[u].content = up[u].req.content

\* A record waits exactly as long as the session of its upload is ACTIVE, and names
\* an artifact of its content once it says "created".
RecordFits(k) ==
  /\ records[k].upload \in DOMAIN sessions
  /\ records[k].answer = Pending <=> sessions[records[k].upload].state = "ACTIVE"
  /\ Created(records[k].answer) =>
       /\ records[k].answer[2] \in DOMAIN arts
       /\ arts[records[k].answer[2]].content = records[k].hash

\* A row was inserted by a call that ended with it, and it has its blob.
RowFits(a) == up[a].at = "ENDED" /\ Intact(a)

AckFits(p) ==
  /\ p[1] \in DOMAIN records
  /\ Created(records[p[1]].answer) /\ records[p[1]].answer[2] = p[2]

OwnRecords ==
  \A k, l \in DOMAIN records : records[k].upload = records[l].upload => k = l

OwnContents ==
  \A a, b \in DOMAIN arts : arts[a].content = arts[b].content => a = b

\* What keeps the blobs; the books are added below.
KeptInv ==
  /\ StoreTypes /\ OwnRecords /\ OwnContents
  /\ \A u \in Uploads : CallFits(u)
  /\ \A k \in DOMAIN records : RecordFits(k)
  /\ \A a \in DOMAIN arts : RowFits(a)
  /\ \A p \in acked : AckFits(p)

\* An answer is one of three kinds.
LEMMA AnswerFacts ==
  /\ Pending \in Answers /\ Refused \in Answers /\ Refused # Pending
  /\ ~Created(Refused) /\ ~Created(Pending)
  /\ \A a \in Uploads : /\ <<"created", a>> \in Answers /\ <<"created", a>> # Pending
                        /\ Created(<<"created", a>>) /\ <<"created", a>>[2] = a
<1>1. Refused # Pending /\ Refused[1] = "error"
  BY DEF Refused, Pending
<1>2. \A a \in Uploads : /\ <<"created", a>> # Pending
                         /\ <<"created", a>>[1] = "created" /\ <<"created", a>>[2] = a
  BY DEF Pending
<1> QED BY <1>1, <1>2 DEF Answers, Created

-----------------------------------------------------------------------------
(* What a step keeps *)

KeepsRecords ==
  \A k \in DOMAIN records :
    /\ k \in DOMAIN records'
    /\ records'[k].hash = records[k].hash /\ records'[k].upload = records[k].upload
    /\ Created(records[k].answer) => records'[k].answer = records[k].answer

KeepsSessions ==
  \A v \in DOMAIN sessions : v \in DOMAIN sessions' /\ sessions'[v].size = sessions[v].size

\* The files of v stay while v writes them, and no other blob takes their place.
KeepsFiles(v) ==
  /\ v \in handles /\ v \in DOMAIN staging => v \in handles' /\ v \in DOMAIN staging'
  /\ v \in DOMAIN blobs' => v \in DOMAIN blobs /\ blobs'[v].content = blobs[v].content

\* A call that does not move.
LEMMA CallKept ==
  ASSUME NEW v \in Uploads, CallFits(v), up'[v] = up[v], KeepsRecords, KeepsSessions, KeepsFiles(v),
         v \in DOMAIN sessions' => v \in DOMAIN sessions
  PROVE  CallFits(v)'
<1>1. up[v].at \in Working => Reserved(v)'
  BY Zenon DEF CallFits, Reserved, KeepsRecords, KeepsSessions
<1> QED BY <1>1, Zenon DEF CallFits, KeepsFiles

\* An answer a client was given stays the answer of its key.
LEMMA AckKept ==
  ASSUME NEW p, AckFits(p), KeepsRecords
  PROVE  AckFits(p)'
BY Zenon DEF AckFits, KeepsRecords

\* A committed row and its blob stay.
LEMMA RowKept ==
  ASSUME NEW a, RowFits(a), up'[a].at = "ENDED", arts'[a] = arts[a],
         a \in DOMAIN blobs', blobs'[a].content = blobs[a].content
  PROVE  RowFits(a)'
BY Zenon DEF RowFits, Intact

\* A step that leaves the tables alone.
LEMMA TablesStay ==
  ASSUME KeptInv, StoreTypes', UNCHANGED <<sessions, records, arts>>,
         \A v \in Uploads : CallFits(v)',
         \A a \in DOMAIN arts : /\ up'[a].at = "ENDED" /\ a \in DOMAIN blobs'
                                /\ blobs'[a].content = blobs[a].content,
         \A p \in acked' : p \in acked \/ AckFits(p)
  PROVE  KeptInv'
<1>1. OwnRecords' /\ OwnContents'
  BY DEF KeptInv, OwnRecords, OwnContents
<1>2. \A k \in DOMAIN records' : RecordFits(k)'
  BY DEF KeptInv, RecordFits
<1>3. \A a \in DOMAIN arts' : RowFits(a)'
  BY RowKept DEF KeptInv
<1>4. KeepsRecords
  BY DEF KeepsRecords
<1>5. \A p \in acked' : AckFits(p)'
  BY <1>4, AckKept DEF KeptInv
<1> QED BY <1>1, <1>2, <1>3, <1>5, Zenon DEF KeptInv

\* A step of call u.
Moved(u) == up' \in [Uploads -> CallRow] /\ \A v \in Uploads \ {u} : up'[v] = up[v]

LEMMA GoesFacts ==
  ASSUME StoreTypes, NEW u \in Uploads, NEW at \in Places, Goes(u, at)
  PROVE  /\ Moved(u) /\ up'[u].at = at /\ up'[u].req = up[u].req
         /\ up'[u].good = up[u].good
BY Zenon DEF StoreTypes, Goes, Moved, CallRow

LEMMA NoCallFacts == NoCall \in CallRow /\ NoCall.at = "IDLE"
BY DEF NoCall, CallRow, Places, DiskVerdicts

LEMMA EndsFacts ==
  ASSUME StoreTypes, NEW u \in Uploads, Ends(u)
  PROVE  Moved(u) /\ up'[u].at = "ENDED"
<1>1. [NoCall EXCEPT !.at = "ENDED"] \in CallRow /\ [NoCall EXCEPT !.at = "ENDED"].at = "ENDED"
  BY Zenon DEF NoCall, CallRow, Places, DiskVerdicts
<1> QED BY <1>1 DEF StoreTypes, Ends, Moved

\* A call that has ended claims nothing.
LEMMA EndedFits ==
  ASSUME NEW u, up'[u].at = "ENDED"
  PROVE  CallFits(u)'
BY DEF CallFits, Working

\* A call that goes on inserted no row.
LEMMA NoRowYet ==
  ASSUME KeptInv, NEW u, up[u].at # "ENDED"
  PROVE  u \notin DOMAIN arts
BY DEF KeptInv, RowFits
-----------------------------------------------------------------------------
(* The steps of an upload *)

\* A step of call u that changes no table and no file but those of u.
LEMMA CallStep ==
  ASSUME KeptInv, NEW u \in Uploads, up[u].at # "ENDED", Moved(u), StoreTypes', CallFits(u)',
         UNCHANGED <<sessions, records, arts>>,
         \A v \in Uploads \ {u} :
           /\ v \in handles' <=> v \in handles
           /\ v \in DOMAIN staging' <=> v \in DOMAIN staging
           /\ v \in DOMAIN blobs' <=> v \in DOMAIN blobs
           /\ v \in DOMAIN blobs => blobs'[v] = blobs[v],
         \A p \in acked' : p \in acked \/ AckFits(p)
  PROVE  KeptInv'
<1>1. KeepsRecords /\ KeepsSessions
  BY DEF KeepsRecords, KeepsSessions
<1>2. \A v \in Uploads \ {u} : up'[v] = up[v] /\ KeepsFiles(v)
  BY Zenon DEF Moved, KeepsFiles
<1>3. \A v \in Uploads : CallFits(v)'
  BY <1>1, <1>2, CallKept, Zenon DEF KeptInv
<1>4. \A a \in DOMAIN arts : a \in Uploads \ {u} /\ RowFits(a)
  BY NoRowYet DEF KeptInv, StoreTypes, Table
<1>5. \A a \in DOMAIN arts : /\ up'[a].at = "ENDED" /\ a \in DOMAIN blobs'
                             /\ blobs'[a].content = blobs[a].content
  BY <1>2, <1>4, Zenon DEF RowFits, Intact
<1> QED BY <1>3, <1>5, TablesStay, Zenon

\* What a check of the disk may say.
LEMMA DiskVerdict ==
  ASSUME NEW by, NEW level
  PROVE  FirstError(DiskChecks(by, level)) \in DiskVerdicts
<1> DEFINE checks == DiskChecks(by, level)
           failed == {i \in DOMAIN checks : checks[i][1]}
<1>1. DOMAIN checks = {1, 2} /\ checks[1][2] = "dependency_unavailable" /\ checks[2][2] = "storage_pressure"
  BY DEF DiskChecks
<1>2. failed \subseteq {1, 2}
  BY <1>1
<1>3. failed # {} => Least(failed) \in failed
  <2>1. failed # {} => \E i \in failed : \A k \in failed : i <= k
    BY <1>2
  <2> QED BY <2>1 DEF Least
<1>4. FirstError(checks) = IF failed = {} THEN "ok" ELSE checks[Least(failed)][2]
  BY DEF FirstError
<1> HIDE DEF checks, failed
<1>5. FirstError(checks) \in DiskVerdicts
  BY <1>1, <1>2, <1>3, <1>4, Zenon DEF DiskVerdicts
<1> QED BY <1>5, Zenon DEF checks

LEMMA ReceiveKeeps ==
  ASSUME KeptInv, NEW u \in Uploads, NEW r \in Requests, Receive(u, r)
  PROVE  KeptInv'
<1>0. StoreTypes /\ CallFits(u) /\ up[u].at = "IDLE"
  BY DEF KeptInv, Receive
<1>c. UNCHANGED <<sessions, records, arts, staging, blobs, handles, acked, scope>>
  BY Zenon DEF Receive, tables, files, around
<1>1. PICK level \in Levels :
        up' = [up EXCEPT ![u] = [NoCall EXCEPT !.at = "BEGIN", !.req = r, !.grant = scope.grant,
                                               !.level = FirstError(DiskChecks(r.by, level))]]
  BY Zenon DEF Receive
<1>2. PICK l \in DiskVerdicts : l = FirstError(DiskChecks(r.by, level))
  BY DiskVerdict
<1>3. PICK c : c = [NoCall EXCEPT !.at = "BEGIN", !.req = r, !.grant = scope.grant, !.level = l]
  OBVIOUS
<1>4. c \in CallRow /\ c.at = "BEGIN" /\ c.req = r
  <2>1. scope.grant \in Nat
    BY <1>0 DEF StoreTypes, ScopeRow
  <2> QED BY <1>3, <2>1, NoCallFacts, Zenon DEF CallRow, Places
<1>5. Moved(u) /\ up'[u] = c
  BY <1>0, <1>1, <1>2, <1>3, <1>4 DEF Moved, StoreTypes
<1>6. StoreTypes'
  BY <1>0, <1>c, <1>5, Zenon DEF StoreTypes, Moved
<1>7. CallFits(u)'
  BY <1>0, <1>c, <1>4, <1>5 DEF CallFits, Working
<1> QED BY <1>0, <1>c, <1>5, <1>6, <1>7, CallStep
\* begin_idempotency finds the key new.
LEMMA BeginNew ==
  ASSUME NEW r, Begin(r) = "new"
  PROVE  r.key \notin DOMAIN records
BY DEF Begin

LEMMA BeginReplay ==
  ASSUME NEW r, Begin(r) = "replay"
  PROVE  r.key \in DOMAIN records
BY DEF Begin

\* The reservation, with its record and its session.
Reserves(u, r) ==
  /\ Begin(r) = "new" /\ Fits(r.size)
  /\ records' = Put(records, r.key, [hash |-> r.content, answer |-> Pending,
                                     upload |-> u, grant |-> up[u].grant])
  /\ counter' = [counter EXCEPT !.reserved = @ + r.size]
  /\ sessions' = Put(sessions, u, [state |-> "ACTIVE", size |-> r.size, age |-> 0])
  /\ Goes(u, "STAGE")
  /\ UNCHANGED <<acked, arts, refs>>

Replays(u, r) ==
  /\ Begin(r) = "replay" /\ Created(records[r.key].answer)
  /\ acked' = acked \cup {<<r.key, records[r.key].answer[2]>>}
  /\ Ends(u) /\ UNCHANGED tables

LEMMA BeginCases ==
  ASSUME NEW u, BeginUpload(u), NEW r, r = up[u].req
  PROVE  Replays(u, r) \/ (Ends(u) /\ UNCHANGED <<acked, tables>>) \/ Reserves(u, r)
BY Zenon DEF BeginUpload, Replays, Reserves

LEMMA ReserveKeeps ==
  ASSUME KeptInv, NEW u \in Uploads, NEW r, r = up[u].req, up[u].at = "BEGIN", Reserves(u, r),
         UNCHANGED <<staging, blobs, handles, scope>>
  PROVE  KeptInv'
<1>a. /\ Begin(r) = "new" /\ Goes(u, "STAGE") /\ UNCHANGED <<acked, arts>>
      /\ records' = Put(records, r.key, [hash |-> r.content, answer |-> Pending,
                                         upload |-> u, grant |-> up[u].grant])
      /\ sessions' = Put(sessions, u, [state |-> "ACTIVE", size |-> r.size, age |-> 0])
  BY Zenon DEF Reserves
<1>0. /\ StoreTypes /\ CallFits(u) /\ r \in Requests /\ r.size \in Nat /\ u \notin DOMAIN sessions
      /\ r.key \notin DOMAIN records /\ r.key \in Keys /\ r.content \in Contents
  BY <1>a, BeginNew, RequestAssumption DEF KeptInv, CallFits, Keys, Contents
<1>1. Moved(u) /\ up'[u].at = "STAGE" /\ up'[u].req = r
  BY <1>0, <1>a, GoesFacts DEF Places
<1> DEFINE record == [hash |-> r.content, answer |-> Pending, upload |-> u, grant |-> up[u].grant]
           session == [state |-> "ACTIVE", size |-> r.size, age |-> 0]
<1>2. /\ record \in RecordRow /\ record.upload = u /\ record.hash = r.content /\ record.answer = Pending
      /\ session \in SessionRow /\ session.state = "ACTIVE" /\ session.size = r.size
  <2>1. up[u].grant \in Nat
    BY <1>0 DEF StoreTypes, CallRow
  <2> QED BY <1>0, <2>1, AnswerFacts DEF RecordRow, SessionRow
<1> HIDE DEF record, session
<1>3. /\ Table(records', Keys, RecordRow) /\ DOMAIN records' = DOMAIN records \cup {r.key}
      /\ records'[r.key] = record
      /\ \A k \in DOMAIN records : k # r.key /\ records'[k] = records[k]
  <2>1. records' = Put(records, r.key, record) /\ Table(records, Keys, RecordRow)
    BY <1>0, <1>a, Zenon DEF StoreTypes, record
  <2> QED BY <1>0, <1>2, <2>1 DEF Put, Table
<1>4. /\ Table(sessions', Uploads, SessionRow) /\ DOMAIN sessions' = DOMAIN sessions \cup {u}
      /\ sessions'[u] = session
      /\ \A v \in DOMAIN sessions : v # u /\ sessions'[v] = sessions[v]
  <2>1. sessions' = Put(sessions, u, session) /\ Table(sessions, Uploads, SessionRow)
    BY <1>0, <1>a, Zenon DEF StoreTypes, session
  <2> QED BY <1>0, <1>2, <2>1 DEF Put, Table
<1>6. StoreTypes'
  BY <1>0, <1>a, <1>1, <1>3, <1>4, Zenon DEF StoreTypes, Moved
<1>7. KeepsRecords /\ KeepsSessions
  BY <1>3, <1>4, Zenon DEF KeepsRecords, KeepsSessions
<1>8. ASSUME NEW v \in Uploads PROVE CallFits(v)'
  <2>1. CASE v = u
    <3>1. Reserved(u)'
      BY <1>1, <1>2, <1>3, <1>4, Zenon DEF Reserved
    <3> QED BY <1>0, <1>1, <2>1, <3>1 DEF CallFits
  <2>2. CASE v # u
    BY <1>1, <1>4, <1>7, <2>2, CallKept, Zenon DEF Moved, KeepsFiles, KeptInv
  <2> QED BY <2>1, <2>2
<1>9. \A k \in DOMAIN records : records[k].upload \in DOMAIN sessions /\ RecordFits(k)
  BY Zenon DEF KeptInv, RecordFits
<1>10. OwnRecords' /\ OwnContents'
  <2>1. OwnRecords'
    <3>1. OwnRecords
      BY DEF KeptInv
    <3> QED BY <1>0, <1>2, <1>3, <1>9, <3>1 DEF OwnRecords
  <2> QED BY <1>a, <2>1, Zenon DEF KeptInv, OwnContents
<1>11. ASSUME NEW k \in DOMAIN records' PROVE RecordFits(k)'
  <2>1. CASE k = r.key
    <3>1. /\ records'[k].answer = Pending /\ ~Created(records'[k].answer)
          /\ records'[k].upload = u /\ u \in DOMAIN sessions' /\ sessions'[u].state = "ACTIVE"
      BY <1>2, <1>3, <1>4, <2>1, AnswerFacts, Zenon
    <3> QED BY <1>a, <3>1, Zenon DEF RecordFits
  <2>2. CASE k # r.key
    <3>1. /\ k \in DOMAIN records /\ records'[k] = records[k] /\ RecordFits(k)
          /\ records[k].upload \in DOMAIN sessions'
          /\ sessions'[records[k].upload] = sessions[records[k].upload]
      BY <1>3, <1>4, <1>9, <2>2
    <3> QED BY <1>a, <3>1, Zenon DEF RecordFits
  <2> QED BY <2>1, <2>2
<1>12. \A a \in DOMAIN arts' : RowFits(a)'
  <2>1. \A a \in DOMAIN arts : a \in Uploads \ {u}
    BY <1>0, NoRowYet DEF StoreTypes, Table
  <2> QED BY <1>a, <1>1, <2>1, RowKept, Zenon DEF KeptInv, Moved, RowFits, Intact
<1>13. \A p \in acked' : AckFits(p)'
  BY <1>a, <1>7, AckKept, Zenon DEF KeptInv
<1> QED BY <1>6, <1>8, <1>10, <1>11, <1>12, <1>13, Zenon DEF KeptInv

LEMMA BeginKeeps ==
  ASSUME KeptInv, NEW u \in Uploads, BeginUpload(u)
  PROVE  KeptInv'
<1>1. PICK r : r = up[u].req
  OBVIOUS
<1>0. StoreTypes /\ up[u].at = "BEGIN" /\ UNCHANGED <<staging, blobs, handles, scope>>
  BY Zenon DEF KeptInv, BeginUpload, files, around
<1>2. Replays(u, r) \/ (Ends(u) /\ UNCHANGED <<acked, tables>>) \/ Reserves(u, r)
  BY <1>1, BeginCases
<1>3. CASE Replays(u, r)
  <2>0. /\ Begin(r) = "replay" /\ Created(records[r.key].answer)
        /\ acked' = acked \cup {<<r.key, records[r.key].answer[2]>>}
        /\ Ends(u) /\ UNCHANGED tables
    BY <1>3, Zenon DEF Replays
  <2>1. Moved(u) /\ up'[u].at = "ENDED" /\ CallFits(u)'
    BY <1>0, <2>0, EndsFacts, EndedFits
  <2>2. r.key \in DOMAIN records /\ r.key \in Keys /\ records[r.key].answer[2] \in Uploads
    <3>1. r.key \in DOMAIN records
      BY <2>0, BeginReplay
    <3>2. records[r.key].answer[2] \in DOMAIN arts
      BY <2>0, <3>1, Zenon DEF KeptInv, RecordFits
    <3> QED BY <1>0, <3>1, <3>2, Zenon DEF StoreTypes, Table
  <2>3. acked' \subseteq Keys \X Uploads
    BY <1>0, <2>0, <2>2 DEF StoreTypes
  <2>4. UNCHANGED <<sessions, records, arts>>
    BY <2>0, Zenon DEF tables
  <2>5. StoreTypes'
    BY <1>0, <2>1, <2>3, <2>4, Zenon DEF StoreTypes, Moved
  <2>6. AckFits(<<r.key, records[r.key].answer[2]>>)
    BY <2>0, <2>2 DEF AckFits
  <2>7. \A p \in acked' : p \in acked \/ AckFits(p)
    BY <2>0, <2>6, Zenon
  <2> QED BY <1>0, <2>1, <2>4, <2>5, <2>7, CallStep
<1>4. CASE Ends(u) /\ UNCHANGED <<acked, tables>>
  <2>1. Moved(u) /\ up'[u].at = "ENDED" /\ CallFits(u)'
    BY <1>0, <1>4, EndsFacts, EndedFits
  <2>2. UNCHANGED <<sessions, records, arts, acked>>
    BY <1>4, Zenon DEF tables
  <2>3. StoreTypes'
    BY <1>0, <2>1, <2>2, Zenon DEF StoreTypes, Moved
  <2> QED BY <1>0, <2>1, <2>2, <2>3, CallStep
<1>5. CASE Reserves(u, r)
  BY <1>0, <1>1, <1>5, ReserveKeeps, Zenon
<1> QED BY <1>2, <1>3, <1>4, <1>5, Zenon
LEMMA StageKeeps ==
  ASSUME KeptInv, NEW u \in Uploads, Stage(u)
  PROVE  KeptInv'
<1>0. StoreTypes /\ up[u].at = "STAGE" /\ CallFits(u)
  BY DEF KeptInv, Stage
<1>c. UNCHANGED <<sessions, records, arts, blobs, acked, scope>>
  BY Zenon DEF Stage, tables, around
<1>1. CASE /\ staging' = Put(staging, u, [age |-> 0, gen |-> 0])
           /\ handles' = handles \cup {u}
           /\ up' = [up EXCEPT ![u] = [@ EXCEPT !.at = "STREAM", !.level = Unread]]
  <2>1. Moved(u) /\ up'[u].at = "STREAM" /\ up'[u].req = up[u].req
    <3>1. PICK c : c = [up[u] EXCEPT !.at = "STREAM", !.level = Unread]
      OBVIOUS
    <3>2. c \in CallRow /\ c.at = "STREAM" /\ c.req = up[u].req
      BY <1>0, <3>1, Zenon DEF StoreTypes, CallRow, Places, DiskVerdicts
    <3> QED BY <1>0, <1>1, <3>1, <3>2 DEF StoreTypes, Moved
  <2>2. /\ Table(staging', Uploads, StagedRow) /\ DOMAIN staging' = DOMAIN staging \cup {u}
    BY <1>0, <1>1 DEF StoreTypes, Table, Put, StagedRow
  <2>3. StoreTypes'
    BY <1>0, <1>c, <2>1, <2>2, Zenon DEF StoreTypes, Moved
  <2>4. CallFits(u)'
    <3>1. Reserved(u)'
      BY <1>0, <1>c, <2>1 DEF CallFits, Reserved, Working
    <3> QED BY <1>0, <1>1, <2>1, <2>2, <3>1 DEF CallFits
  <2> QED BY <1>0, <1>c, <1>1, <2>1, <2>2, <2>3, <2>4, CallStep
<1>2. CASE Fails(u) /\ UNCHANGED <<staging, handles>>
  <2>1. Moved(u) /\ up'[u].at = "ABORT" /\ up'[u].req = up[u].req
    BY <1>0, <1>2, GoesFacts DEF Fails, Places
  <2>3. StoreTypes'
    BY <1>0, <1>c, <1>2, <2>1, Zenon DEF StoreTypes, Moved
  <2>4. CallFits(u)'
    <3>1. Reserved(u)'
      BY <1>0, <1>c, <2>1 DEF CallFits, Reserved, Working
    <3> QED BY <1>0, <2>1, <3>1 DEF CallFits
  <2> QED BY <1>0, <1>c, <1>2, <2>1, <2>3, <2>4, CallStep
<1> QED BY <1>1, <1>2 DEF Stage

LEMMA StreamKeeps ==
  ASSUME KeptInv, NEW u \in Uploads, Stream(u)
  PROVE  KeptInv'
<1>0. StoreTypes /\ up[u].at = "STREAM" /\ CallFits(u)
  BY Zenon DEF KeptInv, Stream
<1>c. UNCHANGED <<sessions, records, arts, blobs, handles, acked, scope>>
  BY Zenon DEF Stream, tables, around
<1>1. /\ Moved(u) /\ up'[u].at \in {"COMMIT", "ABORT"} /\ up'[u].req = up[u].req
  <2>1. CASE \E good \in BOOLEAN : up' = [up EXCEPT ![u] = [@ EXCEPT !.at = "COMMIT", !.good = good]]
    <3>1. PICK good \in BOOLEAN : up' = [up EXCEPT ![u] = [@ EXCEPT !.at = "COMMIT", !.good = good]]
      BY <2>1, Zenon
    <3>2. PICK c : c = [up[u] EXCEPT !.at = "COMMIT", !.good = good]
      OBVIOUS
    <3>3. c \in CallRow /\ c.at = "COMMIT" /\ c.req = up[u].req
      BY <1>0, <3>2, Zenon DEF StoreTypes, CallRow, Places
    <3> QED BY <1>0, <3>1, <3>2, <3>3 DEF StoreTypes, Moved
  <2>2. CASE Fails(u)
    BY <1>0, <2>2, GoesFacts DEF Fails, Places
  <2> QED BY <2>1, <2>2, Zenon DEF Stream
<1>2. Table(staging', Uploads, StagedRow) /\ DOMAIN staging' = DOMAIN staging
  BY <1>0, Zenon DEF Stream, StoreTypes, Table, StagedRow, CallFits
<1>3. StoreTypes'
  BY <1>0, <1>c, <1>1, <1>2, Zenon DEF StoreTypes, Moved
<1>4. CallFits(u)'
  <2>1. Reserved(u)'
    BY <1>0, <1>c, <1>1 DEF CallFits, Reserved, Working
  <2> QED BY <1>0, <1>c, <1>1, <1>2, <2>1 DEF CallFits
<1> QED BY <1>0, <1>c, <1>1, <1>2, <1>3, <1>4, CallStep

LEMMA CommitBlobKeeps ==
  ASSUME KeptInv, NEW u \in Uploads, CommitBlob(u)
  PROVE  KeptInv'
<1>0. StoreTypes /\ up[u].at = "COMMIT" /\ CallFits(u) /\ u \in DOMAIN staging /\ up[u].req \in Requests
  BY DEF KeptInv, CommitBlob, CallFits
<1>c. UNCHANGED <<sessions, records, arts, acked, scope>>
  BY Zenon DEF CommitBlob, tables, around
<1>1. /\ Moved(u) /\ up'[u].at \in {"METADATA", "ABORT"} /\ up'[u].req = up[u].req
  <2>1. Goes(u, "METADATA") \/ Goes(u, "ABORT")
    BY Zenon DEF CommitBlob, Fails
  <2> QED BY <1>0, <2>1, GoesFacts DEF Places
<1>2. /\ Table(blobs', Uploads, BlobRow) /\ Table(staging', Uploads, StagedRow)
      /\ \A v \in Uploads \ {u} :
           /\ v \in handles' <=> v \in handles
           /\ v \in DOMAIN staging' <=> v \in DOMAIN staging
           /\ v \in DOMAIN blobs' <=> v \in DOMAIN blobs
           /\ v \in DOMAIN blobs => blobs'[v] = blobs[v]
      /\ up'[u].at = "METADATA" => u \in DOMAIN blobs' /\ blobs'[u].content = up[u].req.content
  <2>1. CASE UNCHANGED files /\ Fails(u)
    <3>1. UNCHANGED <<blobs, staging, handles>> /\ up'[u].at = "ABORT"
      BY <1>0, <2>1, GoesFacts DEF files, Fails, Places
    <3> QED BY <1>0, <3>1 DEF StoreTypes
  <2>2. CASE /\ blobs' = Put(blobs, u, [age |-> staging[u].age, content |-> up[u].req.content])
             /\ staging' = Without(staging, u)
             /\ handles' = handles \/ handles' = handles \ {u}
    <3>1. Table(staging, Uploads, StagedRow) /\ Table(blobs, Uploads, BlobRow)
      BY <1>0, Zenon DEF StoreTypes
    <3>2. Table(staging', Uploads, StagedRow) /\ DOMAIN staging' = DOMAIN staging \ {u}
      BY <2>2, <3>1 DEF Table, Without, Only
    <3>3. [age |-> staging[u].age, content |-> up[u].req.content] \in BlobRow
      BY <1>0, <3>1 DEF Table, StagedRow, BlobRow, Contents
    <3>4. /\ Table(blobs', Uploads, BlobRow) /\ DOMAIN blobs' = DOMAIN blobs \cup {u}
          /\ blobs'[u].content = up[u].req.content
          /\ \A v \in DOMAIN blobs \ {u} : blobs'[v] = blobs[v]
      BY <2>2, <3>1, <3>3 DEF Table, Put
    <3> QED BY <2>2, <3>2, <3>4
  <2> QED BY <2>1, <2>2 DEF CommitBlob
<1>3. StoreTypes'
  BY <1>0, <1>c, <1>1, <1>2, Zenon DEF StoreTypes, Moved
<1>4. CallFits(u)'
  <2>1. Reserved(u)'
    BY <1>0, <1>c, <1>1 DEF CallFits, Reserved, Working
  <2> QED BY <1>0, <1>c, <1>1, <1>2, <2>1 DEF CallFits
<1> QED BY <1>0, <1>c, <1>1, <1>2, <1>3, <1>4, CallStep, Zenon

LEMMA DropSurplusKeeps ==
  ASSUME KeptInv, NEW u \in Uploads, DropSurplus(u)
  PROVE  KeptInv'
<1>0. StoreTypes /\ up[u].at = "SURPLUS"
  BY DEF KeptInv, DropSurplus
<1>c. UNCHANGED <<sessions, records, arts, staging, handles, acked, scope>>
  BY Zenon DEF DropSurplus, tables, around
<1>1. Moved(u) /\ up'[u].at = "ENDED" /\ CallFits(u)'
  BY <1>0, EndsFacts, EndedFits DEF DropSurplus
<1>2. /\ Table(blobs', Uploads, BlobRow)
      /\ \A v \in Uploads \ {u} : /\ v \in DOMAIN blobs' <=> v \in DOMAIN blobs
                                  /\ v \in DOMAIN blobs => blobs'[v] = blobs[v]
  <2>1. CASE UNCHANGED blobs
    BY <1>0, <2>1 DEF StoreTypes
  <2>2. CASE blobs' = Without(blobs, u)
    BY <1>0, <2>2 DEF StoreTypes, Table, Without, Only
  <2> QED BY <2>1, <2>2 DEF DropSurplus
<1>3. StoreTypes'
  BY <1>0, <1>c, <1>1, <1>2, Zenon DEF StoreTypes, Moved
<1> QED BY <1>0, <1>c, <1>1, <1>2, <1>3, CallStep
\* The session of u leaves ACTIVE together with the answer of its record; nobody
\* else's rows move.
Settled(u, key, answer) ==
  /\ DOMAIN sessions' = DOMAIN sessions /\ DOMAIN records' = DOMAIN records
  /\ sessions'[u].state # "ACTIVE" /\ sessions'[u].size = sessions[u].size
  /\ \A v \in DOMAIN sessions \ {u} : sessions'[v] = sessions[v]
  /\ records'[key].answer = answer /\ records'[key].hash = records[key].hash
  /\ records'[key].upload = records[key].upload
  /\ \A k \in DOMAIN records \ {key} : records'[k] = records[k]

LEMMA SettledFacts ==
  ASSUME KeptInv, NEW u \in Uploads, Reserved(u), NEW key, key = up[u].req.key,
         records[key].answer = Pending, NEW answer \in Answers,
         NEW state \in {"COMMITTED", "ABORTED"},
         sessions' = [sessions EXCEPT ![u] = [@ EXCEPT !.state = state, !.age = 0]],
         records' = Answer(key, answer)
  PROVE  /\ Table(sessions', Uploads, SessionRow) /\ Table(records', Keys, RecordRow)
         /\ sessions[u].state = "ACTIVE"
         /\ Settled(u, key, answer) /\ KeepsRecords /\ KeepsSessions
<1>0. /\ Table(sessions, Uploads, SessionRow) /\ Table(records, Keys, RecordRow)
      /\ u \in DOMAIN sessions /\ key \in DOMAIN records /\ RecordFits(key)
      /\ records[key].upload = u
  BY Zenon DEF KeptInv, StoreTypes, Reserved
<1>1. PICK s : s = [sessions[u] EXCEPT !.state = state, !.age = 0]
  OBVIOUS
<1>2. s \in SessionRow /\ s.state = state /\ s.size = sessions[u].size
  BY <1>0, <1>1, Zenon DEF Table, SessionRow
<1>3. /\ Table(sessions', Uploads, SessionRow) /\ DOMAIN sessions' = DOMAIN sessions
      /\ sessions'[u] = s /\ \A v \in DOMAIN sessions \ {u} : sessions'[v] = sessions[v]
  BY <1>0, <1>1, <1>2 DEF Table
<1>4. PICK q : q = [records[key] EXCEPT !.answer = answer]
  BY Zenon
<1>5. /\ q \in RecordRow /\ q.answer = answer /\ q.hash = records[key].hash
      /\ q.upload = records[key].upload
  BY <1>0, <1>4 DEF Table, RecordRow
<1>6. records' = [records EXCEPT ![key] = q]
  BY <1>4 DEF Answer
<1>7. /\ Table(records', Keys, RecordRow) /\ DOMAIN records' = DOMAIN records
      /\ records'[key] = q /\ \A k \in DOMAIN records \ {key} : records'[k] = records[k]
  BY <1>0, <1>5, <1>6 DEF Table
<1>8. Settled(u, key, answer)
  BY <1>2, <1>3, <1>5, <1>7 DEF Settled
<1>9. KeepsRecords
  <2>1. ~Created(records[key].answer)
    BY AnswerFacts
  <2> QED BY <1>5, <1>7, <2>1 DEF KeepsRecords
<1>10. KeepsSessions
  BY <1>2, <1>3 DEF KeepsSessions
<1>11. sessions[u].state = "ACTIVE"
  BY <1>0, Zenon DEF RecordFits
<1> QED BY <1>3, <1>7, <1>8, <1>9, <1>10, <1>11, Zenon

\* The records after such a step: each one still fits.
LEMMA SettledFits ==
  ASSUME KeptInv, NEW u \in Uploads, Reserved(u), NEW key, key = up[u].req.key,
         NEW answer \in Answers, answer # Pending, Settled(u, key, answer),
         KeepsRecords,
         Created(answer) => answer[2] \in DOMAIN arts' /\ arts'[answer[2]].content = records[key].hash,
         \A a \in DOMAIN arts : a \in DOMAIN arts' /\ arts'[a].content = arts[a].content
  PROVE  OwnRecords' /\ \A k \in DOMAIN records' : RecordFits(k)'
<1>0. /\ OwnRecords /\ u \in DOMAIN sessions /\ key \in DOMAIN records /\ records[key].upload = u
      /\ DOMAIN records' = DOMAIN records /\ DOMAIN sessions' = DOMAIN sessions
  BY Zenon DEF KeptInv, Reserved, Settled
<1>1. OwnRecords'
  BY <1>0, Zenon DEF OwnRecords, KeepsRecords
<1>2. ASSUME NEW k \in DOMAIN records PROVE RecordFits(k)'
  <2>1. CASE k = key
    <3>1. /\ records'[k].upload = u /\ u \in DOMAIN sessions' /\ sessions'[u].state # "ACTIVE"
          /\ records'[k].answer = answer /\ records'[k].hash = records[key].hash
      BY <1>0, <2>1, Zenon DEF Settled
    <3> QED BY <3>1, Zenon DEF RecordFits
  <2>2. CASE k # key
    <3>1. records[k].upload # u /\ RecordFits(k) /\ records'[k] = records[k]
      BY <1>0, <2>2, Zenon DEF KeptInv, OwnRecords, Settled
    <3>2. /\ records[k].upload \in DOMAIN sessions'
          /\ sessions'[records[k].upload] = sessions[records[k].upload]
      BY <1>0, <3>1 DEF RecordFits, Settled
    <3> QED BY <3>1, <3>2, Zenon DEF RecordFits
  <2> QED BY <2>1, <2>2
<1> QED BY <1>0, <1>1, <1>2, Zenon
\* The metadata commit: the row, if the content is new, and the answer.
Inserts(u, r, known, a) ==
  /\ records[r.key].answer = Pending /\ (known = {} => HasBlob(u))
  /\ arts' = IF known = {} THEN Put(arts, u, [content |-> r.content, size |-> r.size]) ELSE arts
  /\ counter' = Converted(r.size, known # {})
  /\ sessions' = [sessions EXCEPT ![u] = [@ EXCEPT !.state = "COMMITTED", !.age = 0]]
  /\ records' = Answer(r.key, <<"created", a>>)
  /\ \/ Ends(u) /\ UNCHANGED acked
     \/ /\ acked' = acked \cup {<<r.key, a>>}
        /\ IF known = {} THEN Ends(u) ELSE Goes(u, "SURPLUS")

LEMMA CommitRowCases ==
  ASSUME NEW u, CommitRow(u), NEW r, r = up[u].req, NEW known, known = Existing(r.content),
         NEW a, a = IF known = {} THEN u ELSE Least(known)
  PROVE  \/ (Ends(u) \/ Goes(u, "SURPLUS") \/ Fails(u)) /\ UNCHANGED <<acked, tables>>
         \/ Inserts(u, r, known, a)
BY Zenon DEF CommitRow, Inserts

\* The artifact the answer names: the one that has the content, or the new one.
LEMMA KnownLeast ==
  ASSUME KeptInv, NEW u \in Uploads, NEW content, NEW known, known = Existing(content),
         NEW a, a = IF known = {} THEN u ELSE Least(known)
  PROVE  a \in Uploads /\ (known # {} => a \in DOMAIN arts /\ arts[a].content = content)
<1>1. \A b \in known : b \in DOMAIN arts /\ arts[b].content = content /\ b \in Uploads
  BY DEF Existing, KeptInv, StoreTypes, Table
<1>2. \A b, c \in known : b = c
  BY <1>1 DEF KeptInv, OwnContents
<1>3. known # {} => Least(known) \in known
  <2>1. \A b \in known : b \in Nat
    BY <1>1, UploadAssumption, Zenon
  <2>2. known # {} => \E b \in known : \A c \in known : b <= c
    BY <1>2, <2>1
  <2> QED BY <2>2 DEF Least
<1> QED BY <1>1, <1>3

LEMMA InsertKeeps ==
  ASSUME KeptInv, NEW u \in Uploads, NEW r, r = up[u].req, up[u].at = "METADATA",
         NEW known, known = Existing(r.content), NEW a, a = IF known = {} THEN u ELSE Least(known),
         records[r.key].answer = Pending, known = {} => HasBlob(u),
         arts' = IF known = {} THEN Put(arts, u, [content |-> r.content, size |-> r.size]) ELSE arts,
         sessions' = [sessions EXCEPT ![u] = [@ EXCEPT !.state = "COMMITTED", !.age = 0]],
         records' = Answer(r.key, <<"created", a>>),
         Moved(u), up'[u].at = "ENDED" \/ (up'[u].at = "SURPLUS" /\ up'[u].req = r /\ known # {}),
         acked' \in {acked, acked \cup {<<r.key, a>>}},
         UNCHANGED <<staging, blobs, handles, scope>>
  PROVE  KeptInv'
<1>0. /\ StoreTypes /\ CallFits(u) /\ Reserved(u) /\ r \in Requests /\ r.size \in Nat
      /\ r.content \in Contents /\ r.key \in DOMAIN records /\ records[r.key].hash = r.content
      /\ u \notin DOMAIN arts
  BY NoRowYet, RequestAssumption, Zenon DEF KeptInv, CallFits, Reserved, Working, Contents
<1>1. a \in Uploads /\ (known # {} => a \in DOMAIN arts /\ arts[a].content = r.content)
  BY KnownLeast
<1>2. /\ Table(arts', Uploads, ArtRow) /\ a \in DOMAIN arts' /\ arts'[a].content = r.content
      /\ \A b \in DOMAIN arts : b \in DOMAIN arts' /\ arts'[b] = arts[b]
      /\ \A b \in DOMAIN arts' : b \in DOMAIN arts \/ (b = u /\ known = {})
      /\ known = {} => a = u
  <2>1. Table(arts, Uploads, ArtRow)
    BY <1>0, Zenon DEF StoreTypes
  <2>2. CASE known = {}
    <3>1. [content |-> r.content, size |-> r.size] \in ArtRow
      BY <1>0 DEF ArtRow
    <3>2. arts' = Put(arts, u, [content |-> r.content, size |-> r.size]) /\ a = u
      BY <2>2, Zenon
    <3> QED BY <1>0, <2>1, <2>2, <3>1, <3>2 DEF Table, Put
  <2>3. CASE known # {}
    BY <1>1, <2>1, <2>3
  <2> QED BY <2>2, <2>3, Zenon
<1>3. /\ <<"created", a>> \in Answers /\ <<"created", a>> # Pending
      /\ Created(<<"created", a>>) /\ <<"created", a>>[2] = a
  BY <1>1, AnswerFacts
<1>4. /\ Table(sessions', Uploads, SessionRow) /\ Table(records', Keys, RecordRow)
      /\ Settled(u, r.key, <<"created", a>>) /\ KeepsRecords /\ KeepsSessions
  BY <1>0, <1>3, SettledFacts, Zenon
<1>5. OwnRecords' /\ \A k \in DOMAIN records' : RecordFits(k)'
  BY <1>0, <1>2, <1>3, <1>4, SettledFits, Zenon
<1>6. OwnContents'
  <2>1. known = {} => \A b \in DOMAIN arts : arts[b].content # r.content
    BY DEF Existing
  <2>2. ASSUME NEW b \in DOMAIN arts', NEW c \in DOMAIN arts', arts'[b].content = arts'[c].content
        PROVE  b = c
    <3>1. CASE b \in DOMAIN arts /\ c \in DOMAIN arts
      BY <1>2, <2>2, <3>1, Zenon DEF KeptInv, OwnContents
    <3>2. CASE b = u /\ known = {} /\ c \in DOMAIN arts
      BY <1>2, <2>1, <2>2, <3>2, Zenon
    <3>3. CASE c = u /\ known = {} /\ b \in DOMAIN arts
      BY <1>2, <2>1, <2>2, <3>3, Zenon
    <3> QED BY <1>2, <3>1, <3>2, <3>3, Zenon
  <2> QED BY <2>2, Zenon DEF OwnContents
<1>7. AckFits(<<r.key, a>>)' /\ r.key \in DOMAIN records'
  BY <1>0, <1>3, <1>4, Zenon DEF AckFits, Settled
<1>9. StoreTypes'
  <2>1. acked' \subseteq Keys \X Uploads
    BY <1>0, <1>1 DEF StoreTypes, Table
  <2> QED BY <1>0, <1>2, <1>4, <2>1, Zenon DEF StoreTypes, Moved
<1>10. \A p \in acked' : AckFits(p)'
  BY <1>4, <1>7, AckKept DEF KeptInv
<1>11. ASSUME NEW v \in Uploads PROVE CallFits(v)'
  <2>0. DOMAIN sessions' = DOMAIN sessions
    BY <1>4, Zenon DEF Settled
  <2>1. CASE v = u
    <3>1. Reserved(u) /\ up'[u].req = r => Reserved(u)'
      BY <1>4, Zenon DEF Reserved, KeepsRecords, KeepsSessions
    <3> QED BY <1>0, <2>1, <3>1 DEF CallFits, Working
  <2>2. CASE v # u
    BY <1>4, <2>0, <2>2, CallKept, Zenon DEF Moved, KeepsFiles, KeptInv
  <2> QED BY <2>1, <2>2
<1>12. ASSUME NEW b \in DOMAIN arts' PROVE RowFits(b)'
  <2>1. CASE b \in DOMAIN arts
    <3>1. b \in Uploads \ {u} /\ RowFits(b) /\ arts'[b] = arts[b]
      BY <1>0, <1>2, <2>1, Zenon DEF KeptInv, StoreTypes, Table
    <3> QED BY <3>1, RowKept, Zenon DEF Moved, RowFits, Intact
  <2>2. CASE b = u /\ known = {}
    <3>1. arts'[u].content = r.content /\ u \in DOMAIN blobs /\ blobs[u].content = r.content
      BY <1>0, <1>2, <2>2 DEF CallFits, HasBlob
    <3> QED BY <2>2, <3>1, Zenon DEF RowFits, Intact
  <2> QED BY <1>2, <2>1, <2>2, Zenon
<1> QED BY <1>5, <1>6, <1>9, <1>10, <1>11, <1>12, Zenon DEF KeptInv

\* A call that goes on or ends while every table and file stays.
LEMMA MoveKeeps ==
  ASSUME KeptInv, NEW u \in Uploads, up[u].at = "METADATA", UNCHANGED tables,
         Ends(u) \/ Goes(u, "SURPLUS") \/ Fails(u),
         UNCHANGED <<acked, staging, blobs, handles, scope>>
  PROVE  KeptInv'
<1>0. StoreTypes /\ CallFits(u) /\ UNCHANGED <<sessions, records, arts>>
  BY Zenon DEF KeptInv, tables
<1>1. /\ Moved(u) /\ \/ up'[u].at = "ENDED"
                     \/ up'[u].at \in {"SURPLUS", "ABORT"} /\ up'[u].req = up[u].req
  BY <1>0, EndsFacts, GoesFacts DEF Fails, Places
<1>2. CallFits(u)'
  <2>1. up'[u].req = up[u].req => Reserved(u)' /\ up'[u].req \in Requests
    BY <1>0 DEF CallFits, Reserved, Working
  <2> QED BY <1>1, <2>1 DEF CallFits, Working
<1>3. StoreTypes'
  BY <1>0, <1>1, Zenon DEF StoreTypes, Moved
<1> QED BY <1>0, <1>1, <1>2, <1>3, CallStep

LEMMA CommitRowKeeps ==
  ASSUME KeptInv, NEW u \in Uploads, CommitRow(u)
  PROVE  KeptInv'
<1>1. PICK r : r = up[u].req
  OBVIOUS
<1>2. PICK known : known = Existing(r.content)
  OBVIOUS
<1>3. PICK a : a = IF known = {} THEN u ELSE Least(known)
  OBVIOUS
<1>0. StoreTypes /\ up[u].at = "METADATA" /\ UNCHANGED <<staging, blobs, handles, scope>>
  BY Zenon DEF KeptInv, CommitRow, files, around
<1>4. \/ (Ends(u) \/ Goes(u, "SURPLUS") \/ Fails(u)) /\ UNCHANGED <<acked, tables>>
      \/ Inserts(u, r, known, a)
  BY <1>1, <1>2, <1>3, CommitRowCases, Zenon
<1>5. CASE (Ends(u) \/ Goes(u, "SURPLUS") \/ Fails(u)) /\ UNCHANGED <<acked, tables>>
  BY <1>0, <1>5, MoveKeeps, Zenon
<1>6. CASE Inserts(u, r, known, a)
  <2>1. Ends(u) => Moved(u) /\ up'[u].at = "ENDED"
    BY <1>0, EndsFacts
  <2>2. Goes(u, "SURPLUS") => Moved(u) /\ up'[u].at = "SURPLUS" /\ up'[u].req = r
    BY <1>0, <1>1, GoesFacts DEF Places
  <2>3. /\ Moved(u) /\ acked' \in {acked, acked \cup {<<r.key, a>>}}
        /\ up'[u].at = "ENDED" \/ (up'[u].at = "SURPLUS" /\ up'[u].req = r /\ known # {})
    BY <1>6, <2>1, <2>2, Zenon DEF Inserts
  <2> QED BY <1>0, <1>1, <1>2, <1>3, <1>6, <2>3, InsertKeeps, Zenon DEF Inserts
<1> QED BY <1>4, <1>5, <1>6, Zenon
\* _abort_upload.
Releases(u, r) ==
  /\ records[r.key].answer = Pending
  /\ counter' = [counter EXCEPT !.reserved = @ - r.size]
  /\ sessions' = [sessions EXCEPT ![u] = [@ EXCEPT !.state = "ABORTED", !.age = 0]]
  /\ records' = Answer(r.key, Refused)
  /\ UNCHANGED <<arts, refs>>

LEMMA AbortCases ==
  ASSUME NEW u, AbortUpload(u)
  PROVE  UNCHANGED tables \/ Releases(u, up[u].req)
BY Zenon DEF AbortUpload, Releases

LEMMA AbortKeeps ==
  ASSUME KeptInv, NEW u \in Uploads, AbortUpload(u)
  PROVE  KeptInv'
<1>0. StoreTypes /\ up[u].at = "ABORT" /\ CallFits(u) /\ Reserved(u) /\ u \notin DOMAIN arts
  BY NoRowYet DEF KeptInv, AbortUpload, CallFits, Working
<1>c. UNCHANGED <<blobs, acked, scope>> /\ handles' = handles \ {u}
  BY Zenon DEF AbortUpload, around
<1>1. Moved(u) /\ up'[u].at = "ENDED" /\ CallFits(u)'
  BY <1>0, EndsFacts, EndedFits DEF AbortUpload
<1>2. Table(staging', Uploads, StagedRow) /\ DOMAIN staging \ {u} \subseteq DOMAIN staging'
      /\ DOMAIN staging' \subseteq DOMAIN staging
  <2>1. CASE UNCHANGED staging
    BY <1>0, <2>1 DEF StoreTypes
  <2>2. CASE staging' = Without(staging, u)
    BY <1>0, <2>2 DEF StoreTypes, Table, Without, Only
  <2> QED BY <2>1, <2>2 DEF AbortUpload
<1>3. CASE UNCHANGED tables
  <2>1. UNCHANGED <<sessions, records, arts>>
    BY <1>3, Zenon DEF tables
  <2>2. StoreTypes'
    BY <1>0, <1>c, <1>1, <1>2, <2>1, Zenon DEF StoreTypes, Moved
  <2> QED BY <1>0, <1>c, <1>1, <1>2, <2>1, <2>2, CallStep
<1>4. CASE Releases(u, up[u].req)
  <2>0. /\ records[up[u].req.key].answer = Pending /\ arts' = arts
        /\ sessions' = [sessions EXCEPT ![u] = [@ EXCEPT !.state = "ABORTED", !.age = 0]]
        /\ records' = Answer(up[u].req.key, Refused)
    BY <1>4, Zenon DEF Releases
  <2>1. /\ Table(sessions', Uploads, SessionRow) /\ Table(records', Keys, RecordRow)
        /\ Settled(u, up[u].req.key, Refused) /\ KeepsRecords /\ KeepsSessions
    BY <1>0, <2>0, AnswerFacts, SettledFacts, Zenon
  <2>2. OwnRecords' /\ \A k \in DOMAIN records' : RecordFits(k)'
    BY <1>0, <2>0, <2>1, AnswerFacts, SettledFits
  <2>4. StoreTypes'
    BY <1>0, <1>c, <1>1, <1>2, <2>0, <2>1, Zenon DEF StoreTypes, Moved
  <2>5. OwnContents' /\ \A p \in acked' : AckFits(p)'
    BY <1>c, <2>0, <2>1, AckKept, Zenon DEF KeptInv, OwnContents
  <2>6. ASSUME NEW v \in Uploads \ {u} PROVE CallFits(v)'
    <3>1. KeepsFiles(v) /\ DOMAIN sessions' = DOMAIN sessions
      BY <1>c, <1>2, <2>1 DEF KeepsFiles, Settled
    <3> QED BY <1>1, <2>1, <3>1, CallKept, Zenon DEF Moved, KeptInv
  <2>7. \A a \in DOMAIN arts' : RowFits(a)'
    <3>1. \A a \in DOMAIN arts : a \in Uploads \ {u} /\ RowFits(a)
      BY <1>0 DEF KeptInv, StoreTypes, Table
    <3> QED BY <1>c, <1>1, <2>0, <3>1, RowKept, Zenon DEF Moved, RowFits, Intact
  <2> QED BY <1>1, <2>2, <2>4, <2>5, <2>6, <2>7, Zenon DEF KeptInv
<1> QED BY <1>3, <1>4, AbortCases

-----------------------------------------------------------------------------
(* The GC and the world around *)

\* expire_uploads settles every overdue session with its record.
LEMMA ExpireKeeps ==
  ASSUME KeptInv, Expire
  PROVE  KeptInv'
<1>0. /\ StoreTypes /\ OwnRecords /\ Table(sessions, Uploads, SessionRow)
      /\ Table(records, Keys, RecordRow)
  BY Zenon DEF KeptInv, StoreTypes
<1>c. UNCHANGED <<up, acked, arts, staging, blobs, handles, scope>>
  BY Zenon DEF Expire, files, around
<1>1. /\ Table(sessions', Uploads, SessionRow) /\ DOMAIN sessions' = DOMAIN sessions
      /\ \A v \in DOMAIN sessions : /\ sessions'[v].size = sessions[v].size
                                    /\ v \notin Overdue => sessions'[v] = sessions[v]
                                    /\ v \in Overdue => sessions'[v].state = "EXPIRED"
  <2>1. \A v \in DOMAIN sessions :
          /\ sessions[v] \in SessionRow
          /\ [sessions[v] EXCEPT !.state = "EXPIRED", !.age = 0] \in SessionRow
          /\ [sessions[v] EXCEPT !.state = "EXPIRED", !.age = 0].size = sessions[v].size
          /\ [sessions[v] EXCEPT !.state = "EXPIRED", !.age = 0].state = "EXPIRED"
    BY <1>0, Zenon DEF Table, SessionRow
  <2> QED BY <1>0, <2>1, Zenon DEF Expire, Table
<1>2. /\ Table(records', Keys, RecordRow) /\ DOMAIN records' = DOMAIN records
      /\ \A k \in DOMAIN records :
           /\ records'[k].hash = records[k].hash /\ records'[k].upload = records[k].upload
           /\ IF records[k].upload \in Overdue /\ records[k].answer = Pending
              THEN records'[k].answer = Refused ELSE records'[k].answer = records[k].answer
  <2>1. \A k \in DOMAIN records :
          /\ records[k] \in RecordRow
          /\ [records[k] EXCEPT !.answer = Refused] \in RecordRow
          /\ [records[k] EXCEPT !.answer = Refused].hash = records[k].hash
          /\ [records[k] EXCEPT !.answer = Refused].upload = records[k].upload
          /\ [records[k] EXCEPT !.answer = Refused].answer = Refused
    BY <1>0, AnswerFacts DEF Table, RecordRow
  <2> QED BY <1>0, <2>1, Zenon DEF Expire, Table
<1>3. KeepsRecords /\ KeepsSessions
  BY <1>1, <1>2, AnswerFacts DEF KeepsRecords, KeepsSessions
<1>5. StoreTypes'
  BY <1>0, <1>c, <1>1, <1>2, Zenon DEF StoreTypes
<1>6. OwnRecords' /\ OwnContents'
  <2>1. OwnRecords'
    BY <1>0, <1>2, Zenon DEF OwnRecords
  <2> QED BY <1>c, <2>1, Zenon DEF KeptInv, OwnContents
<1>7. ASSUME NEW k \in DOMAIN records PROVE RecordFits(k)'
  <2>1. /\ RecordFits(k) /\ records[k].upload \in DOMAIN sessions
        /\ records'[k].upload = records[k].upload /\ records'[k].hash = records[k].hash
    BY <1>2, Zenon DEF KeptInv, RecordFits
  <2>2. CASE records[k].upload \in Overdue
    <3>1. records[k].answer = Pending
      BY <2>1, <2>2 DEF RecordFits, Overdue
    <3>2. /\ records'[k].answer = Refused /\ ~Created(records'[k].answer)
          /\ sessions'[records'[k].upload].state # "ACTIVE" /\ records'[k].answer # Pending
      BY <1>1, <1>2, <2>1, <2>2, <3>1, AnswerFacts
    <3> QED BY <1>1, <2>1, <3>2, Zenon DEF RecordFits
  <2>3. CASE records[k].upload \notin Overdue
    BY <1>c, <1>1, <1>2, <2>1, <2>3, Zenon DEF RecordFits
  <2> QED BY <2>2, <2>3
<1>8. \A v \in Uploads : CallFits(v)'
  BY <1>c, <1>1, <1>3, CallKept, Zenon DEF KeptInv, KeepsFiles
<1>9. \A a \in DOMAIN arts' : RowFits(a)'
  BY <1>c, RowKept, Zenon DEF KeptInv, RowFits, Intact
<1>10. \A p \in acked' : AckFits(p)'
  BY <1>c, <1>3, AckKept, Zenon DEF KeptInv
<1> QED BY <1>2, <1>5, <1>6, <1>7, <1>8, <1>9, <1>10, Zenon DEF KeptInv
\* A step of the GC that only removes files: never the blob of a row, and never a
\* staging file whose handle is open.
LEMMA RemoveKeeps ==
  ASSUME KeptInv, UNCHANGED <<up, acked, sessions, records, arts, handles, scope>>,
         NEW u, staging' = staging \/ (u \notin handles /\ staging' = Without(staging, u)),
         blobs' = blobs \/ (u \notin DOMAIN arts /\ blobs' = Without(blobs, u))
  PROVE  KeptInv'
<1>0. StoreTypes /\ Table(staging, Uploads, StagedRow) /\ Table(blobs, Uploads, BlobRow)
  BY Zenon DEF KeptInv, StoreTypes
<1>1. /\ Table(staging', Uploads, StagedRow)
      /\ \A v \in handles : v \in DOMAIN staging => v \in DOMAIN staging'
  <2>1. CASE staging' = staging
    BY <1>0, <2>1
  <2>2. CASE u \notin handles /\ staging' = Without(staging, u)
    BY <1>0, <2>2 DEF Table, Without, Only
  <2> QED BY <2>1, <2>2
<1>2. /\ Table(blobs', Uploads, BlobRow) /\ DOMAIN blobs' \subseteq DOMAIN blobs
      /\ \A v \in DOMAIN blobs' : blobs'[v] = blobs[v]
      /\ \A a \in DOMAIN arts : a \in DOMAIN blobs => a \in DOMAIN blobs'
  <2>1. CASE blobs' = blobs
    BY <1>0, <2>1
  <2>2. CASE u \notin DOMAIN arts /\ blobs' = Without(blobs, u)
    BY <1>0, <2>2 DEF Table, Without, Only
  <2> QED BY <2>1, <2>2
<1>3. StoreTypes'
  BY <1>0, <1>1, <1>2, Zenon DEF StoreTypes
<1>4. KeepsRecords /\ KeepsSessions /\ \A v \in Uploads : KeepsFiles(v)
  BY <1>1, <1>2 DEF KeepsRecords, KeepsSessions, KeepsFiles
<1>5. \A v \in Uploads : CallFits(v)'
  BY <1>4, CallKept, Zenon DEF KeptInv
<1>6. \A a \in DOMAIN arts : /\ up'[a].at = "ENDED" /\ a \in DOMAIN blobs'
                             /\ blobs'[a].content = blobs[a].content
  BY <1>2 DEF KeptInv, RowFits, Intact
<1> QED BY <1>3, <1>5, <1>6, TablesStay, Zenon

LEMMA CollectKeeps ==
  ASSUME KeptInv, Collect \/ GcSkip
  PROVE  KeptInv'
<1>1. CASE Expire
  BY <1>1, ExpireKeeps
<1>2. CASE UNCHANGED <<up, acked, tables, files, around>>
  <2>1. UNCHANGED <<up, acked, sessions, records, arts, handles, scope, staging, blobs>>
    BY <1>2, Zenon DEF tables, files, around
  <2> QED BY <2>1, RemoveKeeps, Zenon
<1>3. ASSUME NEW u \in Uploads, DropStaging(u) PROVE KeptInv'
  <2>1. UNCHANGED <<up, acked, sessions, records, arts, handles, scope, blobs>>
    BY <1>3, Zenon DEF DropStaging, tables, around
  <2>2. staging' = staging \/ (u \notin handles /\ staging' = Without(staging, u))
    BY <1>3, Zenon DEF DropStaging
  <2> QED BY <2>1, <2>2, RemoveKeeps, Zenon
<1>4. ASSUME NEW u \in Uploads, DropOrphan(u) PROVE KeptInv'
  <2>1. UNCHANGED <<up, acked, sessions, records, arts, handles, scope, staging>>
    BY <1>4, Zenon DEF DropOrphan, tables, around
  <2>2. blobs' = blobs \/ (u \notin DOMAIN arts /\ blobs' = Without(blobs, u))
    BY <1>4, Zenon DEF DropOrphan, Named
  <2> QED BY <2>1, <2>2, RemoveKeeps, Zenon
<1>5. CASE GcStart \/ ScanStaging \/ ScanBlobs \/ LookBlobs \/ GcEnd \/ GcSkip
  BY <1>2, <1>5, Zenon DEF GcStart, ScanStaging, ScanBlobs, LookBlobs, GcEnd, GcSkip
<1> QED BY <1>1, <1>3, <1>4, <1>5, Zenon DEF Collect

LEMMA TickKeeps ==
  ASSUME KeptInv, Tick
  PROVE  KeptInv'
<1>0. /\ StoreTypes /\ Table(sessions, Uploads, SessionRow)
      /\ Table(staging, Uploads, StagedRow) /\ Table(blobs, Uploads, BlobRow)
  BY Zenon DEF KeptInv, StoreTypes
<1>c. UNCHANGED <<up, acked, records, arts, handles, scope>>
  BY Zenon DEF Tick, around
<1>1. \A age \in Nat : /\ Aged(age, StagingTtl) \in Nat /\ Aged(age, StagingTtl + 1) \in Nat
                       /\ Aged(age, OrphanTtl + 1) \in Nat
  BY TtlAssumption DEF Aged
<1>2. /\ Table(sessions', Uploads, SessionRow) /\ DOMAIN sessions' = DOMAIN sessions
      /\ \A v \in DOMAIN sessions : /\ sessions'[v].size = sessions[v].size
                                    /\ sessions'[v].state = sessions[v].state
  <2>1. \A v \in DOMAIN sessions :
          LET s == [sessions[v] EXCEPT !.age =
                      IF sessions[v].state = "ACTIVE" THEN Aged(@, StagingTtl) ELSE @] IN
          s \in SessionRow /\ s.size = sessions[v].size /\ s.state = sessions[v].state
    BY <1>0, <1>1 DEF Table, SessionRow
  <2> QED BY <1>0, <2>1, Zenon DEF Tick, Table
<1>3. Table(staging', Uploads, StagedRow) /\ DOMAIN staging' = DOMAIN staging
  <2>1. \A v \in DOMAIN staging :
          [staging[v] EXCEPT !.age = Aged(@, StagingTtl + 1)] \in StagedRow
    BY <1>0, <1>1 DEF Table, StagedRow
  <2> QED BY <1>0, <2>1 DEF Tick, Table
<1>4. /\ Table(blobs', Uploads, BlobRow) /\ DOMAIN blobs' = DOMAIN blobs
      /\ \A v \in DOMAIN blobs : blobs'[v].content = blobs[v].content
  <2>1. \A v \in DOMAIN blobs :
          LET b == [blobs[v] EXCEPT !.age = Aged(@, OrphanTtl + 1)] IN
          b \in BlobRow /\ b.content = blobs[v].content
    BY <1>0, <1>1 DEF Table, BlobRow
  <2> QED BY <1>0, <2>1, Zenon DEF Tick, Table
<1>5. StoreTypes'
  BY <1>0, <1>c, <1>2, <1>3, <1>4, Zenon DEF StoreTypes
<1>6. KeepsRecords /\ KeepsSessions /\ \A v \in Uploads : KeepsFiles(v)
  BY <1>c, <1>2, <1>3, <1>4 DEF KeepsRecords, KeepsSessions, KeepsFiles
<1>7. OwnRecords' /\ OwnContents'
  BY <1>c DEF KeptInv, OwnRecords, OwnContents
<1>8. \A v \in Uploads : CallFits(v)'
  BY <1>c, <1>2, <1>6, CallKept, Zenon DEF KeptInv
<1>9. \A k \in DOMAIN records' : RecordFits(k)'
  <2>1. \A k \in DOMAIN records : RecordFits(k)
    BY DEF KeptInv
  <2> QED BY <1>c, <1>2, <2>1 DEF RecordFits
<1>10. \A a \in DOMAIN arts' : RowFits(a)'
  BY <1>c, <1>4, RowKept DEF KeptInv, RowFits, Intact
<1>11. \A p \in acked' : AckFits(p)'
  BY <1>c, <1>6, AckKept, Zenon DEF KeptInv
<1> QED BY <1>5, <1>7, <1>8, <1>9, <1>10, <1>11, Zenon DEF KeptInv

LEMMA CrashKeeps ==
  ASSUME KeptInv, ApiCrash
  PROVE  KeptInv'
<1>0. StoreTypes /\ UNCHANGED <<sessions, records, arts, staging, blobs, acked, scope>>
  BY Zenon DEF KeptInv, ApiCrash, tables
<1>1. /\ up' \in [Uploads -> CallRow]
      /\ \A v \in Uploads : /\ up[v].at = "IDLE" => up'[v] = NoCall
                            /\ up[v].at # "IDLE" => up'[v].at = "ENDED"
  BY NoCallFacts DEF ApiCrash, CallRow, Places
<1>2. StoreTypes'
  BY <1>0, <1>1, Zenon DEF StoreTypes
<1>3. ASSUME NEW v \in Uploads PROVE CallFits(v)'
  <2>1. CASE up[v].at = "IDLE"
    <3>1. v \notin DOMAIN sessions' /\ up'[v].at = "IDLE"
      BY <1>0, <1>1, <2>1, NoCallFacts DEF KeptInv, CallFits
    <3> QED BY <3>1 DEF CallFits, Working
  <2>2. CASE up[v].at # "IDLE"
    BY <1>1, <2>2, EndedFits
  <2> QED BY <2>1, <2>2
<1>4. \A a \in DOMAIN arts : /\ up'[a].at = "ENDED" /\ a \in DOMAIN blobs'
                             /\ blobs'[a].content = blobs[a].content
  <2>1. \A a \in DOMAIN arts : a \in Uploads /\ RowFits(a)
    BY <1>0 DEF KeptInv, StoreTypes, Table
  <2> QED BY <1>0, <1>1, <2>1 DEF RowFits, Intact
<1> QED BY <1>0, <1>2, <1>3, <1>4, TablesStay

LEMMA ScopeKeeps ==
  ASSUME KeptInv, ScopeChange
  PROVE  KeptInv'
<1>0. StoreTypes /\ UNCHANGED <<up, sessions, records, arts, staging, blobs, handles, acked>>
  BY Zenon DEF KeptInv, ScopeChange, tables, files
<1>1. scope' \in ScopeRow
  <2>0. scope \in ScopeRow
    BY <1>0, Zenon DEF StoreTypes
  <2>1. \/ scope' = [scope EXCEPT !.member = FALSE]
        \/ \E p \in Phases : scope' = [scope EXCEPT !.phase = p]
        \/ scope' = [scope EXCEPT !.grant = @ + 1]
    BY Zenon DEF ScopeChange, Phases
  <2>2. CASE scope' = [scope EXCEPT !.member = FALSE]
    BY <2>0, <2>2, Zenon DEF ScopeRow
  <2>3. ASSUME NEW p \in Phases, scope' = [scope EXCEPT !.phase = p] PROVE scope' \in ScopeRow
    BY <2>0, <2>3 DEF ScopeRow
  <2>4. CASE scope' = [scope EXCEPT !.grant = @ + 1]
    BY <2>0, <2>4 DEF ScopeRow
  <2> QED BY <2>1, <2>2, <2>3, <2>4
<1>2. StoreTypes'
  BY <1>0, <1>1, Zenon DEF StoreTypes
<1>3. KeepsRecords /\ KeepsSessions /\ \A v \in Uploads : KeepsFiles(v)
  BY <1>0 DEF KeepsRecords, KeepsSessions, KeepsFiles
<1>4. \A v \in Uploads : CallFits(v)'
  BY <1>0, <1>3, CallKept, Zenon DEF KeptInv
<1>5. \A a \in DOMAIN arts : /\ up'[a].at = "ENDED" /\ a \in DOMAIN blobs'
                             /\ blobs'[a].content = blobs[a].content
  BY <1>0 DEF KeptInv, RowFits, Intact
<1> QED BY <1>0, <1>2, <1>4, <1>5, TablesStay, Zenon
LEMMA KeptStart ==
  ASSUME StoreInit
  PROVE  KeptInv
<1>1. DOMAIN NoRows = {} /\ \A S, R : Table(NoRows, S, R)
  <2>1. DOMAIN NoRows = {} /\ \A R : NoRows \in [DOMAIN NoRows -> R]
    BY DEF NoRows
  <2> QED BY <2>1, Zenon DEF Table
<1>2. up \in [Uploads -> CallRow] /\ scope \in ScopeRow
  BY NoCallFacts DEF StoreInit, ScopeRow, Phases
<1>3. /\ sessions = NoRows /\ records = NoRows /\ arts = NoRows
      /\ staging = NoRows /\ blobs = NoRows /\ acked = {}
  BY Zenon DEF StoreInit
<1>4. StoreTypes
  BY <1>1, <1>2, <1>3, Zenon DEF StoreTypes
<1>5. \A u \in Uploads : CallFits(u)
  BY <1>1, <1>3, NoCallFacts DEF StoreInit, CallFits, Working
<1>6. OwnRecords /\ OwnContents
  BY <1>1, <1>3, Zenon DEF OwnRecords, OwnContents
<1> QED BY <1>1, <1>3, <1>4, <1>5, <1>6, Zenon DEF KeptInv

LEMMA KeptStep ==
  ASSUME KeptInv, [StoreNext]_storeVars
  PROVE  KeptInv'
<1>1. ASSUME NEW u \in Uploads, NEW r \in Requests, Receive(u, r) PROVE KeptInv'
  BY <1>1, ReceiveKeeps
<1>2. ASSUME NEW u \in Uploads, Upload(u) PROVE KeptInv'
  BY <1>2, BeginKeeps, StageKeeps, StreamKeeps, CommitBlobKeeps, CommitRowKeeps,
     DropSurplusKeeps, AbortKeeps, Zenon DEF Upload
<1>3. CASE UNCHANGED storeVars
  <2>1. UNCHANGED <<up, acked, sessions, records, arts, handles, scope, staging, blobs>>
    BY <1>3, Zenon DEF storeVars, tables, files, around
  <2> QED BY <2>1, RemoveKeeps, Zenon
<1> QED BY <1>1, <1>2, <1>3, CollectKeeps, TickKeeps, ScopeKeeps, CrashKeeps, Zenon DEF StoreNext

\* The blobs of committed rows, the answers of the clients and the uploads in flight
\* agree in every reachable state.
THEOREM KeptAlways == StoreSpec => []KeptInv
<1>1. StoreInit => KeptInv
  BY KeptStart
<1>2. KeptInv /\ [StoreNext]_storeVars => KeptInv'
  BY KeptStep
<1> QED BY <1>1, <1>2, PTL DEF StoreSpec

\* Any single range a client may ask for.
AnyHeader == {<< >>} \cup {<<i>> : i \in Nat} \cup (Nat \X Nat)

\* The bounded reader of a download serves exactly the bytes the header asks for.
LEMMA DownloadExact ==
  ASSUME KeptInv, NEW a \in DOMAIN arts, NEW h \in AnyHeader
  PROVE  LET wanted == {b \in 0..(arts[a].size - 1) :
                          (h # << >> => h[1] <= b) /\ (Len(h) = 2 => b <= h[2])}
         IN Download(a, h) = IF h # << >> /\ wanted = {} THEN "validation_failed" ELSE wanted
<1>1. Intact(a) /\ arts[a].size \in Nat
  BY DEF KeptInv, RowFits, StoreTypes, Table, ArtRow
<1>2. PICK n \in Nat : n = arts[a].size
  BY <1>1
<1>3. CASE h = << >>
  <2>1. RangeOf(h, n) = <<0, n - 1>> /\ Len(h) = 0
    BY <1>3 DEF RangeOf
  <2> QED BY <1>1, <1>2, <1>3, <2>1 DEF Download
<1>4. ASSUME NEW i \in Nat, h = <<i>>
      PROVE  Download(a, h) = IF i < n THEN i..(n - 1) ELSE "validation_failed"
  <2>1. h # << >> /\ Len(h) = 1 /\ h[1] = i
    BY <1>4
  <2>2. RangeOf(h, n) = <<i, n - 1>>
    BY <2>1 DEF RangeOf
  <2> QED BY <1>1, <1>2, <2>1, <2>2 DEF Download
<1>5. ASSUME NEW i \in Nat, NEW j \in Nat, h = <<i, j>>
      PROVE  Download(a, h) = IF i < n /\ i <= j THEN i..(IF j < n THEN j ELSE n - 1)
                              ELSE "validation_failed"
  <2>1. h # << >> /\ Len(h) = 2 /\ h[1] = i /\ h[2] = j
    BY <1>5
  <2>2. RangeOf(h, n) = <<i, IF j < n THEN j ELSE n - 1>>
    BY <2>1 DEF RangeOf
  <2> QED BY <1>1, <1>2, <2>1, <2>2 DEF Download
<1>6. ASSUME NEW i \in Nat, h = <<i>>
      PROVE  LET wanted == {b \in 0..(n - 1) :
                              (h # << >> => h[1] <= b) /\ (Len(h) = 2 => b <= h[2])}
             IN Download(a, h) = IF h # << >> /\ wanted = {} THEN "validation_failed" ELSE wanted
  <2>1. h # << >> /\ Len(h) # 2 /\ h[1] = i
    BY <1>6
  <2>2. PICK w : w = {b \in 0..(n - 1) : (h # << >> => h[1] <= b) /\ (Len(h) = 2 => b <= h[2])}
    BY Zenon
  <2>3. w = {b \in 0..(n - 1) : i <= b}
    BY <2>1, <2>2
  <2>4. IF i < n THEN w # {} /\ w = i..(n - 1) ELSE w = {}
    <3>1. i < n => i \in w
      BY <2>3
    <3>2. w = i..(n - 1)
      BY <2>3
    <3>3. ~(i < n) => w = {}
      BY <2>3
    <3> QED BY <3>1, <3>2, <3>3, Zenon
  <2> QED BY <1>4, <1>6, <2>1, <2>2, <2>4, Zenon
<1>7. ASSUME NEW i \in Nat, NEW j \in Nat, h = <<i, j>>
      PROVE  LET wanted == {b \in 0..(n - 1) :
                              (h # << >> => h[1] <= b) /\ (Len(h) = 2 => b <= h[2])}
             IN Download(a, h) = IF h # << >> /\ wanted = {} THEN "validation_failed" ELSE wanted
  <2>1. h # << >> /\ Len(h) = 2 /\ h[1] = i /\ h[2] = j
    BY <1>7
  <2>2. PICK w : w = {b \in 0..(n - 1) : (h # << >> => h[1] <= b) /\ (Len(h) = 2 => b <= h[2])}
    BY Zenon
  <2>3. w = {b \in 0..(n - 1) : i <= b /\ b <= j}
    BY <2>1, <2>2
  <2>4. IF i < n /\ i <= j THEN w # {} /\ w = i..(IF j < n THEN j ELSE n - 1) ELSE w = {}
    <3>1. i < n /\ i <= j => i \in w
      BY <2>3
    <3>2. w = i..(IF j < n THEN j ELSE n - 1)
      BY <2>3
    <3> QED BY <2>3, <3>1, <3>2
  <2> QED BY <1>5, <1>7, <2>1, <2>2, <2>4, Zenon
<1>8. h = << >> \/ (\E i \in Nat : h = <<i>>) \/ (\E i, j \in Nat : h = <<i, j>>)
  BY DEF AnyHeader
<1> QED BY <1>2, <1>3, <1>6, <1>7, <1>8

\* BlobsKept: whatever the order of uploads, GC passes, scope changes and crashes, every
\* committed row keeps its downloadable blob and every 201 names such a row.
THEOREM BlobsAreKept == StoreSpec => []BlobsKept
<1>1. ASSUME KeptInv PROVE BlobsKept
  <2>1. \A a \in DOMAIN arts : Intact(a) /\ Existing(arts[a].content) = {a}
    BY <1>1 DEF KeptInv, RowFits, OwnContents, Existing
  <2>2. \A p \in acked : /\ p[2] \in DOMAIN arts /\ arts[p[2]].content = records[p[1]].hash
                         /\ \A q \in acked : q[1] = p[1] => q = p
    <3>1. \A p \in acked : /\ p = <<p[1], p[2]>> /\ p[1] \in DOMAIN records
                           /\ Created(records[p[1]].answer) /\ records[p[1]].answer[2] = p[2]
      BY <1>1 DEF KeptInv, StoreTypes, AckFits
    <3>2. \A p \in acked : p[2] \in DOMAIN arts /\ arts[p[2]].content = records[p[1]].hash
      BY <1>1, <3>1, Zenon DEF KeptInv, RecordFits
    <3>3. ASSUME NEW p \in acked, NEW q \in acked, q[1] = p[1] PROVE q = p
      BY <3>1, <3>3
    <3> QED BY <3>2, <3>3
  <2>3. \A h \in Headers : h \in AnyHeader
    BY DEF Headers, AnyHeader
  <2> QED BY <1>1, <2>1, <2>2, <2>3, DownloadExact, Zenon DEF BlobsKept
<1> QED BY <1>1, KeptAlways, PTL
-----------------------------------------------------------------------------
(* The books *)

INSTANCE FiniteSetTheorems

Active == {u \in DOMAIN sessions : sessions[u].state = "ACTIVE"}

\* The counters say what the rows say; both sums are finite.
BookInv ==
  /\ IsFiniteSet(ByteSet(sessions, Active)) /\ IsFiniteSet(ByteSet(arts, DOMAIN arts))
  /\ counter \in [reserved : Int, committed : Int]
  /\ counter.reserved = Bytes(sessions, Active) /\ counter.committed = Bytes(arts, DOMAIN arts)
  /\ counter.reserved + counter.committed <= Quota

LEMMA SameBytes ==
  ASSUME NEW rows, NEW more, NEW S, \A u \in S : more[u].size = rows[u].size
  PROVE  ByteSet(more, S) = ByteSet(rows, S)
BY DEF ByteSet

LEMMA OwnBytes ==
  ASSUME NEW u, NEW n \in Nat
  PROVE  IsFiniteSet({u} \X (1..n)) /\ Cardinality({u} \X (1..n)) = n
<1>1. IsFiniteSet({u}) /\ Cardinality({u}) = 1
  BY FS_Singleton
<1>2. IsFiniteSet(1..n) /\ Cardinality(1..n) = n
  BY FS_Interval
<1>3. /\ IsFiniteSet({u} \X (1..n))
      /\ Cardinality({u} \X (1..n)) = Cardinality({u}) * Cardinality(1..n)
  BY <1>1, <1>2, FS_Product, Zenon
<1> QED BY <1>1, <1>2, <1>3

\* The sums of two sets of rows that have no row in common.
LEMMA SplitBytes ==
  ASSUME NEW rows, NEW S, NEW T, S \cap T = {},
         IsFiniteSet(ByteSet(rows, S)), IsFiniteSet(ByteSet(rows, T))
  PROVE  /\ IsFiniteSet(ByteSet(rows, S \cup T))
         /\ Bytes(rows, S) \in Nat /\ Bytes(rows, T) \in Nat
         /\ Bytes(rows, S \cup T) = Bytes(rows, S) + Bytes(rows, T)
<1>1. ByteSet(rows, S \cup T) = ByteSet(rows, S) \cup ByteSet(rows, T)
  BY DEF ByteSet
<1>2. ByteSet(rows, S) \cap ByteSet(rows, T) = {}
  BY DEF ByteSet
<1>3. Cardinality(ByteSet(rows, S)) \in Nat /\ Cardinality(ByteSet(rows, T)) \in Nat
  BY FS_CardinalityType, Zenon
<1>4. /\ IsFiniteSet(ByteSet(rows, S) \cup ByteSet(rows, T))
      /\ Cardinality(ByteSet(rows, S) \cup ByteSet(rows, T))
           = Cardinality(ByteSet(rows, S)) + Cardinality(ByteSet(rows, T))
               - Cardinality(ByteSet(rows, S) \cap ByteSet(rows, T))
  BY FS_Union, Zenon
<1>5. Cardinality(ByteSet(rows, S) \cap ByteSet(rows, T)) = 0
  BY <1>2, FS_EmptySet
<1>6. PICK m \in Nat, n \in Nat :
        m = Cardinality(ByteSet(rows, S)) /\ n = Cardinality(ByteSet(rows, T))
  BY <1>3
<1>7. m + n - 0 = m + n
  OBVIOUS
<1>8. Cardinality(ByteSet(rows, S \cup T)) = m + n
  BY <1>1, <1>4, <1>5, <1>6, <1>7, Zenon
<1> QED BY <1>1, <1>3, <1>4, <1>6, <1>8, Zenon DEF Bytes

LEMMA OneRow ==
  ASSUME NEW rows, NEW u, rows[u].size \in Nat
  PROVE  IsFiniteSet(ByteSet(rows, {u})) /\ Bytes(rows, {u}) = rows[u].size
<1>1. ByteSet(rows, {u}) = {u} \X (1..rows[u].size)
  BY DEF ByteSet
<1>2. IsFiniteSet({u} \X (1..rows[u].size)) /\ Cardinality({u} \X (1..rows[u].size)) = rows[u].size
  BY OwnBytes, Zenon
<1> QED BY <1>1, <1>2, Zenon DEF Bytes

\* What is left of a sum when some of its rows go.
LEMMA LessBytes ==
  ASSUME NEW rows, NEW S, NEW T, T \subseteq S, IsFiniteSet(ByteSet(rows, S))
  PROVE  /\ IsFiniteSet(ByteSet(rows, S \ T))
         /\ Bytes(rows, S) \in Nat /\ Bytes(rows, T) \in Nat /\ Bytes(rows, S \ T) \in Nat
         /\ Bytes(rows, S \ T) = Bytes(rows, S) - Bytes(rows, T)
<1>1. ByteSet(rows, T) \subseteq ByteSet(rows, S) /\ ByteSet(rows, S \ T) \subseteq ByteSet(rows, S)
  BY DEF ByteSet
<1>2. IsFiniteSet(ByteSet(rows, T)) /\ IsFiniteSet(ByteSet(rows, S \ T))
  BY <1>1, FS_Subset, Zenon
<1>3. (S \ T) \cap T = {} /\ (S \ T) \cup T = S
  OBVIOUS
<1>4. /\ Bytes(rows, S \ T) \in Nat /\ Bytes(rows, T) \in Nat
      /\ Bytes(rows, (S \ T) \cup T) = Bytes(rows, S \ T) + Bytes(rows, T)
  BY <1>2, <1>3, SplitBytes, Zenon
<1>5. PICK m \in Nat, n \in Nat : m = Bytes(rows, S \ T) /\ n = Bytes(rows, T)
  BY <1>4
<1>6. Bytes(rows, S) = m + n
  BY <1>3, <1>4, <1>5, Zenon
<1>7. m + n \in Nat /\ m = (m + n) - n
  OBVIOUS
<1> QED BY <1>2, <1>5, <1>6, <1>7, Zenon

\* A step that leaves the sizes of the counted rows alone.
LEMMA QuietBooks ==
  ASSUME BookInv, UNCHANGED <<counter, arts>>, Active' = Active,
         \A u \in Active : sessions'[u].size = sessions[u].size
  PROVE  BookInv'
<1>1. ByteSet(sessions', Active) = ByteSet(sessions, Active)
  BY SameBytes, Zenon
<1> QED BY <1>1, Zenon DEF BookInv, Bytes

LEMMA ReservedBooks ==
  ASSUME KeptInv, BookInv, NEW u \in Uploads, NEW r \in Requests, u \notin DOMAIN sessions,
         Reserves(u, r)
  PROVE  BookInv'
<1>1. /\ Active' = Active \cup {u} /\ u \notin Active
      /\ sessions'[u].size = r.size /\ \A v \in Active : sessions'[v].size = sessions[v].size
  BY DEF Reserves, Put, Active
<1>2. r.size \in Nat /\ Quota \in Nat
  BY RequestAssumption, QuotaAssumption
<1>3. ByteSet(sessions', Active) = ByteSet(sessions, Active)
  BY <1>1, SameBytes, Zenon
<1>4. IsFiniteSet(ByteSet(sessions', {u})) /\ Bytes(sessions', {u}) = r.size
  BY <1>1, <1>2, OneRow, Zenon
<1>5. Active \cap {u} = {}
  BY <1>1
<1>6. /\ IsFiniteSet(ByteSet(sessions', Active \cup {u}))
      /\ Bytes(sessions', Active \cup {u}) = Bytes(sessions', Active) + Bytes(sessions', {u})
  BY <1>3, <1>4, <1>5, SplitBytes, Zenon DEF BookInv
<1>7. Bytes(sessions', Active') = Bytes(sessions, Active) + r.size
  BY <1>1, <1>3, <1>4, <1>6, Zenon DEF Bytes
<1>8. /\ arts' = arts /\ counter' = [counter EXCEPT !.reserved = @ + r.size]
      /\ counter.reserved + counter.committed + r.size <= Quota
  BY Zenon DEF Reserves, Fits
<1>9. /\ counter' \in [reserved : Int, committed : Int]
      /\ counter'.reserved = counter.reserved + r.size /\ counter'.committed = counter.committed
      /\ counter'.reserved + counter'.committed <= Quota
  BY <1>2, <1>8 DEF BookInv
<1> QED BY <1>1, <1>6, <1>7, <1>8, <1>9, Zenon DEF BookInv

\* Some reservations end: their bytes leave the sum.
LEMMA FreedBytes ==
  ASSUME BookInv, NEW T, T \subseteq Active, Active' = Active \ T,
         \A u \in Active : sessions'[u].size = sessions[u].size
  PROVE  /\ IsFiniteSet(ByteSet(sessions', Active'))
         /\ Bytes(sessions, T) \in Nat
         /\ Bytes(sessions', Active') = counter.reserved - Bytes(sessions, T)
<1>1. \A u \in Active \ T : sessions'[u].size = sessions[u].size
  OBVIOUS
<1>2. ByteSet(sessions', Active') = ByteSet(sessions, Active \ T)
  BY <1>1, SameBytes, Zenon
<1>3. /\ IsFiniteSet(ByteSet(sessions, Active \ T)) /\ Bytes(sessions, T) \in Nat
      /\ Bytes(sessions, Active \ T) = Bytes(sessions, Active) - Bytes(sessions, T)
  BY LessBytes, Zenon DEF BookInv
<1> QED BY <1>2, <1>3, Zenon DEF BookInv, Bytes
\* The reservation of one call ends, by an abort or by the commit of its row.
LEMMA SettledBooks ==
  ASSUME KeptInv, BookInv, NEW u \in Uploads, Reserved(u), NEW r \in Requests, r = up[u].req,
         records[r.key].answer = Pending, NEW answer \in Answers,
         NEW state \in {"COMMITTED", "ABORTED"},
         sessions' = [sessions EXCEPT ![u] = [@ EXCEPT !.state = state, !.age = 0]],
         records' = Answer(r.key, answer)
  PROVE  /\ IsFiniteSet(ByteSet(sessions', Active')) /\ r.size \in Nat
         /\ Bytes(sessions', Active') = counter.reserved - r.size
<1>1. sessions[u].state = "ACTIVE" /\ Settled(u, r.key, answer)
  BY SettledFacts, Zenon
<1>2. u \in DOMAIN sessions /\ sessions[u].size = r.size
  BY Zenon DEF Reserved
<1>3. /\ {u} \subseteq Active /\ Active' = Active \ {u}
      /\ \A v \in Active : sessions'[v].size = sessions[v].size
  BY <1>1, <1>2 DEF Settled, Active
<1>4. r.size \in Nat /\ Bytes(sessions, {u}) = r.size
  BY <1>2, OneRow, RequestAssumption
<1> QED BY <1>3, <1>4, FreedBytes, Zenon

LEMMA InsertBooks ==
  ASSUME KeptInv, BookInv, NEW u \in Uploads, Reserved(u), u \notin DOMAIN arts,
         NEW r \in Requests, r = up[u].req, NEW known, known = Existing(r.content),
         NEW a \in Uploads, Inserts(u, r, known, a)
  PROVE  BookInv'
<1>1. /\ IsFiniteSet(ByteSet(sessions', Active')) /\ r.size \in Nat
      /\ Bytes(sessions', Active') = counter.reserved - r.size
  BY AnswerFacts, SettledBooks, Zenon DEF Inserts
<1>2. /\ counter' = Converted(r.size, known # {})
      /\ known # {} => arts' = arts
      /\ known = {} => arts' = Put(arts, u, [content |-> r.content, size |-> r.size])
  BY Zenon DEF Inserts
<1>3. /\ counter' \in [reserved : Int, committed : Int]
      /\ counter'.reserved = counter.reserved - r.size
      /\ counter'.committed = IF known # {} THEN counter.committed ELSE counter.committed + r.size
      /\ counter'.reserved + counter'.committed <= Quota
  BY <1>1, <1>2, QuotaAssumption DEF BookInv, Converted
<1>4. IsFiniteSet(ByteSet(arts', DOMAIN arts')) /\ counter'.committed = Bytes(arts', DOMAIN arts')
  <2>1. CASE known # {}
    BY <1>2, <1>3, <2>1, Zenon DEF BookInv
  <2>2. CASE known = {}
    <3>1. /\ DOMAIN arts' = DOMAIN arts \cup {u} /\ arts'[u].size = r.size
          /\ \A v \in DOMAIN arts : arts'[v].size = arts[v].size
      BY <1>2, <2>2 DEF Put
    <3>2. ByteSet(arts', DOMAIN arts) = ByteSet(arts, DOMAIN arts)
      BY <3>1, SameBytes, Zenon
    <3>3. IsFiniteSet(ByteSet(arts', {u})) /\ Bytes(arts', {u}) = r.size
      BY <1>1, <3>1, OneRow, Zenon
    <3>4. DOMAIN arts \cap {u} = {}
      OBVIOUS
    <3>5. /\ IsFiniteSet(ByteSet(arts', DOMAIN arts \cup {u}))
          /\ Bytes(arts', DOMAIN arts \cup {u}) = Bytes(arts', DOMAIN arts) + Bytes(arts', {u})
      BY <3>2, <3>3, <3>4, SplitBytes, Zenon DEF BookInv
    <3>6. counter.committed = Bytes(arts', DOMAIN arts)
      BY <3>2, Zenon DEF BookInv, Bytes
    <3> QED BY <1>3, <2>2, <3>1, <3>3, <3>5, <3>6
  <2> QED BY <2>1, <2>2
<1> QED BY <1>1, <1>3, <1>4, Zenon DEF BookInv

LEMMA ReleaseBooks ==
  ASSUME KeptInv, BookInv, NEW u \in Uploads, Reserved(u), NEW r \in Requests, r = up[u].req,
         Releases(u, r)
  PROVE  BookInv'
<1>1. /\ IsFiniteSet(ByteSet(sessions', Active')) /\ r.size \in Nat
      /\ Bytes(sessions', Active') = counter.reserved - r.size
  BY AnswerFacts, SettledBooks, Zenon DEF Releases
<1>2. counter' = [counter EXCEPT !.reserved = @ - r.size] /\ arts' = arts
  BY Zenon DEF Releases
<1>3. /\ counter' \in [reserved : Int, committed : Int]
      /\ counter'.reserved = counter.reserved - r.size /\ counter'.committed = counter.committed
      /\ counter'.reserved + counter'.committed <= Quota
  BY <1>1, <1>2, QuotaAssumption DEF BookInv
<1> QED BY <1>1, <1>2, <1>3, Zenon DEF BookInv

\* expire_uploads gives back exactly what the overdue sessions had reserved.
LEMMA ExpireBooks ==
  ASSUME KeptInv, BookInv, Expire
  PROVE  BookInv'
<1>1. Table(sessions, Uploads, SessionRow)
  BY Zenon DEF KeptInv, StoreTypes
<1>2. /\ DOMAIN sessions' = DOMAIN sessions
      /\ \A v \in DOMAIN sessions :
           /\ sessions'[v].size = sessions[v].size
           /\ v \in Overdue => sessions'[v].state = "EXPIRED"
           /\ v \notin Overdue => sessions'[v] = sessions[v]
  BY <1>1, Zenon DEF Expire, Table, SessionRow
<1>3. Overdue \subseteq Active
  BY DEF Overdue, Active
<1>4. Active' = Active \ Overdue /\ \A v \in Active : sessions'[v].size = sessions[v].size
  BY <1>2, <1>3 DEF Active
<1>5. PICK n : n = Bytes(sessions, Overdue)
  OBVIOUS
<1>6. /\ IsFiniteSet(ByteSet(sessions', Active')) /\ n \in Nat
      /\ Bytes(sessions', Active') = counter.reserved - n
  BY <1>3, <1>4, <1>5, FreedBytes, Zenon
<1>7. counter' = [counter EXCEPT !.reserved = @ - n] /\ arts' = arts
  BY <1>5, Zenon DEF Expire
<1>8. /\ counter' \in [reserved : Int, committed : Int]
      /\ counter'.reserved = counter.reserved - n /\ counter'.committed = counter.committed
      /\ counter'.reserved + counter'.committed <= Quota
  BY <1>6, <1>7, QuotaAssumption DEF BookInv
<1> QED BY <1>6, <1>7, <1>8, Zenon DEF BookInv

LEMMA BooksStep ==
  ASSUME KeptInv, BookInv, [StoreNext]_storeVars
  PROVE  BookInv'
<1>0. StoreTypes /\ \A u \in Uploads : CallFits(u)
  BY Zenon DEF KeptInv
<1>1. ASSUME UNCHANGED <<counter, arts, sessions>> PROVE BookInv'
  <2>1. Active' = Active /\ \A u \in Active : sessions'[u].size = sessions[u].size
    BY <1>1, Zenon DEF Active
  <2> QED BY <1>1, <2>1, QuietBooks, Zenon
<1>2. ASSUME NEW u \in Uploads, up[u].at \in Working
      PROVE  Reserved(u) /\ up[u].req \in Requests /\ u \notin DOMAIN arts
  BY <1>0, <1>2, NoRowYet DEF CallFits, Working
<1>3. ASSUME NEW u \in Uploads, BeginUpload(u) PROVE BookInv'
  <2>1. u \notin DOMAIN sessions /\ up[u].req \in Requests
    BY <1>0, <1>3 DEF CallFits, BeginUpload
  <2>2. UNCHANGED tables \/ Reserves(u, up[u].req)
    BY <1>3, BeginCases, Zenon DEF Replays
  <2> QED BY <1>1, <2>1, <2>2, ReservedBooks, Zenon DEF tables
<1>4. ASSUME NEW u \in Uploads, CommitRow(u) PROVE BookInv'
  <2>1. PICK r, known, a : /\ r = up[u].req /\ known = Existing(r.content)
                           /\ a = IF known = {} THEN u ELSE Least(known)
    OBVIOUS
  <2>2. UNCHANGED tables \/ Inserts(u, r, known, a)
    BY <1>4, <2>1, CommitRowCases, Zenon
  <2>3. Reserved(u) /\ r \in Requests /\ u \notin DOMAIN arts
    BY <1>2, <1>4, <2>1 DEF CommitRow, Working
  <2>4. a \in Uploads
    BY <2>1, KnownLeast
  <2> QED BY <1>1, <2>1, <2>2, <2>3, <2>4, InsertBooks, Zenon DEF tables
<1>5. ASSUME NEW u \in Uploads, AbortUpload(u) PROVE BookInv'
  <2>1. Reserved(u) /\ up[u].req \in Requests
    BY <1>2, <1>5 DEF AbortUpload, Working
  <2>2. UNCHANGED tables \/ Releases(u, up[u].req)
    BY <1>5, AbortCases, Zenon
  <2> QED BY <1>1, <2>1, <2>2, ReleaseBooks, Zenon DEF tables
<1>6. ASSUME NEW u \in Uploads, Stage(u) \/ Stream(u) \/ CommitBlob(u) \/ DropSurplus(u)
      PROVE  BookInv'
  BY <1>1, <1>6, Zenon DEF Stage, Stream, CommitBlob, DropSurplus, tables
<1>7. CASE Collect
  <2>1. CASE Expire
    BY <2>1, ExpireBooks
  <2>2. ASSUME NEW u, DropStaging(u) \/ DropOrphan(u) PROVE BookInv'
    BY <1>1, <2>2, Zenon DEF DropStaging, DropOrphan, tables
  <2>3. CASE GcStart \/ ScanStaging \/ ScanBlobs \/ LookBlobs \/ GcEnd
    BY <1>1, <2>3, Zenon DEF GcStart, ScanStaging, ScanBlobs, LookBlobs, GcEnd, tables
  <2> QED BY <1>7, <2>1, <2>2, <2>3, Zenon DEF Collect
<1>8. CASE Tick
  <2>1. /\ DOMAIN sessions' = DOMAIN sessions
        /\ \A v \in DOMAIN sessions : /\ sessions'[v].size = sessions[v].size
                                      /\ sessions'[v].state = sessions[v].state
    BY <1>0, <1>8 DEF Tick, StoreTypes, Table, SessionRow
  <2>2. Active' = Active /\ \A v \in Active : sessions'[v].size = sessions[v].size
    BY <2>1 DEF Active
  <2> QED BY <1>8, <2>2, QuietBooks, Zenon DEF Tick
<1>9. CASE (\E u \in Uploads, r \in Requests : Receive(u, r)) \/ GcSkip \/ ScopeChange \/ ApiCrash
            \/ UNCHANGED storeVars
  BY <1>1, <1>9, Zenon DEF Receive, GcSkip, ScopeChange, ApiCrash, storeVars, tables
<1> QED BY <1>3, <1>4, <1>5, <1>6, <1>7, <1>8, <1>9, Zenon DEF StoreNext, Upload

\* BytesAccounted: the tenant's counters are exactly what its rows say, and within the
\* quota, after every reservation, commit, abort, expiry and crash.
THEOREM BytesAreAccounted == StoreSpec => []BytesAccounted
<1>1. StoreInit => BookInv
  <2> SUFFICES ASSUME StoreInit PROVE BookInv
    OBVIOUS
  <2>1. Active = {} /\ DOMAIN arts = {}
    BY DEF StoreInit, Active, NoRows
  <2>2. ByteSet(sessions, Active) = {} /\ ByteSet(arts, DOMAIN arts) = {}
    BY <2>1 DEF ByteSet
  <2>3. IsFiniteSet({}) /\ Cardinality({}) = 0
    BY FS_EmptySet
  <2>4. counter = [reserved |-> 0, committed |-> 0]
    BY Zenon DEF StoreInit
  <2> QED BY <2>2, <2>3, <2>4, QuotaAssumption DEF BookInv, Bytes
<1>2. KeptInv /\ BookInv /\ [StoreNext]_storeVars => BookInv'
  BY BooksStep
<1>3. BookInv => BytesAccounted
  BY Zenon DEF BookInv, BytesAccounted, Active
<1> QED BY <1>1, <1>2, <1>3, KeptAlways, PTL DEF StoreSpec
=============================================================================
