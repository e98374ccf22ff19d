-------------------------- MODULE ExecutorProofs --------------------------
(***************************************************************************)
(* Proofs about the executor, for any number of container identities and   *)
(* any bound on the journal's sequence: the inductive invariant ExecInv,   *)
(* the safety properties it gives, and the refinement of Execution.        *)
(***************************************************************************)
EXTENDS Executor, TLAPS

JournalType == [state : States, container : Ids \cup {NoId}, seq : Nat, sameBoot : BOOLEAN]
PcType == [at : Steps, on : SUBSET Ids, nested : BOOLEAN]

\* What _write changes in the record.
LEMMA WriteFields ==
    ASSUME journal \in JournalType, NEW s \in States, Write(s)
    PROVE  /\ journal' \in JournalType
           /\ journal'.state = s /\ journal'.container = journal.container
           /\ journal'.seq = journal.seq + 1
<1> DEFINE n == journal.seq + 1
<1>1. n \in Nat BY DEF JournalType
<1>2. journal' = [[journal EXCEPT !.state = s] EXCEPT !.seq = n]
  BY Zenon DEF Write
<1>3. [journal EXCEPT !.state = s] \in JournalType
  BY DEF JournalType
<1> QED BY <1>1, <1>2, <1>3, Zenon DEF JournalType

\* The fields of a pc.
LEMMA AtFields ==
    ASSUME NEW s \in Steps
    PROVE  At(s) \in PcType /\ At(s).at = s /\ At(s).on = {} /\ At(s).nested = FALSE
BY Zenon DEF At, Idle, PcType

\* The fields of the idle pc.
LEMMA IdleFields == Idle \in PcType /\ Idle.at = "IDLE" /\ Idle.on = {}
BY DEF Idle, PcType, Steps

\* The fields of a request.
LEMMA RequestFields ==
    ASSUME NEW op, NEW i
    PROVE  Request(op, i).op = op /\ Request(op, i).id = i
BY DEF Request

-----------------------------------------------------------------------------
(* One lemma per action: it preserves the inductive invariant.             *)

USE DEF ExecInv, TypeOK, OneContainer, UnboundNeverStarted, JournalTellsDocker,
    InflightHarmless, StepKnows, LaunchRecorded, ProofsNameTombstone, JournalType, PcType, Bound

\* An attempt without a record satisfies the invariant.
LEMMA InitInv == Init => ExecInv
BY ExecutorAssumption, IdleFields DEF Init, States

\* prepare: nothing was sent yet.
LEMMA PrepareInv == ASSUME ExecInv, Prepare PROVE ExecInv'
<1>w. /\ journal' \in JournalType /\ journal'.state = "PREPARED"
      /\ journal'.container = journal.container /\ journal'.seq = journal.seq + 1
  BY WriteFields DEF Prepare, States
<1> QED BY <1>w, IdleFields DEF Prepare

\* start: the create is journaled first; a bound container is inspected.
LEMMA StartInv == ASSUME ExecInv, Start PROVE ExecInv'
<1>1. CASE journal.state = "PREPARED"
  <2> DEFINE n == journal.seq + 1
  <2>1. n \in Nat OBVIOUS
  <2>2. journal' = [[[journal EXCEPT !.state = "CREATE_IN_FLIGHT"] EXCEPT !.seq = n] EXCEPT !.sameBoot = TRUE]
    BY <1>1, Zenon DEF Start
  <2>3. /\ journal' \in JournalType /\ journal'.state = "CREATE_IN_FLIGHT"
        /\ journal'.container = journal.container
    BY <2>1, <2>2, Zenon DEF States
  <2>4. pc' \in PcType /\ pc'.at = "CREATE" /\ pc'.on = {}
    BY <1>1, AtFields DEF Start, Steps
  <2> QED BY <1>1, <2>3, <2>4, IdleFields DEF Start
<1>2. CASE journal.state # "PREPARED"
  <2>1. pc' \in PcType /\ pc'.at = "INSPECT" /\ pc'.on = {}
    BY <1>2, AtFields DEF Start, Steps
  <2> QED BY <1>2, <2>1 DEF Start
<1> HIDE DEF ExecInv
<1> QED BY <1>1, <1>2

\* The only create of the attempt gives the only container.
LEMMA CallCreateInv == ASSUME NEW i \in Ids, ExecInv, CallCreate(i) PROVE ExecInv'
<1>p. pc' \in PcType /\ pc'.at = "BIND" /\ pc'.on = {i}
  BY AtFields DEF CallCreate, Steps
<1> QED BY <1>p DEF CallCreate

\* The container is bound before anything can start it.
LEMMA BindInv == ASSUME NEW i \in Ids, ExecInv, Bind(i) PROVE ExecInv'
<1> DEFINE n == journal.seq + 1
<1>1. n \in Nat OBVIOUS
<1>2. journal' = [[[journal EXCEPT !.state = "CREATED"] EXCEPT !.seq = n] EXCEPT !.container = i]
  BY Zenon DEF Bind
<1>w. /\ journal' \in JournalType /\ journal'.state = "CREATED" /\ journal'.container = i
  BY <1>1, <1>2, Zenon DEF States
<1>p. pc' \in PcType /\ pc'.at = "INSPECT" /\ pc'.on = {}
  BY AtFields DEF Bind, Steps
<1>3. docker[i] # "NONE" BY DEF Bind
<1> QED BY <1>w, <1>p, <1>3, ExecutorAssumption DEF Bind

\* A container that may have its supervisor is left alone: only one that
\* was never started, or is bound and has no start in flight, goes on.
LEMMA InspectInv == ASSUME ExecInv, Inspect PROVE ExecInv'
<1> DEFINE found == docker[journal.container]
<1>1. CASE /\ found \in {"CREATED", "RUNNING"} /\ journal.state = "CREATED"
           /\ Write("START_IN_FLIGHT")
           /\ pc' = At(IF found = "RUNNING" THEN "EXEC" ELSE "START")
  <2>w. /\ journal' \in JournalType /\ journal'.state = "START_IN_FLIGHT"
        /\ journal'.container = journal.container
    BY <1>1, WriteFields DEF States
  <2>p. /\ pc' \in PcType /\ pc'.on = {}
        /\ pc'.at = IF found = "RUNNING" THEN "EXEC" ELSE "START"
    BY <1>1, AtFields DEF Steps
  <2> QED BY <1>1, <2>w, <2>p DEF Inspect
<1>2. CASE /\ found = "CREATED" /\ journal.state = "START_IN_FLIGHT"
           /\ pc' = At("START") /\ UNCHANGED journal
  <2>p. pc' \in PcType /\ pc'.on = {} /\ pc'.at = "START"
    BY <1>2, AtFields DEF Steps
  <2> QED BY <1>2, <2>p DEF Inspect
<1>3. CASE pc' = Idle /\ UNCHANGED journal
  BY <1>3, IdleFields DEF Inspect
<1> HIDE DEF ExecInv
<1> QED BY <1>1, <1>2, <1>3 DEF Inspect

\* docker start runs the bound container.
LEMMA CallStartInv == ASSUME ExecInv, CallStart PROVE ExecInv'
<1>p. pc' \in PcType /\ pc'.at = "EXEC" /\ pc'.on = {}
  BY AtFields DEF CallStart, Steps
<1> QED BY <1>p, IdleFields DEF CallStart, Present

\* A failed start leaves the container bound.
LEMMA FailStartInv == ASSUME ExecInv, FailStart PROVE ExecInv'
<1>w. /\ journal' \in JournalType /\ journal'.state = "CREATED"
      /\ journal'.container = journal.container /\ journal'.seq = journal.seq + 1
  BY WriteFields DEF FailStart, States
<1>p. pc' \in PcType /\ pc'.at = "IDLE" /\ pc'.on = {}
  BY IdleFields DEF FailStart
<1> QED BY <1>w, <1>p, IdleFields DEF FailStart, Request, Requests

\* The first launch is the only one.
LEMMA CallExecInv == ASSUME ExecInv, CallExec PROVE ExecInv'
<1>p. pc' \in PcType /\ pc'.at = "MARK" /\ pc'.on = {}
  BY AtFields DEF CallExec, Steps
<1> QED BY <1>p, IdleFields DEF CallExec

\* mark_started.
LEMMA MarkInv == ASSUME ExecInv, Mark PROVE ExecInv'
<1>w. /\ journal' \in JournalType /\ journal'.state = "STARTED"
      /\ journal'.container = journal.container /\ journal'.seq = journal.seq + 1
  BY WriteFields DEF Mark, States
<1>p. pc' \in PcType /\ pc'.at = "IDLE" /\ pc'.on = {}
  BY IdleFields, SMTT(60) DEF Mark
<1> QED BY <1>w, <1>p, IdleFields DEF Mark

\* cleanup: a proof given again names the tombstone.
LEMMA CleanupInv == ASSUME ExecInv, Cleanup PROVE ExecInv'
<1>1. CASE UNCHANGED proofs
  <2>1. pc' \in PcType /\ pc'.at \in {"STOP", "REMOVE", "IDLE"}
    BY <1>1, AtFields, IdleFields DEF Cleanup, Steps
  <2> QED BY <1>1, <2>1, AtFields, IdleFields, SMTT(60) DEF Cleanup, Steps
<1>2. CASE journal.state = "TOMBSTONED"
  BY <1>2 DEF Cleanup, Prove
<1> HIDE DEF ExecInv
<1> QED BY <1>1, <1>2 DEF Cleanup

\* stop.
LEMMA CallStopInv == ASSUME ExecInv, CallStop PROVE ExecInv'
<1>p. pc' \in PcType /\ pc'.at = "SEAL" /\ pc'.on = pc.on
  BY DEF CallStop, Steps
<1> QED BY <1>p, IdleFields DEF CallStop, Present

\* begin_cleanup: from here the container is only removed.
LEMMA SealInv == ASSUME ExecInv, Seal PROVE ExecInv'
<1>w. /\ journal' \in JournalType /\ journal'.state = "CLEANUP_IN_FLIGHT"
      /\ journal'.container = journal.container /\ journal'.seq = journal.seq + 1
  BY WriteFields DEF Seal, States
<1>p. pc' \in PcType /\ pc'.at = "REMOVE" /\ pc'.on = pc.on
  BY DEF Seal, Steps
<1> QED BY <1>w, <1>p, IdleFields DEF Seal

\* docker rm --force.
LEMMA CallRemoveInv == ASSUME ExecInv, CallRemove PROVE ExecInv'
<1>p. pc' \in PcType /\ pc'.at = "FINISH" /\ pc'.on = pc.on
  BY DEF CallRemove, Steps
<1> QED BY <1>p, IdleFields DEF CallRemove

\* finish_cleanup: the tombstone of a removed container.
LEMMA FinishInv == ASSUME ExecInv, Finish PROVE ExecInv'
<1>w. /\ journal' \in JournalType /\ journal'.state = "TOMBSTONED"
      /\ journal'.container = journal.container /\ journal'.seq = journal.seq + 1
  BY WriteFields DEF Finish, States
<1>p. pc' \in PcType /\ pc'.at \in {"LOOP", "IDLE"} /\ pc'.on \subseteq pc.on
  <2>1. CASE pc.nested
    <3>1. pc' = [[pc EXCEPT !.at = "LOOP"] EXCEPT !.nested = FALSE]
      BY <2>1, Zenon DEF Finish
    <3> QED BY <3>1, Zenon DEF Steps
  <2>2. CASE ~pc.nested
    BY <2>2, IdleFields DEF Finish
  <2> HIDE DEF ExecInv
  <2> QED BY <2>1, <2>2
<1>1. proofs = {}
  BY DEF Finish
<1>2. \A p \in proofs' : p = [type |-> "CONTAINER_STOPPED", seq |-> journal'.seq]
  BY <1>w, <1>1 DEF Finish, Prove
<1>3. TypeOK'
  BY <1>w, <1>p, <1>2 DEF Finish
<1>4. ProofsNameTombstone'
  BY <1>w, <1>2
<1>5. OneContainer' /\ UnboundNeverStarted' /\ JournalTellsDocker' /\ InflightHarmless'
  BY <1>w DEF Finish
<1>6. StepKnows' /\ LaunchRecorded'
  BY <1>w, <1>p, SMTT(60) DEF Finish
<1> QED BY <1>3, <1>4, <1>5, <1>6, SMTT(60)

\* A tombstone of an attempt that created nothing.
LEMMA TombstoneUnclaimedInv == ASSUME ExecInv, TombstoneUnclaimed PROVE ExecInv'
<1>1. CASE journal.state = "TOMBSTONED"
  BY <1>1 DEF TombstoneUnclaimed, Prove
<1>2. CASE journal.state \in {"ABSENT", "PREPARED"}
  <2>w. /\ journal' \in JournalType /\ journal'.state = "TOMBSTONED"
        /\ journal'.container = journal.container /\ journal'.seq = journal.seq + 1
    BY <1>2, WriteFields DEF TombstoneUnclaimed, States
  <2> QED BY <1>2, <2>w, IdleFields, ExecutorAssumption, SMTT(60) DEF TombstoneUnclaimed, Prove
<1> HIDE DEF ExecInv
<1> QED BY <1>1, <1>2 DEF TombstoneUnclaimed

\* The same, from the journal alone.
LEMMA ReconcileUnclaimedInv == ASSUME ExecInv, ReconcileUnclaimed PROVE ExecInv'
<1>1. CASE journal.state = "TOMBSTONED"
  BY <1>1 DEF ReconcileUnclaimed, Prove
<1>2. CASE journal.state = "ABSENT"
  <2>w. /\ journal' \in JournalType /\ journal'.state = "TOMBSTONED"
        /\ journal'.container = journal.container /\ journal'.seq = journal.seq + 1
    BY <1>2, WriteFields DEF ReconcileUnclaimed, States
  <2> QED BY <1>2, <2>w, IdleFields, ExecutorAssumption, SMTT(60) DEF ReconcileUnclaimed, Prove
<1> HIDE DEF ExecInv
<1> QED BY <1>1, <1>2 DEF ReconcileUnclaimed

\* The first scan.
LEMMA ResolveInv == ASSUME ExecInv, Resolve PROVE ExecInv'
<1>p. pc' \in PcType /\ pc'.at = "LOOP" /\ pc'.on = Present
  BY AtFields DEF Resolve, Steps, Present
<1> QED BY <1>p DEF Resolve, Present

\* One container of the scan.
LEMMA ResolveOneInv == ASSUME NEW i \in Ids, ExecInv, ResolveOne(i) PROVE ExecInv'
<1>1. CASE journal.container = NoId
  <2>p. pc' \in PcType /\ pc'.at = "LOOP" /\ pc'.on \subseteq pc.on
    BY <1>1, ExecutorAssumption, SMTT(60) DEF ResolveOne
  <2> QED BY <1>1, <2>p, ExecutorAssumption, SMTT(60) DEF ResolveOne
<1>2. CASE journal.container = i
  <2>p. pc' \in PcType /\ pc'.at = "STOP" /\ pc'.on \subseteq pc.on
    <3>1. pc' = [at |-> "STOP", on |-> pc.on \ {i}, nested |-> TRUE]
      BY <1>2, ExecutorAssumption, SMTT(60) DEF ResolveOne
    <3> QED BY <3>1 DEF Steps
  <2> QED BY <1>2, <2>p, ExecutorAssumption, SMTT(60) DEF ResolveOne
<1> HIDE DEF ExecInv
<1> QED BY <1>1, <1>2 DEF ResolveOne

\* An unfinished cleanup is finished.
LEMMA ResolveCleanupInv == ASSUME ExecInv, ResolveCleanup PROVE ExecInv'
BY SMTT(60) DEF ResolveCleanup, Steps

\* The tombstone of an unknown create.
LEMMA ResolveTombstoneInv == ASSUME ExecInv, ResolveTombstone PROVE ExecInv'
<1>p. pc' \in PcType /\ pc'.at = "FINAL" /\ pc'.on = {}
  BY AtFields, SMTT(60) DEF ResolveTombstone, Steps
<1>1. CASE UNCHANGED journal /\ journal.state = "TOMBSTONED"
  BY <1>1, <1>p, SMTT(60) DEF ResolveTombstone
<1>2. CASE Write("TOMBSTONED") /\ journal.state # "TOMBSTONED"
  <2>w. /\ journal' \in JournalType /\ journal'.state = "TOMBSTONED"
        /\ journal'.container = journal.container
    BY <1>2, WriteFields, SMTT(60) DEF States
  <2> QED BY <1>2, <2>w, <1>p, ExecutorAssumption, SMTT(60) DEF ResolveTombstone
<1> HIDE DEF ExecInv
<1> QED BY <1>1, <1>2 DEF ResolveTombstone

\* The last scan.
LEMMA ResolveFinalInv == ASSUME ExecInv, ResolveFinal PROVE ExecInv'
<1>p. pc' \in PcType /\ pc'.at = "IDLE" /\ pc'.on = {}
  BY IdleFields, SMTT(60) DEF ResolveFinal
<1> QED BY <1>p, IdleFields, SMTT(60) DEF ResolveFinal, Prove

\* A late container is removed, never started.
LEMMA RemoveOrphanInv == ASSUME NEW i \in Ids, ExecInv, RemoveOrphan(i) PROVE ExecInv'
<1> QED BY IdleFields, SMTT(60) DEF RemoveOrphan, Present, Unstarted, Request, Requests

\* A dead operation leaves at most the request of its step.
LEMMA AbandonInv == ASSUME ExecInv, Abandon PROVE ExecInv'
<1>p. pc' \in PcType /\ pc'.at = "IDLE" /\ pc'.on = {}
  BY IdleFields, SMTT(60) DEF Abandon
<1>1. CASE UNCHANGED <<inflight, launched>>
  BY <1>1, <1>p, SMTT(60) DEF Abandon
<1>2. ASSUME NEW r \in Requests, Sendable(r), inflight' = inflight \cup {r}, UNCHANGED launched
      PROVE  ExecInv'
  <2>1. CASE pc.at = "CREATE" /\ r = Create
    BY <1>2, <1>p, <2>1, SMTT(60) DEF Abandon, Create
  <2>2. CASE pc.at \in {"START", "STOP"} /\ r = Request(pc.at, journal.container)
    <3>1. r.op \in {"START", "STOP"} /\ r.id = journal.container
      BY <2>2, RequestFields, SMTT(60)
    <3> QED BY <1>2, <1>p, <2>2, <3>1, SMTT(60) DEF Abandon
  <2>3. CASE pc.at = "REMOVE" /\ r = Request("REMOVE", journal.container)
    <3>1. r.op = "REMOVE" /\ r.id = journal.container
      BY <2>3, RequestFields, SMTT(60)
    <3> QED BY <1>2, <1>p, <2>3, <3>1, SMTT(60) DEF Abandon
  <2>4. ASSUME pc.at = "LOOP", journal.container = NoId, NEW i \in pc.on, r = Request("REMOVE", i)
        PROVE  ExecInv'
    <3>1. r.op = "REMOVE" /\ r.id = i /\ i \in Ids /\ docker[i] # "NONE"
      BY <2>4, RequestFields, SMTT(60)
    <3>2. journal.state \in {"CREATE_IN_FLIGHT", "TOMBSTONED"}
      BY <2>4, <3>1, ExecutorAssumption, SMTT(60) DEF States
    <3> QED BY <1>2, <1>p, <3>1, <3>2, SMTT(60) DEF Abandon
  <2> HIDE DEF ExecInv
  <2> QED BY <1>2, <2>1, <2>2, <2>3, <2>4, SMTT(60) DEF Sendable
<1>3. CASE pc.at = "EXEC" /\ launched' = launched + 1 /\ UNCHANGED inflight
  BY <1>3, <1>p, SMTT(60) DEF Abandon
<1> HIDE DEF ExecInv
<1> QED BY <1>1, <1>2, <1>3 DEF Abandon

\* A late request finds the journal ready for it.
LEMMA DaemonInv == ASSUME NEW r \in inflight, ExecInv, Daemon(r) PROVE ExecInv'
<1>1. CASE UNCHANGED docker
  BY <1>1, SMTT(60) DEF Daemon
<1>2. ASSUME NEW i \in Ids, r = Create, docker[i] = "NONE", docker' = [docker EXCEPT ![i] = "CREATED"]
      PROVE  ExecInv'
  BY <1>2, SMTT(60) DEF Daemon, Create, Requests
<1>3. ASSUME NEW i \in Present, r = Request("START", i), docker' = [docker EXCEPT ![i] = "RUNNING"]
      PROVE  ExecInv'
  <2>1. r.op = "START" /\ r.id = i /\ i \in Ids /\ docker[i] \in {"CREATED", "RUNNING", "EXITED"}
    BY <1>3, RequestFields, SMTT(60) DEF Present
  <2> QED BY <1>3, <2>1, SMTT(60) DEF Daemon
<1>4. ASSUME NEW i \in Present, r = Request("REMOVE", i), docker' = [docker EXCEPT ![i] = "REMOVED"]
      PROVE  ExecInv'
  <2>1. r.op = "REMOVE" /\ r.id = i /\ i \in Ids /\ docker[i] \in {"CREATED", "RUNNING", "EXITED"}
    BY <1>4, RequestFields, SMTT(60) DEF Present
  <2> QED BY <1>4, <2>1, SMTT(60) DEF Daemon
<1>5. ASSUME NEW i \in Present, r = Request("STOP", i), docker[i] = "RUNNING",
             docker' = [docker EXCEPT ![i] = "EXITED"]
      PROVE  ExecInv'
  <2>1. r.op = "STOP" /\ r.id = i /\ i \in Ids /\ docker[i] \in {"CREATED", "RUNNING", "EXITED"}
    BY <1>5, RequestFields, SMTT(60) DEF Present
  <2> QED BY <1>5, <2>1, SMTT(60) DEF Daemon
<1> HIDE DEF ExecInv
<1> QED BY <1>1, <1>2, <1>3, <1>4, <1>5, SMTT(60) DEF Daemon

\* The workload ends.
LEMMA ExitInv == ASSUME NEW i \in Ids, ExecInv, Exit(i) PROVE ExecInv'
BY DEF Exit

\* The host restarts.
LEMMA RebootInv == ASSUME ExecInv, Reboot PROVE ExecInv'
<1>1. /\ journal' \in JournalType /\ journal'.state = journal.state
      /\ journal'.container = journal.container /\ journal'.seq = journal.seq
  BY Zenon DEF Reboot
<1>2. \A i \in Ids : docker'[i] = IF docker[i] = "RUNNING" THEN "EXITED" ELSE docker[i]
  BY DEF Reboot
<1>3. docker' \in [Ids -> {"NONE", "CREATED", "RUNNING", "EXITED", "REMOVED"}]
  BY DEF Reboot
<1> QED BY <1>1, <1>2, <1>3, IdleFields, SMTT(60) DEF Reboot

\* Every step preserves the invariant.
LEMMA NextInv == ASSUME ExecInv, [Next]_vars PROVE ExecInv'
<1>1. CASE UNCHANGED vars
  BY <1>1 DEF vars
<1>2. CASE Next
  BY <1>2, PrepareInv, StartInv, CallCreateInv, BindInv, InspectInv, CallStartInv, FailStartInv,
     CallExecInv, MarkInv, CleanupInv, CallStopInv, SealInv, CallRemoveInv, FinishInv,
     TombstoneUnclaimedInv, ReconcileUnclaimedInv, ResolveInv, ResolveOneInv, ResolveCleanupInv, ResolveTombstoneInv,
     ResolveFinalInv, RemoveOrphanInv, AbandonInv, DaemonInv, ExitInv, RebootInv, Zenon
     DEF Next, Continue
<1> HIDE DEF ExecInv
<1> QED BY <1>1, <1>2

-----------------------------------------------------------------------------
(* The theorems.                                                           *)

HIDE DEF ExecInv, TypeOK, OneContainer, UnboundNeverStarted, JournalTellsDocker,
    InflightHarmless, StepKnows, LaunchRecorded, ProofsNameTombstone, JournalType, PcType, Bound

\* The journal always bounds what Docker can hold and what abandoned requests can
\* still do (start, cleanup, resolve_fenced_claim).
THEOREM ExecInvariant == Spec => []ExecInv
<1>1. ExecInv /\ [Next]_vars => ExecInv'
  BY NextInv
<1> QED BY <1>1, InitInv, PTL DEF Spec

\* A container runs only while the journal says that one may exist.
LEMMA OnlyAliveRuns ==
    ASSUME ExecInv, NEW i \in Ids, docker[i] = "RUNNING"
    PROVE  Phase = "ALIVE"
BY DEF ExecInv, UnboundNeverStarted, JournalTellsDocker, Phase

\* However often operations fail, crash or are repeated: one container, one
\* launch, only the bound container started, and a proof is final and repeatable
\* (_reconcile_and_start, finish_cleanup, tombstone_abandoned_create).
THEOREM ExecutorSafe == Spec => []ExecutorPromise
<1>1. ExecInv => ProofIsFinal
  BY OnlyAliveRuns, Zenon DEF ExecInv, ProofsNameTombstone, ProofIsFinal, Phase
<1>2. ExecInv => OneLaunch
  BY DEF ExecInv, LaunchRecorded, TypeOK, OneLaunch
<1>3. ExecInv => ProofsAgree
  BY DEF ExecInv, ProofsNameTombstone, ProofsAgree
<1>4. ExecInv => OneContainer /\ UnboundNeverStarted
  BY DEF ExecInv
<1> QED BY <1>1, <1>2, <1>3, <1>4, ExecInvariant, PTL DEF ExecutorPromise

\* How the journal moves through the abstract phases.
LEMMA PhaseStep ==
    ASSUME ExecInv, [Next]_vars
    PROVE  \/ Phase' = Phase
           \/ Phase = "NONE" /\ Phase' = "ALIVE" /\ UNCHANGED docker
           \/ Phase # "GONE" /\ Phase' = "GONE"
<1>1. CASE UNCHANGED journal
  BY <1>1 DEF Phase
<1>2. ASSUME NEW s \in States, Write(s) PROVE journal'.state = s
  BY <1>2, WriteFields DEF ExecInv, TypeOK, JournalType
<1>3. CASE Prepare
  BY <1>2, <1>3 DEF Prepare, Phase, States
<1>4. CASE Start
  BY <1>4, Zenon DEF Start, Phase, ExecInv, TypeOK, JournalType
<1>5. ASSUME NEW i \in Ids, Bind(i) PROVE Phase' = Phase
  <2>1. journal'.state = "CREATED"
    BY <1>5, Zenon DEF Bind, ExecInv, TypeOK, JournalType
  <2> QED BY <1>5, <2>1 DEF Bind, Phase
<1>6. CASE Inspect /\ ~UNCHANGED journal
  BY <1>2, <1>6 DEF Inspect, Phase, States
<1>7. CASE FailStart \/ Mark
  BY <1>2, <1>7 DEF FailStart, Mark, Phase, States, ExecInv, StepKnows
<1>8. CASE Seal \/ Finish
  BY <1>2, <1>8 DEF Seal, Finish, Phase, States, ExecInv, StepKnows, Bound
<1>9. CASE (TombstoneUnclaimed \/ ReconcileUnclaimed \/ ResolveTombstone) /\ ~UNCHANGED journal
  BY <1>2, <1>9 DEF TombstoneUnclaimed, ReconcileUnclaimed, ResolveTombstone, Phase, States
<1>10. CASE Reboot
  BY <1>10 DEF Reboot, Phase, ExecInv, TypeOK, JournalType
<1>11. \/ UNCHANGED journal \/ Prepare \/ Start \/ \E i \in Ids : Bind(i)
       \/ Inspect \/ FailStart \/ Mark \/ Seal \/ Finish
       \/ TombstoneUnclaimed \/ ReconcileUnclaimed \/ ResolveTombstone \/ Reboot
  BY Zenon DEF Next, Continue, vars, CallCreate, ResolveOne, CallStart, CallExec, Cleanup, CallStop,
     CallRemove, Resolve, ResolveCleanup, ResolveFinal, RemoveOrphan, Abandon, Daemon, Exit
<1> QED BY <1>1, <1>3, <1>4, <1>5, <1>6, <1>7, <1>8, <1>9, <1>10, <1>11

\* The executor implements what the server assumes of an attempt's container:
\* nothing runs before the create was journaled or after the tombstone, and a
\* tombstone is for ever (start, cleanup, resolve_fenced_claim).
THEOREM ExecutorKeepsPromise == Spec => KeepsPromise
<1> DEFINE Runs == \E i \in Ids : docker[i] = "RUNNING"
<1>1. Init => Promise!Init
  BY DEF Init, Phase, Promise!Init
<1>2. ASSUME ExecInv, ExecInv', [Next]_vars PROVE [Promise!Next]_(Promise!vars)
  <2>1. (Runs => Phase = "ALIVE") /\ (Runs' => Phase' = "ALIVE")
    BY <1>2 DEF ExecInv, UnboundNeverStarted, JournalTellsDocker, Phase
  <2>2. CASE Phase' = Phase
    BY <2>1, <2>2, Zenon DEF Promise!Next, Promise!Toggle, Promise!vars
  <2>3. CASE Phase = "NONE" /\ Phase' = "ALIVE" /\ UNCHANGED docker
    BY <2>1, <2>3 DEF Promise!Next, Promise!Create
  <2>4. CASE Phase # "GONE" /\ Phase' = "GONE"
    BY <2>1, <2>4 DEF Promise!Next, Promise!Retire
  <2> QED BY <1>2, <2>2, <2>3, <2>4, PhaseStep
<1> QED BY <1>1, <1>2, ExecInvariant, PTL DEF Spec, KeepsPromise, Promise!Spec

=============================================================================
