------------------------------ MODULE Executor ------------------------------
(***************************************************************************)
(* The worker's executor for one attempt: a journal record on disk and     *)
(* containers in Docker, which cannot change together (worker/executor.py, *)
(* worker/journal.py, worker/docker_client.py).                            *)
(*                                                                         *)
(* Every operation holds the attempt's journal lock, so one pc is enough.  *)
(* A journal write is atomic.  A Docker call succeeds or is abandoned: by  *)
(* an error, a timeout or the death of the process, which all release the  *)
(* lock and may leave the request with the daemon, to be carried out at    *)
(* any later time or never.                                                *)
(***************************************************************************)
EXTENDS Integers

CONSTANTS Ids,      \* container identities Docker may allocate
          NoId,
          MaxSeq    \* bound: operation_sequence, which failed starts increase

ASSUME ExecutorAssumption == NoId \notin Ids /\ MaxSeq \in Nat

VARIABLES journal,   \* the JournalRecord
          docker,    \* docker[i]: the container as Docker reports it
          inflight,  \* requests that were sent and whose outcome is unknown
          pc,        \* the step of the operation that holds the attempt lock
          launched,  \* history: supervisor launches that were sent
          proofs     \* history: cleanup proofs that were issued

vars == <<journal, docker, inflight, pc, launched, proofs>>

Idle == [at |-> "IDLE", on |-> {}, nested |-> FALSE]

At(step) == [Idle EXCEPT !.at = step]

Steps == {"IDLE", "CREATE", "BIND", "INSPECT", "START", "EXEC", "MARK",
          "STOP", "SEAL", "REMOVE", "FINISH", "LOOP", "FINAL"}

States == {"ABSENT", "PREPARED", "CREATE_IN_FLIGHT", "CREATED", "START_IN_FLIGHT",
           "STARTED", "CLEANUP_IN_FLIGHT", "TOMBSTONED"}

Requests == [op : {"CREATE", "START", "STOP", "REMOVE"}, id : Ids \cup {NoId}]
Create == [op |-> "CREATE", id |-> NoId]
Request(op, i) == [op |-> op, id |-> i]

Present == {i \in Ids : docker[i] \in {"CREATED", "RUNNING", "EXITED"}}

Init ==
    /\ journal = [state |-> "ABSENT", container |-> NoId, seq |-> 0, sameBoot |-> TRUE]
    /\ docker = [i \in Ids |-> "NONE"]
    /\ inflight = {}
    /\ pc = Idle
    /\ launched = 0
    /\ proofs = {}

\* _write with the next operation_sequence.
Write(state) == journal' = [journal EXCEPT !.state = state, !.seq = @ + 1]

\* A CleanupProof names the sequence of the tombstone.
Prove(type, n) == proofs' = proofs \cup {[type |-> type, seq |-> n]}

-----------------------------------------------------------------------------
(* prepare and start                                                       *)

\* Mutant: prepare writes over a tombstone.
PrepareAgain ==
    /\ pc = Idle /\ journal.state \in {"ABSENT", "TOMBSTONED"}
    /\ Write("PREPARED")
    /\ UNCHANGED <<docker, inflight, pc, launched, proofs>>

\* An existing record is only compared with the request.
Prepare ==
    /\ pc = Idle /\ journal.state = "ABSENT"
    /\ Write("PREPARED")
    /\ UNCHANGED <<docker, inflight, pc, launched, proofs>>

\* start: the create is journaled before it is sent, and sent only once.  A
\* STARTED record is only inspected; all other states are refused, and so is a
\* start whose deadline belongs to another boot.
Start ==
    /\ pc = Idle
    /\ \/ /\ journal.state = "PREPARED"
          /\ journal' = [journal EXCEPT !.state = "CREATE_IN_FLIGHT", !.seq = @ + 1,
                                        !.sameBoot = TRUE]
          /\ pc' = At("CREATE")
       \/ /\ journal.state \in {"CREATED", "START_IN_FLIGHT"} /\ journal.sameBoot
          /\ pc' = At("INSPECT")
          /\ UNCHANGED journal
    /\ UNCHANGED <<docker, inflight, launched, proofs>>

\* _create: docker create answers.
CallCreate(i) ==
    /\ pc.at = "CREATE" /\ docker[i] = "NONE"
    /\ docker' = [docker EXCEPT ![i] = "CREATED"]
    /\ pc' = [At("BIND") EXCEPT !.on = {i}]
    /\ UNCHANGED <<journal, inflight, launched, proofs>>

\* _create: the answer is inspected and bound, and start goes on.
Bind(i) ==
    /\ pc.at = "BIND" /\ pc.on = {i}
    /\ journal.state = "CREATE_IN_FLIGHT"
    /\ journal' = [journal EXCEPT !.state = "CREATED", !.seq = @ + 1, !.container = i]
    /\ pc' = At("INSPECT")
    /\ UNCHANGED <<docker, inflight, launched, proofs>>

\* Mutant: a running container is taken for one without a supervisor.
InspectTrusting ==
    /\ pc.at = "INSPECT"
    /\ \/ /\ docker[journal.container] = "RUNNING"
          /\ journal' = [journal EXCEPT !.state = "START_IN_FLIGHT"]
          /\ pc' = At("EXEC")
       \/ /\ docker[journal.container] = "CREATED"
          /\ journal' = [journal EXCEPT !.state = "START_IN_FLIGHT"]
          /\ pc' = At("START")
       \/ /\ docker[journal.container] \notin {"CREATED", "RUNNING"}
          /\ pc' = Idle
          /\ UNCHANGED journal
    /\ UNCHANGED <<docker, inflight, launched, proofs>>

\* _reconcile_and_start up to the Docker call.  A running container whose start
\* is in flight may or may not have its supervisor: the outcome is unknown.  An
\* exited container is never restarted.
Inspect ==
    /\ pc.at = "INSPECT"
    /\ LET found == docker[journal.container] IN
         \/ /\ found \in {"CREATED", "RUNNING"} /\ journal.state = "CREATED"
            /\ Write("START_IN_FLIGHT")
            /\ pc' = At(IF found = "RUNNING" THEN "EXEC" ELSE "START")
         \/ /\ found = "CREATED" /\ journal.state = "START_IN_FLIGHT"
            /\ pc' = At("START")
            /\ UNCHANGED journal
         \/ /\ \/ found \notin {"CREATED", "RUNNING"}
               \/ found = "RUNNING" /\ journal.state = "START_IN_FLIGHT"
            /\ pc' = Idle
            /\ UNCHANGED journal
    /\ UNCHANGED <<docker, inflight, launched, proofs>>

\* docker start; it also restarts a container that exited since the inspection.
CallStart ==
    /\ pc.at = "START" /\ journal.container \in Present
    /\ docker' = [docker EXCEPT ![journal.container] = "RUNNING"]
    /\ pc' = At("EXEC")
    /\ UNCHANGED <<journal, inflight, launched, proofs>>

\* docker start returns an error: reset_start_after_failure.
FailStart ==
    /\ pc.at = "START" /\ journal.seq < MaxSeq
    /\ Write("CREATED")
    /\ inflight' \in {inflight, inflight \cup {Request("START", journal.container)}}
    /\ pc' = Idle
    /\ UNCHANGED <<docker, launched, proofs>>

\* _start_supervisor: docker exec in a running container.
CallExec ==
    /\ pc.at = "EXEC" /\ docker[journal.container] = "RUNNING"
    /\ launched' = launched + 1
    /\ pc' = At("MARK")
    /\ UNCHANGED <<journal, docker, inflight, proofs>>

Mark ==
    /\ pc.at = "MARK"
    /\ Write("STARTED")
    /\ pc' = Idle
    /\ UNCHANGED <<docker, inflight, launched, proofs>>

-----------------------------------------------------------------------------
(* cleanup                                                                 *)

\* cleanup of the bound container, by itself or inside resolve_fenced_claim.
\* A finished one answers from the journal.
Cleanup ==
    /\ pc = Idle /\ journal.container # NoId
    /\ \/ /\ journal.state \in {"CREATED", "START_IN_FLIGHT", "STARTED"}
          /\ pc' = At("STOP")
          /\ UNCHANGED proofs
       \/ /\ journal.state = "CLEANUP_IN_FLIGHT"
          /\ pc' = At("REMOVE")
          /\ UNCHANGED proofs
       \/ /\ journal.state = "TOMBSTONED"
          /\ Prove("CONTAINER_STOPPED", journal.seq)
          /\ UNCHANGED pc
    /\ UNCHANGED <<journal, docker, inflight, launched>>

\* stop: only a running container is stopped; a missing one is an error.
CallStop ==
    /\ pc.at = "STOP" /\ journal.container \in Present
    /\ docker' = [docker EXCEPT ![journal.container] = IF @ = "RUNNING" THEN "EXITED" ELSE @]
    /\ pc' = [pc EXCEPT !.at = "SEAL"]
    /\ UNCHANGED <<journal, inflight, launched, proofs>>

\* begin_cleanup records the evidence of the stop before anything is removed.
Seal ==
    /\ pc.at = "SEAL"
    /\ Write("CLEANUP_IN_FLIGHT")
    /\ pc' = [pc EXCEPT !.at = "REMOVE"]
    /\ UNCHANGED <<docker, inflight, launched, proofs>>

\* _resume_cleanup: docker rm --force, unless the container is not found.
CallRemove ==
    /\ pc.at = "REMOVE"
    /\ docker' = [docker EXCEPT ![journal.container] = "REMOVED"]
    /\ pc' = [pc EXCEPT !.at = "FINISH"]
    /\ UNCHANGED <<journal, inflight, launched, proofs>>

\* finish_cleanup, and the proof for the caller.
Finish ==
    /\ pc.at = "FINISH"
    /\ Write("TOMBSTONED")
    /\ IF pc.nested
       THEN pc' = [pc EXCEPT !.at = "LOOP", !.nested = FALSE] /\ UNCHANGED proofs
       ELSE pc' = Idle /\ Prove("CONTAINER_STOPPED", journal.seq + 1)
    /\ UNCHANGED <<docker, inflight, launched>>

-----------------------------------------------------------------------------
(* Tombstones of attempts without a container                              *)

\* tombstone_unclaimed: no create was sent, or the record is a tombstone already,
\* and a scan finds no container.
TombstoneUnclaimed ==
    /\ pc = Idle /\ Present = {}
    /\ \/ /\ journal.state \in {"ABSENT", "PREPARED"}
          /\ Write("TOMBSTONED") /\ Prove("NO_CONTAINER", journal.seq + 1)
       \/ /\ journal.state = "TOMBSTONED"
          /\ Prove("NO_CONTAINER", journal.seq) /\ UNCHANGED journal
    /\ UNCHANGED <<docker, inflight, pc, launched>>

\* create_reconciliation_tombstone of a revoked offer: there is no scan, only the
\* journal, which has no record or a tombstone.
ReconcileUnclaimed ==
    /\ pc = Idle
    /\ \/ /\ journal.state = "ABSENT"
          /\ Write("TOMBSTONED") /\ Prove("NO_CONTAINER", journal.seq + 1)
       \/ /\ journal.state = "TOMBSTONED"
          /\ Prove("NO_CONTAINER", journal.seq) /\ UNCHANGED journal
    /\ UNCHANGED <<docker, inflight, pc, launched>>

\* resolve_fenced_claim: the first scan for the startup identity.
Resolve ==
    /\ pc = Idle
    /\ Present = {} \/ journal.state \notin {"ABSENT", "PREPARED"}
    /\ pc' = [At("LOOP") EXCEPT !.on = Present]
    /\ UNCHANGED <<journal, docker, inflight, launched, proofs>>

\* _remove_unstarted: only a container that was never started.
Unstarted(i) == docker[i] = "CREATED"

\* The loop over the containers of the scan; a bound one is cleaned up.
ResolveOne(i) ==
    /\ pc.at = "LOOP" /\ i \in pc.on
    /\ \/ /\ journal.container = NoId
          /\ Unstarted(i) \/ docker[i] = "REMOVED"
          /\ docker' = [docker EXCEPT ![i] = "REMOVED"]
          /\ pc' = [pc EXCEPT !.on = @ \ {i}]
       \/ /\ journal.container = i
          /\ journal.state \in {"CREATED", "START_IN_FLIGHT", "STARTED"}
          /\ pc' = [at |-> "STOP", on |-> pc.on \ {i}, nested |-> TRUE]
          /\ UNCHANGED docker
    /\ UNCHANGED <<journal, inflight, launched, proofs>>

\* The removal was committed before the journal was: it is finished first.
ResolveCleanup ==
    /\ pc.at = "LOOP" /\ journal.state = "CLEANUP_IN_FLIGHT"
    /\ pc.on \subseteq {journal.container}
    /\ pc' = [at |-> "REMOVE", on |-> {}, nested |-> TRUE]
    /\ UNCHANGED <<journal, docker, inflight, launched, proofs>>

\* Mutant: an unknown create is left to its dead process.
ResolveWaiting ==
    /\ pc.at = "LOOP" /\ pc.on = {}
    /\ \/ journal.state \in {"ABSENT", "PREPARED"} /\ Write("TOMBSTONED")
       \/ journal.state = "TOMBSTONED" /\ UNCHANGED journal
    /\ pc' = At("FINAL")
    /\ UNCHANGED <<docker, inflight, launched, proofs>>

\* The journal is tombstoned before the last scan.
ResolveTombstone ==
    /\ pc.at = "LOOP" /\ pc.on = {}
    /\ \/ journal.state \in {"ABSENT", "PREPARED", "CREATE_IN_FLIGHT"} /\ Write("TOMBSTONED")
       \/ journal.state = "TOMBSTONED" /\ UNCHANGED journal
    /\ pc' = At("FINAL")
    /\ UNCHANGED <<docker, inflight, launched, proofs>>

\* The last scan; a container that appeared since is left to a later call.
ResolveFinal ==
    /\ pc.at = "FINAL"
    /\ IF Present = {} THEN Prove("NO_CONTAINER", journal.seq) ELSE UNCHANGED proofs
    /\ pc' = Idle
    /\ UNCHANGED <<journal, docker, inflight, launched>>

\* remove_unstarted_orphan: the late product of a tombstoned create.
RemoveOrphan(i) ==
    /\ pc = Idle /\ journal.state = "TOMBSTONED" /\ journal.container = NoId
    /\ i \in Present /\ Unstarted(i)
    /\ \/ docker' = [docker EXCEPT ![i] = "REMOVED"] /\ UNCHANGED inflight
       \/ inflight' = inflight \cup {Request("REMOVE", i)} /\ UNCHANGED docker
    /\ UNCHANGED <<journal, pc, launched, proofs>>

-----------------------------------------------------------------------------
(* Failures and the daemon                                                 *)

\* The request an operation may have sent from its present step.
Sendable(r) ==
    \/ pc.at = "CREATE" /\ r = Create
    \/ pc.at \in {"START", "STOP", "REMOVE"} /\ r = Request(pc.at, journal.container)
    \/ pc.at = "LOOP" /\ journal.container = NoId /\ \E i \in pc.on : r = Request("REMOVE", i)

\* An error, a timeout or a crash before or during the present step.
Abandon ==
    /\ pc # Idle
    /\ pc' = Idle
    /\ \/ UNCHANGED <<inflight, launched>>
       \/ \E r \in Requests : Sendable(r) /\ inflight' = inflight \cup {r} /\ UNCHANGED launched
       \/ pc.at = "EXEC" /\ launched' = launched + 1 /\ UNCHANGED inflight
    /\ UNCHANGED <<journal, docker, proofs>>

\* The daemon carries out a request nobody waits for, or drops it.
Daemon(r) ==
    /\ r \in inflight
    /\ inflight' = inflight \ {r}
    /\ \/ UNCHANGED docker
       \/ \E i \in Ids : /\ r = Create /\ docker[i] = "NONE"
                         /\ docker' = [docker EXCEPT ![i] = "CREATED"]
       \/ \E i \in Present :
            \/ r = Request("START", i) /\ docker' = [docker EXCEPT ![i] = "RUNNING"]
            \/ r = Request("REMOVE", i) /\ docker' = [docker EXCEPT ![i] = "REMOVED"]
            \/ /\ r = Request("STOP", i) /\ docker[i] = "RUNNING"
               /\ docker' = [docker EXCEPT ![i] = "EXITED"]
    /\ UNCHANGED <<journal, pc, launched, proofs>>

\* The workload ends.
Exit(i) ==
    /\ docker[i] = "RUNNING"
    /\ docker' = [docker EXCEPT ![i] = "EXITED"]
    /\ UNCHANGED <<journal, inflight, pc, launched, proofs>>

\* The host restarts: another clock domain, no requests, and no container runs,
\* since none has a restart policy.
Reboot ==
    /\ pc' = Idle
    /\ inflight' = {}
    /\ docker' = [i \in Ids |-> IF docker[i] = "RUNNING" THEN "EXITED" ELSE docker[i]]
    /\ journal' = [journal EXCEPT !.sameBoot = FALSE]
    /\ UNCHANGED <<launched, proofs>>

Continue ==
    \/ \E i \in Ids : CallCreate(i) \/ Bind(i) \/ ResolveOne(i)
    \/ Inspect \/ CallStart \/ FailStart \/ CallExec \/ Mark
    \/ CallStop \/ Seal \/ CallRemove \/ Finish
    \/ ResolveCleanup \/ ResolveTombstone \/ ResolveFinal

Next ==
    \/ Prepare \/ Start \/ Cleanup \/ TombstoneUnclaimed \/ ReconcileUnclaimed \/ Resolve
    \/ Continue \/ Abandon
    \/ \E r \in inflight : Daemon(r)
    \/ \E i \in Ids : RemoveOrphan(i) \/ Exit(i)
    \/ Reboot

Spec == Init /\ [][Next]_vars

\* The reconciliation of a fenced claim, repeated by every scan until it
\* succeeds, while Docker and the disk do not fail for ever.
FairSpec ==
    /\ Spec
    /\ WF_vars(Continue \/ Abandon)
    /\ SF_vars(Resolve)
    /\ \A i \in Ids : SF_vars(ResolveOne(i))
    /\ SF_vars(CallStop) /\ SF_vars(Seal) /\ SF_vars(CallRemove) /\ SF_vars(Finish)
    /\ SF_vars(ResolveCleanup) /\ SF_vars(ResolveTombstone) /\ SF_vars(ResolveFinal)

-----------------------------------------------------------------------------
(* Properties                                                              *)

TypeOK ==
    /\ journal \in [state : States, container : Ids \cup {NoId}, seq : Nat, sameBoot : BOOLEAN]
    /\ docker \in [Ids -> {"NONE", "CREATED", "RUNNING", "EXITED", "REMOVED"}]
    /\ inflight \subseteq Requests
    /\ pc \in [at : Steps, on : SUBSET Ids, nested : BOOLEAN]
    /\ launched \in Nat
    /\ proofs \subseteq [type : {"CONTAINER_STOPPED", "NO_CONTAINER"}, seq : Nat]

\* A proof is final: from then on no container of the attempt runs, though
\* requests sent before it may still be carried out (finish_cleanup,
\* tombstone_abandoned_create).
ProofIsFinal == proofs # {} => \A i \in Ids : docker[i] # "RUNNING"

\* The workload is launched at most once, whatever was retried and however
\* late a start took effect (_reconcile_and_start).
OneLaunch == launched <= 1

\* At most one container is ever created for the attempt: an unknown create is
\* never repeated (start, begin_create).
OneContainer == \A i, j \in Ids : docker[i] # "NONE" /\ docker[j] # "NONE" => i = j

\* Only the bound container was ever started, so an unbound one can be removed
\* and never needs manual reconciliation (_remove_unstarted).
UnboundNeverStarted == \A i \in Ids : docker[i] \in {"RUNNING", "EXITED"} => journal.container = i

\* Proofs repeated after a crash carry the same operation_sequence: the agent
\* gives up on a pending cleanup whose proof differs (_stop_orphan_locked,
\* _resolve_fenced_claim).
ProofsAgree == \A p, q \in proofs : p.seq = q.seq

\* One container, one launch, only the bound container started, and proofs that
\* are final and repeatable, whatever fails, dies or is carried out late.
ExecutorPromise ==
    ProofIsFinal /\ OneLaunch /\ OneContainer /\ UnboundNeverStarted /\ ProofsAgree

Bound == {"CREATED", "START_IN_FLIGHT", "STARTED", "CLEANUP_IN_FLIGHT"}

\* The journal tells what Docker can hold: nothing before the create, one
\* container that is bound before it is started, none after the tombstone.
JournalTellsDocker ==
    /\ journal.state \in {"ABSENT", "PREPARED"} =>
          inflight = {} /\ \A i \in Ids : docker[i] = "NONE"
    /\ journal.state \in {"ABSENT", "PREPARED", "CREATE_IN_FLIGHT"} => journal.container = NoId
    /\ journal.state \in Bound =>
          journal.container \in Ids /\ docker[journal.container] # "NONE"
    /\ journal.state = "TOMBSTONED" /\ journal.container \in Ids =>
          docker[journal.container] = "REMOVED"

\* What an abandoned request can still do.
InflightHarmless ==
    \A r \in inflight :
        /\ r.op = "CREATE" => r = Create /\ \A i \in Ids : docker[i] = "NONE"
        /\ r.op \in {"START", "STOP"} => r.id = journal.container
        /\ r.op = "REMOVE" =>
              /\ r.id \in Ids /\ docker[r.id] # "NONE"
              /\ journal.state \in {"CREATE_IN_FLIGHT", "CLEANUP_IN_FLIGHT", "TOMBSTONED"}

\* What an operation knows at each of its steps.
StepKnows ==
    /\ pc.at = "CREATE" => \A i \in Ids : docker[i] = "NONE"
    /\ pc.at = "BIND" => \E i \in Ids : pc.on = {i} /\ docker[i] # "NONE"
    /\ pc.at \in {"CREATE", "BIND"} => journal.state = "CREATE_IN_FLIGHT" /\ inflight = {}
    /\ pc.at = "INSPECT" => journal.state \in {"CREATED", "START_IN_FLIGHT"}
    /\ pc.at \in {"START", "EXEC"} => journal.state = "START_IN_FLIGHT" /\ launched = 0
    /\ pc.at = "MARK" => journal.state = "START_IN_FLIGHT"
    /\ pc.at = "EXEC" => docker[journal.container] # "CREATED"
    /\ pc.at \in {"STOP", "SEAL"} => journal.state \in Bound \ {"CLEANUP_IN_FLIGHT"}
    /\ pc.at \in {"REMOVE", "FINISH"} => journal.state = "CLEANUP_IN_FLIGHT"
    /\ pc.at = "FINISH" => docker[journal.container] = "REMOVED"
    /\ pc.at = "FINAL" => journal.state = "TOMBSTONED"
    /\ \A i \in pc.on : docker[i] # "NONE"

\* A launched workload is in the bound container, which was started.
LaunchRecorded ==
    launched > 0 =>
        /\ launched = 1
        /\ journal.state \in {"START_IN_FLIGHT", "STARTED", "CLEANUP_IN_FLIGHT", "TOMBSTONED"}
        /\ journal.container \in Ids /\ docker[journal.container] # "CREATED"

\* Proofs are given for the tombstone only.
ProofsNameTombstone ==
    \A p \in proofs : journal.state = "TOMBSTONED" /\ p.seq = journal.seq

\* The inductive invariant of the executor: the journal bounds what Docker can
\* hold and what abandoned requests can still do (start, cleanup,
\* resolve_fenced_claim).
ExecInv ==
    /\ TypeOK /\ OneContainer /\ UnboundNeverStarted
    /\ JournalTellsDocker /\ InflightHarmless /\ StepKnows
    /\ LaunchRecorded /\ ProofsNameTombstone

\* The abstract state: a record in a state where a container may exist is alive.
Phase ==
    IF journal.state \in {"ABSENT", "PREPARED"} THEN "NONE"
    ELSE IF journal.state = "TOMBSTONED" THEN "GONE" ELSE "ALIVE"

Promise == INSTANCE Execution
    WITH phase <- Phase, running <- (\E i \in Ids : docker[i] = "RUNNING")

\* The executor keeps its promise: nothing runs before the create was journaled
\* or after the tombstone, and a tombstone is for ever (start, cleanup).
KeepsPromise == Promise!Spec

\* A fenced claim is resolved, whatever was in flight when its process died
\* (resolve_fenced_claim).
ClaimResolved == <>(\E p \in proofs : p.type = "NO_CONTAINER")

=============================================================================
