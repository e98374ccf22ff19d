--------------------------- MODULE RunnerControl ---------------------------
(***************************************************************************)
(* One running attempt: the trusted runner, the worker that controls it    *)
(* and the rows of the attempt on the server.                              *)
(*                                                                         *)
(* The runner numbers the frames it emits, the worker the controls it      *)
(* sends; both sides persist what they have seen, so a frame or a control  *)
(* that is sent again has no second effect.  Deadlines and the checkpoint  *)
(* and result controls share one control sequence.  A checkpoint cycle and *)
(* the result handshake are the same exchange: Batches file frames, each   *)
(* answered by a binding, then FINALIZE and the READY frame (one batch for *)
(* the CPU and training adapters; chunks, state and chunk manifest for     *)
(* inference).  An exchange may be lost before or after the other side     *)
(* acted on it, the worker may crash between any two steps, the runner may *)
(* stop for its own reasons or die.                                        *)
(*                                                                         *)
(* Contents of files, manifests and uploads are left out: an upload is     *)
(* repeated under its own key until it is answered.  Startup and the       *)
(* callbacks of a fenced attempt are in WorkerAgent, the server's rows in  *)
(* JobLifecycle.                                                           *)
(***************************************************************************)
EXTENDS Naturals, Sequences

CONSTANTS
  Batches,     \* file frames of one handshake
  MaxCycles,   \* bound of the checkpoint reservations
  DoneExpires, \* whether the runtime limit of a finished workload passes uncounted
  MaxEvents    \* bound of the pauses, crashes, lost exchanges, faults and routine renewals

ASSUME ControlAssumption ==
  /\ Batches \in Nat \ {0} /\ MaxCycles \in Nat /\ MaxEvents \in Nat \ {0}
  /\ DoneExpires \in BOOLEAN

VARIABLES
  runner,   \* the runner's persisted state and its container's exit
  journal,  \* runner_state of the attempt, and its pending deadline operation
  server,   \* the attempt's rows
  agent,    \* the worker process
  left      \* what the environment may still do

vars == <<runner, journal, server, agent, left>>

Ready == Batches + 1
NoFrame == [n |-> 0, t |-> "NONE", s |-> 0, id |-> 0, why |-> "NONE"]
NoControl == [n |-> 0, op |-> "NONE", id |-> 0, src |-> 0]
NoCycle == [id |-> 0, reserved |-> FALSE, pub |-> FALSE, pause |-> FALSE]
NoOp == [kind |-> "NONE", id |-> 0, inc |-> 0, acked |-> FALSE, n |-> 0]
Handshake(id) == [id |-> id, s |-> 0, src |-> 0, bound |-> FALSE]

\* What a control does, without its number: the payload its hash covers.
Control(op, id, src) == [op |-> op, id |-> id, src |-> src]
Effect(c) == Control(c.op, c.id, c.src)
Numbered(d, n) == [n |-> n, op |-> d.op, id |-> d.id, src |-> d.src]

\* A RUN attempt, or one dispatched only to checkpoint a paused job; its start is
\* acknowledged and the first deadline is still to be delivered.
RunnerStart ==
  [state |-> "WAITING", hist |-> << >>, sent |-> 0, out |-> << >>, ck |-> Handshake(0),
   waiting |-> 0, sup |-> FALSE, staged |-> FALSE, deferred |-> FALSE,
   res |-> Handshake(0), work |-> "NONE", stop |-> "NONE", failed |-> {},
   acked |-> FALSE, exit |-> "NONE"]

JournalStart(forPause) ==
  [high |-> 0, msg |-> NoFrame, kept |-> NoFrame, progress |-> FALSE,
   last |-> 0, inflight |-> NoControl, acks |-> {}, rejs |-> {},
   op |-> [kind |-> "start", id |-> 1, inc |-> 1, acked |-> TRUE, n |-> 1],
   cycle |-> NoCycle, outcome |-> << >>, pauseck |-> FALSE, aborted |-> FALSE,
   rejected |-> FALSE, disabled |-> FALSE, ckrej |-> FALSE,
   res |-> 0, reserved |-> FALSE, deferred |-> NoFrame, completing |-> FALSE,
   completed |-> FALSE, desired |-> IF forPause THEN "PAUSED" ELSE "RUNNING",
   pstop |-> FALSE, exit |-> "NONE", failure |-> "NONE"]

ServerStart(forPause) ==
  [forPause |-> forPause, job |-> IF forPause THEN "PAUSING" ELSE "RUNNING",
   att |-> "RUNNING", live |-> TRUE, ck |-> 0, seq |-> 0, pub |-> << >>,
   res |-> FALSE, done |-> "NONE", released |-> FALSE]

Init ==
  \E forPause \in BOOLEAN :
    /\ runner = RunnerStart
    /\ journal = JournalStart(forPause)
    /\ server = ServerStart(forPause)
    /\ agent = [up |-> TRUE, inc |-> 1, adopted |-> FALSE, refused |-> FALSE]
    /\ left = [ops |-> 1, events |-> MaxEvents - (IF forPause THEN 1 ELSE 0)]

-----------------------------------------------------------------------------
(* The runner. *)

Alive == runner.state # "EXITED"
Computing(r) == r.state = "RUNNING"

Emit(r, t, s, id, why) ==
  [r EXCEPT !.sent = @ + 1,
            !.out = Append(@, [n |-> r.sent + 1, t |-> t, s |-> s, id |-> id, why |-> why])]

\* request_stop keeps the first reason.
RequestStop(r, reason) == [r EXCEPT !.stop = IF @ = "NONE" THEN reason ELSE @]

\* exit_status: 0 once a worker kept the STOPPED frame, else the reason of the stop.
ExitStatus(r) == IF r.acked THEN "ZERO" ELSE r.stop
Exited(r, status) == [r EXCEPT !.state = "EXITED", !.exit = status]

\* stop_workload: only the supervisor's exit report confirms the stop; without it
\* the runner fails closed, and its exit status names the reason.
Stops(r, reason) ==
  LET q == RequestStop(r, reason) IN
  {[Emit(q, "STOPPED", 0, 0, q.stop) EXCEPT !.state = "STOPPED"]} \cup
  (IF r.work = "RUNNING" /\ left.events > 0 THEN {Exited(q, q.stop)} ELSE {})

\* FAILED, then the stop for FAILURE.
FailsAndStops(r, why) ==
  Stops([Emit(r, "FAILED", 0, 0, why) EXCEPT !.failed = @ \cup {why}], "FAILURE")

\* _stage_checkpoint: the state file is copied and announced.
StageCheckpoint(r, id) ==
  [Emit(r, "CHECKPOINT", 1, id, "NONE") EXCEPT
     !.waiting = 0,
     !.ck = [Handshake(id) EXCEPT !.s = 1, !.src = r.sent + 1]]

\* The workload writes its first snapshot some time after launch.
MayLackState(r) == r.ck.id = 0 /\ r.work = "RUNNING"

CheckpointOpen(r) == r.waiting # 0 \/ (r.ck.id # 0 /\ r.ck.s < Ready)

\* _open_result: RESULT_PREPARE waits for the checkpoint cycle that is open.
OpenResult(r) ==
  IF CheckpointOpen(r) THEN [r EXCEPT !.staged = TRUE, !.deferred = TRUE]
  ELSE [Emit(r, "RESULT", 0, 0, "NONE") EXCEPT !.staged = TRUE]

\* The frame after the one h.s announced.
NextBatch(r, t, h) == Emit(r, t, h.s + 1, h.id, "NONE")
Advanced(r, h) == [h EXCEPT !.s = @ + 1, !.src = r.sent + 1]

\* accept_authority_deadline of a deadline that has not passed.
AcceptDeadline(r) == {[r EXCEPT !.state = "RUNNING"]}

\* _request_checkpoint: one handshake at a time, none once the result is reserved; the
\* first snapshot may still be missing.  The empty set is an error.
AcceptRequest(r, c) ==
  IF ~Computing(r) \/ r.work = "NONE" \/ r.waiting \notin {0, c.id} THEN {}
  ELSE IF c.id \in {r.waiting, r.ck.id} THEN {r}
  ELSE IF r.ck.id > c.id \/ r.ck.s \notin {0, Ready} \/ r.res.s # 0 THEN {}
  ELSE {StageCheckpoint(r, c.id)} \cup
       (IF MayLackState(r) THEN {[r EXCEPT !.waiting = c.id]} ELSE {})

\* _prepare_result: the first file frame of the staged result, once.
AcceptPrepare(r) ==
  IF ~r.staged THEN {}
  ELSE IF r.res.s # 0 THEN {r}
  ELSE {[NextBatch(r, "RESULT", r.res) EXCEPT !.res = Advanced(r, r.res)]}

\* The handshake that waits for a binding of the frame src.
Awaits(h, c) == h.s \in 1..Batches /\ h.src = c.src /\ h.id = c.id

\* _bind_chunk_output: the next chunks, the state or summary file, or the manifest.
BindChunks(r, c) ==
  IF c.id = 0 THEN [NextBatch(r, "RESULT", r.res) EXCEPT !.res = Advanced(r, r.res)]
  ELSE [NextBatch(r, "CHECKPOINT", r.ck) EXCEPT !.ck = Advanced(r, r.ck)]

\* _bind_result_artifacts, _bind_checkpoint_artifacts: the bindings must answer the frame
\* that waits for them.
BindResult(r, c) ==
  IF ~Awaits(r.res, c) THEN {}
  ELSE IF r.res.s < Batches THEN {BindChunks(r, c)} ELSE {[r EXCEPT !.res.bound = TRUE]}
BindCheckpoint(r, c) ==
  IF ~Awaits(r.ck, c) THEN {}
  ELSE IF r.ck.s < Batches THEN {BindChunks(r, c)} ELSE {[r EXCEPT !.ck.bound = TRUE]}

\* _finalize_result: RESULT_READY, once.
FinalizeResult(r) ==
  IF ~r.res.bound THEN {}
  ELSE IF r.res.s = Ready THEN {r}
  ELSE {[NextBatch(r, "RESULT", r.res) EXCEPT !.res = Advanced(r, r.res)]}

\* _finalize_checkpoint: CHECKPOINT_READY, once; it releases a deferred result.
FinalizeCheckpoint(r, c) ==
  IF ~r.ck.bound \/ r.ck.id # c.id THEN {}
  ELSE IF r.ck.s = Ready THEN {r}
  ELSE LET q == [NextBatch(r, "CHECKPOINT", r.ck) EXCEPT !.ck = Advanced(r, r.ck)]
       IN {IF q.deferred THEN [Emit(q, "RESULT", 0, 0, "NONE") EXCEPT !.deferred = FALSE] ELSE q}

\* _apply_control_effect
Applied(r, c) ==
  CASE c.op = "DEADLINE" -> AcceptDeadline(r)
    [] c.op = "STOP" -> Stops(r, "PAUSE")
    [] c.op = "REQUEST" -> AcceptRequest(r, c)
    [] c.op = "PREPARE" -> AcceptPrepare(r)
    [] c.op = "BIND" -> IF c.id = 0 THEN BindResult(r, c) ELSE BindCheckpoint(r, c)
    [] c.op = "FINALIZE" -> IF c.id = 0 THEN FinalizeResult(r) ELSE FinalizeCheckpoint(r, c)

\* _stages_checkpoint: a storage error of one of these is a failure of its own.
StagesCheckpoint(c) == c.op \in {"REQUEST", "BIND", "FINALIZE"} /\ c.id # 0

\* SequenceState.classify
Classify(hist, c) ==
  IF c.n <= Len(hist) THEN IF hist[c.n] = Effect(c) THEN "DUPLICATE" ELSE "INVALID"
  ELSE IF c.n = Len(hist) + 1 THEN "ACCEPTED" ELSE "OUT_OF_ORDER"

Commit(r, c) == [r EXCEPT !.hist = Append(@, Effect(c))]
Answer(code, r) == [code |-> code, r |-> r]

\* apply_control: a control seen before has no effect; a conflict, or an effect that
\* fails, stops the workload and commits nothing.
ApplyControl(c) ==
  LET r == runner
      code == Classify(r.hist, c)
      Rejected(stopped) == {Answer("INVALID", q) : q \in stopped}
  IN CASE code \in {"DUPLICATE", "OUT_OF_ORDER"} -> {Answer(code, r)}
       [] code \in {"INVALID", "ACCEPTED"} /\ r.state = "STOPPED" -> Rejected({r})
       [] code = "INVALID" /\ r.state # "STOPPED" -> Rejected(Stops(r, "FAILURE"))
       [] code = "ACCEPTED" /\ r.state # "STOPPED" ->
            {Answer(code, Commit(q, c)) : q \in Applied(r, c)} \cup
            (IF Applied(r, c) = {} THEN Rejected(Stops(r, "FAILURE"))
             ELSE IF left.events = 0 THEN {}
             ELSE IF c.op = "DEADLINE" THEN Rejected(Stops(r, "LEASE_DEADLINE"))
             ELSE IF StagesCheckpoint(c)
                  THEN Rejected(FailsAndStops(r, "CHECKPOINT_STORAGE_FAILED"))
             ELSE {})

\* attach_supervisor_connection: the workload's supervisor registers once.
AttachSupervisor ==
  /\ Alive /\ ~runner.sup
  /\ runner' = [runner EXCEPT !.sup = TRUE]
  /\ UNCHANGED <<journal, server, agent, left>>

\* _recognized_files_are_valid, _restore_state_is_valid: files that do not match what the
\* worker verified never reach compute.
RecognizedRefused(r) == FailsAndStops(r, "CHUNK_OUTPUT_UNAVAILABLE")
RestoreRefused(r) == FailsAndStops(r, "CHECKPOINT_RESTORE_UNAVAILABLE")

\* _launch_from_spec, once the runner has authority and its supervisor.
Launch ==
  /\ Computing(runner) /\ runner.sup /\ runner.work = "NONE"
  /\ \/ runner' = [Emit(runner, "STARTED", 0, 0, "NONE") EXCEPT !.work = "RUNNING"]
     \/ /\ left.events > 0
        /\ runner' \in RecognizedRefused(runner) \cup RestoreRefused(runner)
  /\ UNCHANGED <<journal, server, agent, left>>

\* _poll_waiting_checkpoint: the request waits for that snapshot until its deadline.
PollWaiting ==
  /\ Computing(runner) /\ runner.waiting # 0
  /\ \/ runner' = StageCheckpoint(runner, runner.waiting)
     \/ /\ MayLackState(runner) /\ left.events > 0
        /\ runner' \in Stops([runner EXCEPT !.waiting = 0], "FAILURE")
  /\ UNCHANGED <<journal, server, agent, left>>

\* _workload_exit_failure; INVALID_INPUT, the third, goes the same way.
WorkloadFailures == {"CONTAINER_OOM", "WORKLOAD_EXIT_NONZERO"}

\* monitor, _finish_adapter_workload: exit 0 stages the result, any other exit is FAILED
\* and leaves the runner serving.
WorkloadExits ==
  /\ Computing(runner) /\ runner.work = "RUNNING"
  /\ \/ runner' = [OpenResult(runner) EXCEPT !.work = "DONE"]
     \/ \E why \in WorkloadFailures :
          runner' = [Emit(runner, "FAILED", 0, 0, why) EXCEPT
                       !.work = "FAILED", !.failed = @ \cup {why}]
  /\ UNCHANGED <<journal, server, agent, left>>

\* enforce_deadlines: the watchdog's own reasons to stop.  They count as events, but
\* for the runtime limit of a workload that is done or being paused: time always passes.
Watchdog ==
  /\ runner.state \in {"WAITING", "RUNNING"}
  /\ \E reason \in {"STARTUP_LIMIT", "LEASE_DEADLINE", "RUNTIME_LIMIT", "FAILURE"} :
       /\ reason = "STARTUP_LIMIT" <=> runner.work = "NONE"
       /\ \/ left.events > 0 /\ left' = [left EXCEPT !.events = @ - 1]
          \/ /\ left.events = 0 /\ reason = "RUNTIME_LIMIT"
             /\ (DoneExpires /\ runner.work = "DONE") \/ server.att = "STOPPING"
             /\ UNCHANGED left
       /\ runner' \in Stops(runner, reason)
  /\ UNCHANGED <<journal, server, agent>>

\* serve_control ends once the stop frame is acknowledged, or after the linger.
RunnerExits ==
  /\ runner.state = "STOPPED"
  /\ runner' = Exited(runner, ExitStatus(runner))
  /\ UNCHANGED <<journal, server, agent, left>>

\* The container dies under the runner.
RunnerKilled ==
  /\ Alive /\ left.events > 0
  /\ runner' = Exited(runner, "KILLED")
  /\ left' = [left EXCEPT !.events = @ - 1]
  /\ UNCHANGED <<journal, server, agent>>

-----------------------------------------------------------------------------
(* Frames: what one connection hands to the worker. *)

Terminal(f) == f.t \in {"FAILED", "STOPPED"}

\* Mutant: a terminal frame that is not next is only asked for again.
RecordWithoutKeeping(j, f) ==
  IF f.n <= j.high THEN Answer("DUPLICATE", j)
  ELSE IF f.n > j.high + 1 THEN Answer("OUT_OF_ORDER", j)
  ELSE IF f.t = "STARTED" THEN Answer("ACCEPTED", [j EXCEPT !.high = f.n, !.progress = TRUE])
  ELSE Answer("OUT_OF_ORDER", [j EXCEPT !.msg = f])

\* _record_runner_message: a terminal frame that is not next is kept aside; one
\* execution frame at a time is pending and acknowledged once it is processed.
RecordRunnerMessage(j, f) ==
  IF f.n <= j.high THEN Answer("DUPLICATE", j)
  ELSE IF f.n > j.high + 1
  THEN IF ~Terminal(f) THEN Answer("OUT_OF_ORDER", j)
       ELSE IF j.kept \in {NoFrame, f} THEN Answer("OUT_OF_ORDER", [j EXCEPT !.kept = f])
       ELSE Answer("INVALID", j)
  ELSE IF f.t = "STARTED" THEN Answer("ACCEPTED", [j EXCEPT !.high = f.n, !.progress = TRUE])
  ELSE IF j.msg \in {NoFrame, f} THEN Answer("OUT_OF_ORDER", [j EXCEPT !.msg = f])
  ELSE Answer("INVALID", j)

\* The frames a connection hands over, in order: j is the journal, a the answers.
Deliver(frames) ==
  LET After[k \in 0..Len(frames)] ==
        IF k = 0 THEN [j |-> journal, a |-> << >>]
        ELSE LET e == RecordRunnerMessage(After[k - 1].j, frames[k])
             IN [j |-> e.r, a |-> Append(After[k - 1].a, [f |-> frames[k], code |-> e.code])]
  IN After[Len(frames)]

\* acknowledge_message: an accepted frame leaves the queue; a stop frame that the
\* worker kept, though not in turn, lets the runner exit with 0.
Acknowledge(r, answers) ==
  LET taken == {answers[i].f.n : i \in
                  {k \in DOMAIN answers : answers[k].code \in {"ACCEPTED", "DUPLICATE"}}}
  IN [r EXCEPT !.out = SelectSeq(@, LAMBDA f : f.n \notin taken),
               !.acked = @ \/ \E i \in DOMAIN answers :
                                  answers[i].f.t = "STOPPED" /\ answers[i].code # "INVALID"]

Lossy == IF left.events > 0 THEN BOOLEAN ELSE {TRUE}
Spend(got) == left' = IF got THEN left ELSE [left EXCEPT !.events = @ - 1]

Holding == agent.up /\ agent.adopted /\ ~server.released

\* _ipc_once, receive_messages, _serve_connection: the frames in the queue are read
\* in order; the last acknowledgements may be lost.
IpcOnce ==
  /\ Holding /\ Alive
  /\ journal.msg = NoFrame /\ journal.exit = "NONE" /\ runner.out # << >>
  /\ \E got \in Lossy :
       LET d == Deliver(runner.out) IN
       /\ journal' = d.j
       /\ runner' = IF got THEN Acknowledge(runner, d.a) ELSE runner
       /\ Spend(got)
  /\ UNCHANGED <<server, agent>>

\* _observe_container_exit, of an attempt it holds or is starting.
ObserveExit ==
  /\ agent.up /\ ~server.released /\ (agent.adopted \/ journal.op.kind = "start") /\ ~Alive /\ journal.exit = "NONE"
  /\ journal' = [journal EXCEPT !.exit = runner.exit]
  /\ UNCHANGED <<runner, server, agent, left>>

-----------------------------------------------------------------------------
(* Controls: one number for deadlines and for the controls of the handshakes. *)

Accepted(code) == code \in {"ACCEPTED", "DUPLICATE"}

\* The journal j after the answer to control c: a deadline that was refused stays
\* pending, a result control that was rejected is not sent again.
Settled(c, code, j) ==
  CASE c.op = "DEADLINE" /\ Accepted(code) -> [j EXCEPT !.op = NoOp, !.last = c.n]
    [] c.op = "DEADLINE" /\ ~Accepted(code) -> j
    [] c.op # "DEADLINE" /\ Accepted(code) ->
         [j EXCEPT !.inflight = NoControl, !.acks = @ \cup {Effect(c)}, !.last = c.n]
    [] OTHER -> [j EXCEPT !.inflight = NoControl, !.rejs = @ \cup {Effect(c)}]

\* _control_exchange, _receive_ack: the terminal frames read before the answer are
\* recorded and acknowledged; the control, or its answer, may be lost.
Exchange(c) ==
  /\ Alive
  /\ \/ \E e \in ApplyControl(c) :
          LET d == Deliver(SelectSeq(runner.out, Terminal)) IN
          /\ e.r.state # "EXITED"
          /\ runner' = Acknowledge(e.r, d.a)
          /\ journal' = Settled(c, e.code, d.j)
          /\ UNCHANGED left
     \/ /\ left.events > 0
        /\ \E e \in ApplyControl(c) : runner' = e.r
        /\ Spend(FALSE)
        /\ UNCHANGED journal
     \/ /\ \E e \in ApplyControl(c) : e.r.state = "EXITED" /\ runner' = e.r
        /\ UNCHANGED <<journal, left>>

\* _flush_result_controls.
Flush ==
  /\ agent.up /\ ~server.released /\ journal.inflight # NoControl
  /\ Exchange(journal.inflight)
  /\ UNCHANGED <<server, agent>>

\* _send_result_control: a pending deadline operation owns its number.
MayControl == journal.inflight = NoControl /\ journal.op = NoOp

\* The journal names the control before it is sent.
Journaled(j, d) == [j EXCEPT !.inflight = Numbered(d, j.last + 1)]
Sent(d) == d \in journal.acks \cup journal.rejs

-----------------------------------------------------------------------------
(* Deadlines: start, adopt, renew. *)

Desired == IF server.job = "PAUSING" THEN "PAUSED" ELSE "RUNNING"

\* _observe_desired_state: only RUNNING clears an earlier pause.
ObserveDesired(j, d) ==
  IF d = "RUNNING" THEN [j EXCEPT !.desired = d, !.pauseck = FALSE, !.aborted = FALSE]
  ELSE [j EXCEPT !.desired = d]

Granted(j) == [j EXCEPT !.op.acked = TRUE, !.op.n = j.last + 1]
Begun(j, kind) ==
  [j EXCEPT !.op = [kind |-> kind, id |-> left.ops + 1, inc |-> agent.inc,
                    acked |-> FALSE, n |-> 0]]

\* _renew_attempt: the control in flight is settled first.
Renew ==
  /\ Holding /\ server.live /\ ~journal.completed
  /\ left.events > 0 \/ Desired # journal.desired
  /\ journal.op = NoOp /\ journal.inflight = NoControl
  /\ \E got \in Lossy :
       /\ journal' = IF got THEN ObserveDesired(Granted(Begun(journal, "renew")), Desired)
                     ELSE Begun(journal, "renew")
       /\ left' = [left EXCEPT !.ops = @ + 1,
                               !.events = IF got /\ Desired # journal.desired THEN @ ELSE @ - 1]
  /\ UNCHANGED <<runner, server, agent>>

\* Whether the journal explains what the server says is still reserved.
ResultExplained(j) ==
  j.reserved = server.res \/ (~j.reserved /\ j.res # 0)
CheckpointExplained(j) ==
  LET held == IF j.cycle.reserved THEN j.cycle.id ELSE 0 IN
  \/ held = server.ck
  \/ held = 0 /\ ~j.cycle.pub /\ j.cycle.id = server.ck
  \/ server.ck = 0 /\ j.cycle.pub

\* reconcile_adoption: the journal takes over the server's reservations.
ReconcileAdoption(j) ==
  LET k == [j EXCEPT !.reserved = server.res] IN
  IF server.ck # 0 THEN [k EXCEPT !.cycle.reserved = TRUE, !.cycle.pub = FALSE]
  ELSE IF j.cycle.reserved
       THEN [k EXCEPT !.cycle = NoCycle, !.outcome = <<j.cycle.id, "RESOLVED">>]
       ELSE [k EXCEPT !.cycle = NoCycle]

\* _adopt: a journal that does not explain the reservations adopts nothing.
Adopt ==
  /\ agent.up /\ ~agent.adopted /\ ~server.released /\ server.live
  /\ journal.op = NoOp /\ journal.inflight = NoControl
  /\ ResultExplained(journal) /\ CheckpointExplained(journal)
  /\ \E got \in Lossy :
       /\ journal' = IF got THEN ReconcileAdoption(Granted(Begun(journal, "adopt")))
                     ELSE Begun(journal, "adopt")
       /\ left' = [left EXCEPT !.ops = @ + 1, !.events = IF got THEN @ ELSE @ - 1]
  /\ UNCHANGED <<runner, server, agent>>

\* _resume_pending_authority: the operation of an older incarnation that was never
\* answered is dropped, this incarnation's is sent again under its callback.
ResumeOperation ==
  /\ agent.up /\ ~server.released /\ journal.op # NoOp /\ ~journal.op.acked
  /\ IF journal.op.inc # agent.inc THEN journal' = [journal EXCEPT !.op = NoOp]
     ELSE /\ server.live /\ journal.inflight = NoControl
          /\ journal' = IF journal.op.kind = "adopt" THEN ReconcileAdoption(Granted(journal))
                        ELSE Granted(journal)
  /\ UNCHANGED <<runner, server, agent, left>>

Deadline == [n |-> journal.op.n, op |-> "DEADLINE", id |-> journal.op.id, src |-> 0]

\* _apply_deadline: adoption and start hold the attempt once the runner has it.
ApplyDeadline ==
  /\ agent.up /\ ~server.released /\ journal.op.acked
  /\ Exchange(Deadline)
  /\ agent' = IF journal'.op = NoOp /\ journal.op.inc = agent.inc
              THEN [agent EXCEPT !.adopted = TRUE] ELSE agent
  /\ UNCHANGED server

-----------------------------------------------------------------------------
(* The result loop. *)

\* The envelope _result_attempt looks at: once the container is gone, a terminal
\* frame that was kept aside comes first.
Envelope ==
  IF journal.exit # "NONE" /\ journal.kept # NoFrame /\ ~Terminal(journal.msg)
  THEN journal.kept ELSE journal.msg

Pausing == journal.desired = "PAUSED"
Stopping == Pausing /\ journal.pauseck

\* runner_stop_failure
StopFailure(reason) ==
  CASE reason = "LEASE_DEADLINE" -> "RUNNER_UNAVAILABLE"
    [] reason = "STARTUP_LIMIT" -> "STARTUP_TIMEOUT"
    [] reason = "RUNTIME_LIMIT" -> "RUNTIME_LIMIT_REACHED"
    [] OTHER -> IF journal.ckrej THEN "CHECKPOINT_PROTOCOL_ERROR" ELSE "WORKLOAD_EXIT_NONZERO"

\* terminal_frame_failure
FrameFailure(f) == IF f.t = "FAILED" THEN f.why ELSE StopFailure(f.why)

\* container_exit_failure: 90..96 name the runner's own stop; 0 without the stop
\* frame breaks the protocol.
ExitFailure(status) ==
  CASE status = "ZERO" -> "RUNNER_PROTOCOL_ERROR"
    [] status = "KILLED" -> "RUNNER_UNAVAILABLE"
    [] OTHER -> StopFailure(status)

\* A checkpoint frame belongs to the open cycle, or to the last one that was closed.
FrameExplained(f) ==
  IF journal.cycle.reserved THEN journal.cycle.id = f.id
  ELSE journal.outcome # << >> /\ journal.outcome[1] = f.id

\* The 40 s of a pause pass only while it waits: for a result that is under way, an
\* abort to be observed, the first progress, the runner's frames, or a refused reserve.
PauseWaits ==
  \/ journal.res # 0 \/ journal.aborted \/ ~journal.progress \/ agent.refused
  \/ journal.cycle.reserved /\ ~journal.cycle.pub
  \/ journal.cycle = NoCycle /\ server.seq = MaxCycles /\ server.att = "RUNNING"

\* What _result_attempt (or, during startup, _fail_exited_startup) would report now.
\* The 40 s pause deadline, an unavailable runner to the server, has a name of its own.
FailureNow ==
  LET f == Envelope IN
  IF journal.completed THEN {}
  ELSE IF Pausing /\ journal.rejected THEN {"CHECKPOINT_PROTOCOL_ERROR"}
  ELSE (IF Pausing /\ ~Stopping /\ agent.adopted /\ PauseWaits THEN {"PAUSE_UNAVAILABLE"} ELSE {}) \cup
       (IF Stopping /\ (journal.exit # "NONE" \/ Terminal(f)) THEN {}
        ELSE IF journal.exit # "NONE" /\ ~journal.completing /\ ~Terminal(f)
             THEN {ExitFailure(journal.exit)}
        ELSE IF Terminal(f)
             THEN IF f.why = "PAUSE" /\ journal.pstop THEN {} ELSE {FrameFailure(f)}
        ELSE IF f.t = "CHECKPOINT" /\ ~journal.ckrej /\ ~FrameExplained(f)
             THEN {"CHECKPOINT_PROTOCOL_ERROR"}
        ELSE IF f.t = "RESULT" /\ f.s > 0 /\ left.events > 0 THEN {"INVALID_RESULT"}
        ELSE {})

\* _execution_failed, up to the journaled failure: the first one stays.
RecordFailure ==
  /\ agent.up /\ ~server.released /\ journal.failure = "NONE"
  /\ agent.adopted \/ (journal.op.kind = "start" /\ journal.exit # "NONE")
  /\ \E why \in FailureNow : journal' = [journal EXCEPT !.failure = why]
  /\ UNCHANGED <<runner, server, agent, left>>

\* fail_attempt: the lease is live and the attempt is not STOPPING.
ReportFailure ==
  /\ agent.up /\ journal.failure # "NONE" /\ server.live /\ server.att # "STOPPING"
  /\ server' = [server EXCEPT !.live = FALSE, !.done = "FAILED"]
  /\ UNCHANGED <<runner, journal, agent, left>>

\* The loop goes on to the frame, the deferred result or the schedule.
Working ==
  /\ Holding /\ ~journal.completed /\ FailureNow \subseteq {"PAUSE_UNAVAILABLE", "INVALID_RESULT"}
  /\ ~(Stopping /\ (journal.exit # "NONE" \/ Terminal(Envelope)))
  /\ ~Terminal(Envelope)

\* _paused: the container is stopped whatever the server answers; cleanup pauses the
\* job once its checkpoint has made the attempt STOPPING.
Paused ==
  /\ Holding /\ ~journal.completed /\ ~(Pausing /\ journal.rejected)
  /\ Stopping \/ (Terminal(Envelope) /\ Envelope.why = "PAUSE" /\ journal.pstop)
  /\ runner' = IF Alive THEN Exited(runner, "KILLED") ELSE runner
  /\ server' = IF server.job = "PAUSING" /\ server.att = "STOPPING"
               THEN [server EXCEPT !.live = FALSE, !.done = "PAUSED", !.released = TRUE]
               ELSE server
  /\ UNCHANGED <<journal, agent, left>>

\* tick: a cycle opens for a pause, or when the interval is due.
OpenCycle ==
  /\ Working /\ Envelope = NoFrame /\ journal.cycle = NoCycle
  /\ server.seq < MaxCycles \/ server.att = "STOPPING"
  /\ journal.progress /\ journal.res = 0 /\ journal.failure = "NONE"
  /\ IF Pausing THEN ~journal.pauseck /\ ~journal.aborted /\ ~journal.rejected
     ELSE ~journal.disabled /\ journal.deferred = NoFrame
  /\ journal' = [journal EXCEPT !.cycle = [NoCycle EXCEPT !.id = server.seq + 1, !.pause = Pausing]]
  /\ UNCHANGED <<runner, server, agent, left>>

\* reserve_checkpoint: a live attempt that reserves nothing else; a repeated callback
\* is answered from its receipt.
ReservesCheckpoint(id) ==
  \/ server.seq = id /\ UNCHANGED server
  \/ /\ server.seq < id /\ server.live /\ server.att = "RUNNING" /\ ~server.res
     /\ server' = [server EXCEPT !.seq = id, !.ck = id, !.att = "CHECKPOINTING"]

\* _resume: the reservation.
ReserveCheckpoint ==
  /\ Working /\ Envelope = NoFrame /\ journal.cycle.id # 0 /\ ~journal.cycle.reserved
  /\ \E got \in Lossy :
       /\ ReservesCheckpoint(journal.cycle.id)
       /\ journal' = IF got THEN [journal EXCEPT !.cycle.reserved = TRUE] ELSE journal
       /\ Spend(got)
  /\ UNCHANGED <<runner, agent>>

\* _resume, _pause_refused: a 409 closes the cycle; for a pause the last committed
\* checkpoint is then the pause checkpoint.
ReserveRefused ==
  /\ Working /\ Envelope = NoFrame /\ journal.cycle.id # 0 /\ ~journal.cycle.reserved
  /\ server.seq < journal.cycle.id /\ (~server.live \/ server.att # "RUNNING" \/ server.res)
  /\ journal' = [journal EXCEPT
                   !.cycle = NoCycle,
                   !.pauseck = @ \/ (journal.cycle.pause /\ journal.outcome # << >>
                                     /\ journal.outcome[2] = "COMMITTED")]
  /\ agent' = [agent EXCEPT !.refused = journal.cycle.pause /\ ~journal'.pauseck]
  /\ UNCHANGED <<runner, server, left>>

\* The control d is journaled to be sent; an answer that rejected it is noted.
SendCheckpointControl(d) ==
  \/ MayControl /\ ~Sent(d) /\ journal' = Journaled(journal, d)
  \/ d \in journal.rejs /\ ~journal.ckrej /\ journal' = [journal EXCEPT !.ckrej = TRUE]

\* _resume: the request of the reserved checkpoint.
RequestCheckpoint ==
  /\ Working /\ Envelope = NoFrame /\ journal.cycle.reserved
  /\ ~Stopping
  /\ SendCheckpointControl(Control("REQUEST", journal.cycle.id, 0))
  /\ UNCHANGED <<runner, server, agent, left>>

\* _pause_step: the stop for PAUSE, frozen once.
RequestPauseStop ==
  /\ Working /\ Envelope = NoFrame /\ Stopping
  /\ LET d == Control("STOP", 0, 0) IN
     \/ MayControl /\ ~Sent(d) /\ journal' = [Journaled(journal, d) EXCEPT !.pstop = TRUE]
     \/ d \in journal.rejs /\ ~journal.ckrej /\ journal' = [journal EXCEPT !.ckrej = TRUE]
  /\ UNCHANGED <<runner, server, agent, left>>

\* The frame is done: its number is committed and the runner may forget it.
Processed(j) == [j EXCEPT !.high = j.msg.n, !.msg = NoFrame]

\* The controls that answer a file frame.  _chunk_batch: its binding.
OwedByChunks(id, n) == {Control("BIND", id, n)}

\* _files_ready, _summary_batch: the binding, and FINALIZE if no chunk manifest follows.
OwedByFiles(id, n) ==
  {Control("BIND", id, n)} \cup (IF Batches = 1 THEN {Control("FINALIZE", id, n)} ELSE {})

\* _chunk_manifest_ready: binding and FINALIZE.
OwedByManifest(id, n) == {Control("BIND", id, n), Control("FINALIZE", id, n)}

\* Chunks first, then the state or summary file, then the manifest of the chunks.
Owed(f) ==
  LET id == IF f.t = "RESULT" THEN 0 ELSE f.id IN
  IF Batches = 1 \/ f.s = Batches - 1 THEN OwedByFiles(id, f.n)
  ELSE IF f.s = Batches THEN OwedByManifest(id, f.n) ELSE OwedByChunks(id, f.n)

\* Bindings go before FINALIZE.
NextOwed(f) ==
  CHOOSE d \in Owed(f) \ journal.acks :
    d.op = "BIND" \/ Owed(f) \ journal.acks = {d}

CheckpointFrame == Working /\ Envelope = journal.msg /\ journal.msg.t = "CHECKPOINT"

\* process: a frame of a rejected or closed cycle drives nothing.
SkipCheckpointFrame ==
  /\ CheckpointFrame
  /\ journal.ckrej \/ ~journal.cycle.reserved
  /\ journal' = Processed(journal)
  /\ UNCHANGED <<runner, server, agent, left>>

\* _files_ready, _chunk_batch, _chunk_manifest_ready: upload, bind, finalize.
CheckpointFiles ==
  /\ CheckpointFrame /\ ~journal.ckrej /\ journal.cycle.reserved /\ journal.msg.s <= Batches
  /\ IF Owed(journal.msg) \subseteq journal.acks THEN journal' = Processed(journal)
     ELSE SendCheckpointControl(NextOwed(journal.msg))
  /\ UNCHANGED <<runner, server, agent, left>>

\* publish_checkpoint: while PAUSING a commit makes the attempt STOPPING; a manifest
\* that is refused ends the reservation, and aborts the pause of a RUN attempt.
Publishes(id) ==
  \/ server.pub # << >> /\ server.pub[1] = id /\ UNCHANGED server
  \/ /\ server.live /\ server.ck = id /\ server.att = "CHECKPOINTING"
     /\ \E outcome \in {"COMMITTED", "REJECTED"} :
          /\ outcome = "REJECTED" => left.events > 0
          /\ server' = [server EXCEPT
               !.ck = 0, !.pub = <<id, outcome>>,
               !.att = IF outcome = "COMMITTED" /\ server.job = "PAUSING" THEN "STOPPING"
                       ELSE "RUNNING",
               !.job = IF outcome = "REJECTED" /\ ~server.forPause THEN "RUNNING" ELSE @]

\* _close: what the answer means depends on what the journal says is desired.
Closed(j, outcome) ==
  [j EXCEPT
     !.cycle = NoCycle, !.outcome = <<j.cycle.id, outcome>>,
     !.disabled = @ \/ outcome = "REJECTED",
     !.pauseck = @ \/ (j.desired = "PAUSED" /\ outcome = "COMMITTED"),
     !.rejected = @ \/ (j.desired = "PAUSED" /\ outcome = "REJECTED" /\ server.forPause),
     !.aborted = @ \/ (j.desired = "PAUSED" /\ outcome = "REJECTED" /\ ~server.forPause)]

\* Mutant: the publish is sent without a journaled callback.
CheckpointReadyUnjournaled ==
  /\ CheckpointFrame /\ ~journal.ckrej /\ journal.cycle.reserved /\ journal.msg.s = Ready
  /\ \E got \in Lossy :
       /\ Publishes(journal.cycle.id)
       /\ journal' = IF got THEN Processed(Closed(journal, server'.pub[2])) ELSE journal
       /\ Spend(got)
  /\ UNCHANGED <<runner, agent>>

\* _ready: the publish callback is journaled, then sent until it is answered.
CheckpointReady ==
  /\ CheckpointFrame /\ ~journal.ckrej /\ journal.cycle.reserved /\ journal.msg.s = Ready
  /\ IF ~journal.cycle.pub
     THEN journal' = [journal EXCEPT !.cycle.pub = TRUE] /\ UNCHANGED <<server, left>>
     ELSE \E got \in Lossy :
            /\ Publishes(journal.cycle.id)
            /\ journal' = IF got THEN Processed(Closed(journal, server'.pub[2])) ELSE journal
            /\ Spend(got)
  /\ UNCHANGED <<runner, agent>>

\* A result control that was rejected leaves its frame pending until the runner ends.
SendResultControl(d) == MayControl /\ ~Sent(d) /\ journal' = Journaled(journal, d)

\* reserve_result: not while the attempt is checkpointing or its job is pausing.
ReservesResult ==
  \/ server.res /\ UNCHANGED server
  \/ /\ server.live /\ server.att = "RUNNING" /\ server.job = "RUNNING"
     /\ server' = [server EXCEPT !.res = TRUE]

\* process of RESULT_PREPARE: journal the callback, reserve, answer PREPARE.
\* settled is the journal without the frame, or without the copy that was deferred.
PrepareResult(f, settled) ==
  \/ /\ journal.res = 0
     /\ journal' = [journal EXCEPT !.res = f.n]
     /\ UNCHANGED <<server, left>>
  \/ /\ journal.res # 0 /\ ~journal.reserved
     /\ \E got \in Lossy :
          /\ ReservesResult
          /\ journal' = IF got THEN [journal EXCEPT !.reserved = TRUE] ELSE journal
          /\ Spend(got)
  \/ /\ journal.reserved
     /\ LET d == Control("PREPARE", 0, f.n) IN
        IF d \in journal.acks THEN journal' = settled ELSE SendResultControl(d)
     /\ UNCHANGED <<server, left>>

ResultFrame == Working /\ Envelope = journal.msg /\ journal.msg.t = "RESULT"

\* Mutant: the result is reserved whatever the checkpoint cycle.
MustDeferNever == FALSE

\* A result waits for the cycle that is open, and for the end of a pause.
MustDefer == Pausing \/ journal.cycle # NoCycle

\* RESULT_PREPARE, deferred or reserved.
ResultPrepare ==
  /\ ResultFrame /\ journal.msg.s = 0
  /\ IF MustDefer
     THEN /\ journal' = Processed([journal EXCEPT !.deferred = journal.msg])
          /\ UNCHANGED <<server, left>>
     ELSE PrepareResult(journal.msg, Processed(journal))
  /\ UNCHANGED <<runner, agent>>

\* The deferred one, when no cycle is open and no pause is desired.
DeferredPrepare ==
  /\ Working /\ Envelope = NoFrame /\ journal.deferred # NoFrame
  /\ ~Pausing /\ journal.cycle = NoCycle
  /\ PrepareResult(journal.deferred, [journal EXCEPT !.deferred = NoFrame])
  /\ UNCHANGED <<runner, agent>>

\* RESULT_FILE_BATCH, CHUNK_FILE_BATCH, AUXILIARY_MANIFEST_READY.
ResultFiles ==
  /\ ResultFrame /\ journal.msg.s \in 1..Batches
  /\ IF Owed(journal.msg) \subseteq journal.acks THEN journal' = Processed(journal)
     ELSE SendResultControl(NextOwed(journal.msg))
  /\ UNCHANGED <<runner, server, agent, left>>

\* complete_attempt: a live RUNNING attempt that reserved its result, under a job that
\* is not pausing; a repeated callback is answered from its receipt.
Completes ==
  \/ server.done = "SUCCEEDED" /\ UNCHANGED server
  \/ /\ server.live /\ server.res /\ server.att = "RUNNING" /\ server.job = "RUNNING"
     /\ server' = [server EXCEPT !.live = FALSE, !.done = "SUCCEEDED"]

\* RESULT_READY: the completion is journaled, then sent until it is answered.
ResultReady ==
  /\ ResultFrame /\ journal.msg.s = Ready
  /\ IF ~journal.completing
     THEN journal' = [journal EXCEPT !.completing = TRUE] /\ UNCHANGED <<server, left>>
     ELSE \E got \in Lossy :
            /\ Completes
            /\ journal' = IF got THEN Processed([journal EXCEPT !.completed = TRUE]) ELSE journal
            /\ Spend(got)
  /\ UNCHANGED <<runner, agent>>

-----------------------------------------------------------------------------
(* The server's other actors, and the worker's crashes. *)

\* pause_job
Pause ==
  /\ left.events > 0 /\ server.live /\ server.job = "RUNNING"
  /\ server' = [server EXCEPT !.job = "PAUSING"]
  /\ left' = [left EXCEPT !.events = @ - 1]
  /\ UNCHANGED <<runner, journal, agent>>

\* The reaper ends the lease of a worker that cannot renew: no runner is left to take
\* a deadline.  Cancels and administrators are in WorkerAgent.
LeaseLapses ==
  /\ server.live /\ ~Alive
  /\ server' = [server EXCEPT !.live = FALSE, !.done = "REVOKED"]
  /\ UNCHANGED <<runner, journal, agent, left>>

\* _stop_orphan of a completed, failed or revoked attempt.
Cleanup ==
  /\ agent.up /\ ~server.live /\ ~server.released
  /\ runner' = IF Alive THEN Exited(runner, "KILLED") ELSE runner
  /\ server' = [server EXCEPT !.released = TRUE]
  /\ UNCHANGED <<journal, agent, left>>

\* The worker process dies; crashes during startup are in WorkerAgent.
Crash ==
  /\ agent.up /\ left.events > 0 /\ ~server.released /\ journal.op.kind # "start"
  /\ agent' = [agent EXCEPT !.up = FALSE, !.adopted = FALSE, !.refused = FALSE]
  /\ left' = [left EXCEPT !.events = @ - 1]
  /\ UNCHANGED <<runner, journal, server>>

\* A new incarnation starts from the journal.
Restart ==
  /\ ~agent.up
  /\ agent' = [agent EXCEPT !.up = TRUE, !.inc = @ + 1]
  /\ UNCHANGED <<runner, journal, server, left>>

Released == server.released /\ UNCHANGED vars

RunnerStep == AttachSupervisor \/ Launch \/ PollWaiting \/ WorkloadExits
WorkerStep ==
  \/ IpcOnce \/ ObserveExit \/ Flush \/ Renew \/ Adopt \/ ResumeOperation \/ ApplyDeadline
  \/ RecordFailure \/ ReportFailure \/ Paused
  \/ OpenCycle \/ ReserveCheckpoint \/ ReserveRefused \/ RequestCheckpoint \/ RequestPauseStop
  \/ SkipCheckpointFrame \/ CheckpointFiles \/ CheckpointReady
  \/ ResultPrepare \/ DeferredPrepare \/ ResultFiles \/ ResultReady
  \/ Cleanup \/ Restart
Fault == Watchdog \/ RunnerExits \/ RunnerKilled \/ Pause \/ LeaseLapses \/ Crash

Next == RunnerStep \/ WorkerStep \/ Fault \/ Released

Spec == Init /\ [][Next]_vars

\* Between them the runner's threads and the worker's loops keep running.
Fairness == WF_vars(RunnerStep \/ WorkerStep)

FairSpec == Spec /\ Fairness

-----------------------------------------------------------------------------
(* Properties. *)

\* The controls that may still be sent.
Outstanding ==
  (IF journal.inflight = NoControl THEN {} ELSE {journal.inflight}) \cup
  (IF journal.op.acked THEN {Deadline} ELSE {})

\* Controls stay in step: whatever was lost and wherever the worker crashed, the one
\* control that may still be sent is either the next the runner expects or the last one
\* it applied, so _flush_result_controls, _apply_deadline and the classification in
\* apply_control never turn a repeated control into a conflict that stops the workload.
ControlsInStep ==
  runner.state \in {"WAITING", "RUNNING"} =>
    /\ Outstanding = {} => journal.last = Len(runner.hist)
    /\ \A c \in Outstanding :
         /\ Outstanding = {c}
         /\ \/ c.n = Len(runner.hist) + 1
            \/ c.n = Len(runner.hist) /\ runner.hist[c.n] = Effect(c)

\* The stop reasons that explain each failure.
Explains(why) ==
  CASE why = "RUNNER_UNAVAILABLE" -> runner.stop = "LEASE_DEADLINE" \/ runner.exit = "KILLED"
    [] why = "STARTUP_TIMEOUT" -> runner.stop = "STARTUP_LIMIT"
    [] why = "RUNTIME_LIMIT_REACHED" -> runner.stop = "RUNTIME_LIMIT"
    [] why = "CHECKPOINT_PROTOCOL_ERROR" -> runner.stop = "FAILURE" \/ journal.rejected
    [] why = "WORKLOAD_EXIT_NONZERO" -> runner.stop = "FAILURE" \/ why \in runner.failed
    [] why = "INVALID_RESULT" -> runner.res.s > 0
    [] why = "PAUSE_UNAVAILABLE" -> TRUE
    [] OTHER -> why \in runner.failed

\* A failure names its cause: whether the frame was read in order, kept aside by the
\* connection of a control, or only the exit status is left, the worker reports what
\* ended the workload, and never that the runner broke the protocol (terminal_frame_failure,
\* container_exit_failure, exit_status).
CauseNamed == journal.failure # "NONE" => Explains(journal.failure)

\* After a crash the journal explains every reservation the server transfers: adoption
\* is never refused by reconcile_adoption, whichever of the reserve, publish and result
\* calls the crash interrupted.
AdoptionExplained == server.live => ResultExplained(journal) /\ CheckpointExplained(journal)

\* The journal stays in step with both its peers, wherever the worker crashed: with the
\* controls the runner applied and with the reservations the server holds.
JournalInStep == ControlsInStep /\ AdoptionExplained

\* A workload that finished has its result delivered: the result the runner deferred for
\* a checkpoint, the one the worker deferred and the server's refusal to reserve both
\* never wait for each other (unless the attempt is paused, ended or its runner stops).
ResultDelivered ==
  (runner.work = "DONE") ~>
    (server.done # "NONE" \/ server.job = "PAUSING" \/ runner.stop # "NONE" \/ ~Alive)
=============================================================================
