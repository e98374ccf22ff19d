---------------------------- MODULE WorkerAgent ----------------------------
(***************************************************************************)
(* The worker agent and its pending operations, for one attempt.           *)
(*                                                                         *)
(* Every callback the worker makes is journaled in pending.json before it  *)
(* is sent, under an identity that survives a crash: a lost answer is met  *)
(* by sending the same callback again, and the server answers a callback   *)
(* it has committed from its receipt.  Three threads share the attempt:    *)
(* the poll thread claims and launches it without the attempt lock; the    *)
(* renewal, result and reconciliation threads, and the start callback,     *)
(* hold the lock from their decision to the end of the exchange (act).     *)
(* The reconciliation thread decides on a page the server produced before  *)
(* it got the lock.  Requests may be answered late, handled after the      *)
(* worker gave up, or lost; the process may crash between any two steps.   *)
(*                                                                         *)
(* Time is an integer clock shared by worker and server, which is what the *)
(* margin between the lease and the runner's own deadline is for.  The     *)
(* success path (result and checkpoint callbacks) is not in this module.   *)
(***************************************************************************)
EXTENDS Naturals, FiniteSets, FiniteSetsExt

CONSTANTS
  Lease,        \* lease_duration_seconds
  Margin,       \* safety_margin_seconds
  Startup,      \* the budget of a start after the attempt was created
  MaxTime,      \* bound of the clock
  MaxCalls,     \* bound of the callback identities
  MaxCrashes,   \* bound of the crashes of the worker process
  MaxLost       \* bound of the exchanges the worker gives up on

ASSUME AgentAssumption ==
  /\ Lease \in Nat /\ Margin \in Nat /\ Margin < Lease
  /\ Startup \in Nat /\ MaxTime \in Nat /\ MaxCalls \in Nat
  /\ MaxCrashes \in Nat /\ MaxLost \in Nat

VARIABLES
  clock,
  server,    \* the attempt's rows: incarnations, lease, allocation
  receipts,  \* callbacks the server has committed
  net,       \* requests on their way
  ops,       \* pending.json
  record,    \* the attempt's journal record
  box,       \* the container and the deadline its runner accepted
  agent,     \* the process: mode, incarnation, adopted, ready, replayable; what the
             \* renewal (due) and the result thread (late) read before the lock
  act,       \* the exchange made under the attempt lock
  poll,      \* the poll thread
  scan,      \* the reconciliation thread
  faults     \* the faults so far; calm: there are none in this behaviour

vars == <<clock, server, receipts, net, ops, record, box, agent, act, poll, scan, faults>>

None == 0

\* A pending operation.  inc is the incarnation its body names; an adoption also
\* names the incarnation it takes the authority from.
Op(id, op, inc, prior) ==
  [id |-> id, op |-> op, inc |-> inc, prior |-> prior, first |-> None, ack |-> FALSE]

Pending(kinds) == {o \in ops : o.op \in kinds}
Get(id) == CHOOSE o \in ops : o.id = id
IsPending(id) == \E o \in ops : o.id = id
With(o, p) == (ops \ {o}) \cup {p}
FreshId == 1 + Cardinality(faults.used)

\* The bound of the identities, less the n that ending the attempt may still take.
Room(n) == FreshId + (IF record.verified THEN 0 ELSE n) <= MaxCalls

\* Mutant: the time of the last send.
FirstSendAgain(o) == [o EXCEPT !.first = clock]

\* PendingOperationStore.first_send: stamped and persisted once.
FirstSend(o) == [o EXCEPT !.first = IF @ = None THEN clock ELSE @]

Acknowledge(o) == [o EXCEPT !.ack = TRUE]

NoAct == [id |-> None, step |-> "NONE", why |-> "NONE", reply |-> "NONE"]
NoPoll == [id |-> None, step |-> "NONE", reply |-> "NONE", first |-> None]
NoPage == [listed |-> FALSE, live |-> FALSE, phase |-> "OFFERED", inc |-> 0, seen |-> FALSE]
NoScan == [step |-> "NONE", page |-> NoPage, bad |-> FALSE, todo |-> {}]

\* An offer has just been committed to the ready first incarnation.
Init ==
  /\ clock = 1
  /\ server = [cur |-> 1, grant |-> 1, phase |-> "OFFERED", expires |-> 1 + Lease,
               alive |-> TRUE, alloc |-> "HELD"]
  /\ receipts = {} /\ net = {} /\ ops = {}
  /\ record = [state |-> "ABSENT", inc |-> 0, bound |-> FALSE, failure |-> None,
               failed |-> FALSE, deadline |-> FALSE, verified |-> FALSE]
  /\ box = [state |-> "NONE", deadline |-> None]
  /\ agent = [mode |-> "UP", inc |-> 1, adopted |-> FALSE, ready |-> TRUE, replay |-> FALSE,
              due |-> None, late |-> FALSE]
  /\ act = NoAct /\ poll = NoPoll /\ scan = NoScan
  /\ \E calm \in BOOLEAN :
       faults = [calm |-> calm, crashes |-> IF calm THEN MaxCrashes ELSE 0,
                 lost |-> IF calm THEN MaxLost ELSE 0, used |-> {}]

-----------------------------------------------------------------------------
(* The server: one transaction per request. *)

\* _require_current_incarnation, and the rows of _authority_rows/_live_authority.
Current(q) == q.inc = server.cur
Live(inc) == server.alive /\ clock < server.expires /\ server.grant = inc

\* Whether a request is answered 200.  A receipt answers a callback committed
\* before; every callback but the cleanup is one of the current incarnation.
Accepts(q) ==
  /\ q.op # "cleanup" => Current(q)
  /\ \/ q.id \in receipts
     \/ CASE q.op = "claim" -> Live(q.inc) /\ server.phase # "STARTED"
          [] q.op = "start" ->
               Live(q.inc) /\ server.phase = "CLAIMED" /\ clock < 1 + Startup
          [] q.op = "renew" -> Live(q.inc) /\ server.phase = "STARTED"
          [] q.op = "adopt" -> Live(q.prior) /\ server.phase = "STARTED"
          [] q.op = "failure" -> Live(q.inc) /\ server.phase # "OFFERED"
          [] q.op = "cleanup" -> ~server.alive

Quarantined == [server EXCEPT !.alive = FALSE, !.alloc = "QUARANTINED"]

\* What the transaction of a callback that was not committed before writes.  A
\* failure that names a container binds one the server never saw start.
Effect(q) ==
  CASE q.op = "claim" -> [server EXCEPT !.phase = "CLAIMED"]
    [] q.op = "start" -> [server EXCEPT !.phase = "STARTED", !.expires = clock + Lease]
    [] q.op = "renew" -> [server EXCEPT !.expires = clock + Lease]
    [] q.op = "adopt" -> [server EXCEPT !.grant = q.inc, !.expires = clock + Lease]
    [] q.op = "failure" -> [Quarantined EXCEPT !.phase = IF record.bound THEN "STARTED" ELSE @]
    [] q.op = "cleanup" -> [server EXCEPT !.alloc = "RELEASED"]

Answered(thread, id, res) == IF thread.id = id /\ thread.reply = "NONE" /\ thread.step = "SENT"
                             THEN [thread EXCEPT !.reply = res] ELSE thread

Handle(q) ==
  /\ q \in net
  /\ net' = net \ {q}
  /\ IF Accepts(q)
     THEN /\ receipts' = receipts \cup {q.id}
          /\ server' = IF q.id \in receipts THEN server ELSE Effect(q)
     ELSE UNCHANGED <<receipts, server>>
  /\ LET res == IF Accepts(q) THEN "OK" ELSE "REFUSED" IN
     act' = Answered(act, q.id, res) /\ poll' = Answered(poll, q.id, res)
  /\ UNCHANGED <<clock, ops, record, box, agent, scan, faults>>

\* The reaper revokes a lease that ran out at database time.
Reap ==
  /\ server.alive /\ clock >= server.expires
  /\ server' = Quarantined
  /\ UNCHANGED <<clock, receipts, net, ops, record, box, agent, act, poll, scan, faults>>

\* A cancel or a disable revokes a live lease.
Revoke ==
  /\ server.alive
  /\ server' = Quarantined
  /\ UNCHANGED <<clock, receipts, net, ops, record, box, agent, act, poll, scan, faults>>

-----------------------------------------------------------------------------
(* The container and its runner. *)

RunnerAlive == box.state = "RUNNING" /\ (box.deadline # None => clock < box.deadline)

\* The runner stops itself at its deadline, before anything else happens then.
Tick ==
  /\ clock < MaxTime
  /\ clock' = clock + 1
  /\ box' = IF box.state = "RUNNING" /\ box.deadline # None /\ box.deadline <= clock + 1
            THEN [box EXCEPT !.state = "EXITED"] ELSE box
  /\ UNCHANGED <<server, receipts, net, ops, record, agent, act, poll, scan, faults>>

\* The workload fails, or the runner reaches its startup limit.
Exit ==
  /\ box.state = "RUNNING"
  /\ box' = [box EXCEPT !.state = "EXITED"]
  /\ UNCHANGED <<clock, server, receipts, net, ops, record, agent, act, poll, scan, faults>>

-----------------------------------------------------------------------------
(* Exchanges under the attempt lock. *)

Up == agent.mode = "UP"
Free == Up /\ act = NoAct

\* A callback is journaled, stamped and sent.
Sending(o, why) ==
  /\ net' = net \cup {[id |-> o.id, op |-> o.op, inc |-> o.inc, prior |-> o.prior]}
  /\ act' = [id |-> o.id, step |-> "SENT", why |-> why, reply |-> "NONE"]

Send(o, why) == Sending(o, why) /\ ops' = With(o, FirstSend(o)) /\ UNCHANGED faults

Begin(op, inc, prior, why) ==
  LET o == Op(FreshId, op, inc, prior) IN
  /\ FreshId <= MaxCalls
  /\ Sending(o, why)
  /\ ops' = ops \cup {FirstSend(o)}
  /\ faults' = [faults EXCEPT !.used = @ \cup {FreshId}]

\* The pending callback of this kind, or a new one (_pending_callback).
Resume(op, inc, why) ==
  IF Pending({op}) # {}
  THEN \E o \in Pending({op}) : Send(o, why)
  ELSE Begin(op, inc, inc, why)

\* A loop that raised: the worker is not ready until a scan completes.
Unready == [agent EXCEPT !.ready = FALSE]

\* The scan goes on behind an item, whose outcome it keeps.
ScanNext(ok) == IF scan.step # "ITEM" THEN scan
                ELSE [scan EXCEPT !.step = "RESEND", !.bad = @ \/ ~ok,
                                  !.todo = {o.id : o \in Pending({"failure", "cleanup"})}]

ByScan == act.why \in {"SCAN", "ADOPT"}
Aborted == IF ByScan THEN NoScan ELSE scan

\* A refused callback raises out of the thread, and stays pending.
Refused ==
  /\ Up /\ act.reply = "REFUSED" /\ act.why # "START"
  /\ act' = NoAct
  /\ agent' = Unready
  /\ scan' = Aborted
  /\ UNCHANGED <<clock, server, receipts, net, ops, record, box, poll, faults>>

\* The answer does not come in time; the request may still be handled later.
GiveUp ==
  /\ Up /\ act.step = "SENT" /\ act.reply = "NONE"
  /\ faults.lost < MaxLost
  /\ faults' = [faults EXCEPT !.lost = @ + 1]
  /\ net' \in {net, {q \in net : q.id # act.id}}
  /\ act' = NoAct
  /\ agent' = Unready
  /\ scan' = Aborted
  /\ poll' = IF act.why = "START" THEN NoPoll ELSE poll
  /\ UNCHANGED <<clock, server, receipts, ops, record, box>>

Acked(kinds) == Up /\ act.step = "SENT" /\ act.reply = "OK" /\ Get(act.id).op \in kinds

\* The answer to a start, renewal or adoption is journaled with the sequence of
\* the deadline control; an adoption moves the journal to the new authority.
AckAuthority ==
  LET o == Get(act.id) IN
  /\ Acked({"start", "renew", "adopt"})
  /\ ops' = With(o, Acknowledge(o))
  /\ record' = IF o.op = "adopt" THEN [record EXCEPT !.inc = o.inc] ELSE record
  /\ act' = [act EXCEPT !.step = "APPLY", !.reply = "NONE"]
  /\ UNCHANGED <<clock, server, receipts, net, box, agent, poll, scan, faults>>

Candidate(o) == o.first + Lease - Margin

\* A finished adoption or renewal of the own incarnation resolves the item; one
\* of an older incarnation lets the scan decide the item again.
Finished(o) ==
  IF ~ByScan THEN scan
  ELSE IF o.inc # agent.inc THEN scan ELSE ScanNext(TRUE)

\* set_authority_deadline: the runner takes the candidate before it has passed,
\* and only then is the callback dropped.  A start ends with its claim.
ApplyDeadline ==
  LET o == Get(act.id) IN
  /\ Up /\ act.step = "APPLY"
  /\ RunnerAlive /\ clock < Candidate(o)
  /\ box' = [box EXCEPT !.deadline = Candidate(o),
                        !.state = IF Candidate(o) < box.deadline THEN "EXITED" ELSE @]
  /\ record' = [record EXCEPT !.deadline = TRUE]
  /\ ops' = ops \ ({o} \cup IF o.op = "start" THEN Pending({"claim"}) ELSE {})
  /\ agent' = [agent EXCEPT !.adopted = @ \/ o.op = "start" \/ (o.op = "adopt" /\ o.inc = agent.inc)]
  /\ act' = NoAct
  /\ poll' = IF act.why = "START" THEN NoPoll ELSE poll
  /\ scan' = Finished(o)
  /\ UNCHANGED <<clock, server, receipts, net, faults>>

\* The runner is gone or too late, or the channel fails: the callback stays
\* acknowledged and pending.
DeadlineUndelivered ==
  LET o == Get(act.id) IN
  /\ Up /\ act.step = "APPLY" /\ act.why # "START"
  /\ \/ ~RunnerAlive \/ clock >= Candidate(o)
     \/ faults.lost < MaxLost
  /\ faults' = IF RunnerAlive /\ clock < Candidate(o) THEN [faults EXCEPT !.lost = @ + 1] ELSE faults
  /\ act' = NoAct
  /\ agent' = [agent EXCEPT !.adopted = @ \/ (o.op = "adopt" /\ o.inc = agent.inc /\ act.why = "SCAN")]
  /\ scan' = IF ByScan THEN ScanNext(FALSE) ELSE scan
  /\ UNCHANGED <<clock, server, receipts, net, ops, record, box, poll>>

-----------------------------------------------------------------------------
(* Failure and cleanup. *)

\* _execution_failed: the failure of this attempt, journaled once.  A failure
\* acknowledged before goes straight to the cleanup; one that reconciliation
\* queued with another body raises.
AnotherFailure == ~record.failed /\ \E p \in Pending({"failure"}) : p.id # record.failure

ReportFailure ==
  LET id == IF record.failure # None THEN record.failure ELSE FreshId
      inc == IF record.bound THEN record.inc ELSE agent.inc
      o == Op(id, "failure", inc, inc)
  IN
  IF record.failed
  THEN /\ act' = [NoAct EXCEPT !.step = "CLEAN", !.why = "FAIL"]
       /\ UNCHANGED <<net, ops, record, faults>>
  ELSE /\ id <= MaxCalls
       /\ ~AnotherFailure
       /\ IF IsPending(id) THEN Send(Get(id), "FAIL")
          ELSE /\ Sending(o, "FAIL")
               /\ ops' = ops \cup {FirstSend(o)}
               /\ faults' = [faults EXCEPT !.used = @ \cup {id}]
       /\ record' = [record EXCEPT !.failure = id, !.inc = inc,
                                   !.state = IF record.bound THEN @ ELSE "TOMBSTONED"]

\* executor.cleanup: the container is stopped and removed, the record tombstoned.
Stopped == [state |-> "GONE", deadline |-> box.deadline]
Tombstoned == [record EXCEPT !.state = "TOMBSTONED"]

\* Cleanup, then the callback that proves it (_stop_orphan).
StopOrphan(why) ==
  /\ Resume("cleanup", record.inc, why)
  /\ record' = Tombstoned
  /\ box' = IF box.state = "NONE" THEN box ELSE Stopped

\* The result thread sees, without the lock, that an adopted container has exited.
ObserveExit ==
  /\ Up /\ agent.adopted /\ ~agent.late
  /\ box.state = "EXITED" /\ ~record.verified
  /\ agent' = [agent EXCEPT !.late = TRUE]
  /\ UNCHANGED <<clock, server, receipts, net, ops, record, box, act, poll, scan, faults>>

\* It reports the failure under the lock.
ResultFailure ==
  /\ Free /\ agent.late /\ ~record.verified
  /\ ReportFailure
  /\ agent' = [agent EXCEPT !.late = FALSE]
  /\ UNCHANGED <<clock, server, receipts, box, poll, scan>>

\* The failure is acknowledged: the journal knows, the operation is dropped, and
\* the thread that reported it goes on to the cleanup under the same lock.
AckFailure ==
  /\ Acked({"failure"})
  /\ ops' = ops \ {Get(act.id)}
  /\ record' = IF record.failure = act.id THEN [record EXCEPT !.failed = TRUE] ELSE record
  /\ IF act.why = "FAIL"
     THEN /\ act' = [NoAct EXCEPT !.step = "CLEAN", !.why = "FAIL"]
          /\ agent' = [agent EXCEPT !.adopted = FALSE]
     ELSE act' = NoAct /\ UNCHANGED agent
  /\ UNCHANGED <<clock, server, receipts, net, box, poll, scan, faults>>

FailureCleanup ==
  /\ Up /\ act.step = "CLEAN"
  /\ StopOrphan("FAIL")
  /\ agent' = [agent EXCEPT !.adopted = FALSE]
  /\ UNCHANGED <<clock, server, receipts, poll, scan>>

\* Mutant: a verified cleanup ends only the cleanup callback.
ReleasedOnlyCleanup == Pending({"cleanup"})

\* _discard_released_authority and _retire_fenced_startup.
Released ==
  Pending({"cleanup", "claim", "renew", "failure"})
    \cup IF (ByScan /\ scan.step = "ITEM") \/ poll.step \in {"FAILED", "STOPPING"}
         THEN Pending({"start"}) ELSE {}

AckCleanup ==
  /\ Acked({"cleanup"})
  /\ ops' = ops \ Released
  /\ record' = [record EXCEPT !.verified = record.state # "ABSENT"]
  /\ act' = NoAct
  /\ agent' = IF act.why = "FAIL" THEN [agent EXCEPT !.adopted = FALSE] ELSE agent
  /\ scan' = IF ByScan THEN ScanNext(TRUE) ELSE scan
  /\ UNCHANGED <<clock, server, receipts, net, box, poll, faults>>

-----------------------------------------------------------------------------
(* The renewal thread. *)

\* renew_once lists the adopted attempts, and takes the lock of each later.
ListRenewals ==
  /\ Up /\ agent.adopted /\ agent.due = None
  /\ agent' = [agent EXCEPT !.due = record.inc]
  /\ UNCHANGED <<clock, server, receipts, net, ops, record, box, act, poll, scan, faults>>

\* Mutant: a thread that waited behind the verified cleanup renews all the same.
RenewReleased ==
  /\ Free /\ agent.due # None
  /\ agent' = [agent EXCEPT !.due = None]
  /\ IF Pending({"adopt", "renew"}) # {} THEN UNCHANGED <<net, ops, act, faults>>
     ELSE Room(4) /\ Begin("renew", agent.due, agent.due, "LOOP")
  /\ UNCHANGED <<clock, server, receipts, record, box, poll, scan>>

\* _renew_attempt: one authority callback of the attempt at a time.
RenewAttempt ==
  /\ Free /\ agent.due # None /\ ~record.verified
  /\ agent' = [agent EXCEPT !.due = None]
  /\ IF Pending({"adopt", "renew"}) # {} THEN UNCHANGED <<net, ops, act, faults>>
     ELSE Room(4) /\ Begin("renew", agent.due, agent.due, "LOOP")
  /\ UNCHANGED <<clock, server, receipts, record, box, poll, scan>>

\* A thread that waited for the lock behind a verified cleanup forgets the attempt.
ForgetReleased ==
  /\ Free /\ record.verified
  /\ \/ agent.due # None /\ agent' = [agent EXCEPT !.due = None, !.adopted = FALSE]
     \/ agent.late /\ agent' = [agent EXCEPT !.late = FALSE, !.adopted = FALSE]
  /\ UNCHANGED <<clock, server, receipts, net, ops, record, box, act, poll, scan, faults>>

-----------------------------------------------------------------------------
(* The poll thread. *)

PollIdle == Up /\ poll = NoPoll

Claiming(o) ==
  /\ net' = IF o.ack THEN net
            ELSE net \cup {[id |-> o.id, op |-> o.op, inc |-> o.inc, prior |-> o.prior]}
  /\ poll' = [id |-> o.id, step |-> IF o.ack THEN "CLAIMED" ELSE "SENT", reply |-> "NONE",
              first |-> FirstSend(o).first]

\* An offer of this incarnation: a claim is journaled and sent.
PollOffer ==
  LET o == Op(FreshId, "claim", agent.inc, agent.inc) IN
  /\ PollIdle /\ agent.ready
  /\ server.phase = "OFFERED" /\ Live(agent.inc)
  /\ ~agent.adopted /\ ~record.verified
  /\ \/ /\ Pending({"claim"}) = {} /\ FreshId <= MaxCalls
        /\ ops' = ops \cup {FirstSend(o)}
        /\ faults' = [faults EXCEPT !.used = @ \cup {FreshId}]
        /\ Claiming(o)
     \/ \E p \in Pending({"claim"}) :
          /\ p.inc = agent.inc
          /\ Claiming(p)
          /\ UNCHANGED <<ops, faults>>
  /\ UNCHANGED <<clock, server, receipts, record, box, agent, act, scan>>

\* A claim the last scan found replayable is sent, or used, again.
PollReplay ==
  /\ PollIdle /\ agent.replay /\ ~agent.adopted /\ ~record.verified
  /\ \E p \in Pending({"claim"}) : p.inc = agent.inc /\ Claiming(p)
  /\ UNCHANGED <<clock, server, receipts, ops, record, box, agent, act, scan, faults>>

AckClaim ==
  /\ Up /\ poll.step = "SENT" /\ poll.reply = "OK"
  /\ ops' = With(Get(poll.id), Acknowledge(Get(poll.id)))
  /\ poll' = [poll EXCEPT !.step = "CLAIMED", !.reply = "NONE"]
  /\ UNCHANGED <<clock, server, receipts, net, record, box, agent, act, scan, faults>>

\* Refused, or no answer: the poll thread gives the offer up.
ClaimFails ==
  /\ Up /\ poll.step = "SENT" /\ poll.reply # "OK"
  /\ poll.reply = "NONE" => faults.lost < MaxLost
  /\ faults' = IF poll.reply = "NONE" THEN [faults EXCEPT !.lost = @ + 1] ELSE faults
  /\ net' \in {net, {q \in net : q.id # poll.id}}
  /\ poll' = NoPoll
  /\ UNCHANGED <<clock, server, receipts, ops, record, box, agent, act, scan>>

\* executor.prepare and executor.start: the journal brackets the create, and a
\* container it already holds is used again; a create whose outcome is unknown
\* leaves CREATE_IN_FLIGHT.
Launch ==
  /\ Up /\ poll.step = "CLAIMED"
  /\ clock < poll.first + Startup
  /\ \/ /\ record.state = "ABSENT"
        /\ record' = [record EXCEPT !.state = "STARTED", !.inc = agent.inc, !.bound = TRUE]
        /\ box' = [box EXCEPT !.state = "RUNNING"]
        /\ poll' = [poll EXCEPT !.step = "STARTING"]
        /\ UNCHANGED faults
     \/ /\ record.state = "ABSENT" /\ faults.lost < MaxLost
        /\ record' = [record EXCEPT !.state = "CREATE_IN_FLIGHT", !.inc = agent.inc]
        /\ poll' = NoPoll
        /\ faults' = [faults EXCEPT !.lost = @ + 1]
        /\ UNCHANGED box
     \/ /\ record.state = "STARTED"
        /\ poll' = [poll EXCEPT !.step = "STARTING"]
        /\ UNCHANGED <<record, box, faults>>
     \/ /\ record.state \in {"CREATE_IN_FLIGHT", "TOMBSTONED"}
        /\ poll' = NoPoll
        /\ UNCHANGED <<record, box, faults>>
  /\ UNCHANGED <<clock, server, receipts, net, ops, agent, act, scan>>

\* Mutant of the start: every try is a callback of its own.
StartAnew ==
  /\ Free /\ poll.step = "STARTING"
  /\ Begin("start", agent.inc, agent.inc, "START")
  /\ UNCHANGED <<clock, server, receipts, record, box, agent, poll, scan>>

\* The start callback, under the lock; an acknowledged one only needs its deadline.
StartAttempt ==
  /\ Free /\ poll.step = "STARTING"
  /\ IF \E o \in Pending({"start"}) : o.ack
     THEN /\ \E o \in Pending({"start"}) :
               act' = [id |-> o.id, step |-> "APPLY", why |-> "START", reply |-> "NONE"]
          /\ UNCHANGED <<net, ops, faults>>
     ELSE Resume("start", agent.inc, "START")
  /\ UNCHANGED <<clock, server, receipts, record, box, agent, poll, scan>>

\* A start with no answer to its deadline fails only when Docker shows the exit.
StartUndelivered ==
  LET o == Get(act.id) IN
  /\ Up /\ act.step = "APPLY" /\ act.why = "START"
  /\ ~RunnerAlive \/ clock >= Candidate(o)
  /\ poll' = IF box.state = "EXITED" THEN [poll EXCEPT !.step = "EXITED"] ELSE NoPoll
  /\ act' = NoAct
  /\ UNCHANGED <<clock, server, receipts, net, ops, record, box, agent, scan, faults>>

\* A start the server refused (409) is a failed startup; the budget may also end
\* before the launch, or while a runner still starts.
StartRefused ==
  /\ Up /\ act.why = "START" /\ act.reply = "REFUSED"
  /\ act' = NoAct
  /\ poll' = [poll EXCEPT !.step = "REFUSED"]
  /\ UNCHANGED <<clock, server, receipts, net, ops, record, box, agent, scan, faults>>

BudgetElapsed ==
  /\ Up /\ poll.step = "CLAIMED"
  /\ clock >= poll.first + Startup
  /\ poll' = [poll EXCEPT !.step = IF box.state = "EXITED" THEN "EXITED" ELSE "TIMEOUT"]
  /\ UNCHANGED <<clock, server, receipts, net, ops, record, box, agent, act, scan, faults>>

\* _execution_failed of a startup.  A bound container is stopped after a refused
\* start, whatever becomes of the report.
StartupFailure ==
  /\ Free /\ poll.step \in {"EXITED", "REFUSED", "TIMEOUT"}
  /\ record.state # "CREATE_IN_FLIGHT" /\ ~record.verified
  /\ ReportFailure
  /\ poll' = [poll EXCEPT !.step = CASE @ = "EXITED" -> "FAILED"
                                    [] @ = "REFUSED" -> "STOPPING"
                                    [] @ = "TIMEOUT" -> "ENDING"]
  /\ UNCHANGED <<clock, server, receipts, box, agent, scan>>

\* A verified cleanup retires the start; a report that cannot be made raises.
StartupEnds ==
  /\ Free
  /\ \/ poll.step \in {"FAILED", "STOPPING", "ENDING"}
     \/ /\ poll.step \in {"EXITED", "REFUSED", "TIMEOUT"}
        /\ record.verified \/ record.state = "CREATE_IN_FLIGHT" \/ AnotherFailure
  /\ IF poll.step \in {"STOPPING", "REFUSED"} /\ record.bound /\ record.state # "TOMBSTONED"
     THEN record' = Tombstoned /\ box' = Stopped
     ELSE UNCHANGED <<record, box>>
  /\ ops' = IF poll.step \in {"EXITED", "REFUSED"} /\ record.verified
            THEN ops \ Pending({"start"}) ELSE ops
  /\ poll' = NoPoll
  /\ UNCHANGED <<clock, server, receipts, net, agent, act, scan, faults>>

-----------------------------------------------------------------------------
(* The reconciliation thread. *)

Scanning == Free /\ scan.step = "ITEM"
Page == scan.page

\* A page of the server's reconciliation view: the attempt unless released.
FetchPage ==
  /\ Up /\ scan = NoScan
  /\ scan' = [step |-> "PAGE", bad |-> FALSE, todo |-> {},
              page |-> [listed |-> server.alloc # "RELEASED", live |-> Live(server.grant),
                        phase |-> server.phase, inc |-> server.grant,
                        seen |-> FALSE]]
  /\ agent' = [agent EXCEPT !.replay = FALSE]
  /\ UNCHANGED <<clock, server, receipts, net, ops, record, box, act, poll, faults>>

Present == box.state \in {"RUNNING", "EXITED"}

\* The container is inspected, or the host searched for it, before the lock.
Inspect ==
  /\ Up /\ scan.step = "PAGE"
  /\ scan' = [scan EXCEPT !.step = "ITEM", !.page.seen = Present]
  /\ UNCHANGED <<clock, server, receipts, net, ops, record, box, agent, act, poll, faults>>

Exact == Page.phase = "STARTED" /\ Page.seen /\ record.bound

\* The outcome of an item that needs no callback.
Outcome(ok, newAgent) ==
  /\ scan' = ScanNext(ok)
  /\ agent' = newAgent
  /\ UNCHANGED <<clock, server, receipts, net, ops, record, box, act, poll, faults>>

\* The first case of _reconcile_item_locked that applies.
Case ==
  IF ~Page.listed THEN "UNLISTED"
  ELSE IF Page.live /\ record.verified THEN "VERIFIED"
  ELSE IF ~Page.live /\ Page.phase = "CLAIMED" /\ Page.inc # agent.inc THEN "FENCED_CLAIM"
  ELSE IF record.state = "CREATE_IN_FLIGHT" THEN "UNKNOWN"
  ELSE IF Page.live /\ Page.phase = "OFFERED" /\ Page.inc = agent.inc
          /\ record.state = "ABSENT" /\ ~Page.seen /\ ops = {} THEN "OFFERED"
  ELSE IF Page.live /\ Exact THEN
    IF Pending({"adopt", "renew"}) # {} THEN "RESUME"
    ELSE IF record.inc # Page.inc THEN "MISMATCH"
    ELSE IF Page.inc = agent.inc
         THEN IF record.deadline THEN "OWN" ELSE "UNKNOWN"
         ELSE "ADOPT"
  ELSE IF ~Page.live /\ Page.phase = "OFFERED" /\ record.state = "ABSENT" /\ ~Page.seen
    THEN "UNCLAIMED"
  ELSE IF ~Page.live
    THEN IF Page.phase = "STARTED" /\ record.bound /\ record.inc = Page.inc
            /\ (Page.seen \/ record.state = "TOMBSTONED")
         THEN "REVOKED" ELSE "UNPROVED"
  ELSE "MISMATCH"

ReconcileQuietly ==
  /\ Scanning
  /\ \/ Case \in {"UNLISTED", "OFFERED"} /\ Outcome(TRUE, agent)
     \/ Case = "VERIFIED" /\ Outcome(TRUE, [agent EXCEPT !.adopted = FALSE])
     \/ Case = "UNKNOWN" /\ Outcome(FALSE, agent)
     \/ Case = "OWN" /\ Outcome(TRUE, [agent EXCEPT !.adopted = TRUE])
     \/ Case = "UNPROVED" /\ Outcome(FALSE, [agent EXCEPT !.adopted = FALSE])

\* _adopt: a live container of a dead incarnation, under its journaled authority.
Adopt ==
  /\ Scanning /\ Case = "ADOPT"
  /\ Begin("adopt", agent.inc, record.inc, "ADOPT")
  /\ UNCHANGED <<clock, server, receipts, record, box, agent, poll, scan>>

\* _resume_pending_authority: an unacknowledged callback of another incarnation
\* is dropped and the item decided again; an acknowledged one only needs its
\* deadline; one of this incarnation is sent again.
ResumePending ==
  \E o \in Pending({"adopt", "renew"}) :
    /\ Scanning /\ Case = "RESUME"
    /\ IF o.ack
       THEN /\ act' = [id |-> o.id, step |-> "APPLY", why |-> "SCAN", reply |-> "NONE"]
            /\ record' = IF o.op = "adopt" THEN [record EXCEPT !.inc = o.inc] ELSE record
            /\ UNCHANGED <<net, ops, faults>>
       ELSE /\ UNCHANGED record
            /\ IF o.inc # agent.inc
               THEN ops' = ops \ {o} /\ UNCHANGED <<net, act, faults>>
               ELSE Send(o, "SCAN")
    /\ UNCHANGED <<clock, server, receipts, box, agent, poll, scan>>

\* A revoked offer that never had a container: tombstone, then the proof.
TombstoneUnclaimed ==
  /\ Scanning /\ Case = "UNCLAIMED"
  /\ Begin("cleanup", Page.inc, Page.inc, "SCAN")
  /\ record' = [record EXCEPT !.state = "TOMBSTONED", !.inc = Page.inc]
  /\ UNCHANGED <<clock, server, receipts, box, agent, poll, scan>>

\* A revoked claim of a dead incarnation that never got to its start.
ResolveFencedClaim ==
  /\ Scanning /\ Case = "FENCED_CLAIM"
  /\ Resume("cleanup", Page.inc, "SCAN")
  /\ record' = [record EXCEPT !.state = "TOMBSTONED", !.inc = Page.inc]
  /\ box' = IF Present THEN Stopped ELSE box
  /\ UNCHANGED <<clock, server, receipts, agent, poll, scan>>

\* A revoked attempt whose container this journal is bound to.
StopRevoked ==
  /\ Scanning /\ Case = "REVOKED"
  /\ agent' = [agent EXCEPT !.adopted = FALSE]
  /\ IF record.verified
     THEN /\ ops' = ops \ Pending({"start"}) /\ scan' = ScanNext(TRUE)
          /\ UNCHANGED <<record, box, net, act, faults>>
     ELSE StopOrphan("SCAN") /\ UNCHANGED scan
  /\ UNCHANGED <<clock, server, receipts, poll>>

\* Anything else: an exact container is stopped and reported, and a failure
\* queued if the server expects a container.
QueueResolution ==
  /\ Scanning /\ Case = "MISMATCH"
  /\ scan' = ScanNext(FALSE)
  /\ IF Page.phase = "STARTED"
     THEN /\ Room(1)
          /\ ops' = ops \cup {Op(FreshId, "failure", Page.inc, Page.inc)}
          /\ faults' = [faults EXCEPT !.used = @ \cup {FreshId}]
     ELSE UNCHANGED <<ops, faults>>
  /\ UNCHANGED <<clock, server, receipts, net, record, box, agent, act, poll>>

\* After the items, every pending failure and cleanup is sent again, oldest first.
Resend ==
  LET id == Min(scan.todo) IN
  /\ Free /\ scan.step = "RESEND" /\ scan.todo # {}
  /\ scan' = [scan EXCEPT !.todo = @ \ {id}]
  /\ IF IsPending(id)
     THEN Send(Get(id), "SCAN")
     ELSE UNCHANGED <<net, act, ops, faults>>
  /\ UNCHANGED <<clock, server, receipts, record, box, agent, poll>>

\* _can_replay_claim: a live claim of this incarnation with nothing unexplained.
Replayable ==
  /\ Page.listed /\ Page.live /\ Page.inc = agent.inc
  /\ \E o \in Pending({"claim"}) : o.inc = agent.inc
  /\ IF record.state = "ABSENT" THEN Page.phase # "STARTED" /\ ~Page.seen
     ELSE record.inc = agent.inc /\ record.state = "STARTED" /\ Page.seen

\* _blocking_pending_attempts: every callback of an attempt keeps it unresolved.
NothingPending == ops = {}

\* The scan is complete when no item was left and nothing is pending.
EndScan ==
  /\ Free /\ scan.step = "RESEND" /\ scan.todo = {}
  /\ agent' = [agent EXCEPT !.ready = ~scan.bad /\ NothingPending, !.replay = Replayable]
  /\ scan' = NoScan
  /\ UNCHANGED <<clock, server, receipts, net, ops, record, box, act, poll, faults>>

-----------------------------------------------------------------------------
(* Crash and start of the process. *)

Crash ==
  /\ agent.mode # "DOWN"
  /\ faults.crashes < MaxCrashes
  /\ faults' = [faults EXCEPT !.crashes = @ + 1]
  /\ agent' = [mode |-> "DOWN", inc |-> agent.inc, adopted |-> FALSE, ready |-> FALSE,
               replay |-> FALSE, due |-> None, late |-> FALSE]
  /\ act' = NoAct /\ poll' = NoPoll /\ scan' = NoScan
  /\ UNCHANGED <<clock, server, receipts, net, ops, record, box>>

\* _replay_pending takes the failures and cleanups it finds, one after another.
Boot ==
  /\ agent.mode = "DOWN"
  /\ agent' = [agent EXCEPT !.mode = "BOOT"]
  /\ scan' = [NoScan EXCEPT !.todo = {o.id : o \in Pending({"failure", "cleanup"})}]
  /\ UNCHANGED <<clock, server, receipts, net, ops, record, box, act, poll, faults>>

Booting == agent.mode = "BOOT"

BootReplay ==
  LET id == Min(scan.todo) IN
  /\ Booting /\ act = NoAct /\ scan.todo # {}
  /\ scan' = [scan EXCEPT !.todo = @ \ {id}]
  /\ Send(Get(id), "BOOT")
  /\ UNCHANGED <<clock, server, receipts, record, box, agent, poll>>

\* The answer drops the callback, and nothing else.
BootAcked ==
  /\ Booting /\ act.reply = "OK"
  /\ ops' = ops \ {Get(act.id)}
  /\ act' = NoAct
  /\ UNCHANGED <<clock, server, receipts, net, record, box, agent, poll, scan, faults>>

\* A refusal, or no answer, ends the process with code 75; it is started again.
BootFails ==
  /\ Booting /\ act # NoAct /\ act.reply # "OK"
  /\ act.reply = "NONE" => faults.lost < MaxLost
  /\ faults' = IF act.reply = "NONE" THEN [faults EXCEPT !.lost = @ + 1] ELSE faults
  /\ agent' = [agent EXCEPT !.mode = "DOWN"]
  /\ act' = NoAct /\ scan' = NoScan
  /\ UNCHANGED <<clock, server, receipts, net, ops, record, box, poll>>

\* create_incarnation, then the loops; the answer to it may be lost.
CreateIncarnation ==
  /\ Booting /\ act = NoAct /\ scan.todo = {}
  /\ server' = [server EXCEPT !.cur = @ + 1]
  /\ \/ /\ agent' = [agent EXCEPT !.mode = "UP", !.inc = server.cur + 1]
        /\ UNCHANGED faults
     \/ /\ faults.lost < MaxLost
        /\ faults' = [faults EXCEPT !.lost = @ + 1]
        /\ agent' = [agent EXCEPT !.mode = "DOWN"]
  /\ scan' = NoScan
  /\ UNCHANGED <<clock, receipts, net, ops, record, box, act, poll>>

-----------------------------------------------------------------------------
LockStep ==
  \/ Refused \/ AckAuthority \/ ApplyDeadline \/ DeadlineUndelivered
  \/ AckFailure \/ FailureCleanup \/ AckCleanup
ResultStep == ObserveExit \/ ResultFailure
RenewStep == ListRenewals \/ RenewAttempt \/ ForgetReleased
PollStep ==
  \/ PollOffer \/ PollReplay \/ AckClaim \/ Launch \/ StartAttempt \/ StartUndelivered
  \/ StartRefused \/ BudgetElapsed \/ StartupFailure \/ StartupEnds
ScanStep ==
  \/ FetchPage \/ Inspect \/ ReconcileQuietly \/ Adopt \/ ResumePending \/ TombstoneUnclaimed
  \/ ResolveFencedClaim \/ StopRevoked \/ QueueResolution \/ Resend \/ EndScan
BootStep == Boot \/ BootReplay \/ BootAcked \/ CreateIncarnation

Next ==
  \/ Tick \/ Exit \/ Reap \/ Revoke
  \/ \E q \in net : Handle(q)
  \/ LockStep \/ ResultStep \/ RenewStep \/ PollStep \/ ScanStep \/ BootStep
  \/ GiveUp \/ ClaimFails \/ BootFails \/ Crash

Spec == Init /\ [][Next]_vars

\* Every loop runs again after its interval, in which the others get the lock; the
\* server answers what reaches it; and a process that ended is started again.  Only
\* behaviours without a crash or a lost answer are asked to be fair.
Fairness ==
  /\ WF_vars(faults.calm /\ LockStep) /\ WF_vars(faults.calm /\ ResultStep)
  /\ WF_vars(faults.calm /\ RenewStep) /\ WF_vars(faults.calm /\ PollStep)
  /\ SF_vars(faults.calm /\ ScanStep)
  /\ WF_vars(faults.calm /\ (BootStep \/ (BootFails /\ act.reply = "REFUSED")))
  /\ WF_vars(faults.calm /\ \E q \in net : Handle(q)) /\ WF_vars(faults.calm /\ Reap)

LiveSpec == Spec /\ Fairness

-----------------------------------------------------------------------------
(* Properties. *)

\* A workload computes only within the lease: the runner's own deadline, taken
\* from the first send of a callback, never passes the server's expiry less the
\* margin, whatever was resent, replayed or adopted (RunnerControl, first_send).
ComputeWithinLease ==
  box.state = "RUNNING" /\ box.deadline # None =>
    /\ clock < box.deadline
    /\ box.deadline + Margin <= server.expires

\* A start whose answer was lost is answered from its receipt: the worker never
\* meets a refusal, which would stop the container, for an attempt the server
\* holds as started under this incarnation (_pending_callback, _begin_callback).
LostStartIsNotRefused ==
  ~(act.why = "START" /\ act.reply = "REFUSED" /\ server.phase = "STARTED" /\ Live(agent.inc))

\* A ready worker knows every container on the host: one it did not launch or
\* adopt itself keeps the worker from being ready (reconcile_once).
ReadyOwnsContainer ==
  Up /\ agent.ready /\ Present => record.bound /\ record.inc = agent.inc

\* The host stays in hand, through every crash, replay and adoption: nothing computes
\* past its lease and nothing runs that a ready worker does not know of.
HostInHand == ComputeWithinLease /\ ReadyOwnsContainer

\* Once the journal knows that the cleanup was verified, no thread of the running
\* process journals another renewal, adoption, failure or cleanup of the attempt,
\* though it may have decided on a page from before (REM-R05, REM-R06).
QuietAfterRelease ==
  [][record.verified /\ Up =>
       \A o \in ops' : o.op \in {"renew", "adopt", "failure", "cleanup"} =>
         \E p \in ops : p.id = o.id]_vars

\* A started attempt that is fenced, by its own failure, the reaper, a cancel or
\* a disable, ends released and no callback of it but its start stays pending,
\* while the process stays up and every answer arrives (reconcile_once,
\* _stop_orphan, _discard_released_authority).
FencedAttemptEnds ==
  (faults.calm /\ server.phase = "STARTED" /\ ~server.alive) ~>
    (server.alloc = "RELEASED" /\ Pending({"claim", "renew", "failure", "cleanup"}) = {})
=============================================================================
