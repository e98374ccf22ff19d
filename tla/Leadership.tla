----------------------------- MODULE Leadership -----------------------------
(***************************************************************************)
(* Which coordinator decides (coordinator/service.py, coordinator/         *)
(* runtime.py).  The leadership row names a holder, an epoch and a lease   *)
(* in DB time.  A process acquires the row, renews it from a thread of its *)
(* own, and decides in ticks: a snapshot transaction proposes, a second    *)
(* transaction decides again and commits, both under the row's lock.       *)
(*                                                                         *)
(* A process identity is one start of the program: a restart is another    *)
(* process, with a holder_id of its own.                                   *)
(***************************************************************************)
EXTENDS Integers

CONSTANTS Processes,   \* starts of the coordinator
          Reliable,    \* the starts that never crash
          Worlds,      \* what a snapshot may show: queue, holdings, policy
          Decisions,   \* what the policy may propose
          Decide,      \* Decide[w]: the policy's proposal for w, or NoDecision
          NoDecision,
          Nobody,      \* the holder of a row nobody acquired yet
          Lease,       \* units of DB time a lease lasts
          MaxEpoch     \* bound: epochs

Maintenance == "MAINTENANCE"

ASSUME LeaderAssumption ==
    /\ Reliable \subseteq Processes
    /\ Nobody \notin Processes
    /\ Decide \in [Worlds -> Decisions \cup {NoDecision}]
    /\ NoDecision \notin Decisions /\ Maintenance \notin Decisions
    /\ Lease \in Nat \ {0} /\ MaxEpoch \in Nat

VARIABLES row,      \* coordinator_leadership; left is the rest of the lease
          lock,     \* the process whose transaction holds the row, or Nobody
          proc,     \* the main loop of a process
          renewer,  \* renewer[p]: the renewal thread of the current run is alive
          stray,    \* stray[p]: a renewal that outlived its run, by epoch
          world,    \* the state of the database the policy looks at
          decided,  \* the last decision: its epoch, process, world and content
          owner     \* history: owner[e] acquired epoch e

leaderVars == <<row, lock, proc, renewer, stray, world, decided, owner>>

Phases == {"DOWN", "IDLE", "LEADING", "PROPOSED", "COMMITTING"}

LeaderInit ==
    /\ row = [holder |-> Nobody, epoch |-> 0, left |-> 0]
    /\ lock = Nobody
    /\ proc = [p \in Processes |->
                 [phase |-> "IDLE", epoch |-> 0, proposal |-> NoDecision, lost |-> FALSE]]
    /\ renewer = [p \in Processes |-> FALSE]
    /\ stray = [p \in Processes |-> {}]
    /\ world \in Worlds
    /\ decided = [epoch |-> 0, by |-> Nobody, what |-> NoDecision, world |-> world]
    /\ owner = [e \in 0..MaxEpoch |-> Nobody]

\* Mutant: a process trusts the epoch it remembers.
LeaderRemembered(p, e) == TRUE

\* _leader, with the row locked.
Leader(p, e) == row.holder = p /\ row.epoch = e /\ row.left > 0

-----------------------------------------------------------------------------
(* Acquiring and renewing                                                  *)

Lead(p, e) ==
    /\ proc' = [proc EXCEPT ![p] = [@ EXCEPT !.phase = "LEADING", !.epoch = e, !.lost = FALSE]]
    /\ renewer' = [renewer EXCEPT ![p] = TRUE]

\* Mutant: only the holder acquires again.
AcquireOwn(p) ==
    /\ proc[p].phase = "IDLE" /\ lock = Nobody
    /\ row.holder \in {p, Nobody} /\ row.epoch < MaxEpoch
    /\ row' = [holder |-> p, epoch |-> row.epoch + 1, left |-> Lease]
    /\ owner' = [owner EXCEPT ![row.epoch + 1] = p]
    /\ Lead(p, row.epoch + 1)
    /\ UNCHANGED <<lock, stray, world, decided>>

\* acquire, then run starts the renewal thread.  A live lease of another holder
\* is left alone; the holder itself goes on in its epoch.
Acquire(p) ==
    /\ proc[p].phase = "IDLE" /\ lock = Nobody
    /\ \/ /\ row.left > 0 /\ row.holder = p
          /\ Lead(p, row.epoch)
          /\ UNCHANGED <<row, owner>>
       \/ /\ row.left = 0 /\ row.epoch < MaxEpoch
          /\ row' = [holder |-> p, epoch |-> row.epoch + 1, left |-> Lease]
          /\ owner' = [owner EXCEPT ![row.epoch + 1] = p]
          /\ Lead(p, row.epoch + 1)
    /\ UNCHANGED <<lock, stray, world, decided>>

\* renew under _leader: a lost leadership ends the run.
Renew(p) ==
    /\ renewer[p] /\ lock = Nobody
    /\ IF Leader(p, proc[p].epoch)
       THEN row' = [row EXCEPT !.left = Lease] /\ UNCHANGED <<proc, renewer>>
       ELSE /\ renewer' = [renewer EXCEPT ![p] = FALSE]
            /\ proc' = [proc EXCEPT ![p].lost = TRUE]
            /\ UNCHANGED row
    /\ UNCHANGED <<lock, stray, world, decided, owner>>

\* The one renewal a thread still had in hand when its run ended.
StrayRenew(p, e) ==
    /\ e \in stray[p] /\ lock = Nobody
    /\ row' = IF Leader(p, e) THEN [row EXCEPT !.left = Lease] ELSE row
    /\ stray' = [stray EXCEPT ![p] = @ \ {e}]
    /\ UNCHANGED <<lock, proc, renewer, world, decided, owner>>

\* An exception in the renewal or the accounting thread; the tick goes on.
Fail(p) ==
    /\ proc[p].phase \in {"LEADING", "PROPOSED", "COMMITTING"}
    /\ proc' = [proc EXCEPT ![p].lost = TRUE]
    /\ \/ UNCHANGED renewer
       \/ renewer' = [renewer EXCEPT ![p] = FALSE]
    /\ UNCHANGED <<row, lock, stray, world, decided, owner>>

\* The end of run's inner loop: the threads are told to stop and joined, but a
\* renewal that waits for the database may outlive the join.
Leave(p) ==
    /\ proc[p].phase = "LEADING" /\ proc[p].lost
    /\ proc' = [proc EXCEPT ![p].phase = "IDLE"]
    /\ renewer' = [renewer EXCEPT ![p] = FALSE]
    /\ \/ UNCHANGED stray
       \/ renewer[p] /\ stray' = [stray EXCEPT ![p] = @ \cup {proc[p].epoch}]
    /\ UNCHANGED <<row, lock, world, decided, owner>>

-----------------------------------------------------------------------------
(* The tick                                                                *)

\* snapshot_operation and the policy's proposal; or one of the maintenance
\* steps, which need no proposal.
Propose(p) ==
    /\ proc[p].phase = "LEADING" /\ ~proc[p].lost /\ lock = Nobody
    /\ IF Leader(p, proc[p].epoch)
       THEN \E d \in {Decide[world], Maintenance} \ {NoDecision} :
              proc' = [proc EXCEPT ![p].phase = "PROPOSED", ![p].proposal = d]
       ELSE proc' = [proc EXCEPT ![p].lost = TRUE]
    /\ UNCHANGED <<row, lock, renewer, stray, world, decided, owner>>

\* Mutant: the deciding transaction does not lock the leadership row.
BeginUnlocked(p) ==
    /\ proc[p].phase = "PROPOSED"
    /\ lock' = p /\ proc' = [proc EXCEPT ![p].phase = "COMMITTING"]
    /\ UNCHANGED <<row, renewer, stray, world, decided, owner>>

\* The deciding transaction starts with the leadership row.
BeginCommit(p) ==
    /\ proc[p].phase = "PROPOSED" /\ lock = Nobody
    /\ IF Leader(p, proc[p].epoch)
       THEN lock' = p /\ proc' = [proc EXCEPT ![p].phase = "COMMITTING"]
       ELSE /\ proc' = [proc EXCEPT ![p].phase = "LEADING", ![p].lost = TRUE]
            /\ UNCHANGED lock
    /\ UNCHANGED <<row, renewer, stray, world, decided, owner>>

\* Mutant: the proposal is applied to whatever the database holds now.
StillRightAlways(p) == TRUE

\* commit_operation decides again on a fresh snapshot.
StillRight(p) ==
    proc[p].proposal = Maintenance \/ proc[p].proposal = Decide[world]

\* The end of the transaction: leadership is checked once more.
FinishCommit(p) ==
    /\ lock = p
    /\ lock' = Nobody
    /\ \/ /\ StillRight(p) /\ Leader(p, proc[p].epoch)
          /\ decided' = [epoch |-> proc[p].epoch, by |-> p,
                         what |-> proc[p].proposal, world |-> world]
          /\ world' \in Worlds
          /\ proc' = [proc EXCEPT ![p].phase = "LEADING"]
       \/ /\ ~StillRight(p)
          /\ proc' = [proc EXCEPT ![p].phase = "LEADING"]
          /\ UNCHANGED <<decided, world>>
       \/ /\ ~Leader(p, proc[p].epoch)
          /\ proc' = [proc EXCEPT ![p].phase = "LEADING", ![p].lost = TRUE]
          /\ UNCHANGED <<decided, world>>
    /\ UNCHANGED <<row, renewer, stray, owner>>

\* Any exception in the tick, a rolled back transaction included, ends the run.
FailTick(p) ==
    /\ proc[p].phase \in {"PROPOSED", "COMMITTING"}
    /\ proc' = [proc EXCEPT ![p].phase = "LEADING", ![p].lost = TRUE]
    /\ lock' = IF lock = p THEN Nobody ELSE lock
    /\ UNCHANGED <<row, renewer, stray, world, decided, owner>>

-----------------------------------------------------------------------------
(* The environment                                                         *)

\* Time passes.
LeaseElapse ==
    /\ row.left > 0
    /\ row' = [row EXCEPT !.left = @ - 1]
    /\ UNCHANGED <<lock, proc, renewer, stray, world, decided, owner>>

\* Users, the worker and administrators.
Change ==
    /\ world' \in Worlds
    /\ UNCHANGED <<row, lock, proc, renewer, stray, decided, owner>>

\* A crash ends the threads and rolls an open transaction back.
Crash(p) ==
    /\ p \notin Reliable /\ proc[p].phase # "DOWN"
    /\ proc' = [proc EXCEPT ![p].phase = "DOWN"]
    /\ renewer' = [renewer EXCEPT ![p] = FALSE]
    /\ stray' = [stray EXCEPT ![p] = {}]
    /\ lock' = IF lock = p THEN Nobody ELSE lock
    /\ UNCHANGED <<row, world, decided, owner>>

\* What the main loop of a process does by itself.
Loop(p) == Acquire(p) \/ Propose(p) \/ BeginCommit(p) \/ FinishCommit(p) \/ Leave(p)

LeaderNext ==
    \/ \E p \in Processes :
         \/ Loop(p)
         \/ Renew(p)
         \/ \E e \in stray[p] : StrayRenew(p, e)
         \/ Fail(p)
         \/ FailTick(p)
         \/ Crash(p)
    \/ LeaseElapse
    \/ Change

LeaderSpec == LeaderInit /\ [][LeaderNext]_leaderVars

\* DB time passes and a loop that can go on goes on.
FairSpec == LeaderSpec /\ WF_leaderVars(LeaseElapse) /\ \A p \in Processes : WF_leaderVars(Loop(p))

-----------------------------------------------------------------------------
(* Properties                                                              *)

LeaderTypeOK ==
    /\ row \in [holder : Processes \cup {Nobody}, epoch : 0..MaxEpoch, left : 0..Lease]
    /\ lock \in Processes \cup {Nobody}
    /\ proc \in [Processes ->
                  [phase : Phases, epoch : 0..MaxEpoch,
                   proposal : Decisions \cup {NoDecision, Maintenance}, lost : BOOLEAN]]
    /\ renewer \in [Processes -> BOOLEAN]
    /\ stray \in [Processes -> SUBSET (0..MaxEpoch)]
    /\ world \in Worlds
    /\ decided \in [epoch : 0..MaxEpoch, by : Processes \cup {Nobody},
                     what : Decisions \cup {NoDecision, Maintenance}, world : Worlds]
    /\ owner \in [0..MaxEpoch -> Processes \cup {Nobody}]

\* A transaction that decides owns the leadership row to its end, also when
\* the lease runs out under it: nobody can take over in the middle (_leader).
LockedRow ==
    lock # Nobody =>
        /\ row.holder = lock
        /\ row.epoch = proc[lock].epoch
        /\ proc[lock].phase = "COMMITTING"

\* The epoch of a decision names the process that made it, though processes
\* stall, renew late and come back (acquire, _leader, commit_operation).
OneDecider ==
    /\ decided.epoch <= row.epoch
    /\ decided.epoch > 0 => decided.by = owner[decided.epoch]

\* What is committed is what the policy says about the state it is committed
\* to, not about the snapshot the proposal came from (commit_operation).
FreshDecision == decided.what \in Decisions => Decide[decided.world] = decided.what

\* The inductive invariant: the row, the lock and the history agree.
LeaderInv ==
    /\ LeaderTypeOK /\ LockedRow /\ OneDecider
    /\ owner[row.epoch] = row.holder
    /\ \A e \in 0..MaxEpoch : e > row.epoch => owner[e] = Nobody

\* No decision of an earlier epoch commits after one of a later epoch, and an
\* epoch never changes hands (acquire, _leader).
EpochsOrdered ==
    [][/\ decided'.epoch >= decided.epoch
       /\ \A e \in 0..MaxEpoch : owner[e] # Nobody => owner'[e] = owner[e]]_leaderVars

\* A coordinator that crashed while it held the row is replaced, as long as
\* another one runs (acquire after the lease, run).
LeaderReplaced ==
    LET HolderDown == row.holder \in Processes /\ proc[row.holder].phase = "DOWN"
    IN  HolderDown ~> (row.epoch = MaxEpoch \/ ~HolderDown)

=============================================================================
