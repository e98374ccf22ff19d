--------------------------- MODULE FairnessLedger ---------------------------
(***************************************************************************)
(* The fairness ledger of the coordinator: every tenant is charged its     *)
(* dominant share of the host, divided by its weight, for the time it      *)
(* holds resources (coordinator/accounting.py, the ledger half of the tick *)
(* in coordinator/service.py and coordinator/snapshot.py, and the callers  *)
(* in the worker, cleanup and policy services).                            *)
(*                                                                         *)
(* Two kinds of transaction charge.  A transaction that changes holdings,  *)
(* weights or the inventory holds the policy locks: it reads DB time once, *)
(* and takes the ledger rows later.  The coordinator's heartbeat locks the *)
(* ledger rows only, and may commit a later boundary in between.           *)
(***************************************************************************)
EXTENDS Integers, FiniteSetsExt

CONSTANTS Tenants,      \* tenant identities
          Kinds,        \* job shapes
          Axes,         \* resource axes (CPU, memory)
          Need,         \* Need[k][x]: what a job of shape k holds on axis x
          Capacities,   \* inventories the worker may report
          Weights,      \* weights a policy may give a tenant
          Scale,        \* ledger units in one unit of score
          MaxHeld,      \* bound: allocations of one shape per tenant
          MaxClock      \* bound: DB time

ASSUME LedgerAssumption ==
    /\ \A k \in Kinds : Need[k] \in [Axes -> Nat]
    /\ Capacities \subseteq [Axes -> Nat \ {0}]
    /\ Weights \subseteq Nat \ {0}
    /\ Scale \in Nat /\ MaxHeld \in Nat /\ MaxClock \in Nat

VARIABLES clock,      \* DB time (clock_timestamp)
          mode,       \* the operational mode of the current policy
          held,       \* held[t][k]: unreleased allocations
          capacity,   \* the current inventory's allocatable resources
          weight,     \* the current tenant policies
          score,      \* fairness_ledgers.virtual_score
          through,    \* fairness_ledgers.accounted_through
          demand,     \* fairness_ledgers.had_eligible_demand
          floor,      \* fairness_state.virtual_floor
          segment,    \* the open allocation_ledger_segments of a tenant
          tx,         \* the transaction that holds the policy locks
          due,        \* history: exact charge of all closed segments
          lift,       \* history: score given by the floor, not charged
          settled     \* history: boundary of the last policy-locked commit

ledger == <<score, through, demand, floor, segment, due, lift, settled>>
holdings == <<held, capacity, weight>>
vars == <<clock, mode, holdings, ledger, tx>>

None == [kind |-> "NONE", now |-> 0]

TxKinds == {"SNAPSHOT", "COMMIT", "CLEANUP", "HEARTBEAT", "TENANT", "GLOBAL"}

Larger(a, b) == IF a >= b THEN a ELSE b

-----------------------------------------------------------------------------
(* Shares                                                                  *)

Total(h, x) == MapThenSumSet(LAMBDA k : h[k] * Need[k][x], Kinds)

TotalHeld(x) == MapThenSumSet(LAMBDA t : Total(held[t], x), Tenants)

\* The dominant axis is the one of the tenant's aggregate holdings.
DominantShare(h, cap) == Max({(Scale * Total(h, x)) \div cap[x] : x \in Axes})

\* Shares are natural numbers of ledger units.
ASSUME ShareAssumption ==
    \A h \in [Kinds -> 0..MaxHeld], cap \in Capacities : DominantShare(h, cap) \in Nat

Holds(h) == \E k \in Kinds : h[k] > 0

Rate(h, cap, w) == IF Holds(h) THEN DominantShare(h, cap) \div w ELSE 0

\* rebase_locked: a segment per tenant that holds something.  The rows of its
\* allocations share one start and one weight, and their shares sum to the
\* tenant's share, so they are one row here.
Opened(h, cap, w, now) ==
    [t \in Tenants |-> [start |-> now, rate |-> Rate(h[t], cap, w[t])]]

Init ==
    /\ clock = 0 /\ mode = "NORMAL"
    /\ held = [t \in Tenants |-> [k \in Kinds |-> 0]]
    /\ capacity \in Capacities
    /\ weight \in [Tenants -> Weights]
    /\ score = [t \in Tenants |-> 0]
    /\ through = [t \in Tenants |-> 0]
    /\ demand = [t \in Tenants |-> FALSE]
    /\ floor = 0
    /\ segment = [t \in Tenants |-> [start |-> 0, rate |-> 0]]
    /\ tx = None
    /\ due = [t \in Tenants |-> 0]
    /\ lift = [t \in Tenants |-> 0]
    /\ settled = 0

-----------------------------------------------------------------------------
(* Charging                                                                *)

\* charge_locked refuses a boundary behind a committed one, unless DB time is
\* past it, and a segment that starts after the boundary.
Accepted(now) ==
    /\ (\E t \in Tenants : now < through[t]) => \A t \in Tenants : through[t] <= clock
    /\ \A t \in Tenants : segment[t].start <= now

\* Mutant: an overlap is not refunded.
ChargedForward(now) ==
    [t \in Tenants |->
        score[t] + segment[t].rate * Larger(0, now - Larger(through[t], segment[t].start))]

\* The charge is negative, a refund, when a heartbeat went past the boundary.
Charged(now) ==
    [t \in Tenants |->
        score[t] + segment[t].rate * (now - Larger(through[t], segment[t].start))]

\* charge_locked moves every ledger to the boundary; the scores are Charged(now).
Charge(now) ==
    /\ Accepted(now)
    /\ through' = [t \in Tenants |-> now]

\* rebase_locked closes every open segment and opens the current ones.
Rebase(now) ==
    /\ segment' = Opened(held', capacity', weight', now)
    /\ due' = [t \in Tenants |->
                  due[t] + segment[t].rate * (now - segment[t].start)]

KeepSegments == UNCHANGED <<segment, due>>

\* Mutant: a returning tenant keeps its old score.
LiftedNever(s, D) == s

\* advance_accounting: a tenant whose demand returns starts at the floor.
Lifted(s, D) ==
    [t \in Tenants |-> IF t \in D /\ ~demand[t] THEN Larger(s[t], floor) ELSE s[t]]

\* persist_fairness_locked: D are the tenants with an eligible candidate, s
\* the scores charged through the boundary.
Persist(s, D) ==
    /\ score' = Lifted(s, D)
    /\ lift' = [t \in Tenants |-> lift[t] + (Lifted(s, D)[t] - s[t])]
    /\ demand' = [t \in Tenants |-> t \in D]
    /\ \/ D = {} /\ floor' = floor
       \/ \E d \in D : /\ \A e \in D : Lifted(s, D)[d] <= Lifted(s, D)[e]
                       /\ floor' = Larger(floor, Lifted(s, D)[d])

KeepFairness(s) == score' = s /\ UNCHANGED <<lift, demand, floor>>

-----------------------------------------------------------------------------
(* The coordinator's heartbeat                                             *)

\* Mutant: the heartbeat ignores the freeze.
AccountInAnyMode ==
    /\ Charge(clock)
    /\ KeepFairness(Charged(clock))
    /\ KeepSegments
    /\ UNCHANGED <<clock, mode, holdings, tx, settled>>

\* CoordinatorService.account: the boundary and the mode are read after the
\* ledger locks.  A deposed leader may still get here: it charges the same.
Account ==
    /\ mode # "WRITE_FROZEN"
    /\ Charge(clock)
    /\ KeepFairness(Charged(clock))
    /\ KeepSegments
    /\ UNCHANGED <<clock, mode, holdings, tx, settled>>

-----------------------------------------------------------------------------
(* Transactions under the policy locks                                     *)

\* The locks are taken, the mode is checked and DB time is read.
Lock(kind) ==
    /\ tx = None
    /\ kind \in {"SNAPSHOT", "COMMIT"} => mode = "NORMAL"
    /\ kind \in {"CLEANUP", "HEARTBEAT", "TENANT"} => mode # "WRITE_FROZEN"
    /\ tx' = [kind |-> kind, now |-> clock]
    /\ UNCHANGED <<clock, mode, holdings, ledger>>

\* Nothing to decide, a changed proposal, an unchanged inventory, a refused
\* request or a rollback.
Unlock ==
    /\ tx # None
    /\ tx' = None
    /\ UNCHANGED <<clock, mode, holdings, ledger>>

\* Every commit of kind that charges through now.
Settle(kind, now) ==
    /\ tx.kind = kind
    /\ Charge(now)
    /\ settled' = now
    /\ tx' = None
    /\ UNCHANGED clock

\* The first half of _tick: account_now_locked reads its boundary after the
\* ledger locks.
SnapshotTick(D) ==
    /\ Settle("SNAPSHOT", clock)
    /\ Persist(Charged(clock), D)
    /\ KeepSegments
    /\ UNCHANGED <<mode, holdings>>

\* The second half of _tick with a decision about a reservation.
CommitReservation(D) ==
    /\ Settle("COMMIT", tx.now)
    /\ Persist(Charged(tx.now), D)
    /\ KeepSegments
    /\ UNCHANGED <<mode, holdings>>

\* The second half of _tick with a dispatch; the candidate is eligible.
CommitDispatch(t, k, D) ==
    /\ Settle("COMMIT", tx.now)
    /\ t \in D
    /\ held[t][k] < MaxHeld
    /\ \A x \in Axes : TotalHeld(x) + Need[k][x] <= capacity[x]
    /\ Persist(Charged(tx.now), D)
    /\ held' = [held EXCEPT ![t][k] = @ + 1]
    /\ UNCHANGED <<mode, capacity, weight>>
    /\ Rebase(tx.now)

\* report_cleanup releases an allocation.
CommitCleanup(t, k) ==
    /\ Settle("CLEANUP", tx.now)
    /\ held[t][k] > 0
    /\ KeepFairness(Charged(tx.now))
    /\ held' = [held EXCEPT ![t][k] = @ - 1]
    /\ UNCHANGED <<mode, capacity, weight>>
    /\ Rebase(tx.now)

\* A worker heartbeat with another inventory, which must cover what is held.
CommitInventory(cap) ==
    /\ Settle("HEARTBEAT", tx.now)
    /\ cap # capacity
    /\ \A x \in Axes : TotalHeld(x) <= cap[x]
    /\ KeepFairness(Charged(tx.now))
    /\ capacity' = cap
    /\ UNCHANGED <<mode, held, weight>>
    /\ Rebase(tx.now)

\* update_tenant_policy.
CommitWeight(t, w) ==
    /\ Settle("TENANT", tx.now)
    /\ KeepFairness(Charged(tx.now))
    /\ weight' = [weight EXCEPT ![t] = w]
    /\ UNCHANGED <<mode, held, capacity>>
    /\ Rebase(tx.now)

\* update_global_policy into WRITE_FROZEN: nothing is held, and the charge
\* orders the freeze after every earlier heartbeat.
CommitFreeze ==
    /\ Settle("GLOBAL", tx.now)
    /\ mode = "ADMISSION_OFF"
    /\ \A t \in Tenants : ~Holds(held[t])
    /\ KeepFairness(Charged(tx.now))
    /\ mode' = "WRITE_FROZEN"
    /\ KeepSegments
    /\ UNCHANGED holdings

\* The other transitions of the mode charge nothing.
CommitMode(m) ==
    /\ tx.kind = "GLOBAL"
    /\ <<mode, m>> \in {<<"NORMAL", "ADMISSION_OFF">>, <<"ADMISSION_OFF", "NORMAL">>,
                        <<"WRITE_FROZEN", "ADMISSION_OFF">>}
    /\ mode' = m
    /\ tx' = None
    /\ UNCHANGED <<clock, holdings, ledger>>

Elapse ==
    /\ clock < MaxClock
    /\ clock' = clock + 1
    /\ UNCHANGED <<mode, holdings, ledger, tx>>

Commit ==
    \/ \E D \in SUBSET Tenants :
          \/ SnapshotTick(D)
          \/ CommitReservation(D)
          \/ \E t \in Tenants, k \in Kinds : CommitDispatch(t, k, D)
    \/ \E t \in Tenants, k \in Kinds : CommitCleanup(t, k)
    \/ \E cap \in Capacities : CommitInventory(cap)
    \/ \E t \in Tenants, w \in Weights : CommitWeight(t, w)
    \/ CommitFreeze
    \/ \E m \in {"NORMAL", "ADMISSION_OFF"} : CommitMode(m)

Next ==
    \/ Elapse
    \/ Account
    \/ \E kind \in TxKinds : Lock(kind)
    \/ Unlock
    \/ Commit

Spec == Init /\ [][Next]_vars

-----------------------------------------------------------------------------
(* Properties                                                              *)

TypeOK ==
    /\ clock \in 0..MaxClock
    /\ mode \in {"NORMAL", "ADMISSION_OFF", "WRITE_FROZEN"}
    /\ held \in [Tenants -> [Kinds -> 0..MaxHeld]]
    /\ capacity \in Capacities
    /\ weight \in [Tenants -> Weights]
    /\ score \in [Tenants -> Nat]
    /\ through \in [Tenants -> Nat]
    /\ demand \in [Tenants -> BOOLEAN]
    /\ floor \in Nat
    /\ segment \in [Tenants -> [start : Nat, rate : Nat]]
    /\ tx \in [kind : TxKinds \cup {"NONE"}, now : Nat]
    /\ due \in [Tenants -> Nat]
    /\ lift \in [Tenants -> Nat]
    /\ settled \in Nat

\* Every interval is charged exactly once, at the share and weight committed
\* for it: a score is what the closed segments cost, what the open segment has
\* cost so far, and what the floor gave, however many heartbeats went past the
\* boundary of a transaction and were refunded (charge_locked).
Conservation ==
    \A t \in Tenants :
        score[t] = lift[t] + due[t] + segment[t].rate * (through[t] - segment[t].start)

\* No transaction that holds the policy locks ever fails with "accounting DB
\* time regressed" or "inconsistent tenant accounting boundary", whichever
\* heartbeats committed since it read DB time (charge_locked).
ChargeAccepted == Accepted(clock) /\ (tx # None => Accepted(tx.now))

\* A tenant with demand is never behind the virtual floor, so a newcomer that
\* is lifted to the floor never jumps ahead of one that waited; the refund of
\* a heartbeat does not undo it (persist_fairness_locked, charge_locked).
FloorRespected == \A t \in Tenants : demand[t] => score[t] >= floor

\* The open segments charge what the tenants hold now: no change of holdings,
\* inventory or weight commits without a rebase (rebase_locked).
SegmentsCurrent ==
    \A t \in Tenants : segment[t].rate = Rate(held[t], capacity, weight[t])

\* The boundaries are ordered: segments start at or before the last boundary of
\* a policy-locked transaction, heartbeats only went past it, and the open
\* transaction read a later time.
Boundaries ==
    /\ \A t \in Tenants : /\ segment[t].start <= settled
                          /\ settled <= through[t]
                          /\ through[t] <= clock
    /\ settled <= clock
    /\ tx # None => settled <= tx.now /\ tx.now <= clock

\* No transaction under the policy locks is refused by a charge, and none of
\* them leaves a tenant with demand behind the floor.
LedgerPromise == ChargeAccepted /\ FloorRespected

\* The books: every interval was charged once, and what accrues now is charged
\* at the share that is committed now.
BooksExact == Conservation /\ SegmentsCurrent

\* What FloorRespected needs to survive a refund: a tenant with demand was not
\* behind the floor at the last boundary, the earliest a refund goes back to.
FloorAtBoundary ==
    \A t \in Tenants : demand[t] =>
        lift[t] + due[t] + segment[t].rate * (settled - segment[t].start) >= floor

\* The inductive invariant of the ledger: ordered boundaries, exact charges and
\* a floor that holds at the last boundary (charge_locked, rebase_locked).
LedgerInv ==
    TypeOK /\ Boundaries /\ Conservation /\ SegmentsCurrent /\ FloorAtBoundary

\* While writes are frozen the ledger does not move: the freeze is ordered
\* after every heartbeat that charged, and no later one charges (account).
FrozenLedger == [][mode = "WRITE_FROZEN" => UNCHANGED ledger]_vars

=============================================================================
