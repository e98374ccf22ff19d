---------------------------- MODULE Eligibility -----------------------------
(* The age of a queued job: how long it has been eligible without a break.    *)
(* Aging and the reservation of the scheduler depend on it, and no row holds  *)
(* it.  It is put together from the age on the job row (eligible_since), the  *)
(* ends of concurrency blocks on the admission counters, the staircase of     *)
(* quota headroom, and eligibility events which the coordinator replays page  *)
(* by page after the change that caused them.                                 *)
(*                                                                           *)
(* One tenant is modelled: no part of this state is shared between tenants.   *)
(* A transaction reads the clock once; the triggers that it fires are part of *)
(* the action.                                                               *)
EXTENDS Integers, Sequences, FiniteSets, FiniteSetsExt, Functions

CONSTANTS
  Jobs,           \* job identifiers: numbers, in the order of the replay
  Users,          \* members of the tenant
  Resources,      \* cpu and memory
  Submitter,      \* the user of each job
  Template,       \* the template of each job
  Size,           \* the request of each job, per resource
  Policies,       \* tenant policies an administrator may set
  FirstPolicy,    \* the policy the tenant is created with
  Inventories,    \* inventories the worker may report
  Batch,          \* queued jobs in a page of the replay (64 in the code)
  Backoff,        \* the delay of a retry
  MaxTime, MaxChanges

ASSUME EligibilityAssumption ==
  /\ Jobs \subseteq Nat \ {0} /\ IsFiniteSet(Jobs)
  /\ Submitter \in [Jobs -> Users] /\ Size \in [Jobs -> [Resources -> Nat]]
  /\ FirstPolicy \in Policies
  /\ Batch \in Nat \ {0} /\ Backoff \in Nat \ {0}
  /\ {MaxTime, MaxChanges} \subseteq Nat

VARIABLES
  now,        \* database time
  enabled,    \* tenants.enabled
  policy,     \* the current tenant policy: limit per resource, active, userActive
  inventory,  \* the current inventory of the worker
  job,        \* the job rows: state, created, since, ready
  resumed,    \* admission_counters.eligible_resumed_at: tenant and users
  steps,      \* quota_headroom_steps, per resource
  events,     \* queue_eligibility_events not completed, oldest first
  eligible,   \* history: since when the job has been eligible
  late,       \* history: queued jobs that were queued again during a replay
  left        \* changes, pauses and retries still to come

vars == <<now, enabled, policy, inventory, job, resumed, steps, events, eligible, late,
          left>>

\* A null timestamp; it is earlier than every time, as max() over the others needs.
Never == -1

\* A registered worker that has reported no inventory yet.
NoInventory == [arch |-> "NONE", cap |-> [r \in Resources |-> 0], runs |-> {}]

Queued(j) == job[j].state = "QUEUED"

Running == {j \in Jobs : job[j].state = "RUNNING"}

RunningOf(u) == {j \in Running : Submitter[j] = u}

\* The unreleased allocations of a set of jobs.
Held(js) == [r \in Resources |-> MapThenSumSet(LAMBDA j : Size[j][r], js)]

Pending == events # <<>>

NewJob == [state |-> "NONE", created |-> Never, since |-> Never, ready |-> Never]

\* Nothing of a job that has ended is read again.
Ended == [NewJob EXCEPT !.state = "DONE"]

Init ==
  /\ now = 0 /\ enabled = TRUE /\ policy = FirstPolicy
  /\ inventory \in Inventories \cup {NoInventory}
  /\ job = [j \in Jobs |-> NewJob]
  /\ resumed = [tenant |-> Never, user |-> [u \in Users |-> Never]]
  /\ steps = [r \in Resources |-> {[upper |-> FirstPolicy.limit[r], at |-> Never]}]
  /\ events = <<>> /\ eligible = [j \in Jobs |-> Never] /\ late = {}
  /\ left = MaxChanges

-----------------------------------------------------------------------------
(* The reference: policy eligibility, without a history *)

\* Queued, retry ready, runnable by this worker within the quota, and not held
\* back by a concurrency limit.  Free resources do not matter.
Eligible(j) ==
  /\ Queued(j) /\ job[j].ready <= now /\ enabled
  /\ Template[j] \in inventory.runs
  /\ \A r \in Resources : /\ Size[j][r] <= inventory.cap[r]
                          /\ Size[j][r] + Held(Running)[r] <= policy.limit[r]
  /\ Cardinality(Running) < policy.active
  /\ Cardinality(RunningOf(Submitter[j])) < policy.userActive

Observe ==
  /\ eligible' = [j \in Jobs |-> IF Eligible(j)' THEN IF Eligible(j) THEN eligible[j] ELSE now'
                                 ELSE Never]
  /\ late' = {j \in Jobs : /\ Queued(j)'
                           /\ j \in late \/ (Pending /\ job[j].state \in {"PAUSED", "RETRY_WAIT"})}

-----------------------------------------------------------------------------
(* Triggers *)

\* Mutant: a rise of the headroom keeps the time at which the sizes below it fitted.
UndatedRise(S, h) ==
  LET below == {s \in S : s.upper < h}
      at == IF below = {} THEN Never ELSE Max({s.at : s \in below})
  IN IF h >= 0 THEN below \cup {[upper |-> h, at |-> at]} ELSE below

\* nexa_b13_quota_step: the headroom of one resource is now h.
QuotaStep(S, h) ==
  LET above == {s \in S : s.upper > h}
      top == Max({s.upper : s \in S} \cup {-1})
      kept == (CHOOSE s \in above : \A t \in above : s.upper <= t.upper).at
      below == S \ above
  IN IF h = top THEN S
     ELSE IF h > top THEN S \cup {[upper |-> h, at |-> now]}
     ELSE IF h >= 0 /\ \A s \in below : s.upper # h
          THEN below \cup {[upper |-> h, at |-> kept]}
          ELSE below

\* nexa_b13_set_quota_headroom
Headroom(limit, held) == [r \in Resources |-> QuotaStep(steps[r], limit[r] - held[r])]

\* nexa_b13_eligibility_state: what the tenant could run on an idle worker.
StateOf(limit, inv) ==
  [room |-> [r \in Resources |-> Max({0, Min({limit[r], inv.cap[r]})})],
   inv |-> inv, enabled |-> TRUE]

\* Whether the change makes a queued job possible or impossible.
Matters(old, new) ==
  \E j \in Jobs : Queued(j) /\
    \/ old.inv.arch # new.inv.arch \/ old.inv.runs # new.inv.runs
    \/ \E r \in Resources : /\ Size[j][r] > Min({old.room[r], new.room[r]})
                            /\ Size[j][r] <= Max({old.room[r], new.room[r]})

Event(old, new) == [at |-> now, old |-> old, new |-> new, last |-> 0]

\* nexa_b13_emit_eligibility
Emit(old, new) ==
  events' = IF old # new /\ Matters(old, new) THEN Append(events, Event(old, new)) ELSE events

\* nexa_b13_counter_resume: an attempt ends, and with it a concurrency block.
Resume(u) ==
  resumed' = [resumed EXCEPT
    !.tenant = IF Cardinality(Running) = policy.active THEN now ELSE @,
    !.user[u] = IF Cardinality(RunningOf(u)) = policy.userActive THEN now ELSE @]

-----------------------------------------------------------------------------
(* Jobs *)

Change == left > 0 /\ left' = left - 1

\* _create_job: a request that no configured worker could run is refused, one
\* that meets no configured worker is accepted.  No event has the same time: two
\* transactions in sequence do not read the same microsecond.
Submit(j) ==
  /\ job[j].state = "NONE" /\ enabled
  /\ \A e \in Range(events) : e.at # now
  /\ \A r \in Resources : Size[j][r] <= policy.limit[r]
  /\ inventory # NoInventory => /\ Template[j] \in inventory.runs
                                /\ \A r \in Resources : Size[j][r] <= inventory.cap[r]
  /\ job' = [job EXCEPT ![j].state = "QUEUED", ![j].created = now, ![j].since = now]
  /\ UNCHANGED <<now, enabled, policy, inventory, resumed, steps, events, left>>
  /\ Observe

\* The job that enters the queue again starts a new age: nexa_b13_retry_eligibility.
Requeue(j) ==
  /\ job' = [job EXCEPT ![j].state = "QUEUED", ![j].since = Max({now, job[j].ready})]
  /\ UNCHANGED <<now, enabled, policy, inventory, resumed, steps, events, left>>
  /\ Observe

\* resume_job
ResumeJob(j) == job[j].state = "PAUSED" /\ enabled /\ Requeue(j)

\* promote_due_locked: the backoff is over, and _blocked_reason finds nothing.
PromoteRetry(j) ==
  /\ job[j].state = "RETRY_WAIT" /\ job[j].ready <= now
  /\ inventory # NoInventory => /\ Template[j] \in inventory.runs
                                /\ \A r \in Resources : Size[j][r] <= inventory.cap[r]
  /\ \A r \in Resources : Size[j][r] <= policy.limit[r]
  /\ Requeue(j)

\* The quota interval of a resource that holds a size: _quota_intervals.
IntervalOf(r, size) ==
  CHOOSE s \in steps[r] : s.upper >= size /\ \A t \in steps[r] : t.upper >= size => s.upper <= t.upper

\* Some cell of the staircases, clipped to the capacity, holds the size: _quota_cells.
InCell(j) ==
  \A r \in Resources :
    /\ Size[j][r] <= Min({inventory.cap[r], policy.limit[r] - Held(Running)[r]})
    /\ \E s \in steps[r] : s.upper >= Size[j][r]

\* read_snapshot: the tenant is read, and the job is in one of its windows.
Candidate(j) ==
  /\ enabled /\ ~Pending /\ inventory # NoInventory
  /\ Queued(j) /\ job[j].since # Never /\ job[j].ready <= now
  /\ Template[j] \in inventory.runs /\ InCell(j)
  /\ Cardinality(Running) < policy.active
  /\ Cardinality(RunningOf(Submitter[j])) < policy.userActive

\* effective_eligible_since: the latest of the base age and the ends of blocks.
EffectiveSince(j) ==
  Max({job[j].since, resumed.tenant, resumed.user[Submitter[j]]}
      \cup {IntervalOf(r, Size[j][r]).at : r \in Resources})

\* apply_decision: the allocation takes its headroom from the tenant.  The age of
\* a job outside the queue is never read, and is dropped here.
Dispatch(j) ==
  /\ Candidate(j)
  /\ \A r \in Resources : Size[j][r] + Held(Running)[r] <= inventory.cap[r]
  /\ job' = [job EXCEPT ![j].state = "RUNNING", ![j].since = Never]
  /\ steps' = Headroom(policy.limit, Held(Running \cup {j}))
  /\ UNCHANGED <<now, enabled, policy, inventory, resumed, events, left>>
  /\ Observe

\* The clean-up of the attempt: it ends the job, pauses it or schedules a retry.
Release(j) ==
  /\ job[j].state = "RUNNING"
  /\ \/ job' = [job EXCEPT ![j] = Ended] /\ UNCHANGED left
     \/ job' = [job EXCEPT ![j].state = "PAUSED"] /\ Change
     \/ job' = [job EXCEPT ![j].state = "RETRY_WAIT", ![j].ready = now + Backoff] /\ Change
  /\ steps' = Headroom(policy.limit, Held(Running \ {j}))
  /\ Resume(Submitter[j])
  /\ UNCHANGED <<now, enabled, policy, inventory, events>>
  /\ Observe

\* A queued or waiting job is cancelled.
CancelJob(j) ==
  /\ job[j].state \in {"QUEUED", "RETRY_WAIT", "PAUSED"} /\ enabled
  /\ job' = [job EXCEPT ![j] = Ended]
  /\ UNCHANGED <<now, enabled, policy, inventory, resumed, steps, events, left>>
  /\ Observe

-----------------------------------------------------------------------------
(* Changes of the tenant and of the worker *)

\* update_tenant_policy, with nexa_b13_policy_capacity: never below what is held.
UpdateTenantPolicy(p) ==
  /\ Change /\ p # policy
  /\ Cardinality(Running) <= p.active
  /\ \A u \in Users : Cardinality(RunningOf(u)) <= p.userActive
  /\ \A r \in Resources : Held(Running)[r] <= p.limit[r]
  /\ policy' = p
  /\ steps' = Headroom(p.limit, Held(Running))
  /\ Emit(StateOf(policy.limit, inventory), StateOf(p.limit, inventory))
  /\ resumed' =
       [tenant |-> IF policy.active <= Cardinality(Running) /\ Cardinality(Running) < p.active
                   THEN now ELSE resumed.tenant,
        user |-> [u \in Users |->
                    IF /\ policy.userActive <= Cardinality(RunningOf(u))
                       /\ Cardinality(RunningOf(u)) < p.userActive
                    THEN now ELSE resumed.user[u]]]
  /\ UNCHANGED <<now, enabled, inventory, job>>
  /\ Observe

\* A heartbeat reports an inventory, or a new incarnation of the worker registers
\* (NoInventory): nexa_b13_inventory_capacity.
ReportInventory(inv) ==
  /\ Change /\ inv # inventory
  /\ inventory' = inv
  /\ Emit(StateOf(policy.limit, inventory), StateOf(policy.limit, inv))
  /\ UNCHANGED <<now, enabled, policy, job, resumed, steps>>
  /\ Observe

\* update_tenant, with nexa_b13_tenant_capacity.
ToggleTenant ==
  /\ Change
  /\ enabled' = ~enabled
  /\ resumed' = IF enabled THEN resumed ELSE [resumed EXCEPT !.tenant = now]
  /\ LET state == StateOf(policy.limit, inventory) IN
     events' = IF \E j \in Jobs : Queued(j)
               THEN Append(events, Event([state EXCEPT !.enabled = enabled],
                                         [state EXCEPT !.enabled = ~enabled]))
               ELSE events
  /\ UNCHANGED <<now, policy, inventory, job, steps>>
  /\ Observe

-----------------------------------------------------------------------------
(* The replay *)

\* Whether the tenant could run the job in a state of an event: _possible.
Possible(j, state) ==
  /\ state.enabled /\ Template[j] \in state.inv.runs
  /\ \A r \in Resources : Size[j][r] <= state.room[r]

\* The age that an event gives to a job: the boundary is when the change happened.
AgeAfter(j, e) ==
  IF Possible(j, e.old) = Possible(j, e.new) THEN job[j].since
  ELSE IF Possible(j, e.new) THEN Max({e.at, job[j].ready}) ELSE Never

\* The next page of an event: the queued jobs that existed when it happened.
Page(e) ==
  LET rows == {j \in Jobs : Queued(j) /\ job[j].created <= e.at /\ j > e.last}
  IN {j \in rows : Cardinality({i \in rows : i <= j}) <= Batch}

\* process_eligibility_batch, in the snapshot transaction of a tick.
ReplayPage ==
  /\ Pending /\ inventory # NoInventory
  /\ LET e == Head(events)
         rows == Page(e)
     IN /\ job' = [j \in Jobs |-> IF j \in rows THEN [job[j] EXCEPT !.since = AgeAfter(j, e)]
                                  ELSE job[j]]
        /\ events' = IF Cardinality(rows) < Batch THEN Tail(events)
                     ELSE [events EXCEPT ![1].last = Max(rows)]
  /\ UNCHANGED <<now, enabled, policy, inventory, resumed, steps, left>>
  /\ Observe

Tick ==
  /\ now < MaxTime /\ now' = now + 1
  /\ UNCHANGED <<enabled, policy, inventory, job, resumed, steps, events, left>>
  /\ Observe

Next ==
  \/ \E j \in Jobs : \/ Submit(j) \/ ResumeJob(j) \/ PromoteRetry(j) \/ Dispatch(j)
                     \/ Release(j) \/ CancelJob(j)
  \/ \E p \in Policies : UpdateTenantPolicy(p)
  \/ \E inv \in Inventories \cup {NoInventory} : ReportInventory(inv)
  \/ ToggleTenant \/ ReplayPage \/ Tick

Spec == Init /\ [][Next]_vars

-----------------------------------------------------------------------------
(* Properties *)

\* Once no replay of the tenant is pending, the snapshot of the scheduler takes
\* exactly the jobs that are eligible, and gives each the age since which it has
\* been eligible without a break (read_snapshot, effective_eligible_since): no
\* block by quota, concurrency, policy, inventory or a disabled tenant is
\* counted, and waiting for free resources is.  A job that was queued again while
\* an older event was being replayed is left out: process_eligibility_batch applies
\* the event to it as if it had been queued when the change happened, and its age
\* is then too early or missing.
AgesExact ==
  ~Pending /\ inventory # NoInventory =>
    \A j \in Jobs \ late : /\ Candidate(j) <=> Eligible(j)
                           /\ Candidate(j) => EffectiveSince(j) = eligible[j]
=============================================================================
