----------------------------- MODULE Scheduler ------------------------------
(* The fair scheduler: what a tick of the coordinator reads of the queues,    *)
(* what the policy decides about it, and what the commit of the decision does *)
(* to jobs, reservation and ledgers.                                         *)
(*                                                                           *)
(* Time passes in minutes, the unit of aging: an age of two minutes is the    *)
(* highest that any rule tells apart.  Sizes are one-dimensional.  Virtual    *)
(* scores are kept relative to the virtual floor.                            *)
EXTENDS Integers, Sequences, FiniteSets, FiniteSetsExt, SequencesExt

CONSTANTS
  Tenants,        \* tenant identifiers: numbers, in their order
  Jobs,
  Owner,          \* the tenant of each job
  Size,           \* the request of each job
  BasePriority,   \* 0, 1 or 2
  Capacity,       \* what the worker can allocate
  Rate,           \* the inverse of the weight of each tenant
  Window,         \* normal candidates read of a tenant (16 in the code)
  Pages,          \* pages of the replay of an eligibility event
  MaxRun,         \* minutes that a job holds its allocation at most
  Loads           \* what may happen in a behaviour, one of several: the names of the
                  \* jobs that arrive, and the bound of the changes and faults

ASSUME SchedulerAssumption ==
  /\ Tenants \subseteq Nat /\ IsFiniteSet(Tenants) /\ IsFiniteSet(Jobs)
  /\ Owner \in [Jobs -> Tenants] /\ Size \in [Jobs -> 1..Capacity]
  /\ BasePriority \in [Jobs -> 0..2]
  /\ Rate \in [Tenants -> Nat \ {0}]
  /\ {Capacity, Window, Pages, MaxRun} \subseteq Nat \ {0}
  /\ Loads \subseteq [jobs : SUBSET Jobs, changes : Nat]

VARIABLES
  line,         \* the queued jobs in the order of their ready sequence
  wait,         \* minutes for which a queued job has been eligible, up to 2
  run,          \* minutes for which a job has held its allocation, or Idle
  score,        \* virtual scores less the virtual floor
  demand,       \* fairness_ledgers.had_eligible_demand
  enabled,      \* tenants.enabled
  full,         \* tenants whose artifact quota is exhausted
  replay,       \* pages of eligibility events still to be replayed
  up,           \* the worker is ready and the mode is NORMAL
  reservation,  \* the active reservation
  cursor,       \* CoordinatorService.cursors
  proposal,     \* what the tick under way has decided, or NoTick
  left          \* what may still happen

vars == <<line, wait, run, score, demand, enabled, full, replay, up, reservation,
          cursor, proposal, left>>

queue == <<line, wait, run>>
ledger == <<score, demand>>
gates == <<enabled, full, replay, up>>

Idle == -1
NoReservation == [job |-> "NONE", stale |-> FALSE]
NoCursor == [priority |-> 3, passed |-> {}]
Decision(kind, j) == [kind |-> kind, job |-> j]
NoDecision == Decision("NONE", "NONE")
StaleDecision == Decision("STALE", "NONE")   \* names a version that is gone
NoTick == Decision("NO_TICK", "NONE")

Init ==
  /\ line = <<>> /\ wait = [j \in Jobs |-> 0] /\ run = [j \in Jobs |-> Idle]
  /\ score = [t \in Tenants |-> 0] /\ demand = [t \in Tenants |-> FALSE]
  /\ enabled = [t \in Tenants |-> TRUE] /\ full = {} /\ replay = [t \in Tenants |-> 0]
  /\ up = TRUE /\ reservation = NoReservation
  /\ cursor = [t \in Tenants |-> NoCursor] /\ proposal = NoTick /\ left \in Loads

Queued == ToSet(line)
Running == {j \in Jobs : run[j] # Idle}
Position(j) == CHOOSE i \in DOMAIN line : line[i] = j
HeldBy(t) == MapThenSumSet(LAMBDA j : Size[j], {j \in Running : Owner[j] = t})
Free == Capacity - MapThenSumSet(LAMBDA j : Size[j], Running)

-----------------------------------------------------------------------------
(* read_snapshot *)

\* effective_priority
Priority(j) == Min({2, BasePriority[j] + wait[j]})

\* The rows of the candidate query: none of a tenant that is disabled or whose
\* events are still replayed.  No quota keeps a job from being one.
Rows(t, pending) ==
  {j \in Queued : Owner[j] = t /\ enabled[t] /\ pending[t] = 0}

Before(i, j) == \/ Priority(i) > Priority(j)
                \/ Priority(i) = Priority(j) /\ Position(i) < Position(j)

First(n, rows) == {j \in rows : Cardinality({i \in rows : Before(i, j)}) < n}

\* What follows the cursor; where nothing does, the pages start again.
Page(t, rows) ==
  {j \in rows :
     LET follows(i) == \/ Priority(i) < cursor[t].priority
                       \/ Priority(i) = cursor[t].priority /\ i \notin cursor[t].passed
         peers == IF \E i \in rows : follows(i) THEN {i \in rows : follows(i)} ELSE rows
     IN j \in First(Window, peers)}

\* The candidate that has waited longest; an active reservation takes its place.
\* Jobs of a tenant that are as old in minutes are as old as they are in line.
Oldest(rows) ==
  IF reservation.job \in rows THEN {reservation.job}
  ELSE {j \in rows : \A i \in rows : \/ wait[j] > wait[i]
                                     \/ wait[j] = wait[i] /\ Position(j) <= Position(i)}

\* The window of a tenant, and what of it the policy may take
\* (candidate_ineligibility_reason).
WindowOf(t, rows) ==
  [page |-> Page(t, rows), oldest |-> Oldest(rows),
   eligible |-> IF t \in full THEN {} ELSE Page(t, rows) \cup Oldest(rows)]

Windows(pending) == [t \in Tenants |-> WindowOf(t, Rows(t, pending))]

\* advance_accounting: a tenant that comes to have demand starts at the floor, and
\* the floor follows the lowest tenant with demand.  An idle tenant that holds
\* nothing is lifted at once: the floor it would start from is never lower.
Account(w) ==
  LET wanting == {t \in Tenants : w[t].eligible # {}}
      lifted(t) == IF t \in wanting /\ ~demand[t] THEN Max({score[t], 0}) ELSE score[t]
      floor == IF wanting = {} THEN 0 ELSE Max({0, Min({lifted(t) : t \in wanting})})
  IN [demand |-> [t \in Tenants |-> t \in wanting],
      score |-> [t \in Tenants |->
                   IF t \notin wanting /\ HeldBy(t) = 0 THEN Max({0, lifted(t) - floor})
                   ELSE lifted(t) - floor]]

-----------------------------------------------------------------------------
(* WeightedDominantResourceTimePolicy.decide *)

Fitting(w) == {j \in w.page \cap w.eligible : Size[j] <= Free}

\* Mutant: the age must exceed the threshold that the aging stops at.
StrictAge(w) == {j \in w.oldest \cap w.eligible : wait[j] > 2}

\* The oldest candidate of the tenant has waited long enough to be protected.
Protected(w) == {j \in w.oldest \cap w.eligible : wait[j] = 2}

\* The tenant key: score, weighted share, oldest ready sequence, identifier.
Key(t, w, sc) ==
  <<sc[t], HeldBy(t) * Rate[t], Min({Position(j) : j \in w[t].eligible}), t>>

Ahead(k, l) == \E n \in 1..4 : k[n] < l[n] /\ \A m \in 1..(n - 1) : k[m] = l[m]

\* The active reservation is served, kept or given up.
DecideReserved(w) ==
  LET j == reservation.job
  IN IF reservation.stale \/ j \notin w[Owner[j]].eligible THEN Decision("INVALIDATE", j)
     ELSE IF Size[j] <= Free THEN Decision("DISPATCH_RESERVED", j)
     ELSE Decision("DRAIN", j)

\* The first tenant in the order that has a job to protect or one that fits.
DecideFair(w, sc) ==
  LET acting == {t \in Tenants : Protected(w[t]) \cup Fitting(w[t]) # {}}
      t == CHOOSE t \in acting : \A s \in acting \ {t} : Ahead(Key(t, w, sc), Key(s, w, sc))
  IN IF acting = {} THEN NoDecision
     ELSE IF Protected(w[t]) # {} THEN Decision("RESERVE", CHOOSE j \in Protected(w[t]) : TRUE)
     ELSE Decision("DISPATCH", CHOOSE j \in First(1, Fitting(w[t])) : TRUE)

Decide(w, sc) ==
  IF reservation # NoReservation THEN DecideReserved(w) ELSE DecideFair(w, sc)

-----------------------------------------------------------------------------
(* A tick *)

\* process_eligibility_batch: one page of one tenant.
Replayed ==
  LET pending == {t \in Tenants : replay[t] > 0}
  IN IF pending = {} THEN replay ELSE [replay EXCEPT ![Max(pending)] = @ - 1]

ReplayPending(pending) == reservation # NoReservation /\ pending[Owner[reservation.job]] > 0

\* The cursors that a tick without a decision leaves: the last row of each page.
Continued(w) ==
  [t \in Tenants |->
     LET last == CHOOSE j \in w[t].page : \A i \in w[t].page \ {j} : Before(i, j)
     IN IF w[t].page = {} THEN cursor[t]
        ELSE [priority |-> Priority(last),
              passed |-> {j \in Queued : Owner[j] = t /\ Position(j) <= Position(last)}]]

\* snapshot_operation and the proposal of the policy.
Snapshot ==
  /\ proposal = NoTick /\ up
  /\ \E w \in {Windows(Replayed)} : \E ledgers \in {Account(w)} :
       \E decision \in {Decide(w, ledgers.score)} :
         /\ score' = ledgers.score /\ demand' = ledgers.demand
         /\ proposal' = IF ReplayPending(Replayed) THEN NoDecision ELSE decision
         /\ cursor' = IF ReplayPending(Replayed) \/ decision # NoDecision THEN cursor
                      ELSE Continued(w)
  /\ replay' = Replayed
  /\ UNCHANGED <<queue, enabled, full, up, reservation, left>>

\* A job leaves the line; a cursor no longer counts it among those it passed.
Leave(j) ==
  /\ line' = SelectSeq(line, LAMBDA i : i # j)
  /\ cursor' = [t \in Tenants |-> [cursor[t] EXCEPT !.passed = @ \ {j}]]

\* apply_decision
Apply(d) ==
  CASE d.kind \in {"DISPATCH", "DISPATCH_RESERVED"} ->
         /\ Leave(d.job)
         /\ run' = [run EXCEPT ![d.job] = 0] /\ wait' = [wait EXCEPT ![d.job] = 0]
         /\ reservation' = NoReservation
    [] d.kind = "RESERVE" ->
         /\ reservation' = [job |-> d.job, stale |-> FALSE]
         /\ UNCHANGED <<queue, cursor>>
    [] d.kind = "INVALIDATE" ->
         /\ reservation' = NoReservation
         /\ UNCHANGED <<queue, cursor>>

\* commit_operation: the decision is taken again on what is now in the database,
\* and dropped when it is another one.
Commit ==
  /\ proposal.kind \notin {"NO_TICK", "NONE", "DRAIN"}
  /\ proposal' = NoTick
  /\ \E w \in {Windows(replay)} : \E ledgers \in {Account(w)} :
       IF up /\ ~ReplayPending(replay) /\ Decide(w, ledgers.score) = proposal
       THEN /\ Apply(proposal)
            /\ score' = ledgers.score /\ demand' = ledgers.demand
       ELSE UNCHANGED <<queue, ledger, reservation, cursor>>
  /\ UNCHANGED <<gates, left>>

\* A tick that has nothing to commit.
EndTick ==
  /\ proposal.kind \in {"NONE", "DRAIN"}
  /\ proposal' = NoTick
  /\ UNCHANGED <<queue, ledger, gates, reservation, cursor, left>>

-----------------------------------------------------------------------------
(* Jobs *)

\* Changes and faults come to an end.
Change == left.changes > 0 /\ left' = [left EXCEPT !.changes = @ - 1]

Submit(j) ==
  /\ j \in left.jobs /\ j \notin Queued \cup Running /\ enabled[Owner[j]]
  /\ line' = Append(line, j) /\ wait' = [wait EXCEPT ![j] = 0]
  /\ UNCHANGED <<run, ledger, gates, reservation, cursor, proposal, left>>

\* A queued job is cancelled, and with it its reservation; a proposal about it
\* names a version of the job that is gone.
Cancel(j) ==
  /\ Change /\ j \in Queued /\ enabled[Owner[j]]
  /\ Leave(j) /\ wait' = [wait EXCEPT ![j] = 0]
  /\ reservation' = IF reservation.job = j THEN NoReservation ELSE reservation
  /\ proposal' = IF proposal.job = j THEN StaleDecision ELSE proposal
  /\ UNCHANGED <<run, ledger, gates>>

\* A job ends and its allocation is released; its name is free for another job.
Release(j) ==
  /\ run[j] > 0
  /\ run' = [run EXCEPT ![j] = Idle]
  /\ UNCHANGED <<line, wait, ledger, gates, reservation, cursor, proposal, left>>

Minute ==
  /\ \A j \in Running : run[j] < MaxRun
  /\ wait' = [j \in Jobs |-> IF j \in Queued THEN Min({2, wait[j] + 1}) ELSE wait[j]]
  /\ run' = [j \in Jobs |-> IF j \in Running THEN run[j] + 1 ELSE Idle]
  /\ score' = [t \in Tenants |-> score[t] + HeldBy(t) * Rate[t]]
  /\ UNCHANGED <<line, demand, gates, reservation, cursor, proposal, left>>

-----------------------------------------------------------------------------
(* Changes and faults *)

HasQueued(t) == \E j \in Queued : Owner[j] = t

\* nexa_b13_tenant_capacity: a tenant is disabled, which ends its reservation.
Disable(t) ==
  /\ Change /\ enabled[t]
  /\ enabled' = [enabled EXCEPT ![t] = FALSE]
  /\ replay' = [replay EXCEPT ![t] = IF HasQueued(t) THEN Pages ELSE @]
  /\ reservation' = IF reservation # NoReservation /\ Owner[reservation.job] = t
                    THEN NoReservation ELSE reservation
  /\ UNCHANGED <<queue, ledger, full, up, cursor, proposal>>

\* It is enabled again, and the ages of its jobs start anew.
Enable(t) ==
  /\ ~enabled[t]
  /\ enabled' = [enabled EXCEPT ![t] = TRUE]
  /\ replay' = [replay EXCEPT ![t] = IF HasQueued(t) THEN Pages ELSE @]
  /\ wait' = [j \in Jobs |-> IF Owner[j] = t THEN 0 ELSE wait[j]]
  /\ UNCHANGED <<line, run, ledger, full, up, reservation, cursor, proposal, left>>

\* A change of policy or inventory that some queued job may depend on.
ChangeEligibility(t) ==
  /\ Change /\ HasQueued(t)
  /\ replay' = [replay EXCEPT ![t] = Pages]
  /\ UNCHANGED <<queue, ledger, enabled, full, up, reservation, cursor, proposal>>

\* Uploads exhaust the artifact quota of a tenant.
Exhaust(t) ==
  /\ Change /\ t \notin full
  /\ full' = full \cup {t}
  /\ UNCHANGED <<queue, ledger, enabled, replay, up, reservation, cursor, proposal>>

\* Retention or a larger quota ends that.
Relieve(t) ==
  /\ t \in full
  /\ full' = full \ {t}
  /\ UNCHANGED <<queue, ledger, enabled, replay, up, reservation, cursor, proposal, left>>

\* The worker stops being ready, or the operational mode is not NORMAL.
Suspend ==
  /\ Change /\ up
  /\ up' = FALSE
  /\ UNCHANGED <<queue, ledger, enabled, full, replay, reservation, cursor, proposal>>

Recover ==
  /\ ~up
  /\ up' = TRUE
  /\ UNCHANGED <<queue, ledger, enabled, full, replay, reservation, cursor, proposal, left>>

\* A new policy version: the reservation was made under the old one, and a dispatch
\* names the version it was decided under.
PublishPolicy ==
  /\ Change
  /\ reservation' = [reservation EXCEPT !.stale = reservation # NoReservation]
  /\ proposal' = IF proposal.kind \in {"DISPATCH", "DISPATCH_RESERVED"} THEN StaleDecision
                 ELSE proposal
  /\ UNCHANGED <<queue, ledger, gates, cursor>>

\* Another coordinator leads: the cursors were in the memory of the last one.
NewLeader ==
  /\ Change
  /\ cursor' = [t \in Tenants |-> NoCursor] /\ proposal' = NoTick
  /\ UNCHANGED <<queue, ledger, gates, reservation>>

Next ==
  \/ Snapshot \/ Commit \/ EndTick \/ Minute
  \/ \E j \in Jobs : Submit(j) \/ Cancel(j) \/ Release(j)
  \/ \E t \in Tenants : \/ Disable(t) \/ Enable(t) \/ ChangeEligibility(t)
                        \/ Exhaust(t) \/ Relieve(t)
  \/ Suspend \/ Recover \/ PublishPolicy \/ NewLeader

\* The coordinator keeps ticking (a tick begins unless it must not, and ends), every
\* job ends, and time passes.
Fairness ==
  /\ []<>(proposal # NoTick \/ ~up) /\ []<>(proposal = NoTick)
  /\ \A j \in Jobs : WF_vars(Release(j))
  /\ SF_vars(Minute)

Spec == Init /\ [][Next]_vars

FairSpec == Spec /\ Fairness

-----------------------------------------------------------------------------
(* Properties *)

\* A job that the policy may dispatch as soon as resources are free.
Dispatchable(j) ==
  /\ j \in Queued /\ up /\ enabled[Owner[j]] /\ Owner[j] \notin full

\* No job stays queued and eligible for ever, whatever other tenants and smaller
\* jobs arrive: windows, cursors, aging and the one reservation reach it (_tick).
NoneStarves == \A j \in Jobs : []<>~Dispatchable(j)
=============================================================================
