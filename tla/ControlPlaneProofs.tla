------------------------- MODULE ControlPlaneProofs -------------------------
(***************************************************************************)
(* Proofs about the components of the control plane that keep their own    *)
(* books, for any instance of them: the fairness ledger (FairnessLedger)   *)
(* and the coordinator's leadership (Leadership).  The components share no *)
(* state, so each part is about its own specification.                     *)
(***************************************************************************)
EXTENDS FairnessLedger, Leadership, TLAPS

-----------------------------------------------------------------------------
(* The coordinator's leadership, for any number of processes and epochs *)

Rows == [holder : Processes \cup {Nobody}, epoch : 0..MaxEpoch, left : 0..Lease]

Loops == [phase : Phases, epoch : 0..MaxEpoch,
          proposal : Decisions \cup {NoDecision, Maintenance}, lost : BOOLEAN]

\* Nobody has acquired anything, and nothing is decided.
LEMMA InitLeader == LeaderInit => LeaderInv
<1> SUFFICES ASSUME LeaderInit PROVE LeaderInv
  OBVIOUS
<1>1. LeaderTypeOK
  <2>1. row \in Rows /\ 0 \in 0..MaxEpoch
    BY LeaderAssumption DEF LeaderInit, Rows
  <2>2. proc \in [Processes -> Loops]
    BY <2>1 DEF LeaderInit, Loops, Phases
  <2>3. decided \in [epoch : 0..MaxEpoch, by : Processes \cup {Nobody},
                     what : Decisions \cup {NoDecision, Maintenance}, world : Worlds]
    BY <2>1 DEF LeaderInit
  <2> QED
    BY <2>1, <2>2, <2>3 DEF LeaderInit, LeaderTypeOK, Rows, Loops
<1> QED
  BY <1>1, LeaderAssumption DEF LeaderInit, LeaderInv, LockedRow, OneDecider

\* A step of a process outside its deciding transaction that leaves the row's
\* holder and epoch, the lock, the decisions and the owners alone.
LEMMA LoopStep ==
    ASSUME LeaderInv, NEW p \in Processes, lock # p,
           NEW l \in Loops, proc' = [proc EXCEPT ![p] = l],
           row' \in Rows, row'.holder = row.holder, row'.epoch = row.epoch,
           renewer' \in [Processes -> BOOLEAN],
           stray' \in [Processes -> SUBSET (0..MaxEpoch)],
           UNCHANGED <<lock, world, decided, owner>>
    PROVE  LeaderInv'
<1>1. proc \in [Processes -> Loops]
  BY DEF LeaderInv, LeaderTypeOK, Loops
<1>2. proc' \in [Processes -> Loops]
  BY <1>1
<1>3. LeaderTypeOK'
  BY <1>2 DEF LeaderInv, LeaderTypeOK, Rows, Loops
<1>4. LockedRow'
  BY <1>1, LeaderAssumption DEF LeaderInv, LeaderTypeOK, LockedRow
<1> QED
  BY <1>3, <1>4 DEF LeaderInv, OneDecider

\* The fields of a loop record may be replaced one by one.
LEMMA LoopFields ==
    ASSUME LeaderInv, NEW p \in Processes
    PROVE  /\ proc \in [Processes -> Loops]
           /\ \A f \in Phases : [proc[p] EXCEPT !.phase = f] \in Loops
           /\ \A f \in Phases, b \in BOOLEAN :
                 [proc[p] EXCEPT !.phase = f, !.lost = b] \in Loops
           /\ \A b \in BOOLEAN : [proc[p] EXCEPT !.lost = b] \in Loops
           /\ \A e \in 0..MaxEpoch :
                 [proc[p] EXCEPT !.phase = "LEADING", !.epoch = e, !.lost = FALSE] \in Loops
           /\ \A d \in Decisions \cup {Maintenance} :
                 [proc[p] EXCEPT !.phase = "PROPOSED", !.proposal = d] \in Loops
<1>1. proc \in [Processes -> Loops]
  BY DEF LeaderInv, LeaderTypeOK, Loops
<1>2. proc[p] \in Loops
  BY <1>1
<1> QED
  BY <1>1, <1>2, Zenon DEF Loops, Phases

\* Taking or resuming leadership.
LEMMA AcquireStep ==
    ASSUME LeaderInv, NEW p \in Processes, Acquire(p) PROVE LeaderInv'
<1>1. /\ proc[p].phase = "IDLE" /\ lock = Nobody /\ p # Nobody
      /\ UNCHANGED <<lock, stray, world, decided>>
  BY LeaderAssumption DEF Acquire
<1>2. /\ row \in Rows /\ renewer \in [Processes -> BOOLEAN]
      /\ stray \in [Processes -> SUBSET (0..MaxEpoch)]
  BY DEF LeaderInv, LeaderTypeOK, Rows
<1>3. CASE row.left > 0 /\ row.holder = p /\ Lead(p, row.epoch) /\ UNCHANGED <<row, owner>>
  <2> DEFINE l == [proc[p] EXCEPT !.phase = "LEADING", !.epoch = row.epoch, !.lost = FALSE]
  <2>1. row.epoch \in 0..MaxEpoch
    BY <1>2 DEF Rows
  <2>2. l \in Loops
    BY <2>1, LoopFields, Zenon
  <2>3. proc' = [proc EXCEPT ![p] = l] /\ renewer' \in [Processes -> BOOLEAN]
    BY <1>2, <1>3 DEF Lead
  <2> HIDE DEF l
  <2> QED
    BY <1>1, <1>2, <1>3, <2>2, <2>3, LoopStep, Zenon
<1>4. CASE /\ row.left = 0 /\ row.epoch < MaxEpoch
           /\ row' = [holder |-> p, epoch |-> row.epoch + 1, left |-> Lease]
           /\ owner' = [owner EXCEPT ![row.epoch + 1] = p]
           /\ Lead(p, row.epoch + 1)
  <2> DEFINE l == [proc[p] EXCEPT !.phase = "LEADING", !.epoch = row.epoch + 1, !.lost = FALSE]
  <2>1. row.epoch \in Nat /\ row.epoch + 1 \in 0..MaxEpoch /\ MaxEpoch \in Nat
    BY <1>2, <1>4, LeaderAssumption DEF Rows
  <2>2. l \in Loops /\ proc \in [Processes -> Loops]
    BY <2>1, LoopFields, Zenon
  <2>3. proc' = [proc EXCEPT ![p] = l] /\ renewer' \in [Processes -> BOOLEAN]
    BY <1>2, <1>4 DEF Lead
  <2> HIDE DEF l
  <2>4. row' \in Rows /\ row'.holder = p /\ row'.epoch = row.epoch + 1
    BY <1>4, <2>1, LeaderAssumption DEF Rows
  <2>5. proc' \in [Processes -> Loops]
    BY <2>2, <2>3
  <2>6. owner \in [0..MaxEpoch -> Processes \cup {Nobody}]
    BY DEF LeaderInv, LeaderTypeOK
  <2>7. owner' \in [0..MaxEpoch -> Processes \cup {Nobody}]
    BY <1>4, <2>6, Zenon
  <2>8. LeaderTypeOK'
    BY <1>1, <1>2, <2>3, <2>4, <2>5, <2>7 DEF LeaderInv, LeaderTypeOK, Rows, Loops
  <2>9. LockedRow'
    BY <1>1 DEF LockedRow
  <2>10. OneDecider'
    <3>1. decided' = decided /\ decided.epoch \in Nat /\ decided.epoch <= row.epoch
             /\ decided.epoch \in 0..MaxEpoch
             /\ (decided.epoch > 0 => decided.by = owner[decided.epoch])
      BY <1>1, LeaderAssumption DEF LeaderInv, LeaderTypeOK, OneDecider
    <3>2. owner'[decided.epoch] = owner[decided.epoch]
      BY <1>4, <2>1, <2>6, <3>1
    <3> QED
      BY <2>1, <2>4, <3>1, <3>2 DEF OneDecider
  <2>11. owner'[row'.epoch] = row'.holder
    BY <1>4, <2>1, <2>4, <2>6
  <2>12. \A e \in 0..MaxEpoch : e > row'.epoch => owner'[e] = Nobody
    BY <1>4, <2>1, <2>4, <2>6 DEF LeaderInv
  <2> QED
    BY <2>8, <2>9, <2>10, <2>11, <2>12 DEF LeaderInv
<1> QED
  BY <1>3, <1>4 DEF Acquire

\* The end of a deciding transaction, committed or not: the lock is released.
LEMMA ReleaseStep ==
    ASSUME LeaderInv, NEW p \in Processes, lock' \in {lock, Nobody}, lock = p => lock' = Nobody,
           NEW l \in Loops, proc' = [proc EXCEPT ![p] = l],
           renewer' \in [Processes -> BOOLEAN],
           stray' \in [Processes -> SUBSET (0..MaxEpoch)],
           world' \in Worlds,
           UNCHANGED <<row, owner>>,
           \/ decided' = decided
           \/ /\ lock = p
              /\ \E d \in Decisions \cup {NoDecision, Maintenance} :
                    decided' = [epoch |-> row.epoch, by |-> p, what |-> d, world |-> world]
    PROVE  LeaderInv'
<1>1. /\ proc \in [Processes -> Loops] /\ row \in Rows /\ world \in Worlds
      /\ lock \in Processes \cup {Nobody} /\ Nobody \notin Processes
      /\ owner[row.epoch] = row.holder
  BY LeaderAssumption DEF LeaderInv, LeaderTypeOK, Loops, Rows
<1>2. proc' \in [Processes -> Loops]
  BY <1>1, Zenon
<1>3. /\ decided' \in [epoch : 0..MaxEpoch, by : Processes \cup {Nobody},
                        what : Decisions \cup {NoDecision, Maintenance}, world : Worlds]
      /\ OneDecider'
  <2>1. CASE decided' = decided
    BY <2>1 DEF LeaderInv, LeaderTypeOK, OneDecider
  <2>2. ASSUME lock = p, NEW d \in Decisions \cup {NoDecision, Maintenance},
               decided' = [epoch |-> row.epoch, by |-> p, what |-> d, world |-> world]
        PROVE  <1>3!:
    <3>1. row.holder = p
      BY <1>1, <2>2 DEF LeaderInv, LockedRow
    <3>2. row.epoch \in 0..MaxEpoch
      BY <1>1, Zenon DEF Rows
    <3>3. decided' \in [epoch : 0..MaxEpoch, by : Processes \cup {Nobody},
                        what : Decisions \cup {NoDecision, Maintenance}, world : Worlds]
      BY <1>1, <2>2, <3>2
    <3>4. decided'.epoch = row.epoch /\ decided'.by = p
      BY <2>2
    <3>5. OneDecider'
      BY <1>1, <3>1, <3>2, <3>4 DEF OneDecider
    <3> QED
      BY <3>3, <3>5, Zenon
  <2> QED
    BY <2>1, <2>2, Zenon
<1>4. LeaderTypeOK'
  BY <1>1, <1>2, <1>3 DEF LeaderInv, LeaderTypeOK, Rows, Loops
<1>5. LockedRow'
  BY <1>1, <1>2, Zenon DEF LeaderInv, LockedRow
<1> QED
  BY <1>3, <1>4, <1>5 DEF LeaderInv

\* Every step preserves the invariant.
LEMMA NextLeader == LeaderInv /\ [LeaderNext]_leaderVars => LeaderInv'
<1> SUFFICES ASSUME LeaderInv, [LeaderNext]_leaderVars PROVE LeaderInv'
  OBVIOUS
<1>1. /\ row \in Rows /\ renewer \in [Processes -> BOOLEAN]
      /\ stray \in [Processes -> SUBSET (0..MaxEpoch)] /\ world \in Worlds
      /\ proc \in [Processes -> Loops] /\ lock \in Processes \cup {Nobody}
      /\ Nobody \notin Processes /\ Lease \in Nat
  BY LeaderAssumption DEF LeaderInv, LeaderTypeOK, Rows, Loops
<1>2. ASSUME NEW p \in Processes, Acquire(p) PROVE LeaderInv'
  BY <1>2, AcquireStep
<1>3. ASSUME NEW p \in Processes, Propose(p) PROVE LeaderInv'
  <2>1. /\ lock = Nobody /\ UNCHANGED <<row, lock, renewer, stray, world, decided, owner>>
    BY <1>3 DEF Propose
  <2>2. ASSUME NEW d \in {Decide[world], Maintenance} \ {NoDecision},
               proc' = [proc EXCEPT ![p].phase = "PROPOSED", ![p].proposal = d]
        PROVE  LeaderInv'
    <3> DEFINE l == [proc[p] EXCEPT !.phase = "PROPOSED", !.proposal = d]
    <3>1. d \in Decisions \cup {Maintenance}
      BY <1>1, LeaderAssumption
    <3>2. l \in Loops
      BY <3>1, LoopFields, Zenon
    <3>3. proc' = [proc EXCEPT ![p] = l]
      BY <1>1, <2>2, Zenon
    <3> HIDE DEF l
    <3> QED
      BY <1>1, <2>1, <3>2, <3>3, LoopStep, Zenon
  <2>3. CASE proc' = [proc EXCEPT ![p].lost = TRUE]
    <3> DEFINE l == [proc[p] EXCEPT !.lost = TRUE]
    <3>1. l \in Loops
      BY LoopFields, Zenon
    <3>2. proc' = [proc EXCEPT ![p] = l]
      BY <1>1, <2>3
    <3> HIDE DEF l
    <3> QED
      BY <1>1, <2>1, <3>1, <3>2, LoopStep, Zenon
  <2> QED
    BY <1>3, <2>2, <2>3 DEF Propose
<1>4. ASSUME NEW p \in Processes, BeginCommit(p) PROVE LeaderInv'
  <2>1. lock = Nobody /\ UNCHANGED <<row, renewer, stray, world, decided, owner>>
    BY <1>4 DEF BeginCommit
  <2>2. CASE /\ Leader(p, proc[p].epoch) /\ lock' = p
             /\ proc' = [proc EXCEPT ![p].phase = "COMMITTING"]
    <3> DEFINE l == [proc[p] EXCEPT !.phase = "COMMITTING"]
    <3>type. l \in Loops
      BY LoopFields, Zenon DEF Phases
    <3>fields. l.phase = "COMMITTING" /\ l.epoch = proc[p].epoch
      BY <1>1 DEF Loops
    <3>1. l \in Loops /\ l.phase = "COMMITTING" /\ l.epoch = proc[p].epoch
      BY <3>type, <3>fields
    <3>2. proc' = [proc EXCEPT ![p] = l]
      BY <1>1, <2>2
    <3> HIDE DEF l
    <3>3. proc' \in [Processes -> Loops] /\ proc'[p] = l
      BY <1>1, <3>1, <3>2
    <3>4. LeaderTypeOK'
      BY <1>1, <2>1, <2>2, <3>3 DEF LeaderInv, LeaderTypeOK, Loops
    <3>5. LockedRow'
      BY <2>1, <2>2, <3>1, <3>3 DEF LockedRow, Leader
    <3> QED
      BY <2>1, <3>4, <3>5 DEF LeaderInv, OneDecider
  <2>3. CASE /\ proc' = [proc EXCEPT ![p].phase = "LEADING", ![p].lost = TRUE]
             /\ UNCHANGED lock
    <3> DEFINE l == [proc[p] EXCEPT !.phase = "LEADING", !.lost = TRUE]
    <3>1. l \in Loops
      BY LoopFields, Zenon DEF Phases
    <3>2. proc' = [proc EXCEPT ![p] = l]
      BY <1>1, <2>3, Zenon
    <3> HIDE DEF l
    <3> QED
      BY <1>1, <2>1, <2>3, <3>1, <3>2, LoopStep, Zenon
  <2> QED
    BY <1>4, <2>2, <2>3 DEF BeginCommit
<1>5. ASSUME NEW p \in Processes, FinishCommit(p) PROVE LeaderInv'
  <2>1. /\ lock = p /\ lock' = Nobody /\ UNCHANGED <<row, renewer, stray, owner>>
        /\ p # Nobody
    BY <1>1, <1>5 DEF FinishCommit
  <2>2. proc[p].epoch = row.epoch /\ proc[p].proposal \in Decisions \cup {NoDecision, Maintenance}
    BY <1>1, <2>1 DEF LeaderInv, LockedRow, Loops
  <2>3. world' \in Worlds
    BY <1>1, <1>5 DEF FinishCommit
  <2>4. \/ decided' = decided
        \/ \E d \in Decisions \cup {NoDecision, Maintenance} :
              decided' = [epoch |-> row.epoch, by |-> p, what |-> d, world |-> world]
    BY <1>5, <2>2 DEF FinishCommit
  <2>5. PICK l \in Loops : proc' = [proc EXCEPT ![p] = l]
    <3> DEFINE k == [proc[p] EXCEPT !.phase = "LEADING"]
               n == [proc[p] EXCEPT !.phase = "LEADING", !.lost = TRUE]
    <3>1. k \in Loops /\ n \in Loops
      BY LoopFields, Zenon DEF Phases
    <3>2. proc' = [proc EXCEPT ![p] = k] \/ proc' = [proc EXCEPT ![p] = n]
      BY <1>1, <1>5 DEF FinishCommit
    <3> HIDE DEF k, n
    <3> QED
      BY <3>1, <3>2
  <2> QED
    BY <1>1, <2>1, <2>3, <2>4, <2>5, ReleaseStep, Zenon
<1>6. ASSUME NEW p \in Processes, Leave(p) PROVE LeaderInv'
  <2> DEFINE l == [proc[p] EXCEPT !.phase = "IDLE"]
  <2>1. l \in Loops
    BY LoopFields, Zenon DEF Phases
  <2>2. proc' = [proc EXCEPT ![p] = l] /\ renewer' \in [Processes -> BOOLEAN]
           /\ UNCHANGED <<row, lock, world, decided, owner>>
    BY <1>1, <1>6 DEF Leave
  <2>3. lock # p
    BY <1>1, <1>6 DEF Leave, LeaderInv, LockedRow
  <2>4. stray' \in [Processes -> SUBSET (0..MaxEpoch)]
    <3>1. proc[p].epoch \in 0..MaxEpoch
      BY <1>1 DEF Loops
    <3> QED
      BY <1>1, <1>6, <3>1 DEF Leave
  <2> HIDE DEF l
  <2> QED
    BY <1>1, <2>1, <2>2, <2>3, <2>4, LoopStep, Zenon
<1>7. ASSUME NEW p \in Processes, Renew(p) PROVE LeaderInv'
  <2>1. lock = Nobody /\ UNCHANGED <<lock, stray, world, decided, owner>>
    BY <1>7 DEF Renew
  <2>2. CASE row' = [row EXCEPT !.left = Lease] /\ UNCHANGED <<proc, renewer>>
    <3>1. row' \in Rows /\ row'.holder = row.holder /\ row'.epoch = row.epoch
      BY <1>1, <2>2 DEF Rows
    <3> QED
      BY <1>1, <2>1, <2>2, <3>1 DEF LeaderInv, LeaderTypeOK, LockedRow, OneDecider, Rows
  <2>3. CASE /\ renewer' = [renewer EXCEPT ![p] = FALSE]
             /\ proc' = [proc EXCEPT ![p].lost = TRUE] /\ UNCHANGED row
    <3> DEFINE l == [proc[p] EXCEPT !.lost = TRUE]
    <3>1. l \in Loops
      BY LoopFields, Zenon
    <3>2. proc' = [proc EXCEPT ![p] = l] /\ renewer' \in [Processes -> BOOLEAN]
      BY <1>1, <2>3
    <3> HIDE DEF l
    <3> QED
      BY <1>1, <2>1, <2>3, <3>1, <3>2, LoopStep, Zenon
  <2> QED
    BY <1>7, <2>2, <2>3 DEF Renew
<1>8. ASSUME NEW p \in Processes, NEW e \in stray[p], StrayRenew(p, e) PROVE LeaderInv'
  <2>1. /\ lock = Nobody /\ UNCHANGED <<lock, proc, renewer, world, decided, owner>>
        /\ stray' \in [Processes -> SUBSET (0..MaxEpoch)]
    BY <1>1, <1>8 DEF StrayRenew
  <2>2. row' \in Rows /\ row'.holder = row.holder /\ row'.epoch = row.epoch
    BY <1>1, <1>8 DEF StrayRenew, Rows
  <2> QED
    BY <1>1, <2>1, <2>2 DEF LeaderInv, LeaderTypeOK, LockedRow, OneDecider, Rows
<1>9. ASSUME NEW p \in Processes, Fail(p) PROVE LeaderInv'
  <2> DEFINE l == [proc[p] EXCEPT !.lost = TRUE]
  <2>0. proc[p] \in Loops
    BY <1>1
  <2>1. l \in Loops /\ l.phase = proc[p].phase /\ l.epoch = proc[p].epoch
    BY <2>0, Zenon DEF Loops
  <2>2. proc' = [proc EXCEPT ![p] = l] /\ renewer' \in [Processes -> BOOLEAN]
           /\ UNCHANGED <<row, lock, stray, world, decided, owner>>
    BY <1>1, <1>9, Zenon DEF Fail
  <2> HIDE DEF l
  <2>3. proc' \in [Processes -> Loops]
    BY <1>1, <2>1, <2>2
  <2>4. LeaderTypeOK'
    BY <2>2, <2>3 DEF LeaderInv, LeaderTypeOK, Loops
  <2>5. LockedRow'
    BY <1>1, <2>1, <2>2 DEF LeaderInv, LockedRow
  <2> QED
    BY <2>2, <2>4, <2>5, Zenon DEF LeaderInv, OneDecider
<1>10. ASSUME NEW p \in Processes, FailTick(p) PROVE LeaderInv'
  <2> DEFINE l == [proc[p] EXCEPT !.phase = "LEADING", !.lost = TRUE]
  <2>1. l \in Loops
    BY LoopFields, Zenon DEF Phases
  <2>2. proc' = [proc EXCEPT ![p] = l] /\ lock' = (IF lock = p THEN Nobody ELSE lock)
           /\ UNCHANGED <<row, renewer, stray, world, decided, owner>>
    BY <1>1, <1>10, Zenon DEF FailTick
  <2> HIDE DEF l
  <2> QED
    BY <1>1, <2>1, <2>2, ReleaseStep, Zenon
<1>11. ASSUME NEW p \in Processes, Crash(p) PROVE LeaderInv'
  <2> DEFINE l == [proc[p] EXCEPT !.phase = "DOWN"]
  <2>1. l \in Loops
    BY LoopFields, Zenon DEF Phases
  <2>2. proc' = [proc EXCEPT ![p] = l] /\ lock' = (IF lock = p THEN Nobody ELSE lock)
           /\ renewer' \in [Processes -> BOOLEAN]
           /\ stray' \in [Processes -> SUBSET (0..MaxEpoch)]
           /\ UNCHANGED <<row, world, decided, owner>>
    BY <1>1, <1>11 DEF Crash
  <2> HIDE DEF l
  <2> QED
    BY <1>1, <2>1, <2>2, ReleaseStep, Zenon
<1>12. CASE LeaseElapse
  <2>1. row' \in Rows /\ row'.holder = row.holder /\ row'.epoch = row.epoch
    BY <1>1, <1>12 DEF LeaseElapse, Rows
  <2> QED
    BY <1>1, <1>12, <2>1 DEF LeaseElapse, LeaderInv, LeaderTypeOK, LockedRow, OneDecider, Rows
<1>13. CASE Change
  BY <1>13 DEF Change, LeaderInv, LeaderTypeOK, LockedRow, OneDecider
<1>14. CASE UNCHANGED leaderVars
  BY <1>14 DEF leaderVars, LeaderInv, LeaderTypeOK, LockedRow, OneDecider
<1> QED
  BY <1>2, <1>3, <1>4, <1>5, <1>6, <1>7, <1>8, <1>9, <1>10, <1>11, <1>12, <1>13, <1>14, Zenon
     DEF LeaderNext, Loop

-----------------------------------------------------------------------------
(* Theorems                                                                *)

\* The row, the lock and the history of epochs agree in every state.
THEOREM LeaderInvariance == LeaderSpec => []LeaderInv
<1>1. LeaderInit => LeaderInv
  BY InitLeader
<1>2. LeaderInv /\ [LeaderNext]_leaderVars => LeaderInv'
  BY NextLeader
<1> QED
  BY <1>1, <1>2, PTL DEF LeaderSpec

\* The epoch of a decision names the one process that could make it (_leader).
THEOREM EpochHasOneDecider == LeaderSpec => []OneDecider
<1>1. LeaderInv => OneDecider
  BY DEF LeaderInv
<1> QED
  BY <1>1, LeaderInvariance, PTL

\* Decisions are ordered by epoch, and an epoch never changes hands (acquire).
THEOREM DecisionsAreOrdered == LeaderSpec => EpochsOrdered
<1> DEFINE Ordered == /\ decided'.epoch >= decided.epoch
                      /\ \A e \in 0..MaxEpoch : owner[e] # Nobody => owner'[e] = owner[e]
<1>1. ASSUME LeaderInv, [LeaderNext]_leaderVars PROVE Ordered
  <2>1. /\ decided.epoch \in 0..MaxEpoch /\ MaxEpoch \in Nat /\ row.epoch \in 0..MaxEpoch
        /\ decided.epoch <= row.epoch
        /\ owner \in [0..MaxEpoch -> Processes \cup {Nobody}]
    BY <1>1, LeaderAssumption DEF LeaderInv, LeaderTypeOK, OneDecider
  <2>2. CASE UNCHANGED <<decided, owner>>
    BY <2>1, <2>2
  <2>3. ASSUME NEW p \in Processes, Acquire(p) PROVE Ordered
    <3>1. decided' = decided
             /\ (owner' = owner
                  \/ (row.epoch < MaxEpoch /\ owner' = [owner EXCEPT ![row.epoch + 1] = p]))
      BY <2>3 DEF Acquire
    <3>2. row.epoch < MaxEpoch => owner[row.epoch + 1] = Nobody
      BY <1>1, <2>1 DEF LeaderInv
    <3> QED
      BY <2>1, <3>1, <3>2
  <2>4. ASSUME NEW p \in Processes, FinishCommit(p) PROVE Ordered
    <3>1. proc[p].epoch = row.epoch
      BY <1>1, <2>4, LeaderAssumption DEF FinishCommit, LeaderInv, LockedRow
    <3>2. owner' = owner /\ (decided' = decided \/ decided'.epoch = proc[p].epoch)
      BY <2>4 DEF FinishCommit
    <3> QED
      BY <2>1, <3>1, <3>2
  <2> QED
    BY <1>1, <2>2, <2>3, <2>4, Zenon DEF LeaderNext, Loop, Propose, BeginCommit, Leave, Renew,
       StrayRenew, Fail, FailTick, Crash, LeaseElapse, Change, leaderVars
<1> QED
  BY <1>1, LeaderInvariance, PTL DEF LeaderSpec, EpochsOrdered

\* What a tick commits is what the policy says about the state it commits to: the
\* proposal of the first transaction is only used while the second one, which
\* reads everything again under the locks, comes to the same (commit_operation).
THEOREM DecisionsAreFresh == LeaderSpec => []FreshDecision
<1>1. LeaderInit => FreshDecision
  BY LeaderAssumption DEF LeaderInit, FreshDecision
<1>2. ASSUME FreshDecision, [LeaderNext]_leaderVars PROVE FreshDecision'
  <2>1. CASE UNCHANGED decided
    BY <1>2, <2>1 DEF FreshDecision
  <2>2. ASSUME NEW p \in Processes, FinishCommit(p) PROVE FreshDecision'
    <3>1. \/ decided' = decided
          \/ /\ StillRight(p)
             /\ decided' = [epoch |-> proc[p].epoch, by |-> p,
                            what |-> proc[p].proposal, world |-> world]
      BY <2>2 DEF FinishCommit
    <3> QED BY <1>2, <3>1, LeaderAssumption DEF FreshDecision, StillRight
  <2> QED
    BY <1>2, <2>1, <2>2, Zenon DEF LeaderNext, Loop, Acquire, Propose, BeginCommit, Leave, Renew,
       StrayRenew, Fail, FailTick, Crash, LeaseElapse, Change, leaderVars
<1> QED
  BY <1>1, <1>2, PTL DEF LeaderSpec

-----------------------------------------------------------------------------
(* The ledger is exact for any tenants, shapes, inventories and weights *)

\* Adjacent intervals at one rate add up.
LEMMA Adjacent ==
    ASSUME NEW r \in Int, NEW a \in Int, NEW b \in Int, NEW c \in Int
    PROVE  r * (b - a) + r * (c - b) = r * (c - a)
BY SMT

\* A longer interval costs no less.
LEMMA Longer ==
    ASSUME NEW r \in Nat, NEW a \in Int, NEW b \in Int, a <= b
    PROVE  r * a <= r * b
BY SMT

\* The cost of an interval is a natural number.
LEMMA Cost ==
    ASSUME NEW r \in Nat, NEW a \in Int, NEW b \in Int, a <= b
    PROVE  r * (b - a) \in Nat
BY SMT

\* Rates are natural numbers.
LEMMA RateNat ==
    ASSUME NEW h \in [Kinds -> 0..MaxHeld], NEW cap \in Capacities, NEW w \in Weights
    PROVE  Rate(h, cap, w) \in Nat
<1> DEFINE s == DominantShare(h, cap)
<1>1. s \in Nat
  BY ShareAssumption
<1>2. w \in Nat /\ w > 0
  BY LedgerAssumption
<1> HIDE DEF s
<1>3. s \div w \in Nat
  BY <1>1, <1>2
<1> QED
  BY <1>3 DEF Rate, s

-----------------------------------------------------------------------------
\* What tenant t owes at time now, by the definition of the charge.
Exact(t, now) ==
    lift[t] + due[t] + segment[t].rate * (now - segment[t].start)

\* Charging to any boundary past the last one gives the exact score, whether it
\* charges or refunds.
LEMMA ChargedExact ==
    ASSUME LedgerInv, NEW now \in Nat, settled <= now
    PROVE  /\ Charged(now) = [t \in Tenants |-> Exact(t, now)]
           /\ Charged(now) \in [Tenants -> Nat]
<1>1. ASSUME NEW t \in Tenants
      PROVE  /\ score[t] + segment[t].rate * (now - Larger(through[t], segment[t].start))
                   = Exact(t, now)
             /\ Exact(t, now) \in Nat
  <2> DEFINE r == segment[t].rate
             a == segment[t].start
             b == through[t]
  <2>1. /\ r \in Nat /\ a \in Nat /\ b \in Nat
        /\ a <= settled /\ settled <= b
        /\ score[t] \in Nat /\ lift[t] \in Nat /\ due[t] \in Nat /\ settled \in Nat
        /\ score[t] = lift[t] + due[t] + r * (b - a)
    BY DEF LedgerInv, TypeOK, Boundaries, Conservation
  <2>2. Larger(b, a) = b
    BY <2>1 DEF Larger
  <2>3. r * (b - a) + r * (now - b) = r * (now - a)
    BY <2>1, Adjacent
  <2>4. r * (now - a) \in Nat
    BY <2>1, Cost
  <2>5. r * (b - a) \in Nat
    BY <2>1, Cost
  <2>6. r * (now - b) \in Int
    BY <2>1, SMT
  <2> HIDE DEF r, a, b
  <2>7. score[t] + r * (now - b) = lift[t] + due[t] + r * (now - a)
    BY <2>1, <2>3, <2>4, <2>5, <2>6
  <2> QED
    BY <2>1, <2>2, <2>4, <2>7 DEF Exact, r, a, b
<1> QED
  BY <1>1 DEF Charged

\* A tenant with demand is not behind the floor at any boundary past the last.
LEMMA FloorLater ==
    ASSUME LedgerInv, NEW now \in Nat, settled <= now, NEW t \in Tenants, demand[t]
    PROVE  Exact(t, now) >= floor
<1> DEFINE r == segment[t].rate
           a == segment[t].start
<1>1. /\ r \in Nat /\ a \in Nat /\ settled \in Nat /\ floor \in Nat
      /\ lift[t] \in Nat /\ due[t] \in Nat
      /\ lift[t] + due[t] + r * (settled - a) >= floor
      /\ a <= settled
  BY DEF LedgerInv, TypeOK, FloorAtBoundary, Boundaries
<1> HIDE DEF r, a
<1>2. r * (settled - a) <= r * (now - a)
  BY <1>1, Longer
<1>3. r * (settled - a) \in Nat /\ r * (now - a) \in Nat
  BY <1>1, Cost
<1>4. lift[t] + due[t] + r * (now - a) >= floor
  BY <1>1, <1>2, <1>3
<1> QED
  BY <1>4 DEF Exact, r, a

\* Persisting the floor and the demand keeps tenants with demand at the floor.
LEMMA PersistFloor ==
    ASSUME TypeOK, NEW s \in [Tenants -> Nat], NEW D \in SUBSET Tenants,
           \A t \in Tenants : demand[t] => s[t] >= floor,
           Persist(s, D)
    PROVE  /\ score' \in [Tenants -> Nat] /\ lift' \in [Tenants -> Nat]
           /\ demand' \in [Tenants -> BOOLEAN] /\ floor' \in Nat
           /\ \A t \in Tenants : score'[t] = s[t] + (lift'[t] - lift[t])
           /\ \A t \in Tenants : demand'[t] => score'[t] >= floor'
<1> DEFINE L == Lifted(s, D)
<1>1. ASSUME NEW t \in Tenants
      PROVE  L[t] \in Nat /\ L[t] >= s[t] /\ (t \in D => L[t] >= floor)
  BY <1>1 DEF TypeOK, Lifted, Larger
<1>2. L = [t \in Tenants |-> L[t]]
  BY DEF Lifted
<1>3. /\ score' = L
      /\ lift' = [t \in Tenants |-> lift[t] + (L[t] - s[t])]
      /\ demand' = [t \in Tenants |-> t \in D]
      /\ \/ D = {} /\ floor' = floor
         \/ \E d \in D : /\ \A e \in D : L[d] <= L[e]
                         /\ floor' = Larger(floor, L[d])
  BY DEF Persist
<1> HIDE DEF L
<1>4. floor \in Nat /\ lift \in [Tenants -> Nat]
  BY DEF TypeOK
<1>5. \A t \in Tenants : lift[t] + (L[t] - s[t]) \in Nat
  BY <1>1, <1>4
<1>6. floor' \in Nat /\ \A t \in D : L[t] >= floor'
  <2>1. CASE D = {} /\ floor' = floor
    BY <2>1, <1>4
  <2>2. ASSUME NEW d \in D, \A e \in D : L[d] <= L[e], floor' = Larger(floor, L[d])
        PROVE  floor' \in Nat /\ \A t \in D : L[t] >= floor'
    BY <2>2, <1>1, <1>4 DEF Larger
  <2> QED
    BY <1>3, <2>1, <2>2
<1>7. score' \in [Tenants -> Nat] /\ lift' \in [Tenants -> Nat]
  BY <1>1, <1>2, <1>3, <1>5
<1>8. \A t \in Tenants : score'[t] = s[t] + (lift'[t] - lift[t])
  BY <1>1, <1>3, <1>4
<1>9. \A t \in Tenants : demand'[t] => t \in D
  BY <1>3, Zenon
<1>10. demand' \in [Tenants -> BOOLEAN]
  BY <1>3
<1>11. \A t \in Tenants : demand'[t] => score'[t] >= floor'
  BY <1>3, <1>6, <1>9
<1> QED
  BY <1>6, <1>7, <1>8, <1>11, <1>10

\* Leaving floor and demand alone keeps them too.
LEMMA KeepFloor ==
    ASSUME TypeOK, NEW s \in [Tenants -> Nat],
           \A t \in Tenants : demand[t] => s[t] >= floor,
           KeepFairness(s)
    PROVE  /\ score' \in [Tenants -> Nat] /\ lift' \in [Tenants -> Nat]
           /\ demand' \in [Tenants -> BOOLEAN] /\ floor' \in Nat
           /\ \A t \in Tenants : score'[t] = s[t] + (lift'[t] - lift[t])
           /\ \A t \in Tenants : demand'[t] => score'[t] >= floor'
BY DEF TypeOK, KeepFairness

-----------------------------------------------------------------------------
(* Steps                                                                   *)

\* A transaction that charges exactly through now and either leaves the open
\* segments and the holdings alone or rebases preserves the invariant.
LEMMA SettleInv ==
    ASSUME LedgerInv, NEW now \in Nat, settled <= now, now <= clock,
           clock' = clock, tx' = None, settled' = now,
           through' = [t \in Tenants |-> now],
           mode' \in {"NORMAL", "ADMISSION_OFF", "WRITE_FROZEN"},
           held' \in [Tenants -> [Kinds -> 0..MaxHeld]],
           capacity' \in Capacities, weight' \in [Tenants -> Weights],
           score' \in [Tenants -> Nat], lift' \in [Tenants -> Nat],
           demand' \in [Tenants -> BOOLEAN], floor' \in Nat,
           \A t \in Tenants : score'[t] = Exact(t, now) + (lift'[t] - lift[t]),
           \A t \in Tenants : demand'[t] => score'[t] >= floor',
           (KeepSegments /\ UNCHANGED holdings) \/ Rebase(now)
    PROVE  LedgerInv'
<1>1. /\ segment' \in [Tenants -> [start : Nat, rate : Nat]]
      /\ due' \in [Tenants -> Nat]
      /\ SegmentsCurrent'
      /\ \A t \in Tenants : segment'[t].start <= now
      /\ \A t \in Tenants :
            score'[t] = lift'[t] + due'[t] + segment'[t].rate * (now - segment'[t].start)
  <2>1. CASE KeepSegments /\ UNCHANGED holdings
    <3>1. segment' = segment /\ due' = due /\ held' = held /\ capacity' = capacity
             /\ weight' = weight
      BY <2>1, Zenon DEF KeepSegments, holdings
    <3>2. SegmentsCurrent'
      BY <3>1 DEF LedgerInv, SegmentsCurrent
    <3>3. segment \in [Tenants -> [start : Nat, rate : Nat]] /\ due \in [Tenants -> Nat]
             /\ lift \in [Tenants -> Nat] /\ settled \in Nat
             /\ \A t \in Tenants : segment[t].start <= settled
      BY DEF LedgerInv, TypeOK, Boundaries
    <3>4. ASSUME NEW t \in Tenants
          PROVE  score'[t] = lift'[t] + due'[t] + segment'[t].rate * (now - segment'[t].start)
      <4> DEFINE c == segment[t].rate * (now - segment[t].start)
      <4>1. c \in Nat
        BY <3>3, Cost
      <4>2. score'[t] = (lift[t] + due[t] + c) + (lift'[t] - lift[t])
        BY DEF Exact
      <4> HIDE DEF c
      <4>3. score'[t] = lift'[t] + due[t] + c
        BY <4>1, <4>2, <3>3
      <4> QED
        BY <4>3, <3>1 DEF c
    <3> QED
      BY <3>1, <3>2, <3>3, <3>4
  <2>2. CASE Rebase(now)
    <3>1. ASSUME NEW t \in Tenants
          PROVE  Rate(held'[t], capacity', weight'[t]) \in Nat
      BY RateNat
    <3>2. /\ segment' = [t \in Tenants |->
                          [start |-> now, rate |-> Rate(held'[t], capacity', weight'[t])]]
          /\ due' = [t \in Tenants |->
                      due[t] + segment[t].rate * (now - segment[t].start)]
      BY <2>2, Zenon DEF Rebase, Opened
    <3>3. segment' \in [Tenants -> [start : Nat, rate : Nat]]
      BY <3>1, <3>2
    <3>4. SegmentsCurrent'
      BY <3>2 DEF SegmentsCurrent
    <3>5. segment \in [Tenants -> [start : Nat, rate : Nat]] /\ due \in [Tenants -> Nat]
             /\ lift \in [Tenants -> Nat] /\ settled \in Nat
             /\ \A t \in Tenants : segment[t].start <= settled
      BY DEF LedgerInv, TypeOK, Boundaries
    <3>6. ASSUME NEW t \in Tenants
          PROVE  /\ due'[t] \in Nat
                 /\ score'[t] = lift'[t] + due'[t] + segment'[t].rate * (now - segment'[t].start)
      <4> DEFINE c == segment[t].rate * (now - segment[t].start)
                 r == Rate(held'[t], capacity', weight'[t])
      <4>1. c \in Nat
        BY <3>5, Cost
      <4>2. score'[t] = (lift[t] + due[t] + c) + (lift'[t] - lift[t])
        BY DEF Exact
      <4>3. due'[t] = due[t] + c /\ segment'[t].start = now /\ segment'[t].rate = r
        BY <3>2
      <4>4. r \in Nat
        BY <3>1
      <4> HIDE DEF c, r
      <4>5. r * (now - now) = 0
        BY <4>4
      <4>6. score'[t] = lift'[t] + due'[t] + r * (now - now) /\ due'[t] \in Nat
        BY <4>1, <4>2, <4>3, <4>5, <3>5
      <4> QED
        BY <4>3, <4>6
    <3>7. due' \in [Tenants -> Nat]
      BY <3>2, <3>6
    <3>8. \A t \in Tenants : segment'[t].start <= now
      BY <3>2
    <3> QED
      BY <3>3, <3>4, <3>6, <3>7, <3>8
  <2> QED
    BY <2>1, <2>2
<1>2. TypeOK'
  BY <1>1 DEF LedgerInv, TypeOK, None
<1>3. Boundaries'
  BY <1>1 DEF LedgerInv, TypeOK, Boundaries
<1>4. Conservation'
  BY <1>1 DEF Conservation
<1>5. FloorAtBoundary'
  <2> SUFFICES ASSUME NEW t \in Tenants, demand'[t]
               PROVE  lift'[t] + due'[t] + segment'[t].rate * (settled' - segment'[t].start) >= floor'
    BY DEF FloorAtBoundary
  <2>1. score'[t] >= floor'
    OBVIOUS
  <2> QED
    BY <1>1, <2>1
<1> QED
  BY <1>1, <1>2, <1>3, <1>4, <1>5 DEF LedgerInv

\* The initial ledger is exact: nothing is held and nothing is charged.
LEMMA InitLedger == Init => LedgerInv
<1> SUFFICES ASSUME Init PROVE LedgerInv
  OBVIOUS
<1>1. TypeOK
  <2>1. 0 \in 0..MaxClock /\ 0 \in 0..MaxHeld
    BY LedgerAssumption
  <2>2. /\ held \in [Tenants -> [Kinds -> 0..MaxHeld]] /\ score \in [Tenants -> Nat]
        /\ through \in [Tenants -> Nat] /\ demand \in [Tenants -> BOOLEAN]
    BY <2>1 DEF Init
  <2>3. /\ segment \in [Tenants -> [start : Nat, rate : Nat]]
        /\ due \in [Tenants -> Nat] /\ lift \in [Tenants -> Nat]
    BY DEF Init
  <2>4. tx \in [kind : TxKinds \cup {"NONE"}, now : Nat]
    BY DEF Init, None
  <2>5. /\ clock \in 0..MaxClock /\ mode \in {"NORMAL", "ADMISSION_OFF", "WRITE_FROZEN"}
        /\ capacity \in Capacities /\ weight \in [Tenants -> Weights]
        /\ floor \in Nat /\ settled \in Nat
    BY <2>1 DEF Init
  <2> QED
    BY <2>2, <2>3, <2>4, <2>5, Zenon DEF TypeOK
<1>2. Boundaries /\ Conservation /\ FloorAtBoundary
  BY DEF Init, Boundaries, Conservation, FloorAtBoundary, None
<1>3. SegmentsCurrent
  BY DEF Init, SegmentsCurrent, Rate, Holds
<1> QED
  BY <1>1, <1>2, <1>3 DEF LedgerInv

\* The boundary a policy-locked transaction uses lies between the last one and
\* DB time.
LEMMA TxBoundary ==
    ASSUME LedgerInv, NEW kind \in TxKinds, tx.kind = kind
    PROVE  tx.now \in Nat /\ settled <= tx.now /\ tx.now <= clock
BY DEF LedgerInv, TypeOK, Boundaries, None, TxKinds

\* A step that settles, given how it leaves fairness, holdings and segments.
LEMMA CommitInv ==
    ASSUME LedgerInv, NEW now \in Nat, settled <= now, now <= clock, NEW kind,
           Settle(kind, now),
           KeepFairness(Charged(now)) \/ \E D \in SUBSET Tenants : Persist(Charged(now), D),
           mode' \in {"NORMAL", "ADMISSION_OFF", "WRITE_FROZEN"},
           held' \in [Tenants -> [Kinds -> 0..MaxHeld]],
           capacity' \in Capacities, weight' \in [Tenants -> Weights],
           (KeepSegments /\ UNCHANGED holdings) \/ Rebase(now)
    PROVE  LedgerInv'
<1> DEFINE s == Charged(now)
<1>1. s \in [Tenants -> Nat] /\ \A t \in Tenants : s[t] = Exact(t, now)
  BY ChargedExact
<1>2. \A t \in Tenants : demand[t] => s[t] >= floor
  BY <1>1, FloorLater
<1>3. TypeOK
  BY Zenon DEF LedgerInv
<1>4. /\ score' \in [Tenants -> Nat] /\ lift' \in [Tenants -> Nat]
      /\ demand' \in [Tenants -> BOOLEAN] /\ floor' \in Nat
      /\ \A t \in Tenants : score'[t] = s[t] + (lift'[t] - lift[t])
      /\ \A t \in Tenants : demand'[t] => score'[t] >= floor'
  <2> HIDE DEF s
  <2>1. CASE KeepFairness(s)
    BY <1>1, <1>2, <1>3, <2>1, KeepFloor, Zenon
  <2>2. ASSUME NEW D \in SUBSET Tenants, Persist(s, D)
        PROVE  <1>4!:
    BY <1>1, <1>2, <1>3, <2>2, PersistFloor, Zenon
  <2> QED
    BY <2>1, <2>2, Zenon DEF s
<1>5. /\ clock' = clock /\ tx' = None /\ settled' = now
      /\ through' = [t \in Tenants |-> now]
  BY DEF Settle, Charge
<1>6. \A t \in Tenants : score'[t] = Exact(t, now) + (lift'[t] - lift[t])
  BY <1>1, <1>4
<1> HIDE DEF s
<1> QED
  BY <1>4, <1>5, <1>6, SettleInv, Zenon

\* The coordinator's heartbeat moves the ledgers past the last boundary.
LEMMA AccountInv == ASSUME LedgerInv, Account PROVE LedgerInv'
<1>1. clock \in Nat /\ settled <= clock
  BY DEF LedgerInv, TypeOK, Boundaries
<1>2. /\ Charged(clock) = [t \in Tenants |-> Exact(t, clock)]
      /\ Charged(clock) \in [Tenants -> Nat]
  BY <1>1, ChargedExact
<1>3. /\ clock' = clock /\ mode' = mode /\ held' = held /\ capacity' = capacity
      /\ weight' = weight /\ tx' = tx /\ settled' = settled /\ segment' = segment
      /\ due' = due /\ lift' = lift /\ demand' = demand /\ floor' = floor
      /\ score' = Charged(clock) /\ through' = [t \in Tenants |-> clock]
  BY DEF Account, Charge, KeepFairness, KeepSegments, holdings
<1>4. TypeOK'
  BY <1>1, <1>2, <1>3 DEF LedgerInv, TypeOK
<1>5. Boundaries'
  BY <1>1, <1>3 DEF LedgerInv, TypeOK, Boundaries
<1>6. Conservation'
  BY <1>2, <1>3 DEF Conservation, Exact
<1>7. SegmentsCurrent' /\ FloorAtBoundary'
  BY <1>3 DEF LedgerInv, SegmentsCurrent, FloorAtBoundary
<1> QED
  BY <1>4, <1>5, <1>6, <1>7 DEF LedgerInv

\* Steps that leave the ledger and the holdings alone.
LEMMA QuietInv ==
    ASSUME LedgerInv, UNCHANGED <<holdings, ledger>>,
           clock' \in 0..MaxClock, clock' >= clock,
           mode' \in {"NORMAL", "ADMISSION_OFF", "WRITE_FROZEN"},
           tx' \in [kind : TxKinds \cup {"NONE"}, now : Nat],
           tx' = tx \/ tx' = None \/ tx'.now = clock'
    PROVE  LedgerInv'
<1>1. /\ held' = held /\ capacity' = capacity /\ weight' = weight /\ score' = score
      /\ through' = through /\ demand' = demand /\ floor' = floor
      /\ segment' = segment /\ due' = due /\ lift' = lift /\ settled' = settled
  BY DEF holdings, ledger
<1>2. TypeOK'
  BY <1>1 DEF LedgerInv, TypeOK
<1>3. clock \in Nat /\ clock' \in Nat
  BY LedgerAssumption DEF LedgerInv, TypeOK
<1>4. Boundaries'
  BY <1>1, <1>3 DEF LedgerInv, TypeOK, Boundaries
<1>5. Conservation' /\ SegmentsCurrent' /\ FloorAtBoundary'
  BY <1>1 DEF LedgerInv, Conservation, SegmentsCurrent, FloorAtBoundary
<1> QED
  BY <1>2, <1>4, <1>5 DEF LedgerInv

\* Every step preserves the invariant.
LEMMA NextLedger == LedgerInv /\ [Next]_vars => LedgerInv'
<1> SUFFICES ASSUME LedgerInv, [Next]_vars PROVE LedgerInv'
  OBVIOUS
<1>1. /\ clock \in 0..MaxClock /\ clock \in Nat /\ MaxClock \in Nat
      /\ mode \in {"NORMAL", "ADMISSION_OFF", "WRITE_FROZEN"}
      /\ held \in [Tenants -> [Kinds -> 0..MaxHeld]] /\ MaxHeld \in Nat
      /\ capacity \in Capacities /\ weight \in [Tenants -> Weights]
      /\ tx \in [kind : TxKinds \cup {"NONE"}, now : Nat]
      /\ settled <= clock
  BY LedgerAssumption DEF LedgerInv, TypeOK, Boundaries
<1>2. None \in [kind : TxKinds \cup {"NONE"}, now : Nat]
  BY DEF None
<1>3. CASE Elapse
  BY <1>1, <1>3, QuietInv DEF Elapse
<1>4. CASE Account
  BY <1>4, AccountInv
<1>5. ASSUME NEW kind \in TxKinds, Lock(kind) PROVE LedgerInv'
  <2>1. tx' = [kind |-> kind, now |-> clock]
    BY <1>5 DEF Lock
  <2>2. tx' \in [kind : TxKinds \cup {"NONE"}, now : Nat] /\ tx'.now = clock
    BY <1>1, <2>1
  <2>3. clock' = clock /\ mode' = mode /\ UNCHANGED <<holdings, ledger>>
    BY <1>5 DEF Lock
  <2> QED
    BY <1>1, <2>2, <2>3, QuietInv
<1>6. CASE Unlock
  BY <1>1, <1>2, <1>6, QuietInv DEF Unlock
<1>7. ASSUME NEW D \in SUBSET Tenants, SnapshotTick(D) PROVE LedgerInv'
  BY <1>1, <1>7, CommitInv DEF SnapshotTick, holdings
<1>8. ASSUME NEW D \in SUBSET Tenants, CommitReservation(D) PROVE LedgerInv'
  <2>1. tx.now \in Nat /\ settled <= tx.now /\ tx.now <= clock
    BY <1>8, TxBoundary DEF CommitReservation, Settle, TxKinds
  <2> QED
    BY <1>1, <1>8, <2>1, CommitInv DEF CommitReservation, holdings
<1>9. ASSUME NEW D \in SUBSET Tenants, NEW t \in Tenants, NEW k \in Kinds,
             CommitDispatch(t, k, D)
      PROVE  LedgerInv'
  <2>1. tx.now \in Nat /\ settled <= tx.now /\ tx.now <= clock
    BY <1>9, TxBoundary, Zenon DEF CommitDispatch, Settle, TxKinds
  <2>2. held' \in [Tenants -> [Kinds -> 0..MaxHeld]]
    <3>1. held[t][k] < MaxHeld /\ held' = [held EXCEPT ![t][k] = @ + 1]
      BY <1>9, Zenon DEF CommitDispatch
    <3>2. held \in [Tenants -> [Kinds -> 0..MaxHeld]] /\ MaxHeld \in Nat
      BY <1>1, LedgerAssumption, Zenon
    <3>3. held[t][k] + 1 \in 0..MaxHeld
      BY <3>1, <3>2
    <3> QED
      BY <3>1, <3>2, <3>3
  <2> QED
    BY <1>1, <1>9, <2>1, <2>2, CommitInv, Zenon DEF CommitDispatch
<1>10. ASSUME NEW t \in Tenants, NEW k \in Kinds, CommitCleanup(t, k) PROVE LedgerInv'
  <2>1. tx.now \in Nat /\ settled <= tx.now /\ tx.now <= clock
    BY <1>10, TxBoundary, Zenon DEF CommitCleanup, Settle, TxKinds
  <2>2. held' \in [Tenants -> [Kinds -> 0..MaxHeld]]
    <3>1. held[t][k] > 0 /\ held' = [held EXCEPT ![t][k] = @ - 1]
      BY <1>10, Zenon DEF CommitCleanup
    <3>2. held \in [Tenants -> [Kinds -> 0..MaxHeld]] /\ MaxHeld \in Nat
      BY <1>1, LedgerAssumption, Zenon
    <3>3. held[t][k] - 1 \in 0..MaxHeld
      BY <3>1, <3>2
    <3> QED
      BY <3>1, <3>2, <3>3
  <2> QED
    BY <1>1, <1>10, <2>1, <2>2, CommitInv DEF CommitCleanup
<1>11. ASSUME NEW cap \in Capacities, CommitInventory(cap) PROVE LedgerInv'
  <2>1. tx.now \in Nat /\ settled <= tx.now /\ tx.now <= clock
    BY <1>11, TxBoundary DEF CommitInventory, Settle, TxKinds
  <2> QED
    BY <1>1, <1>11, <2>1, CommitInv DEF CommitInventory
<1>12. ASSUME NEW t \in Tenants, NEW w \in Weights, CommitWeight(t, w) PROVE LedgerInv'
  <2>1. tx.now \in Nat /\ settled <= tx.now /\ tx.now <= clock
    BY <1>12, TxBoundary DEF CommitWeight, Settle, TxKinds
  <2>2. weight' \in [Tenants -> Weights]
    BY <1>1, <1>12 DEF CommitWeight
  <2> QED
    BY <1>1, <1>12, <2>1, <2>2, CommitInv DEF CommitWeight
<1>13. CASE CommitFreeze
  <2>1. tx.now \in Nat /\ settled <= tx.now /\ tx.now <= clock
    BY <1>13, TxBoundary DEF CommitFreeze, Settle, TxKinds
  <2> QED
    BY <1>1, <1>13, <2>1, CommitInv DEF CommitFreeze, holdings
<1>14. ASSUME NEW m \in {"NORMAL", "ADMISSION_OFF"}, CommitMode(m) PROVE LedgerInv'
  BY <1>1, <1>2, <1>14, QuietInv DEF CommitMode
<1>15. CASE UNCHANGED vars
  BY <1>1, <1>15, QuietInv DEF vars
<1> QED
  BY <1>3, <1>4, <1>5, <1>6, <1>7, <1>8, <1>9, <1>10, <1>11, <1>12, <1>13, <1>14,
     <1>15 DEF Next, Commit

-----------------------------------------------------------------------------
(* Theorems                                                                *)

\* The ledger invariant holds for any tenants, shapes, inventories and weights.
THEOREM LedgerInvariance == Spec => []LedgerInv
<1>1. Init => LedgerInv
  BY InitLedger
<1>2. LedgerInv /\ [Next]_vars => LedgerInv'
  BY NextLedger
<1> QED
  BY <1>1, <1>2, PTL DEF Spec

\* Every interval of every tenant is charged exactly once, at the committed
\* share and weight, whatever heartbeats and refunds happen (charge_locked).
THEOREM ExactCharges == Spec => []BooksExact
<1>1. LedgerInv => BooksExact
  BY DEF LedgerInv, BooksExact
<1> QED
  BY <1>1, LedgerInvariance, PTL

\* No policy-locked transaction is ever refused by charge_locked.
THEOREM NeverRegresses == Spec => []ChargeAccepted
<1>1. LedgerInv => ChargeAccepted
  BY DEF LedgerInv, TypeOK, Boundaries, ChargeAccepted, Accepted, None
<1> QED
  BY <1>1, LedgerInvariance, PTL

\* A tenant with demand is never behind the virtual floor
\* (persist_fairness_locked).
THEOREM FloorHolds == Spec => []FloorRespected
<1>1. ASSUME LedgerInv, NEW t \in Tenants, demand[t] PROVE score[t] >= floor
  <2>1. through[t] \in Nat /\ settled <= through[t]
    BY <1>1 DEF LedgerInv, TypeOK, Boundaries
  <2>2. Exact(t, through[t]) >= floor
    BY <1>1, <2>1, FloorLater
  <2>3. score[t] = Exact(t, through[t])
    BY <1>1, Zenon DEF LedgerInv, Conservation, Exact
  <2> QED
    BY <2>2, <2>3, Zenon
<1>2. LedgerInv => FloorRespected
  BY <1>1 DEF FloorRespected
<1> QED
  BY <1>2, LedgerInvariance, PTL

\* Both together: charges are accepted and the floor holds, for any tenants
\* (charge_locked, persist_fairness_locked).
THEOREM LedgerKeepsPromise == Spec => []LedgerPromise
<1> QED
  BY NeverRegresses, FloorHolds, PTL DEF LedgerPromise

-----------------------------------------------------------------------------
(* The freeze                                                              *)

\* While writes are frozen, only a change of the mode can be under way: the other
\* transactions check the mode under the locks that the freeze took (Lock).
FrozenTx == mode = "WRITE_FROZEN" => tx.kind \in {"NONE", "GLOBAL"}

\* A transaction that settles a charge does not leave a frozen mode behind it,
\* unless it is the freeze itself, and then nothing is under way.
LEMMA SettledTx ==
    ASSUME NEW kind, NEW now, Settle(kind, now) PROVE tx'.kind = "NONE" /\ tx.kind = kind
  BY DEF Settle, None

\* The transactions under way while writes are frozen stay these.
LEMMA NextFrozen == FrozenTx /\ [Next]_vars => FrozenTx'
<1> SUFFICES ASSUME FrozenTx, [Next]_vars PROVE FrozenTx'
  OBVIOUS
<1>1. CASE Elapse \/ Account \/ UNCHANGED vars
  BY <1>1 DEF FrozenTx, Elapse, Account, vars
<1>2. ASSUME NEW kind \in TxKinds, Lock(kind) PROVE FrozenTx'
  BY <1>2 DEF FrozenTx, Lock, TxKinds
<1>3. CASE Unlock
  BY <1>3 DEF FrozenTx, Unlock, None
<1>4. CASE Commit
  <2>1. ASSUME NEW kind, NEW now, Settle(kind, now) PROVE FrozenTx'
    BY <2>1, SettledTx DEF FrozenTx
  <2>2. ASSUME NEW m \in {"NORMAL", "ADMISSION_OFF"}, CommitMode(m) PROVE FrozenTx'
    BY <2>2 DEF CommitMode, FrozenTx
  <2>3. CASE \E D \in SUBSET Tenants :
               \/ SnapshotTick(D) \/ CommitReservation(D)
               \/ \E t \in Tenants, k \in Kinds : CommitDispatch(t, k, D)
    BY <2>1, <2>3, Zenon DEF SnapshotTick, CommitReservation, CommitDispatch
  <2>4. CASE \/ \E t \in Tenants, k \in Kinds : CommitCleanup(t, k)
             \/ \E cap \in Capacities : CommitInventory(cap)
             \/ \E t \in Tenants, w \in Weights : CommitWeight(t, w)
             \/ CommitFreeze
    BY <2>1, <2>4, Zenon DEF CommitCleanup, CommitInventory, CommitWeight, CommitFreeze
  <2> QED BY <1>4, <2>2, <2>3, <2>4, Zenon DEF Commit
<1> QED BY <1>1, <1>2, <1>3, <1>4, Zenon DEF Next

\* Between the freeze and the next change of the mode no heartbeat and no
\* transaction moves a score, a boundary or a segment (account, _require_mode).
THEOREM FrozenLedgerHolds == Spec => FrozenLedger
<1> DEFINE Frozen == mode = "WRITE_FROZEN" => UNCHANGED ledger
<1>1. ASSUME FrozenTx, [Next]_vars PROVE Frozen
  <2> SUFFICES ASSUME mode = "WRITE_FROZEN" PROVE UNCHANGED ledger
    OBVIOUS
  <2>1. tx.kind \in {"NONE", "GLOBAL"}
    BY <1>1 DEF FrozenTx
  <2>2. CASE Elapse \/ UNCHANGED vars \/ Unlock \/ (\E kind \in TxKinds : Lock(kind))
    BY <2>2, Zenon DEF Elapse, vars, ledger, Unlock, Lock
  <2>3. CASE Account
    BY <2>3 DEF Account
  <2>4. CASE Commit
    <3>1. ASSUME NEW kind \in {"SNAPSHOT", "COMMIT", "CLEANUP", "HEARTBEAT", "TENANT"}, NEW now
          PROVE  ~Settle(kind, now)
      BY <2>1, SettledTx
    <3>2. ~CommitFreeze
      BY DEF CommitFreeze
    <3>3. \A D \in SUBSET Tenants :
            /\ ~SnapshotTick(D) /\ ~CommitReservation(D)
            /\ \A t \in Tenants, k \in Kinds : ~CommitDispatch(t, k, D)
      BY <3>1 DEF SnapshotTick, CommitReservation, CommitDispatch
    <3>4. /\ \A t \in Tenants, k \in Kinds : ~CommitCleanup(t, k)
          /\ \A cap \in Capacities : ~CommitInventory(cap)
          /\ \A t \in Tenants, w \in Weights : ~CommitWeight(t, w)
      BY <3>1 DEF CommitCleanup, CommitInventory, CommitWeight
    <3>5. PICK m \in {"NORMAL", "ADMISSION_OFF"} : CommitMode(m)
      BY <2>4, <3>2, <3>3, <3>4 DEF Commit
    <3> QED BY <3>5 DEF CommitMode
  <2> QED BY <1>1, <2>2, <2>3, <2>4, Zenon DEF Next
<1>2. Init => FrozenTx
  BY DEF Init, FrozenTx
<1>3. FrozenTx /\ [Next]_vars => FrozenTx'
  BY NextFrozen
<1>4. FrozenTx /\ [Next]_vars => [Frozen]_vars
  BY <1>1
<1> HIDE DEF Frozen
<1>5. Spec => [][Frozen]_vars
  BY <1>2, <1>3, <1>4, PTL DEF Spec
<1> QED
  BY <1>5 DEF FrozenLedger, Frozen
=============================================================================
