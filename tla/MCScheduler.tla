---------------------------- MODULE MCScheduler -----------------------------
(* Two tenants that share a worker of two units.  The first has a small and a *)
(* large job and a window of one, so that it takes cursors to see both.       *)
EXTENDS Scheduler, TLC

MCOwner == [j \in Jobs |-> IF j = "other" THEN 2 ELSE 1]
MCSize == [j \in Jobs |-> IF j = "large" THEN 2 ELSE 1]
MCBasePriority == [j \in Jobs |-> IF j = "small" THEN 1 ELSE 0]
MCRate == [t \in Tenants |-> 1]

\* All three jobs in a quiet system, or two of them and one change.
MCLoads == {[jobs |-> Jobs, changes |-> 0], [jobs |-> {"large", "other"}, changes |-> 1]}
=============================================================================
