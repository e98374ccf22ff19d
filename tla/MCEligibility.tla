---------------------------- MODULE MCEligibility ---------------------------
(* A tenant of two users on a worker that changes: a small job and a large    *)
(* job, under policies that block one job by the concurrency, by the quota that *)
(* the other holds, or for good.                                              *)
EXTENDS Eligibility

MCSubmitter == [j \in Jobs |-> IF j = 1 THEN "ann" ELSE "bob"]
MCTemplate == [j \in Jobs |-> "fixed"]
MCSize == [j \in Jobs |-> [r \in Resources |-> j]]

Quota(n) == [r \in Resources |-> n]
Roomy == [limit |-> Quota(3), active |-> 2, userActive |-> 1]
Single == [limit |-> Quota(3), active |-> 1, userActive |-> 1]
Narrow == [limit |-> Quota(2), active |-> 2, userActive |-> 1]
Tiny == [limit |-> Quota(1), active |-> 1, userActive |-> 1]
MCPolicies == {Roomy, Single, Narrow, Tiny}

Big == [arch |-> "amd64", cap |-> Quota(3), runs |-> {"fixed"}]
Small == [arch |-> "amd64", cap |-> Quota(1), runs |-> {"fixed"}]
MCInventories == {Big, Small}
=============================================================================
