-------------------------- MODULE MCFairnessLedger --------------------------
(* Two tenants, a CPU-bound and a memory-bound job shape.                   *)
EXTENDS FairnessLedger, TLC

CONSTANTS wide, deep

TenantSymmetry == Permutations(Tenants)

MCAxes == {"cpu", "memory"}
MCKinds == {wide, deep}
MCNeed == (wide :> [x \in MCAxes |-> IF x = "cpu" THEN 2 ELSE 1])
          @@ (deep :> [x \in MCAxes |-> IF x = "memory" THEN 2 ELSE 1])

\* The worker may report a smaller host.
MCCapacities == {[x \in MCAxes |-> 4], [x \in MCAxes |-> IF x = "cpu" THEN 2 ELSE 4]}
=============================================================================
