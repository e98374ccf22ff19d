----------------------------- MODULE Execution -----------------------------
(***************************************************************************)
(* What the executor promises the server about one attempt, and all the    *)
(* variable exec of JobLifecycle assumes: a container may appear, may run  *)
(* while the attempt is alive, and once the attempt is gone nothing of it  *)
(* runs again.                                                             *)
(***************************************************************************)
VARIABLES phase,    \* NONE, ALIVE or GONE, as in exec of JobLifecycle
          running   \* a container of the attempt runs

vars == <<phase, running>>

Init == phase = "NONE" /\ running = FALSE

\* A container may exist from now on.
Create == phase = "NONE" /\ phase' = "ALIVE" /\ running' = FALSE

\* It starts, or it exits.
Toggle == phase = "ALIVE" /\ running' = ~running /\ UNCHANGED phase

\* It is gone, or was never created, and is never started again.
Retire == phase # "GONE" /\ phase' = "GONE" /\ running' = FALSE

Next == Create \/ Toggle \/ Retire

Spec == Init /\ [][Next]_vars

=============================================================================
