----------------------------- MODULE MCExecutor -----------------------------
(* Two container identities, so that a second container could appear.       *)
EXTENDS Executor

CONSTANTS ca, cb
=============================================================================
