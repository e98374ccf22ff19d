---------------------------- MODULE MCLeadership ----------------------------
(* Two states of the queue, one with a job to dispatch.                     *)
EXTENDS Leadership, TLC

CONSTANTS idle, busy, dispatch

MCWorlds == {idle, busy}
MCDecide == (idle :> NoDecision) @@ (busy :> dispatch)
=============================================================================
