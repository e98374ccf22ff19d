-------------------------- MODULE MCRunnerControl --------------------------
(***************************************************************************)
(* A small instance of RunnerControl: an attempt from its start, under one   *)
(* event, or after two.                                                      *)
(***************************************************************************)
EXTENDS RunnerControl

\* The first deadline was applied, the answer of a renewal was lost, and the worker
\* was restarted before it asked again.
Restarted ==
  /\ runner = [RunnerStart EXCEPT !.state = "RUNNING", !.hist = <<Control("DEADLINE", 1, 0)>>]
  /\ journal = [JournalStart(FALSE) EXCEPT !.last = 1,
                  !.op = [kind |-> "renew", id |-> 2, inc |-> 1, acked |-> FALSE, n |-> 0]]
  /\ server = ServerStart(FALSE)
  /\ agent = [up |-> TRUE, inc |-> 2, adopted |-> FALSE, refused |-> FALSE]
  /\ left = [ops |-> 2, events |-> 0]

MCSpec == (Init \/ Restarted) /\ [][Next]_vars /\ Fairness
=============================================================================
