---------------------------- MODULE MCSubmission ----------------------------
EXTENDS Submission, TLC

\* A submission repeated with another body under its key, and the cancel and the
\* manual retry of the job it created.
JobCommands ==
  {[op |-> "submitJob", key |-> <<"k1">>, body |-> 1], [op |-> "submitJob", key |-> <<"k1">>, body |-> 2],
   [op |-> "cancelJob", key |-> <<"k2">>, body |-> 1], [op |-> "retryFailedJob", key |-> <<"k3">>, body |-> 1]}

\* One sweep of one dimension with two values.
SweepCommands == {[op |-> "submitSweep", key |-> <<"k1">>, body |-> <<<<1, 2>>>>]}

MCCommands == {JobCommands, SweepCommands}

\* The threads of the pool are alike.
ThreadSymmetry == Permutations(Threads)

=============================================================================
