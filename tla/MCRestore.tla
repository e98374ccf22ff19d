----------------------------- MODULE MCRestore ------------------------------
(* Small instances of Restore: one chunked job whose attempts follow each      *)
(* other on one worker, and a job with two manual retries that share its       *)
(* checkpoint while the worker may be replaced.                                *)
EXTENDS Restore, TLC

ChunkedJob(a) ==
  [chunked |-> TRUE, restartSafe |-> TRUE, steps |-> 3, jobs |-> {FirstJob},
   architectures |-> {a}, attempts |-> 3, checkpoints |-> 2, faults |-> 4]

SharedCheckpoint ==
  [chunked |-> FALSE, restartSafe |-> FALSE, steps |-> 1, jobs |-> Jobs,
   architectures |-> Architectures, attempts |-> 2, checkpoints |-> 2, faults |-> 3]

MCLoads == {ChunkedJob(a) : a \in Architectures} \union {SharedCheckpoint}

Symmetry == Permutations(Jobs \ {FirstJob})
            \union Permutations(Requests)
            \union Permutations(Architectures)
=============================================================================
