SPECIFICATION Spec
CONSTANTS
  Commands <- MCCommands
  Threads = {t1, t2}
  Retention = 1
  Recheck = 1
  Limit = 2
  Burst = 1
  MaxTime = 3
  MaxSends = 3
  MaxJobs = 3
  MaxChanges = 1
SYMMETRY ThreadSymmetry
PROPERTY SameAnswer
INVARIANT AdmittedOnce
CHECK_DEADLOCK FALSE
