SPECIFICATION Spec
CONSTANTS
  first = first
  second = second
  third = third
  r1 = r1
  r2 = r2
  x86 = x86
  arm = arm
  Jobs = {first, second, third}
  FirstJob = first
  Architectures = {x86, arm}
  Requests = {r1, r2}
  Loads <- MCLoads
CHECK_DEADLOCK FALSE
SYMMETRY Symmetry
INVARIANT MarksTrue
PROPERTIES ChunksKept RestoreIsNewest
