SPECIFICATION MCSpec
CONSTANTS
  j1 = j1
  j2 = j2
  j3 = j3
  j4 = j4
  Jobs = {j1,j2,j3,j4}
  NoJob = NoJob
  MaxAttempts = 2
  Scopes <- MCScopes
  ScopesOf <- MCScopesOf
  OutstandingLimit <- MCLimit
  ActiveLimit <- MCLimit
  Demand <- MCDemand
  Capacity = 1
  RestartSafe = {j1,j2}
  Checkpointable = {j1,j2}
  MaxRetries = 1
  MaxIncarnation = 2
INVARIANTS Inv HostSafe NothingStranded CountersExact CapacityRespected
PROPERTIES OneWinner ControlRespected  
