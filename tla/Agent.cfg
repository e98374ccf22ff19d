SPECIFICATION LiveSpec
CONSTANTS
  Lease = 2
  Margin = 1
  Startup = 1
  MaxTime = 3
  MaxCalls = 7
  MaxCrashes = 1
  MaxLost = 1
INVARIANTS
  HostInHand
  LostStartIsNotRefused
PROPERTY FencedAttemptEnds QuietAfterRelease
CHECK_DEADLOCK FALSE
