SPECIFICATION MCSpec
CONSTANTS
  Batches = 2
  MaxCycles = 1
  DoneExpires = TRUE
  MaxEvents = 1
INVARIANTS JournalInStep CauseNamed
PROPERTY ResultDelivered
