SPECIFICATION Spec
CONSTANTS
  Ledgers <- MCLedgers
  FirstHead = 3
  BackfillTo = 1
  Chunks = 2
  Batches = 2
  QueueLimit = 1
  MaxCrashes = 1
  MaxRepeats = 1
  None = None
  TornCreation = FALSE
INVARIANT
  ReprocessingIsSafe
CHECK_DEADLOCK FALSE
