SPECIFICATION Spec
CONSTANTS
  Ledgers <- MCLedgers
  FirstHead = 3
  BackfillTo = 1
  Chunks = 2
  Batches = 2
  QueueLimit = 1
  MaxCrashes = 2
  MaxRepeats = 1
  None = None
  TornCreation = FALSE
INVARIANTS
  AppliedOnce
  AppliedOnCompleteState
  MarkerIsSound
PROPERTIES
  GrowsAtItsEnds
  FullHistory
CHECK_DEADLOCK FALSE
