SPECIFICATION Spec
CONSTANTS
  Accounts = {a, p}
  Pools = {p}
  MaxAmount = 1
  Ledgers <- MCThree
  SnapshotAt = 2
  MaxDeltas = 2
  Grouped = TRUE
  Gone = Gone
CHECK_DEADLOCK FALSE
INVARIANT MetricsExact
