SPECIFICATION Spec
CONSTANTS
  Accounts = {a}
  Pools = {}
  MaxAmount = 2
  Ledgers <- MCFour
  SnapshotAt = 3
  MaxDeltas = 2
  Grouped = TRUE
  Gone = Gone
CHECK_DEADLOCK FALSE
INVARIANT BalancesExact
PROPERTY BalancesAreFinal
