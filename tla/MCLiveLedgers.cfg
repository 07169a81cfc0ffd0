SPECIFICATION Spec
CONSTANTS
  Connections = {c1, c2}
  Transactions = {t1, t2, t3}
  LastLedger = 4
  MaxPending = 2
  MaxSeen = 6
  MaxApart = 1
  Indexed = TRUE
SYMMETRY MCSymmetry
CHECK_DEADLOCK FALSE
INVARIANTS EmittedExact EmittedOnce CompleteIsEmitted
