SPECIFICATION Spec
CONSTANTS
  a = a
  t = t
  u = u
  Accounts = {a}
  Tokens = {t, u}
  IssuerOf <- MCIssuerOf
  MPTs = {}
  NoValue = NoValue
  Clients = {c}
  Writes <- MCWrites
  Trades <- MCTrades
  Snapshot = {t}
  Counts = {0, 1}
  MaxChanges = 2
INVARIANTS PropsAreFresh FiguresAreFresh SubscribersKnow
PROPERTIES GoneAreForgotten MarksAreServed
CHECK_DEADLOCK FALSE
