SPECIFICATION Spec
CONSTANTS
  n1 = n1
  n2 = n2
  host = host
  Requests = {r1, r2}
  Nodes <- MCNodes
  Hosts <- MCHosts
  HostOf <- MCHostOf
  Ledgers = {1}
  MaxOpens = 2
  None = None
CHECK_DEADLOCK FALSE
INVARIANTS OwnAnswer BusyIsWaiting
PROPERTY EverySettled
