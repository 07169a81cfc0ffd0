CONSTANTS
  Workers = {w1, w2}
  Stride = 1
  Start = 3
  MaxSize = 2
  Heads <- MCHeads
  Live <- MCLive
  MaxLag = 2
SPECIFICATION StreamSpec
INVARIANTS
  OneFetchPerLedger
  NothingAbandoned
PROPERTIES
  ImplementsFeed
  DeliversAll
