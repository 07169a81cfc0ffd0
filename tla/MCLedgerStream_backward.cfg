CONSTANTS
  Workers = {w1, w2, w3}
  Stride <- MCBackward
  Start = 6
  MaxSize = 1
  Heads = {2}
  Live = {}
  MaxLag = 100
SPECIFICATION StreamSpec
PROPERTIES
  OnceInOrderToTarget
  ReachesTarget
