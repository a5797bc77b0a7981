CONSTANTS
  g = g
  a1 = a1
  a2 = a2
  a3 = a3
  b2 = b2
  b3 = b3
  b4 = b4
  c2 = c2
  d3 = d3
  d4 = d4
  e1 = e1
  NoSegment = NoSegment
  Genesis = g
  Block <- FlatBlock
  Prev <- FlatPrev
  Index <- FlatIndex
  NextDifficulty <- FlatNextDifficulty
  Cumulative <- FlatCumulative
  TxsOf <- FlatTxsOf
  Tx = {}
  Spends <- MCNone
  BadBlock = {}
  WeakBlock = {}
  Checkpoint <- FlatCheckpoint
  MaxStops = 3
SPECIFICATION LifeFairSpec
INVARIANTS LifeTypeOK FileIsMainChain NeverCorrupt
PROPERTIES Recovers
