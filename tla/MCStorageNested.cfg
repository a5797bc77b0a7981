CONSTANTS
  g = g
  a1 = a1
  a2 = a2
  a3 = a3
  b2 = b2
  b3 = b3
  b4 = b4
  c2 = c2
  d3 = d3
  d4 = d4
  e1 = e1
  NoSegment = NoSegment
  Genesis = g
  Block <- NestedBlock
  Prev <- NestedPrev
  Index <- NestedIndex
  NextDifficulty <- NestedNextDifficulty
  Cumulative <- NestedCumulative
  TxsOf <- NestedTxsOf
  Tx = {}
  Spends <- MCNone
  BadBlock = {}
  WeakBlock = {}
  Checkpoint <- MCNone
  MaxStops = 3
SPECIFICATION LifeSpec
INVARIANTS DbIsLinked
PROPERTIES RewindRepairs
