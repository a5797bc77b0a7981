CONSTANTS
  g = g
  a1 = a1
  a2 = a2
  a3 = a3
  a4 = a4
  b1 = b1
  b2 = b2
  b3 = b3
  c2 = c2
  c3 = c3
  d2 = d2
  e1 = e1
  f3 = f3
  w2 = w2
  x3 = x3
  t = t
  u = u
  k = k
  NoSegment = NoSegment
  Genesis = g
  Block <- MCBlock
  Prev <- MCPrev
  Index <- MCIndex
  NextDifficulty <- MCNextDifficulty
  Cumulative <- MCCumulative
  Tx <- MCTx
  Spends <- MCSpends
  TxsOf <- MCTxsOf
  BadBlock = {x3}
  WeakBlock = {w2}
  Checkpoint <- MCCheckpoint
SPECIFICATION Spec
INVARIANTS TypeOK TreeShape LeavesCoverTheTree LineageIsPath HeaviestChain NoDoubleSpend
PROPERTIES StorageFollows ImplementsForkChoice
