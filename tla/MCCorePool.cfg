CONSTANTS
  g = g
  a1 = a1
  a2 = a2
  c2 = c2
  b1 = b1
  b2 = b2
  b3 = b3
  t = t
  u = u
  v = v
  f = f
  h = h
  k = k
  m = m
  n = n
  o = o
  NoSegment = NoSegment
  NoBox = NoBox
  Genesis = g
  Block <- MCBlock
  Prev <- MCPrev
  Index <- MCIndex
  NextDifficulty <- MCNextDifficulty
  Cumulative <- MCCumulative
  Tx <- MCTx
  Spends <- MCSpends
  TxsOf <- MCTxsOf
  BadBlock = {}
  WeakBlock = {}
  Checkpoint <- MCCheckpoint
  Needs <- MCNeeds
  Mixin <- MCMixin
  AllowedMixin <- MCAllowedMixin
  ExtraSize <- MCExtraSize
  MaxExtraBlock = 2
  MaxExtraPool = 4
  BoxTime <- MCBoxTime
  Fusion = {f}
  Refused = {}
  LiveTime = 2
  StartTime = 2
  MaxClock = 4
SPECIFICATION FairSpec
INVARIANT PoolTypeOK
INVARIANT PoolStateExact
INVARIANT PoolSpendable
INVARIANT TemplateSpendable
INVARIANT DeletedStayOut
PROPERTY ReorgKeepsTransactions
PROPERTY PoolDrains
