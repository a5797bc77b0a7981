SPECIFICATION Spec
CONSTANTS
    g = g  a1 = a1  a2 = a2  a3 = a3  a4 = a4  b2 = b2  b3 = b3  b4 = b4  c3 = c3  d1 = d1
    t = t  u = u  v = v pid = pid  noId = noId
    Blocks <- MCBlocks
    Genesis = g
    Prev <- MCPrev
    TxsOf <- PaidTwice
    OutputsOf <- MCOutputs
    SpendsOf <- MCSpends
    PaymentIdOf <- MCPaymentIds
    NoPaymentId = noId
    Difficulty <- MCDifficulty
    Timestamp <- MCTimestamp
    UnitsCacheSize = 2
    CountWidth = 65536
    MaxSegments = 6
    MaxDatabaseSplits = 3
    GenesisRestart = FALSE
INVARIANT PaymentCountCovers
