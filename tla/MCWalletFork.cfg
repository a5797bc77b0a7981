CONSTANTS
    g = g
    a1 = a1
    a2 = a2
    a3 = a3
    a4 = a4
    b2 = b2
    b3 = b3
    b4 = b4
    c1 = c1
    c2 = c2
    c3 = c3
    c4 = c4
    c5 = c5
    t1 = t1
    t2 = t2
    o1 = o1
    o2 = o2
    o3 = o3
    p1 = p1
    p2 = p2
    NoTx = NoTx
    Genesis = a1
    StartHeight = 1
    KnownSize = 3
    Interval = 2
    BatchSize = 2
    MaxInterruptions = 2
    Blocks = {g, a1, a2, a3, a4, b2, b3, b4}
    Parent <- ForkParent
    HeightOf <- ForkHeight
    Weight <- ForkWeight
    TxsOf <- ForkTxs
    Txs = {c1, c2, c3, c4, c5}
    Outs <- ForkOuts
    Ins <- ForkIns
    UnlockAt <- ForkUnlock
    Own = {}
    Senders = {}
    Faults = {"switch", "noAnswer", "restart", "reset"}
SPECIFICATION ScanFairSpec
INVARIANT WalletTypeOK
INVARIANT NothingLost
INVARIANT InputsExact
PROPERTY SyncSettles
CHECK_DEADLOCK FALSE
