CONSTANTS
    g = g
    a1 = a1
    a2 = a2
    a3 = a3
    a4 = a4
    b2 = b2
    b3 = b3
    b4 = b4
    c1 = c1
    c2 = c2
    c3 = c3
    c4 = c4
    c5 = c5
    t1 = t1
    t2 = t2
    o1 = o1
    o2 = o2
    o3 = o3
    p1 = p1
    p2 = p2
    NoTx = NoTx
    Genesis = a1
    StartHeight = 1
    KnownSize = 3
    Interval = 2
    BatchSize = 2
    MaxInterruptions = 0
    Blocks = {g, a1, a2, a3, a4}
    Parent <- LineParent
    HeightOf <- LineHeight
    Weight <- LineHeight
    TxsOf <- LineTxs
    Txs = {c1, c2, t1}
    Outs <- LineOuts
    Ins <- LineIns
    UnlockAt <- LineUnlock
    Own = {t1}
    Senders = {s1}
    Faults = {"drop"}
SPECIFICATION Spec
INVARIANT CancelledInputsReturn
