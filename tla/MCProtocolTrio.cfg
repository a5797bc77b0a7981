SPECIFICATION Spec
CONSTANTS
    Nodes <- TrioNodes
    Blocks <- TrioBlocks
    Txs = {"t"}
    Parent <- TrioParent
    HeightOf <- TrioHeight
    Weight <- TrioWeight
    TxsOf <- TrioTxsOf
    Genesis = "g"
    Refused <- TrioRefused
    Begin <- TrioBegin
    Mines <- TrioMines
    Pays <- TrioPays
    Dials <- TrioDials
    Accepts <- TrioAccepts
    SyncCount = 2
    IdsCount = 4
    MaxBreaks = 0
    MaxStrays = 1
CONSTRAINT TrioApart
INVARIANT OneRequestPending
INVARIANT NothingLeftOver
INVARIANT PeersCounted
 
