SPECIFICATION FairSpec
CONSTANTS
    Nodes <- PairNodes
    Blocks <- PairBlocks
    Txs = {"t"}
    Parent <- PairParent
    HeightOf <- PairHeight
    Weight <- PairWeight
    TxsOf <- PairTxsOf
    Genesis = "g"
    Refused <- PairNone
    Begin <- PairBegin
    Mines <- PairMines
    Pays <- PairPays
    Dials <- PairDials
    Accepts <- PairAccepts
    SyncCount = 2
    IdsCount = 4
    MaxBreaks = 1
    MaxStrays = 0
INVARIANT ProtocolTypeOK
PROPERTY Converges
PROPERTY SynchronizingEnds
