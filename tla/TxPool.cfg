SPECIFICATION PoolSpec
CONSTANTS
    BlockNode <- MCBlockNode
    Blocks <- MCBlocks
    RootId = 0
    Rank <- MCRank
    PathTo <- MCPathTo
    Users <- MCUsers
    Txs <- MCTxs
    Transaction <- MCTransaction
    GenesisBalance <- MCGenesis
    ConfirmationDepth = 6
    SignedTxs <- MCSigned
    GarbledTxs <- MCGarbled
    MaxTxPool = 3
    Limits <- MCLimits
CHECK_DEADLOCK FALSE
INVARIANTS PoolTypeOK PoolExact FinalizedRemoved FilterOldestFirst
PROPERTIES TxLifecycleOneWay OrderKept
