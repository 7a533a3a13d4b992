SPECIFICATION Spec
CONSTANTS
    BlockNode <- LateForkNodes
    Blocks <- MCBlocks
    RootId = 0
    NoBlock = NoBlock
    Rank <- MCRank
    PathTo <- MCPathTo
    Users <- MCUsers
    Txs <- MCTxs
    Transaction <- MCTransaction
    GenesisBalance <- MCGenesis
    ConfirmationDepth = 2
INVARIANT AddBlockReturns
