SPECIFICATION NodeSpec
CONSTANTS
    Bodies <- TwoTxs
    MaxLength = 3
    ConfirmationDepth = 1
    PeerBlocks <- ForkingPeers
    Saving = FALSE
    BlockNode <- MCBlockNode
    Blocks <- MCBlocks
    RootId <- MCRoot
    NoBlock = NoBlock
    Rank <- MCRank
    PathTo <- MCPathTo
    Users <- MCUsers
    Txs <- MCTxs
    Transaction <- MCTransaction
    GenesisBalance <- MCGenesis
    SignedTxs <- MCSigned
    GarbledTxs <- MCGarbled
    Limits <- MCLimits
    IncomingTxs <- BodyTxs
    MaxTxPool = 3
    MaxTxInOneBlock = 1
    Self = "Me"
INVARIANT NothingMinedTwice
