SPECIFICATION NodeSpec
CONSTANTS
    Bodies <- TwoTxs
    MaxLength = 4
    ConfirmationDepth = 1
    PeerBlocks <- ForkingPeers
    Saving = TRUE
    BlockNode <- MCBlockNode
    Blocks <- MCBlocks
    RootId <- MCRoot
    NoBlock = NoBlock
    Rank <- MCRank
    PathTo <- MCPathTo
    Users <- MCUsers
    Txs <- MCTxs
    Transaction <- MCTransaction
    GenesisBalance <- MCGenesis
    SignedTxs <- MCSigned
    GarbledTxs <- MCGarbled
    Limits <- MCLimits
    IncomingTxs <- BodyTxsAndWrong
    MaxTxPool = 1
    MaxTxInOneBlock = 1
    Self = "Me"
INVARIANTS NodeTypeOK PoolFollowsChain MinedNeverOrphan ChainSound
PROPERTY RemovedIsFinalized
