SPECIFICATION FairNodeSpec
CONSTANTS
    Bodies <- OwnTxs
    MaxLength = 4
    ConfirmationDepth = 1
    PeerBlocks <- NoPeers
    Saving = FALSE
    BlockNode <- MCBlockNode
    Blocks <- MCBlocks
    RootId <- MCRoot
    NoBlock = NoBlock
    Rank <- MCRank
    PathTo <- MCPathTo
    Users <- MCUsers
    Txs <- MCTxs
    Transaction <- MCTransaction
    GenesisBalance <- MCGenesis
    SignedTxs <- MCSigned
    GarbledTxs <- MCGarbled
    Limits <- MCLimits
    IncomingTxs <- BodyTxs
    MaxTxPool = 3
    MaxTxInOneBlock = 1
    Self = "Me"
PROPERTY TxsMined
