SPECIFICATION FairSpec
CONSTANTS
    BlockNode <- ChainNodes
    Blocks <- MCBlocks
    RootId = 0
    NoBlock = NoBlock
    Rank <- MCRank
    PathTo <- MCPathTo
    Users <- MCUsers
    Txs <- MCTxs
    Transaction <- MCTransaction
    GenesisBalance <- MCGenesis
    ConfirmationDepth = 6
INVARIANT NoOverdraft
 
