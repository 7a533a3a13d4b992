SPECIFICATION Spec
CONSTANTS
    BlockNode <- ForkNodes
    Blocks <- MCBlocks
    RootId = 0
    NoBlock = NoBlock
    Rank <- MCRank
    PathTo <- MCPathTo
    Users <- MCUsers
    Txs <- MCTxs
    Transaction <- MCTransaction
    GenesisBalance <- MCGenesis
    ConfirmationDepth = 2
CHECK_DEADLOCK FALSE
INVARIANTS TypeOK TreeExact WorkingBelowFinalized FinalityDepth OrphanCallReady RecursionEnds
PROPERTIES FundedOnWorking FinalityOnlyGrows
