SPECIFICATION FairSpec
CONSTANTS
    Capacity <- Roomy
    Texts <- MCTexts
    DefaultText <- MCDefault
    Balances = {1}
    Asked = 2
    MaxActs = 2
INVARIANTS ClientTypeOK AliveTillQuit PublishedInOrder ScreenInOrder CleanEnd
PROPERTIES SessionEnds TxsPublished
