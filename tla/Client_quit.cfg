SPECIFICATION FairSpec
CONSTANTS
    Capacity <- Narrow
    Texts <- MCTexts
    DefaultText <- MCDefault
    Balances = {1}
    Asked = 2
    MaxActs = 2
PROPERTIES SessionEnds
CHECK_DEADLOCK FALSE
