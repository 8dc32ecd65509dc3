SPECIFICATION FairSpec
CONSTANTS
    MaxL2 = 2
    MaxPolls = 2
    TxSlots = 3
    MaxLate = 1
    MaxDrops = 1
    MaxCrashes = 1
    MaxRpcErrors = 1
    InOrder = TRUE
INVARIANTS
    TypeOK
    FinishedOnChain
    NoHeightWrap
PROPERTIES
    RecordsResolve
