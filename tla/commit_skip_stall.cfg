SPECIFICATION FairSpec
CONSTANTS
    MaxL2 = 3
    MaxPolls = 2
    TxSlots = 3
    MaxLate = 1
    MaxDrops = 0
    MaxCrashes = 0
    MaxRpcErrors = 1
    InOrder = TRUE
PROPERTIES
    AllCommitted
