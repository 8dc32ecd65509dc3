SPECIFICATION FairSpec
CONSTANTS
    MaxL2 = 3
    MaxPolls = 2
    TxSlots = 3
    MaxLate = 0
    MaxDrops = 1
    MaxCrashes = 0
    MaxRpcErrors = 0
    InOrder = TRUE
PROPERTIES
    AllCommitted
