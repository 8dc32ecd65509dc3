SPECIFICATION FairSpec
CONSTANTS
    InitHeight = 1
    MaxOnt = 3
    DepBlock <- MCDepBlock1
    MaxRetries = 2
    MaxSendErrors = 2
    MaxLostAcks = 1
    MaxCrashes = 0
    MaxRpcErrors = 1
    MaxSaveErrors = 1
PROPERTIES
    DepositsRelayed
