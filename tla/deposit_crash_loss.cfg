SPECIFICATION FairSpec
CONSTANTS
    InitHeight = 1
    MaxOnt = 3
    DepBlock <- MCDepBlock1
    MaxRetries = 1
    MaxSendErrors = 0
    MaxLostAcks = 0
    MaxCrashes = 1
    MaxRpcErrors = 0
    MaxSaveErrors = 0
PROPERTIES
    DepositsRelayed
