SPECIFICATION FairSpec
CONSTANTS
    InitHeight = 1
    MaxOnt = 3
    DepBlock <- MCDepBlock1
    MaxRetries = 1
    MaxSendErrors = 2
    MaxLostAcks = 1
    MaxCrashes = 2
    MaxRpcErrors = 1
    MaxSaveErrors = 1
INVARIANTS
    TypeOK
    NoDoubleCredit
PROPERTIES
    OutcomeFinal
