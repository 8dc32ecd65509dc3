SPECIFICATION Spec
CONSTANTS
    MaxHeight = 3
    BatchSize = 1
    MaxFailures = 1
    MaxCrashes = 2
INVARIANTS
    TypeOK
    SubStoreOrder
    VersionImpliesGenesis
    NoIndexWrap
PROPERTIES
    ChainRefined
CHECK_DEADLOCK FALSE
