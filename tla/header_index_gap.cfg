SPECIFICATION Spec
CONSTANTS
    MaxHeight = 3
    BatchSize = 1
    MaxFailures = 1
    MaxCrashes = 1
INVARIANT
    HeaderIndexCoversChain
CHECK_DEADLOCK FALSE
