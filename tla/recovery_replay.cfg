SPECIFICATION Spec
CONSTANTS
    MaxHeight = 3
    BatchSize = 1
    MaxFailures = 0
    MaxCrashes = 1
INVARIANT
    StateLogIsChain
CHECK_DEADLOCK FALSE
