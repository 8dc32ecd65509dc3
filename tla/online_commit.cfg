SPECIFICATION OnlineSpec
CONSTANTS
    MaxHeight = 3
    BatchSize = 1
    MaxFailures = 2
    MaxCrashes = 0
INVARIANTS
    StateLogIsChain
    CurrentIsDurable
    AtomicPreExecConsistent
PROPERTIES
    Progress
CHECK_DEADLOCK FALSE
