SPECIFICATION Spec
CONSTANTS
    MaxHeight = 2
    BatchSize = 1
    MaxFailures = 0
    MaxCrashes = 0
INVARIANT
    PreExecSnapshotConsistent
CHECK_DEADLOCK FALSE
