SPECIFICATION Spec
CONSTANTS
    CheckpointEvery = 2
    LoadFlags = {TRUE}
    Overlap = FALSE
    MaxInserts = 2
    MaxSnapshots = 0
    MaxCrashes = 1
    MaxFailures = 0
INVARIANT AckedAfterStart
CHECK_DEADLOCK FALSE
