SPECIFICATION Spec
CONSTANTS
    CheckpointEvery = 2
    LoadFlags = {TRUE, FALSE}
    Overlap = TRUE
    MaxInserts = 4
    MaxSnapshots = 2
    MaxCrashes = 3
    MaxFailures = 1
INVARIANTS
    AckedOnDisk
    NodeIdsStable
    FilesGiveBackIndex
PROPERTIES
    LogDroppedOnceSaved
CHECK_DEADLOCK FALSE
