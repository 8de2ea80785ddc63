SPECIFICATION Spec
CONSTANTS
    Entries = {e1, e2}
    Zero = Zero
    MaxSlots = 3
    Pages = {0, 1, 2, 3}
    PageOf <- MCPageOf
    CheckpointEvery = 2
    MaxAppends = 4
    MaxEnds = 2
    MaxTruncates = 1
INVARIANTS
    Durable
    DiskIsPrefix
    SlotsHoldAppended
CHECK_DEADLOCK FALSE
