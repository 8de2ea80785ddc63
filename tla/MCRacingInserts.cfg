SPECIFICATION Spec
CONSTANTS
    a = a
    b = b
    c = c
    Handlers <- MCHandlers
    Nobody = Nobody
    CheckpointEvery = 2
    InitialSlots = 1
    GrowSlots = 1
SYMMETRY Interchange
INVARIANTS
    LoneEntryKept
    LossNeedsEarlierRace
    DeliveredWhole
    ReplayNumbersNodes
    HeaderSealed
CHECK_DEADLOCK FALSE
