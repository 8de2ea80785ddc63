SPECIFICATION MCSpec
CONSTANTS
    VectorIds = {id1, id2}
    ZeroId = id1
    Vecs = {v1, zero}
    Zero = zero
    Torn = torn
    NoCrc = nocrc
    Dim = 1
    CheckpointEvery = 2
    InitialSlots = 1
    GrowSlots = 1
    MaxSlots = 3
    MaxKept = 2
INVARIANTS
    KnownEntriesReplay
    NoPhantomEntry
    FileMatchesMemory
PROPERTIES
    LogSpec
