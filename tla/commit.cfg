CONSTANTS
    p1 = p1
    p2 = p2
    Ports <- OnePort
    Settings <- CommitSettings
    Inputs <- CommitInputs
    Defaults <- MCDefaults
    InitialTree <- MCInitialTree
    StoreMenu = TRUE
    AllocFailPoints = {}
    FlashMayFail = TRUE
    OpenMayFail = TRUE
    NoValue = NoValue
    Null = Null
    Garbled = Garbled
    NoPath = NoPath
SPECIFICATION Spec
INVARIANT TrackedOrPersisted
PROPERTY CommitWritesTrackedTlvsOnce
