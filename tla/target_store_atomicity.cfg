CONSTANTS
    p1 = p1
    p2 = p2
    Ports <- OnePort
    Settings <- RootPathSettings
    Inputs <- MCInputs
    Defaults <- MCDefaults
    InitialTree <- MCInitialTree
    StoreMenu = FALSE
    AllocFailPoints = {"hook", "netdev", "generic"}
    FlashMayFail = FALSE
    OpenMayFail = FALSE
    NoValue = NoValue
    Null = Null
    Garbled = Garbled
    NoPath = NoPath
SPECIFICATION Spec
PROPERTY TargetStoreAtomic
