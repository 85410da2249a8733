CONSTANTS
    p1 = p1
    p2 = p2
    Ports <- OnePort
    Settings <- CredentialSettings
    Inputs <- MCInputs
    Defaults <- MCDefaults
    InitialTree <- MCInitialTree
    StoreMenu = FALSE
    AllocFailPoints = {}
    FlashMayFail = FALSE
    OpenMayFail = FALSE
    NoValue = NoValue
    Null = Null
    Garbled = Garbled
    NoPath = NoPath
SPECIFICATION Spec
INVARIANT TypeOK
INVARIANT RootPathMatchesTarget
