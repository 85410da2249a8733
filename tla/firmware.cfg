CONSTANTS
    Caps <- MCCaps
    Inputs <- MCInputs
    InitialTrees <- MCInitialTrees
    StoreMenu = TRUE
    AllocMayFail = FALSE
    FlashMayFail = TRUE
    NoValue = NoValue
    Null = Null
SPECIFICATION Spec
INVARIANT TypeOK
INVARIANT FlashVfsBelowMax
PROPERTY RestoreDefaultSetsDefaults
