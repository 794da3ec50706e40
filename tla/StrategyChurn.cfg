SPECIFICATION Spec
CONSTANTS
    Mints = {m1}
    QueuePressures = {72, 80, 81}
    SlotLags = {0, 11}
    BundleRates = {100, 60, 41}
    Returns <- AllReturns
    Ages = {0, 3, 15, 16, 181}
    Tokens <- SomeTokens
    Setup = "conservative"
    BaseSize = 500
    MaxPosition = 2000000
    MaxGlobalExposure = 6000000
    MaxConcurrent = 3
    MinUseful = 50000
CHECK_DEADLOCK FALSE
PROPERTIES
    EntryNotExitedAtOnce
