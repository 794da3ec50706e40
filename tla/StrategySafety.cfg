SPECIFICATION Spec
CONSTANTS
    Mints = {m1, m2, m3}
    QueuePressures = {40, 80, 81}
    SlotLags = {0, 6, 11}
    BundleRates = {100, 60, 41}
    Returns <- AllReturns
    Ages = {0, 3, 15, 16, 181}
    Tokens <- SomeTokens
    Setup = "conservative"
    BaseSize = 500
    MaxPosition = 250000
    MaxGlobalExposure = 450000
    MaxConcurrent = 2
    MinUseful = 190000
SYMMETRY MintSymmetry
CHECK_DEADLOCK FALSE
INVARIANTS
    ExposureCapped
    OverdueClosedSoon
    WorseInfraNeverBigger
