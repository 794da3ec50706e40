SPECIFICATION Spec
CONSTANTS
    Tasks = {t1, t2}
    Mints = {m1, m2}
    NoMint = NoMint
    Modes = {"paper"}
    MaxFailures = 3
    MaxOpenPositions = 1
    CheckMintAuthority = FALSE
    CheckFreezeAuthority = TRUE
    MaxAudits = 1
CHECK_DEADLOCK FALSE
INVARIANTS
    PositionsWithinLimit
