SPECIFICATION Spec
CONSTANTS
    Tasks = {t1, t2}
    Mints = {m1}
    NoMint = NoMint
    Modes = {"live"}
    MaxFailures = 3
    MaxOpenPositions = 3
    CheckMintAuthority = FALSE
    CheckFreezeAuthority = TRUE
    MaxAudits = 1
CHECK_DEADLOCK FALSE
INVARIANTS
    NoDoubleBuy
