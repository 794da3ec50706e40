SPECIFICATION Spec
CONSTANTS
    Tasks = {t1}
    Mints = {m1}
    NoMint = NoMint
    Modes = {"paper"}
    MaxFailures = 3
    MaxOpenPositions = 3
    CheckMintAuthority = TRUE
    CheckFreezeAuthority = TRUE
    MaxAudits = 2
CHECK_DEADLOCK FALSE
PROPERTIES
    RevokedNotDenied
