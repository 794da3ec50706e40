SPECIFICATION FairSpec
CONSTANTS
    Tasks = {t1, t2}
    Mints = {m1, m2}
    NoMint = NoMint
    Modes = {"live"}
    MaxFailures = 1
    MaxOpenPositions = 3
    CheckMintAuthority = FALSE
    CheckFreezeAuthority = TRUE
    MaxAudits = 2
CHECK_DEADLOCK FALSE
INVARIANTS
    VerdictCoherent
    PendingHasAudit
    InPositionWhileExecuting
    CreatedOnlyWhenFlat
    RebuyNeedsEviction
PROPERTIES
    VerdictFinal
    FollowsPositionLife
    ExecutionsEnd
    AuditsSettle
    ShutdownCompletes
