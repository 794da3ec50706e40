SPECIFICATION FairSpec
CONSTANTS
    Tasks = {t1, t2, t3}
    Mints = {m1, m2}
    NoMint = NoMint
    Modes = {"paper", "shadow", "live"}
    MaxFailures = 1
    MaxOpenPositions = 3
CHECK_DEADLOCK FALSE
INVARIANTS
    ActiveAreInFlight
    OneExecutionPerMint
    OverrunBounded
    ReportedOnce
    UnhealthyOnlyWhileDown
PROPERTIES
    BreakerLatches
    ExecutionsEnd
