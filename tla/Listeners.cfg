SPECIFICATION FairSpec
CONSTANTS
    Loops = {l1, l2}
    Kinds = {"websocket", "geyser"}
    MaxBackoff = 6
    ProtoAvailable = TRUE
    MaxMisses = 5
CHECK_DEADLOCK FALSE
INVARIANTS
    RetryDelays
    AtMostOneLate
PROPERTIES
    StopNoticed
