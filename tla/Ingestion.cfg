SPECIFICATION FairSpec
CONSTANTS
    QueueSize = 2
    Policies = {"drop_oldest", "drop_newest", "fail_closed"}
    CacheLimit = 1
    MaxBackoff = 4
    FromSlot = 0
    LiveStream = TRUE
    MaxSlot = 4
    MaxReconnects = 2
CHECK_DEADLOCK FALSE
INVARIANTS
    QueueBounded
    EveryEventAccounted
    TaskDoneOncePerEvent
    NoDoubleHandling
    NewestKept
    BackoffNeverReset
PROPERTIES
    AdmittedNotDropped
    KeepsPromise
    StopEndsTasks
    WaitingEventLeaves
    ReaderRecovers
