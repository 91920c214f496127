SPECIFICATION FairSpec
CONSTANTS
    audioBufferQueueNum = 2
    InSlots = 1
    OutSlots = 1
    InitialFilter = FALSE
    StartMayThrow = TRUE
    MaxFrames = 3
    MaxSessions = 2
    MaxFilterOps = 1
INVARIANTS
    NeverStale
    CrashNeedsFailedStart
PROPERTIES
    StopReturns
CHECK_DEADLOCK FALSE
