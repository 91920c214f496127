SPECIFICATION Spec
CONSTANTS
    audioBufferQueueNum = 2
    InSlots = 1
    OutSlots = 1
    InitialFilter = FALSE
    StartMayThrow = FALSE
    MaxFrames = 4
    MaxSessions = 1
    MaxFilterOps = 0
INVARIANTS
    OrignAudioBuffIsReady
CHECK_DEADLOCK FALSE
