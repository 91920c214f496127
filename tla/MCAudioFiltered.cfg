SPECIFICATION FairSpec
CONSTANTS
    audioBufferQueueNum = 2
    InSlots = 1
    OutSlots = 1
    InitialFilter = TRUE
    StartMayThrow = FALSE
    MaxFrames = 4
    MaxSessions = 2
    MaxFilterOps = 0
INVARIANTS
    RingOwnership
    OrignAudioBuffIsReady
    EncodedInOrder
PROPERTIES
    AnnouncedIsEncoded
CHECK_DEADLOCK FALSE
