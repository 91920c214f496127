SPECIFICATION FairSpec
CONSTANTS
    MaxResumes = 3
    MayFail = TRUE
INVARIANTS
    OpenFindsPermit
    CloseWaits
    LeakNeedsOvertaking
    CallbacksSafeWhileResumed
PROPERTIES
    PauseReturns
CHECK_DEADLOCK FALSE
