SPECIFICATION Spec
CONSTANTS
    MaxResumes = 1
    MayFail = FALSE
INVARIANTS
    PausedIsClosed
CHECK_DEADLOCK FALSE
