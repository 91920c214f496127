SPECIFICATION FairSpec
CONSTANTS
    Apis = {"camera2", "legacy"}
    Apps = {"classifier", "detector", "stylize"}
    NumSizes = 2
    MaxFrames = 4
    MaxClicks = 3
    MayFail = TRUE
INVARIANTS
    FlagIsOneFrame
    JobSeesItsFrame
    JobNeverRefused
    NoBufferLost
    SizesAgree
PROPERTIES
    FrameIsReleased
    OnPauseReturns
CHECK_DEADLOCK FALSE
