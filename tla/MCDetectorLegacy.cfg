SPECIFICATION FairSpec
CONSTANTS
    Apis = {"legacy"}
    Apps = {"detector"}
    NumSizes = 1
    MaxFrames = 3
    MaxClicks = 0
    MayFail = FALSE
PROPERTIES
    DetectorTracks
CHECK_DEADLOCK FALSE
