CONSTANTS
    kNumFrames = 3
    always_track = TRUE
    DOWNSAMPLE_FACTOR = 2
    MAX_DEBUG_HISTORY_SIZE = 2
    Ids = {o1, o2}
    Boxes <- MCBoxes
    Motions <- MCMotions
    MaxTime = 5
    MaxGap = 2
SPECIFICATION Spec
SYMMETRY MCSymmetry
INVARIANTS
    NoCheckFails
    TrackBoxIsExact
    JavaSeesNative
    ComparesTheRightPlaces
PROPERTIES
    StaysAnchored
