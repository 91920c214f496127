CONSTANTS
    MAX_QUEUE_CAPACITY = 1
    MaxRecordings = 2
SPECIFICATION Spec
INVARIANTS
    CrashNeedsStop
    OneLateFrame
    UnstoppableWasReplaced
PROPERTIES
    ProjectionStops
CHECK_DEADLOCK FALSE
