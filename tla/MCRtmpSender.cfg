SPECIFICATION FairSpec
CONSTANTS
    MAX_QUEUE_CAPACITY = 3
    maxQueueLength = 3
    MaxFood = 3
INVARIANTS
    CounterTracksQueue
    AbandonUnreachable
    ConnectionOwned
    TrackOrder
    OneLateWrite
PROPERTIES
    ImplementsChannel
    QuitCloses
    ConnectedDrains
CHECK_DEADLOCK FALSE
