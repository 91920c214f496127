SPECIFICATION Spec
CONSTANTS
    MAX_QUEUE_CAPACITY = 3
    maxQueueLength = 3
    MaxFood = 3
INVARIANT FullQueueAbandons
CHECK_DEADLOCK FALSE
