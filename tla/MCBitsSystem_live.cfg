CONSTANTS
    KeyQueueSize = 1
    RxQueueSize = 3
    Temperatures = TRUE
    MaxPresses = 1
    LineLimit = 1
    RetryMax = 1
    MaxUpdates = 0
    MaxBreaks = 1
SPECIFICATION FairSpec
PROPERTIES
    DeadLinkNoticed
