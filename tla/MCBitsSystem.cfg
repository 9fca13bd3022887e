CONSTANTS
    KeyQueueSize = 1
    RxQueueSize = 2
    Temperatures = FALSE
    MaxPresses = 2
    LineLimit = 1
    RetryMax = 1
    MaxUpdates = 1
    MaxBreaks = 1
SPECIFICATION Spec
INVARIANTS
    Agreement
    KeysInOrder
    ReportsUnderstood
CHECK_DEADLOCK FALSE
