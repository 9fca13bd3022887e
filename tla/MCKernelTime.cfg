CONSTANTS
    t1 = t1
    t2 = t2
    Thread <- TwoThreads
    Idle = Idle
    TICK_FREQ = 500
    Word = 2
    NestingMax = 2
    SleepTimes <- UpToTwoTicks
    USleepTimes <- LessAndMore
    MaxTick = 5
SPECIFICATION Spec
INVARIANTS
    NoTickLost
    NobodyOversleeps
    SleepsAtLeast
PROPERTIES
    GetTickExact
CHECK_DEADLOCK FALSE
