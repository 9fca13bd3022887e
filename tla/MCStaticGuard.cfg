CONSTANTS
    t1 = t1
    t2 = t2
    t3 = t3
    Thread <- ThreeThreads
    NoThread = NoThread
    Idle = Idle
    Prio <- OneAbove
    MaxPriority = 1
    MaxAborts = 1
SPECIFICATION FairSpec
PROPERTIES
    AcquireReturns
CHECK_DEADLOCK FALSE
