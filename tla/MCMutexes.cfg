CONSTANTS
    t1 = t1
    t2 = t2
    t3 = t3
    Thread <- ThreeThreads
    NoThread = NoThread
    Mutex <- TwoMutexes
    NoMutex = 0
    Recursive <- SecondRecursive
    MaxDepth = 1
    Nestings <- OrderedNesting
    MaxPriority = 0
SPECIFICATION MutexesFairSpec
INVARIANTS
    SleepersListed
PROPERTIES
    MutualExclusion
    LockReturns
    ContendedMutexMoves
CHECK_DEADLOCK FALSE
