CONSTANTS
    t1 = t1
    t2 = t2
    t3 = t3
    Thread <- ThreeThreads
    NoThread = NoThread
    Mutex <- TwoMutexes
    NoMutex = NoMutex
    Recursive <- SecondRecursive
    MaxPriority = 2
    MaxDepth = 1
    Nestings <- EveryNesting
SPECIFICATION Spec
INVARIANTS
    WaitersAccounted
    PriorityRestored
    InheritsHighest
    NeverStuck
PROPERTIES
    MutualExclusion
    HandoffToHighest
SYMMETRY Alike
CHECK_DEADLOCK FALSE
