CONSTANTS
    t1 = t1
    t2 = t2
    t3 = t3
    Thread <- ThreeThreads
    NoThread = NoThread
    Mutex <- TwoMutexes
    NoMutex = NoMutex
    Recursive <- NoneRecursive
    MaxPriority = 2
    MaxDepth = 1
    Nestings <- OrderedNesting
SPECIFICATION Spec
INVARIANTS
    PriorityInheritance
