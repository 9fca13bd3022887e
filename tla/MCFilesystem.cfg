CONSTANTS
    t1 = t1
    t2 = t2
    Thread = {t1, t2}
    NoThread = NoThread
    File = {"log"}
    MaxOpenFiles = 2
    MaxFd = 6
    MaxMounts = 2
    MaxSize = 1
SPECIFICATION Spec
INVARIANTS
    WrittenIsSafe
    TableExact
PROPERTIES
    Descriptors
SYMMETRY Threads
CHECK_DEADLOCK FALSE
