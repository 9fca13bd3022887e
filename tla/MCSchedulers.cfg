CONSTANTS
    main = main
    s1 = s1
    s2 = s2
    Slot <- ThreeSlots
    NoThread = NoThread
    Idle = Idle
    Main = main
    MainPriority = 1
    MaxPriority = 1
    MaxBirths = 2
    Disciplines <- OwnedAndShared
    Scheds <- EveryScheduler
    MaxDeadline = 1
    ControlThreads <- ThreeSlots
    ControlPriority = 0
SPECIFICATION SchedulersSpec
INVARIANTS
    ListsAgree
    NothingFreedInUse
    NoLeak
    OwnerWillBeWoken
    EarliestRuns
    PlaceInRound
PROPERTIES
    JoinTakesResult
SYMMETRY Alike
