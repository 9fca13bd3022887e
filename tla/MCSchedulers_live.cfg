CONSTANTS
    main = main
    s1 = s1
    s2 = s2
    Slot <- ThreeSlots
    NoThread = NoThread
    Idle = Idle
    Main = main
    MainPriority = 1
    MaxPriority = 1
    MaxBirths = 1
    Disciplines <- OwnedOnly
    Scheds <- InTurns
    MaxDeadline = 1
    ControlThreads <- TwoSlots
    ControlPriority = 1
SPECIFICATION SchedulersFairSpec
INVARIANTS
    RegulatorsAgree
PROPERTIES
    PriorityRoundRobin
    EveryRound
