CONSTANTS
    getter = getter
    putter = putter
    a = a
    b = b
    c = c
    Getter = getter
    Putter = putter
    NoThread = NoThread
    Item <- ThreeItems
    NoItem = NoItem
    Size = 3
    Sample <- FiveSamples
    NumBuf = 2
    NoBuffer <- NoBuf
    Builds <- BothBuilds
    Parts = 4
SPECIFICATION QueuesFairSpec
INVARIANTS
    SleeperRegistered
    PlaysSound
    EnobufTells
PROPERTIES
    KeepsOrder
    NeverStarved
    PlayReturns
