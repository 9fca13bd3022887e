CONSTANTS
    FlashPages = 5
    PageSize = 8
    BufferSize = 8
    Align = 4
    PageByte = 4
    UltraLowPages = 1
    Retry = 2
    Sizes <- SomeSizes
    Spages <- SomePages
SPECIFICATION Spec
INVARIANTS
    DoneMeansProgrammed
    FailsForAReason
PROPERTIES
    Ends
CHECK_DEADLOCK FALSE
