SPECIFICATION FairSpec

CONSTANTS
    Walkers <- AllWalkers
    PageSize <- Sizes
    PAGE_LIMIT = 2
    ServerCap = 2
    MaxRows = 3
    MaxInserts = 2
    MaxRemovals = 1
    MaxFailures = 1
    MaxOdd = 1

CHECK_DEADLOCK FALSE

INVARIANTS
    TypeOK
    StableWalkIsTheListing
    ShiftsAreBounded

PROPERTIES
    WalkEnds
