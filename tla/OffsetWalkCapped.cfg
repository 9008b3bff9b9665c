SPECIFICATION Spec

CONSTANTS
    Walkers <- Iterator
    PageSize <- SizeAboveCap
    PAGE_LIMIT = 2
    ServerCap = 2
    MaxRows = 5
    MaxInserts = 0
    MaxRemovals = 0
    MaxFailures = 0
    MaxOdd = 0

CHECK_DEADLOCK FALSE

INVARIANTS
    StableWalkIsTheListing
