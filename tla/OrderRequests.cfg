SPECIFICATION FairSpec

CONSTANTS
    one = one
    many = many
    o1 = o1
    o2 = o2
    o3 = o3
    Intents <- Callers
    Orders <- AllOrders
    Batch <- Batches
    OwnKeyed <- CallerStamped
    Async <- AsyncCallers
    Calling <- EitherOne
    MaxRetries = 2
    WarmupAttempts = 2
    Transient = {502, 503}
    MaxCalls = 2

INVARIANTS
    TypeOK
    KeysFireOnce
    VerdictIsTrue
    DoubledOnlyInDoubt

PROPERTIES
    KeyedOrdersPlacedOnce
    CallReturns

CHECK_DEADLOCK FALSE
