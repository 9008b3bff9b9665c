SPECIFICATION Spec

CONSTANTS
    one = one
    many = many
    o1 = o1
    o2 = o2
    o3 = o3
    Intents <- Callers
    Orders <- AllOrders
    Batch <- Batches
    OwnKeyed <- CallerStamped
    Async <- AsyncCallers
    Calling <- OnlyOne
    MaxRetries = 2
    WarmupAttempts = 2
    Transient = {502, 503}
    MaxCalls = 1

INVARIANTS
    ExhaustionKeepsStatus

CHECK_DEADLOCK FALSE
