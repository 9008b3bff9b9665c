SPECIFICATION FairSpec

CONSTANTS
    c1 = c1
    c2 = c2
    k1 = k1
    k2 = k2
    Consumers <- TwoConsumers
    Closers <- TwoClosers
    Cancellable <- TwoClosers
    QueueSize = 2
    MaxPerFrame = 2
    MaxEvents = 5

INVARIANTS
    TypeOK
    EventsAreKept
    EndsAsRecorded

PROPERTIES
    RefinesLossyStream
    ImplementsPromise
    CloseReleases
