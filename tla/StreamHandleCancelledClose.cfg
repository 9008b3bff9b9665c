SPECIFICATION Spec

CONSTANTS
    c1 = c1
    c2 = c2
    k1 = k1
    k2 = k2
    Consumers <- OneConsumer
    Closers <- OneCloser
    Cancellable <- OneCloser
    QueueSize = 2
    MaxPerFrame = 2
    MaxEvents = 3

INVARIANT CloseLeavesTerminal
