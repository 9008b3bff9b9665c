SPECIFICATION FairSpec

CONSTANTS
    Streams <- AllStreams
    MaxBackoff = 6
    MaxLines = 2
    MaxErrors = 6

INVARIANTS
    TypeOK
    BackoffFollowsFailures
    ConnectionsAreApart
    GivesUpAtTheLimit

PROPERTIES
    StreamComesBack
