SPECIFICATION Spec

CONSTANTS
    Streams <- UnboundedSocket
    MaxBackoff = 6
    MaxLines = 0
    MaxErrors = 3

INVARIANTS
    LostConnectionIsRetried
