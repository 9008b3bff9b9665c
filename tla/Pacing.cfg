SPECIFICATION FairSpec

CONSTANTS
    a = a
    b = b
    d = d
    Nobody = Nobody
    Callers <- ThreeCallers
    Floor = 3

INVARIANTS
    TypeOK
    FloorIsKept

PROPERTIES
    EveryCallerServed
