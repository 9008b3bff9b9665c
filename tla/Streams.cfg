SPECIFICATION Spec
CONSTANTS
    ClobTokens <- DigitTokens
    Clients = {"public", "secure"}
    Specs <- SpecsMC
    Labels <- LabelsMC
    Values = {"p1", "p2", "n/a"}
    Numbers = {"p1", "p2"}
    TradeSides = {"buy", "hold", "none"}
    PriceStamps = {"int", "float", "huge"}
    FillForms <- FillFormsMC
    Batches <- BatchesMC
    MaxEvents <- Bounds

INVARIANTS
    TypeOK
    PricesAreCurrent
    WhatIsToldIsSo
    FeedsAreToldWhole
    
