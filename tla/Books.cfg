SPECIFICATION Spec
CONSTANTS
    None = None
    ClobTokens <- DigitTokens
    Clients = {"public", "async", "secure", "async_secure", "clob"}
    Calls <- CallsMC
    Snapshots <- BooksMC
    Records <- RecordsMC
    Outcome <- OutcomeMC
    FirstOutcome <- First
    MaxMoves = 1
    MaxCalls = 3

INVARIANTS
    TypeOK
    ReadsTheOutcomeMeant
    QuotesAreOfTheBestLevels
    EstimatesCanBeTradedAt
    ClearedTickIsReadAgain
