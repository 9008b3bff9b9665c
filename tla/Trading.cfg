SPECIFICATION Spec
CONSTANTS
    t1 = t1
    t2 = t2
    Tasks = {t1, t2}
    Clients = {"secure", "async", "clob"}
    MinExpiration = 180
    ClobTokens <- DigitTokens
    Plans <- PlansMC
    Addressed <- Means
    MarketOf <- Markets
    Answers <- TokenAnswers
    Resting <- RestingMC

INVARIANTS
    TypeOK
    OrdersLandWhereAddressed
    OrdersSayWhatWasAsked
    AnswersAreTrue
    CancelsAreTrue
    BalanceHoldsTheFills
