SPECIFICATION Spec
CONSTANTS
    Trades <- SomeTrades
    RsiPeriod = 3
    BandPeriod = 2
    OfiWindow = 4
    None = None
    MaxTrades = 6
CHECK_DEADLOCK FALSE
INVARIANTS
    BandsOfLatestPrices
    OfiOfAllTrades
    RsiIsWilders
PROPERTIES
    RsiFollowsPrice
