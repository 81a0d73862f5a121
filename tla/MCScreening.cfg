CONSTANTS
    m1 = m1
    m2 = m2
    w1 = w1
    w2 = w2
    Mints = {m1, m2}
    Wallets = {w1, w2}
    Trades <- MCTrades
    RecentWindow = 3
    MaxCycles = 2
    MinSlotDelta = 1
    MaxSlotDelta = 1
    BuyCap = 3
    CopycatWindow = 1
    MaxTrades = 4
    MayEvict = {"registry", "buys", "wallets"}
    MinCyclesForWinRate = 1
    MinAnnotatedBuys = 1
    MinBuysForAverage = 1
    MaxAvgEntrySol = 10
    MinBuysForHerd = 1
    MinCorrelatedBuys = 1
    MinPositionsForSizing = 1
    MinSellTranches = 2
    SufficientCycles = 1
    SufficientTrades = 3
SPECIFICATION ScreenSpec
INVARIANTS TypeOK AnnotationsCurrent BuyersIndexed InsidersAreInside RowSaysWhatWasJudged HerdsAreSeen
PROPERTIES DeltasNeverShrink
