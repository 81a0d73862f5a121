CONSTANTS
    m1 = m1
    m2 = m2
    w1 = w1
    Wsol = Wsol
    Sol = 10000
    PriceScale = 10000
    MaxU64 = 1844674407
    Stamps <- MCStamps
    TwoDays = 4
    Hour = 2
    Transactions <- MCTransactions
    Start = 17000
    Ticks = {1}
    MaxNow = 17001
SPECIFICATION Spec
INVARIANTS PumpFunIsSupported
