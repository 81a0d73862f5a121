CONSTANTS
    m1 = m1
    m2 = m2
    w1 = w1
    w2 = w2
    Mints = {m1, m2}
    Wallets = {w1, w2}
    Trades <- MCTrades
    RecentWindow = 2
    MaxCycles = 2
    MinSlotDelta = 1
    MaxSlotDelta = 1
    BuyCap = 2
    CopycatWindow = 1
    MaxTrades = 4
    MayEvict = {}
SPECIFICATION Spec
INVARIANT AllAffectedReAnnotated
