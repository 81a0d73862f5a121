CONSTANTS
    m1 = m1
    m2 = m2
    Mints = {m1, m2}
    Trades <- MCTrades
    RecentWindow = 2
    MaxCycles = 2
    MinSlotDelta = 1
    MaxSlotDelta = 2
    MaxIngests = 6
SPECIFICATION Spec
INVARIANT SoldOutIsClosed
