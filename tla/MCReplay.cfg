CONSTANTS
    m1 = m1
    m2 = m2
    w1 = w1
    w2 = w2
    MinTrades = 2
    MinCycles = 1
    Top = 1
    MinAvgSol = 1
    MaxAvgSol = 5
    FollowerThreshold = 1
    SniperMaxDelta = 0
    MomentumSecs = {1, 2}
    MinGainPct = 100
    Volume <- MCVolume
    Messages <- MCMessages
    Cutoff = 3
    ChannelSize = 2
    MaxRetries = 2
    MaxArrived = 5
SPECIFICATION Spec
INVARIANTS TypeOK BothViewsComplete CyclesAreFifo RankedAreSafe
PROPERTIES ReplayEnds
