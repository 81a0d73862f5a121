CONSTANTS
    ChannelSize = 2
    MaxBatch = 3
    MaxTrades = 6
SPECIFICATION FairSpec
INVARIANTS TypeOK NothingLost StopsForAReason
PROPERTIES ShutdownStops ArrivedIsProcessed
