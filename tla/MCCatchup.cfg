SPECIFICATION CatchupFairSpec
CONSTANTS
    Daemons <- MCDaemons
    Sids <- MCSids
    Meta <- MCMeta
    Daemon = "d"
    Records <- MCRecords
    CacheSize = 2
    MaxKeysPerDaemon = 2
    BatchMax = 1
    MaxAppends = 2
    MaxFaults = 1
INVARIANTS
    ChatSound
    CacheSound
PROPERTIES
    CatchesUp
CHECK_DEADLOCK FALSE
