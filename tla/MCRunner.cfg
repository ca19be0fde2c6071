SPECIFICATION FairSpec
CONSTANTS
    Chunks = 3
    MaxHooks = 1
    MaxInbound = 1
    OUTBOUND_CAPACITY = 3
    DataCapacity = 2
INVARIANTS
    OutputBeforeExit
PROPERTIES
    RunnerKeepsPromise
    RunnerEnds
CHECK_DEADLOCK FALSE
