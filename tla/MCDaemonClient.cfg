SPECIFICATION FairSpec
CONSTANTS
    s1 = s1
    None = None
    Sids = {s1}
    Gens = 6
    Capacity = 3
    Threshold = 2
    MaxFaults = 2
INVARIANTS
    OneChain
    DisposedIsDeaf
    
PROPERTIES
    ComesBack
CHECK_DEADLOCK FALSE
