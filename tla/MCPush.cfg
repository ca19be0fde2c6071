SPECIFICATION FairSpec
CONSTANTS
    d1 = d1
    f1 = f1
    e1 = e1
    k1 = k1
    t1 = t1
    t2 = t2
    None = None
    Daemons = {d1}
    Fids = {f1}
    Events = {e1}
    ConnIds = {k1}
    Tasks = {t1, t2}
    Limit = 1
    Window = 1
    MaxRetries = 1
    MaxTime = 1
    MaxFaults = 1
    MaxInbox = 1
INVARIANTS
    OvershootBounded
    RowsAreLoaded
    ClosedSocketFallsBack
PROPERTIES
    PushEnds
