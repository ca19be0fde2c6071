SPECIFICATION FairSpec
CONSTANTS
    p1 = p1
    p2 = p2
    c1 = c1
    Nobody = Nobody
    Procs = {p1, p2}
    Clis = {c1}
    Libexec = {"tp-daemon", "tpd"}
    Added = {"tp-daemon"}
    MaxFaults = 1
INVARIANTS
    AllOrNothing
PROPERTIES
    SpawnIsReached
    SocketHeals
CHECK_DEADLOCK FALSE
