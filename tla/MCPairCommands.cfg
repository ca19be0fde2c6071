SPECIFICATION MCSpec
CONSTANTS
    Cmds = {1, 2}
    Mixes <- MCMixes
    FirstLabels <- MCFirstLabels
    Sids <- MCSids
    Dids <- MCDids
    Typed <- MCTyped
    Labels <- MCLabels
    DaemonPiece = "daemon-"
    FirstRows <- MCFirstRows
    FirstOld <- MCFirstOld
    Prunes <- MCPrunes
    MaxTries = 2
    MaxEvents = 1
    d1 = d1
    c1 = c1
    c2 = c2
    r1 = r1
    None = None
    Ids = {d1}
    Clis = {c1, c2}
    Removers = {r1}
    MaxFaults = 1
INVARIANTS
    ReportedIsGone
    RcKept
    RowHasClient
    CompletedIsStored
PROPERTIES
    ConfirmedOnly
    PairingKeepsContract
CHECK_DEADLOCK FALSE
