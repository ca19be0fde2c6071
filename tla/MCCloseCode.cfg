SPECIFICATION Spec
CONSTANTS
    c0 = c0
    c1 = c1
    NoConn = NoConn
    Daemon = c0
    Frontends = {c1}
    OutboxCap = 1
    CloseCap = 4
    MaxFrames = 2
    MaxReplays = 1
INVARIANTS
    CloseCodeDelivered
