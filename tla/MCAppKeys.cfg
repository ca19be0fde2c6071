SPECIFICATION MCSpec
CONSTANTS
    Handhelds = {"phone", "mac"}
    Phone = "phone"
    Watch = "watch"
    Dids = {"a"}
    Pids = {1, 2, 3}
    DidOf <- MCDidOf
    Legacy <- MCLegacy
    MaxOps = 2
    d = d
    f1 = f1
    f2 = f2
    Nil = Nil
    Daemon = d
    Frontends = {f1, f2}
    Keys <- AppKeys
    MayRefuse = TRUE
    MaxFaults = 2
    MaxQueue = 2
CONSTRAINT InOrder
INVARIANTS PairingSurvives HiddenStaysHidden Agreed KeysAgree
CHECK_DEADLOCK FALSE
VIEW UpToKeyNames
SYMMETRY AppSymmetry
