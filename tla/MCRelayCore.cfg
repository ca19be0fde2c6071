SPECIFICATION Spec
CONSTANTS
    d1 = d1
    d2 = d2
    t1 = t1
    t2 = t2
    p1 = p1
    s1 = s1
    f1 = f1
    c1 = c1
    c2 = c2
    c3 = c3
    l1 = l1
    l2 = l2
    None = None
    Daemons = {d1, d2}
    Tokens = {t1, t2}
    Proofs = {p1}
    Sids = {s1}
    Fids = {f1}
    Conns = {c1, c2, c3}
    Limiters = {l1, l2}
    Credentials <- Pairings
    Clients <- Peers
    Resumers <- AppResumes
    Seqs = {1}
    Reauth = FALSE
    MaxSubscriptions = 1
    CacheSize = 1
    MaxKeysPerDaemon = 1
    MaxRegistrations = 1
    MaxSessions = 1
    AttachMax = 1
    StaleTimeout = 0
    OfflineEvict = 1
VIEW WithoutOut
SYMMETRY LimiterSymmetry
INVARIANTS
    GroupsAreLive
    OnlineHasDaemon
PROPERTIES
    PresenceAnnounced
    RegistrySpec
    FanOutExact
