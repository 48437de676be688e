SPECIFICATION CoreSpec
CONSTANTS
    e = e
    m = m
    t = t
    p0 = p0
    p1 = p1
    d1 = d1
    d2 = d2
    none = none
    Cells = {e, m, t}
    Values <- MCValues
    Pages = {p0, p1}
    PageOf <- MCPageOf
    Entry <- MCEntry
    R1 <- MCR1
    R2 <- MCR2
    C1 <- MCC1
    C2 <- MCC2
    Bundles = {d1, d2}
    Bundle <- MCBundle
    InitRam <- MCInitRam
    NoFn = none
    Fns = {1, 2, 3}
    Shards = {}
    Low = {}
    LiveJit = FALSE
    DiffBudget = 1
    Unloadable = {}
    InitCache = {d1}
    InitBlobs = {}
    CandCap = 5
    StackCap = 2
    MaxDepth = 2
    MaxGen = 1
INVARIANTS
    ValidCountExact
    SelfModDemoted
PROPERTIES
    NativeRunsLiveCode
    ReloadOnReturn
    DemotedOnlyIfRunning
    DemotionPermanent
