SPECIFICATION ShardSpec
CONSTANTS
    e = e
    m = m
    t = t
    p0 = p0
    p1 = p1
    d1 = d1
    d2 = d2
    none = none
    Cells = {e, t}
    Values <- MCValues
    Pages = {p0}
    PageOf <- MCOnePage
    Entry <- MCEntry
    R1 <- MCR1
    R2 <- MCR2
    C1 <- MCC1
    C2 <- MCC2
    Bundles = {d1}
    Bundle <- MCBundle
    InitRam <- MCInitRam
    NoFn = none
    Fns = {1, 4, 5}
    Shards = {4, 5}
    Low = {t}
    LiveJit = TRUE
    DiffBudget = 1
    Unloadable = {}
    InitCache = {}
    InitBlobs = {5}
    CandCap = 5
    StackCap = 2
    MaxDepth = 1
    MaxGen = 2
INVARIANTS
    ValidCountNotAbove
PROPERTIES
    StoredCodeIsHashed
