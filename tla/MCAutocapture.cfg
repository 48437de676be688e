SPECIFICATION Spec
CONSTANTS
    CheckFrames = 1
    CooldownFrames = 1
    BackoffMax = 2
    IndexCap = 1
    Convertible = 2
    MaxContent = 2
    Modes <- MCModes
INVARIANTS RunningIsWatched CompilerReadsWhole
PROPERTIES FutileWasTried 
