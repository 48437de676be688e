SPECIFICATION Spec
CONSTANTS
    Drivers <- MCDrivers
    Connected = {0}
    SectorBytes = 2
    SectorCount = 1
    Baud = 1
    AckDelay = 1
    Chunks = {1, 2}
    MaxTransitions = 2
INVARIANTS FreshSelect CleanMeansSaved
PROPERTIES WriteIsOneTransaction PadTypeStable
CHECK_DEADLOCK FALSE
