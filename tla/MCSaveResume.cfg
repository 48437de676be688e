SPECIFICATION Spec
CONSTANTS
    SlotCount = 1
    HleScheduler = TRUE
    Cuts = {0, 2, 13}
    MaxTime = 2
    MaxBuild = 2
    KeyOf <- MCKeyOf
INVARIANT LoadIsExact
CHECK_DEADLOCK FALSE
