SPECIFICATION CyclesSpec
CONSTANTS
    Timers = {2}
    Wrap = 3
    Divisor <- MCDivisor
    VBLANK_CYCLES = 4
    Modes <- MCModes
    Targets = {2}
    Charges = {1, 3}
    Masks <- MCMasks
    ClaimedCooldown = 1
    UnclaimedCooldown = 2
    NoCooldown = NoCooldown
    MaxElapsed = 0
    HardCap = 3
    MaxHeld = 6
INVARIANTS DeadlineBeforeEvent BulkIsTicks
PROPERTIES ImplementsExact
