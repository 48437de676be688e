SPECIFICATION Spec
CONSTANTS
    PresentDelay = 2
    SectorDelay = 5
    StartDelay = 6
    AudioDelay = 4
    ShortDelay = 1
    LongDelay = 3
    Charges = {1, 2}
    Latency = 1
    HandlerCycles = 1
    Sessions <- MCSessions
INVARIANTS TypeOK NothingStranded NoLostInterrupt StatusHonest
PROPERTIES IntHeldUntilAck QueuedRuns CompletionComes
