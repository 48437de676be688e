SPECIFICATION LiveSpec
CONSTANTS
    k1 = k1
    k2 = k2
    k3 = k3
    b1 = b1
    b2 = b2
    NoKey = nokey
    Keys <- MCKeys
    Blobs <- MCBlobs
    BlobOf <- MCBlobOf
    QueueCap = 2
    StateCap = 2
    LoadedCap = 1
    MaxEnq = 5
INVARIANTS
    InFlightTracked
    EveryPublishExamined
PROPERTIES
    StopLosesNothing
    ImplementsService
    StopReturns
