CONSTANTS
    RingSize = 2
    Refill = 1
    MaxCalls = 2
    MaxBuffers = 3
    Overlap = FALSE
    ClearOnReuse = TRUE
SPECIFICATION FairSpec
INVARIANT
    TypeOK
PROPERTIES
    SoundEnds
    SoundQueueHolds
