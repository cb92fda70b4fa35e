CONSTANTS
    RingSize = 2
    Refill = 1
    MaxCalls = 2
    MaxBuffers = 3
    Overlap = FALSE
    ClearOnReuse = FALSE
SPECIFICATION FairSpec
PROPERTY
    HeadAtEndFires
