CONSTANTS
    RingSize = 2
    Refill = 1
    MaxCalls = 2
    MaxBuffers = 3
    Overlap = TRUE
    ClearOnReuse = TRUE
SPECIFICATION Spec
INVARIANT
    ReadableIsWritten
