CONSTANTS
    Threads = {t1, t2}
    Slots = {s1, s2}
    MaxObjects = 4
    NoThread = NoThread
SPECIFICATION FairSpec
INVARIANTS
    TypeOK
    NoSpuriousMiss
    OneObjectPerSlot
PROPERTIES
    LookupTerminates
    ObjectMapHolds
