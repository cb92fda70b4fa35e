CONSTANTS
    Threads = {t1, t2, t3}
    MaxFiles = 4
SPECIFICATION FairSpec
INVARIANTS
    TypeOK
    ChainOlder
    NoUseAfterClose
PROPERTY
    StreamApiHolds
    CloseTerminates
