CONSTANTS
    Threads = {t1, t2}
    Mutexes = {rec, err, norm}
    Conds = {c1}
    Recursive = {rec}
    ErrorCheck = {err}
    MaxDepth = 2
    Nobody = Nobody
    None = None
SPECIFICATION Spec
SYMMETRY ThreadSymmetry
INVARIANTS
    TypeOK
    RecordImpliesHost
    HostCallsOwned
    IdleAgreement
PROPERTIES
    RecordWrittenByOwner
    MutexApiHolds
CHECK_DEADLOCK FALSE
