CONSTANTS
    Threads = {t1, t2}
    MaxFiles = 3
SPECIFICATION Spec
SYMMETRY ThreadSymmetry
INVARIANT
    RejectedCloseIsStale
