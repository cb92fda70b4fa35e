CONSTANTS
    Threads = {t1, t2, t3}
    a = a
    b = b
    Controls = {a, b}
    Nested <- MCNested
    Guest = Guest
SPECIFICATION FairSpec
INVARIANTS
    OneInitialiser
    NoLostWakeup
PROPERTIES
    OnceApiHolds
    CallReturns
CHECK_DEADLOCK FALSE
