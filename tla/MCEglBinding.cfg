CONSTANTS
    Threads = {t1, t2, t3}
    Contexts = {c1, c2}
    Surfaces = {s1, s2}
    Pbuffers = {s2}
    NoThread = NoThread
    None = None
    Root = Root
SPECIFICATION Spec
SYMMETRY HandleSymmetry
INVARIANTS
    TypeOK
    BindingsCounted
    PresentSafe
    HostAgrees
PROPERTY
    EglApiHolds
CHECK_DEADLOCK FALSE
