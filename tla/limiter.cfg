SPECIFICATION Spec
CONSTANTS
    Messages = {m1, m2, m3, m4}
    Keys = {k1, k2}
    Limit = 2
    Window = 2
    WorkerCount = 2
    MaxTime = 4
SYMMETRY Perms
INVARIANTS
    TypeOK
    RecentKept
    WindowLimit
    FloodHasPredecessor
    FloodJustifiedBeforeSweep
CHECK_DEADLOCK FALSE
