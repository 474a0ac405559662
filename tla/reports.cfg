SPECIFICATION Spec
CONSTANTS
    Users = {u1, u2, u3}
    Messages = {m1, m2}
    Threshold = 2
    TTL = 1
    NoRecord = NoRecord
    MaxTime = 2
    MaxReports = 4
SYMMETRY Perms
INVARIANTS
    LiveBelowThreshold
    BansPaidByReports
PROPERTY OnlyExpiredSwept
CHECK_DEADLOCK FALSE
