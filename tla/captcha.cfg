SPECIFICATION GSpec
CONSTANTS
    Users = {u1}
    Joins = {j1, j2}
    Presses = {p1, p2}
    Messages = {m1}
    None = None
    MaxFailures = 2
    MaxRestarts = 1
INVARIANTS
    OneOutcome
    OpenHasTimer
    NoOrphanMute
    KickIsNoBan
    HeardWhenSettled
PROPERTIES
    NewcomerDecided
    GatekeepingKept
CHECK_DEADLOCK FALSE
