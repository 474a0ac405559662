SPECIFICATION Spec
CONSTANTS
    Users = {u1}
    Joins = {j1, j2}
    Presses = {p1}
    None = None
    MaxFailures = 0
    MaxRestarts = 0
SYMMETRY Perms
INVARIANT EndedByOwnTimer
CHECK_DEADLOCK FALSE
