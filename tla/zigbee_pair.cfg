SPECIFICATION Spec
CONSTANTS
    d1 = d1
    d2 = d2
    Devs = {d1, d2}
    Names = {n1, n2, n3}
    NoName = NoName
    NoDevice = NoDevice
    Procs = {p1}
    Exclusive = TRUE
    MaxCalls = 1
    MaxReports = 0
    MaxChanges = 2
    MaxInterviews = 1
    MaxOutages = 0
    MaxRestarts = 1
SYMMETRY Symmetry
INVARIANTS TypeOK Synced
CHECK_DEADLOCK FALSE
