SPECIFICATION FairSpec
CONSTANTS
    d1 = d1
    d2 = d2
    Devs = {d1}
    Names = {n1, n2}
    NoName = NoName
    NoDevice = NoDevice
    Procs = {p1}
    Exclusive = TRUE
    MaxCalls = 1
    MaxReports = 1
    MaxChanges = 1
    MaxInterviews = 1
    MaxOutages = 1
    MaxRestarts = 1
PROPERTIES NoEcho Converges
CHECK_DEADLOCK FALSE
