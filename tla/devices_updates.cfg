SPECIFICATION Spec
CONSTANTS
    a = a
    b = b
    m = m
    v1 = v1
    v2 = v2
    Ids = {d1}
    Controls = {a, b}
    Measurements = {m}
    Values = {v1, v2}
    Bad = Bad
    Null = Null
    Absent = Absent
    NoDevice = NoDevice
    CKeys = {k1, k2}
    NoKey = NoKey
    Configs <- SomeConfigs
    NoConfig = NoConfig
    Undeclared = Undeclared
    Procs = {p1, p2}
    NoRequest = NoRequest
    Exclusive = TRUE
    MaxSends = 1
    MaxCalls = 3
INVARIANTS TypeOK DeviceAgrees Conforms
PROPERTY UpdatesAtomic
SYMMETRY Symmetry
CHECK_DEADLOCK FALSE
