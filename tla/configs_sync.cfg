SPECIFICATION FairSpec
CONSTANTS
    Keys = {k1, k2}
    Versions = {v1}
    NoFile = NoFile
    Broken = Broken
    NoDoc = NoDoc
    NotCached = NotCached
    Syncs = {s1}
    Boot = Boot
    Readers = {r1}
    PromptReplies = TRUE
    MaxEdits = 2
    MaxFailures = 1
    MaxCrashes = 1
INVARIANTS TypeOK DiskReflected CacheFresh
PROPERTY EditsReachStore
CHECK_DEADLOCK FALSE
