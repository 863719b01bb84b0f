SPECIFICATION FairSpec
CONSTANTS
    Sessions = {s1, s2}
    Instances = {a, b}
    Requests = {p}
    None = None
    LeaseTTL = 2
    InitTTL = 1
    TakeoverIdle = 1
    StartGrace = 1
    OnTime = TRUE
PROPERTIES NeverSelfLocks LiveLeasesProtect
