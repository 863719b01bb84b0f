SPECIFICATION Spec
CONSTANTS
    Sessions = {s1, s2, s3}
    Instances = {a, b}
    Requests = {p}
    None = None
    LeaseTTL = 1
    InitTTL = 1
    TakeoverIdle = 1
    StartGrace = 2
    OnTime = FALSE
SYMMETRY Symmetry
INVARIANTS TypeOK LeaseFollowsSession ReadyFollowsRestore RestoringHasOneOwner StartingIsUnclaimed PutClobbersNothing
PROPERTIES ProvisioningNotRotated OnceFencedAlwaysFenced
