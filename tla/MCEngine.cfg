SPECIFICATION Spec
CONSTANTS
    f1 = f1
    f2 = f2
    t1 = t1
    t2 = t2
    None = None
    Ended = Ended
    Files = {f1, f2}
    StagedFiles = {f1}
    Threads = {t1, t2}
    RacyWindow = 0
    MaxWrites = 2
    MaxGen = 2
    MaxTime = 1
    MaxFaults = 1
    Faults = {"request", "death", "shutdown", "vanish"}
    Callers = {"periodic", "durability", "stop", "shutdown"}
SYMMETRY Symmetry
VIEW WithoutTorn
INVARIANT TypeOK
INVARIANT CommitsRestorable
INVARIANT SkipMeansSaved
INVARIANT FrozenMeansSaved
CHECK_DEADLOCK FALSE
