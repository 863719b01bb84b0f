SPECIFICATION FairSpec
CONSTANTS
    f1 = f1
    f2 = f2
    t1 = t1
    t2 = t2
    None = None
    Ended = Ended
    Files = {f1, f2}
    StagedFiles = {f1}
    Threads = {t1}
    RacyWindow = 0
    MaxWrites = 2
    MaxGen = 5
    MaxTime = 2
    MaxFaults = 2
    Faults = {"request", "answer", "death", "vanish"}
    Callers = {"periodic"}
INVARIANT CommitsAtomic
PROPERTY WorkGetsSaved
CHECK_DEADLOCK FALSE
