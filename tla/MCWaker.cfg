CONSTANTS
    Legs = {a, b}
    User = u
    a = a
    b = b
    u = u
    none = none
    never = never
    Period = 8
    Pad = 2
    MinLead = 1
    MaxLead = 6
    DefaultLead = 2
    Grace = 4
    Legacy = 5
    LeaseTTL = 1
    StartGrace = 2
    RestoreTicks = {0, 2}
    DwellTicks = 1
    Budget = 2
    MaxRelays = 1
    CommitTicks = {0, 2}
    Faults = {"user", "start", "invoke", "reclaim", "commit", "schedule", "stop", "restore", "cap", "read", "legacy", "late", "probe", "crons"}
    MaxFaults = 1
    Horizon = 10
    None = none
    Never = never
SPECIFICATION FairSpec
INVARIANT NoOccurrenceDropped
PROPERTY RepeatsOnlyByRace
PROPERTY WorkNotCutOff
PROPERTY ScheduleResumes
