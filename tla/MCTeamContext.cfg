SPECIFICATION FairSpec
CONSTANTS
    Names <- TwoNames
    Contents = {v}
    Own = Own
    None = None
    MaxFiles = 1
    Events = {"fetch", "kill", "disk", "end", "restart", "user", "push"}
    MaxEvents = 3
INVARIANT TypeOK
PROPERTY UsersFilesKept
PROPERTY OwnedFollows
