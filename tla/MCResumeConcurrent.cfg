SPECIFICATION Spec
CONSTANTS
    None = None
    Hole = 0
    Clients = {c1}
    Contents <- OneVersion
    FrameSize = 2
    HashBlock = 2
    Overwrite = FALSE
    Concurrent = TRUE
    ShortWrites = FALSE
    MaxAttempts = 2
    MaxFaults = 1
    MaxEdits = 0
CHECK_DEADLOCK FALSE
INVARIANT PublishedVerified
