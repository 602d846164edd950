SPECIFICATION FairSpec
CONSTANTS
    None = None
    Hole = 0
    Clients = {c1}
    Contents <- OneVersion
    FrameSize = 2
    HashBlock = 2
    Overwrite = FALSE
    Concurrent = FALSE
    ShortWrites = FALSE
    MaxAttempts = 4
    MaxFaults = 3
    MaxEdits = 0
CHECK_DEADLOCK FALSE
PROPERTIES
    AttemptEnds
    Delivered
