SPECIFICATION Spec
CONSTANTS
    None = None
    Hole = 0
    Clients = {c1, c2}
    Contents <- OneFrame
    FrameSize = 2
    HashBlock = 2
    Overwrite = FALSE
    Concurrent = FALSE
    ShortWrites = TRUE
    MaxAttempts = 3
    MaxFaults = 2
    MaxEdits = 0
CHECK_DEADLOCK FALSE
INVARIANT SequentialInv
PROPERTY DestinationKept
