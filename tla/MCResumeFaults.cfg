SPECIFICATION Spec
CONSTANTS
    None = None
    Hole = 0
    Clients = {c1}
    Contents <- Boundaries
    FrameSize = 2
    HashBlock = 2
    Overwrite = TRUE
    Concurrent = FALSE
    ShortWrites = FALSE
    MaxAttempts = 3
    MaxFaults = 2
    MaxEdits = 2
CHECK_DEADLOCK FALSE
INVARIANTS
    TypeOK
    PublishedVerified
    CheckpointDurable
    ResumableUntilFinished
    ProgressHasOwner
PROPERTIES
    ReceiptMeansPublished
    ImplementsAbstract
