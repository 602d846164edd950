SPECIFICATION Spec
CONSTANTS
    None = None
    Foreign = Foreign
    Clients = {c1}
    Locals = {w1}
    Writers = {c1, w1}
    ShortWrites = TRUE
    Contents <- TwoSources
    Payloads <- TwoBytes
    FrameSize = 2
    MaxFaults = 2
    MaxEdits = 1
CHECK_DEADLOCK FALSE
INVARIANT
    PublishedFileVerified
