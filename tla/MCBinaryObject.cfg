SPECIFICATION Spec
CONSTANTS
    None = None
    Threads = {t1, t2}
    Backends <- AllBackends
    Contents <- TwoVersions
    Foreign <- OtherFile
    Offsets = {0, 3}
    Lengths = {2}
    MaxCalls = 3
    MaxEdits = 1
CHECK_DEADLOCK FALSE
INVARIANTS
    ReadsOwnBytes
    CursorKept
    StreamWhole
PROPERTY
    CallsEnd
