SPECIFICATION Spec
CONSTANTS
    None = None
    Clients = {c1}
    Contents <- TwoVersions
    FrameSize = 2
    TagSize = 1
    BlockSize = 1
    RoundTable <- MixedRounds
    Main = main
    Others = {other}
    Overwrite = FALSE
    InterruptAfter = 2
    MaxAttempts = 2
    MaxFaults = 2
    MaxEdits = 1
    MaxSecrets = 2
CHECK_DEADLOCK FALSE
INVARIANT
    StateSurvivesRestart
