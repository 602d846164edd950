\* Every graph over four names, one of which may stay unknown.
SPECIFICATION FairSpec
CONSTANTS
    Names = {1, 2, 3, 4}
    MaxWorkers = 2
INVARIANTS
    TypeOK
    NothingOutlivesRun
    VerdictIsFirst
    RefusalIsRight
PROPERTIES
    DependenciesFirst
    RunEnds
CHECK_DEADLOCK FALSE
