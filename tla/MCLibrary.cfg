SPECIFICATION Spec
CONSTANTS
    Tasks <- MCTasks
    MaxDepth = 2
    Unsuited = 99
    ChunkLimit = 6
    UbinVersion = 2
    ApiVersion = 1
    NotFound = NotFound
    Conflict = Conflict
    Builtins <- MCBuiltins
    ValidNames <- MCValidNames
    Normal <- MCNormal
    Order <- MCOrder
CHECK_DEADLOCK FALSE
INVARIANTS
    OrdersRight
    MergeStable
    LookupsRight
    ProtocolCanonical
    LayoutReversible
    CarrierRestores
    RegistryConsistent
