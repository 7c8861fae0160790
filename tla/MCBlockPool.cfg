\* The whole pool, checkpoints included.
SPECIFICATION Spec
CONSTANTS
    Coord <- MCCoord
    Home <- MCHome
    MaxBlocks = 2
    HashCapacity = 3
    InitialCapacity = 1
    MaxWeight = 1
    MaxFailures = 1
    VisibleCapacities = {1, 2}
    ImportSizes = {0, 2}
INVARIANTS
    TypeOK
    MapsAgree
    PoolPartition
    FreeMirror
    VacantBlank
    ProbeReachable
    LoopTargetsLive
PROPERTIES
    StableHandles
    ImplementsMap
