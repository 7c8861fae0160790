\* A LiDAR frame that sees too many blocks.
SPECIFICATION MapperSpec
CONSTANTS
    Coord <- MCCoord
    Home <- MCHome
    MaxBlocks = 2
    HashCapacity = 3
    InitialCapacity = 1
    MaxWeight = 1
    MaxFailures = 1
    VisibleCapacities = {1}
    ImportSizes = {1}
    LidarCapacity = 1
    Decaying = FALSE
    Resets = FALSE
    BadInputs = FALSE
INVARIANTS
    EsdfFresh
