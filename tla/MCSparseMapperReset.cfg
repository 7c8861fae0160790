\* Fusion after a reset.
SPECIFICATION MapperSpec
CONSTANTS
    Coord <- MCCoord
    Home <- MCHome
    MaxBlocks = 2
    HashCapacity = 3
    InitialCapacity = 1
    MaxWeight = 1
    MaxFailures = 1
    VisibleCapacities = {1}
    ImportSizes = {1}
    LidarCapacity = 2
    Decaying = TRUE
    Resets = TRUE
    BadInputs = FALSE
PROPERTIES
    FusionAddsNoStatic
